SPECIFICATION FrameSpec
CONSTANTS
  Parts = {"audio", "lifecycle", "synergy", "title"}
  Uids = {u1, u2}
  NoId = none
  BroadcastRoom = 5
  MaxBoots = 2
  Nobody = nobody
PROPERTIES
  
  
  
  TitleSound
CHECK_DEADLOCK FALSE
