SPECIFICATION FairSpec
CONSTANTS
  pcpid = pcpid
  age = age
  ageUp = ageUp
  userId = userId
  token = token
  PropKeys <- MCPropKeys
  StringKeys <- MCStringKeys
  NimbleKeys <- MCNimbleKeys
  IdKeys <- MCIdKeys
  Pcpid = pcpid
  Age = age
  AgeUp = ageUp
  Absent = absent
  Legacy = legacy
  FalseText = false
  Values = {legacy, false, huge}
  TooLong = {huge}
  Huge = {huge}
  NoFile = noFile
  Torn = torn
  FaultSteps = {"open", "write", "rename", "remove", "unlink", "load"}
  MaxSets = 2
  MaxCrashes = 1
  MaxFaults = 1
INVARIANTS
  StoreSound
PROPERTIES
  OnlyCopyKept
  
  SavesHappen
