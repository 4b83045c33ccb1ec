SPECIFICATION Spec
CONSTANTS
  NoFile = noFile
  Hollow = hollow
  Torn = torn
  FaultSteps = {"rename", "remove", "recover", "copy"}
  MaxSaves = 3
  MaxCrashes = 2
INVARIANTS
  ListSound
  PreservedUnlessCopyFails
PROPERTY
  NoRollback
