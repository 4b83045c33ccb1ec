SPECIFICATION Spec
CONSTANTS
  NoFile = noFile
  Hollow = hollow
  Torn = torn
  FaultSteps = {"copy"}
  MaxSaves = 2
  MaxCrashes = 1
INVARIANT
  PreservedFromStart
