SPECIFICATION Spec
CONSTANTS
  pcpid = pcpid
  age = age
  ageUp = ageUp
  userId = userId
  token = token
  PropKeys <- MCPropKeys
  StringKeys <- MCStringKeys
  NimbleKeys <- MCNimbleKeys
  IdKeys <- MCIdKeys
  Pcpid = pcpid
  Age = age
  AgeUp = ageUp
  Absent = absent
  Legacy = legacy
  FalseText = false
  Values = {legacy, false}
  TooLong = {}
  Huge = {}
  NoFile = noFile
  Torn = torn
  FaultSteps = {}
  MaxSets = 2
  MaxCrashes = 1
  MaxFaults = 0
PROPERTY
  CommittedSurvives
