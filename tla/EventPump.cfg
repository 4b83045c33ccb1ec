SPECIFICATION Spec
CONSTANTS
  wait1 = wait1
  wait2 = wait2
  Android = {tx}
  Glu = {glu}
  Downloads = {}
  SaveDelta = {}
  Timers = {wait1, wait2}
  Prompts = {prompt}
  Unregistered = {"onShowConsentComplete"}
  MayRunOut = {tx, glu}
  Delay <- MCDelay
  StartupWaits = {wait1, wait2}
  NoOne = noOne
  MaxQueue = 2
  MaxTimers = 2
  MaxRequests = 1
  MaxTime = 2
INVARIANTS
  TimersSound
  ScriptOrder
  PayloadsOwned
