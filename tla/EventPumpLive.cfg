SPECIFICATION FairSpec
CONSTANTS
  wait1 = wait1
  wait2 = wait2
  Android = {tx}
  Glu = {}
  Downloads = {file}
  SaveDelta = {}
  Timers = {wait1, wait2}
  Prompts = {}
  Unregistered = {}
  MayRunOut = {tx, file}
  Delay <- MCDelay
  StartupWaits = {wait1}
  NoOne = noOne
  MaxQueue = 2
  MaxTimers = 1
  MaxRequests = 2
  MaxTime = 1
PROPERTIES
  Served
