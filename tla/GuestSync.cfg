SPECIFICATION FairSpec
CONSTANTS
  Parts = {"futex", "once", "rwlock", "keys"}
  Threads = {t1, t2, t3}
  Addrs = {a1, a2}
  Hash <- MCHash
  FutexVals = {0, 1}
  Controls = {c1, c2}
  Objs = {o1, o2, o3}
  NumKeys = 1
  NumSlots = 2
  KeyVals = {v}
  Null = null
INVARIANTS
  GuestSound
  OnceBeforeUse
  RwLockSound
  KeysPrivate
PROPERTIES
  GuestWakes
CHECK_DEADLOCK FALSE
