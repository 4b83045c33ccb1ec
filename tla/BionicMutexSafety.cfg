SPECIFICATION Spec
CONSTANTS
  Threads = {t1, t2, t3}
  Objs = {o1, o2}
  Zero = zero
  RecSentinel = recSentinel
  ErrSentinel = errSentinel
  DirectTag = directTag
  MaxDepth = 2
SYMMETRY Symmetry
INVARIANTS
  ClientView
  ObjectSound
  ErrorsHonest
  DepthAgrees
