SPECIFICATION FairSpec
CONSTANTS
  Threads = {t1, t2}
  Objs = {o1, o2}
  Zero = zero
  RecSentinel = recSentinel
  ErrSentinel = errSentinel
  DirectTag = directTag
  MaxDepth = 2
PROPERTIES
  Refines
  ResolutionEnds
