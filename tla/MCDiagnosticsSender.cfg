SPECIFICATION Spec
CONSTANTS
  inner = inner
  outer = outer
  Senders = {inner, outer}
  Threads = {t1, t2}
  NoThread = none
  Listener = listener
  NoSender = nobody
  Outer <- ChainedSenders
  Levels = {0, 1}
  LevelMax = 2
  MaxSubscriptions <- TwoInOne
  MaxMessages = 2
SYMMETRY AnyThread
CHECK_DEADLOCK FALSE
INVARIANTS
  MinLevelIsLeast
  MissedOnlyWhileRecomputing
  IteratorsStayValid
  SameOrder
  NoCircularWait
