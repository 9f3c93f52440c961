CONSTANTS
  t1 = t1
  t2 = t2
  t3 = t3
  t4 = t4
  k = k
  d1 = d1
  NoStopper = NoStopper
  Task = {t1, t2, t3}
  Keyed = {t3}
  KeyOf <- OneKey
  Hash <- OddHash
  Starts = 2
  N = 1
  QueueSize = 1
  Faulty = {t1}
  Stopper = {d1}
  Cancellable = {t1, t2}
  Arrivals <- TwoArrivals
  MsgKey <- OneMsgKey
  Buffer = 1
SPECIFICATION FairRouteSpec
INVARIANTS
  RouteOrder
PROPERTIES
  InTimeRuns
  CallsReturn
  DispatcherLeaves
CHECK_DEADLOCK FALSE
