CONSTANTS
  t1 = t1
  t2 = t2
  t3 = t3
  k = k
  d1 = d1
  d2 = d2
  NoStopper = NoStopper
  Task = {t1, t2, t3}
  Keyed = {t1, t2}
  KeyOf <- OneKey
  Hash <- OddHash
  N = 2
  Starts = 1
  QueueSize = 1
  Faulty = {t1}
  Stopper = {d1}
  Cancellable = {}
SPECIFICATION Spec
INVARIANTS
  DrainedMeansAllRun
CHECK_DEADLOCK FALSE
