CONSTANTS
  t1 = t1
  t2 = t2
  t3 = t3
  k = k
  d1 = d1
  d2 = d2
  NoStopper = NoStopper
  Task = {t1, t2, t3}
  Keyed = {t1, t2}
  KeyOf <- OneKey
  Hash <- OddHash
  N = 2
  Starts = 2
  QueueSize = 1
  Faulty = {t1}
  Stopper = {d1, d2}
  Cancellable = {t2, d1}
SPECIFICATION Spec
INVARIANTS
  TypeOK
  KeyOrder
  CountersBalance
  InTimeIsDone
PROPERTIES
  QuietOnceDrained
CHECK_DEADLOCK FALSE
