CONSTANTS
  t1 = t1
  t2 = t2
  t3 = t3
  nil = nil
  w1 = w1
  w2 = w2
  d1 = d1
  d2 = d2
  Task = {t1, t2, t3, nil}
  NilTask = {nil}
  NoTask = NoTask
  Worker = {w1, w2}
  Queue = 2
  Stopper = {d1, d2}
  Cancellable = {t1, d1}
SPECIFICATION FairSpec
INVARIANTS
  TypeOK
  RunOnlyIfAccepted
  DrainedMeansAllRun
PROPERTIES
  Implements
  ActsAsQueue
  AcceptedRuns
  CallsReturn
CHECK_DEADLOCK FALSE
