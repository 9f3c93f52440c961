CONSTANTS
  s1 = s1
  s2 = s2
  p1 = p1
  p2 = p2
  p3 = p3
  c1 = c1
  c2 = c2
  Source = {s1, s2}
  Pool = {p1, p2}
  Setting = {}
  Slot <- Slots
  Initially = {s1, p1, p2, Router}
  Later = {s2}
  Routes <- FewRoutes
  Msgs <- FewMsgs
  Buffer = 1
  Queue = 1
  Size <- Sizes
  NoPool = NoPool
  Stuck = {}
  Callback <- FirstMsg
  Stopper = {c1}
  Deadline = {c1}
  Router = Router
SPECIFICATION Spec
INVARIANTS
  TypeOK
  HandlerOrder
  NothingForgotten
  PoolsCloseLast
  LockWaits
PROPERTIES
  PoolsAreQueues
CHECK_DEADLOCK FALSE
