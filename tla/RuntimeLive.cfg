CONSTANTS
  s1 = s1
  s2 = s2
  p1 = p1
  p2 = p2
  p3 = p3
  c1 = c1
  c2 = c2
  Source = {s1}
  Pool = {p1, p3}
  Slot <- Slots
  Initially = {s1, p1, Router}
  Later = {p3}
  Routes <- FillRoutes
  Msgs <- FillMsgs
  Buffer = 1
  Queue = 0
  Size <- Sizes
  NoPool = NoPool
  Stuck <- FirstMsg
  Callback <- SecondMsg
  Stopper = {c1}
  Deadline = {c1}
  Router = Router
  Setting = {}
SPECIFICATION FairSpec
INVARIANTS
  StopQuiesces
PROPERTIES
  Delivers
  StopComesBack
  SourcesNeverWait
  WritersGetIn
CHECK_DEADLOCK FALSE
