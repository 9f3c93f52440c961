CONSTANTS
  a = a
  b = b
  p1 = p1
  p2 = p2
  p3 = p3
  p4 = p4
  Stream = {a, b}
  NoStream = NoStream
  Pool = {p1, p2, p3}
  Striped = {p3}
  Crew <- Crews
  Load <- Loads
  Counts = 256
  Binding <- Binds
  Rebound = {a}
  First <- TwoStreams
  Default <- DefaultOn
  Per <- SlowAOffB
  DefaultCooldown = 1
  MaxAge = 2
  DefaultParams <- Defaults
  NoParams = NoParams
SPECIFICATION Spec
INVARIANTS
  TypeOK
  PlanBounded
  PressedIsServed
  InSync
PROPERTIES
  FloorKept
  CooldownKept
  StripedOnlyLoses
  DisabledStaysPut
CHECK_DEADLOCK FALSE
