\* Two threads that reconfigure, a host that edits its environment.
CONSTANTS
  t1 = t1  t2 = t2
  Threads = {t1, t2}
  Segments = {"a", "b", "c", "x"}
  Names <- MCNames
  Levels = {0, 10, 30}
  Omitted = Omitted
  Reset = Reset
  Bad = Bad
  Unread = Unread
  NoConfig = NoConfig
  Nobody = Nobody
  Environs <- MCEnvirons
  Requests <- MCRequests
SPECIFICATION Spec
SYMMETRY Alike
CHECK_DEADLOCK TRUE
INVARIANTS
  TypeOk
  InForce
  NearestRuleDecides
PROPERTIES
  NamedOnly
