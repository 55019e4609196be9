\* The root, a logger with rules, and a host that changes everything.
CONSTANTS
  a = a h1 = h1  h2 = h2
  Root = Root
  Names = {a}
  Levels = {0, 1, 30}
  RuleLevels = {0, 10}
  Omitted = Omitted
  NoGate = NoGate
  Unknown = Unknown
  Foreign = {h1, h2}
  Owned = Owned
  t1 = t1
  Emitters = {t1}
SPECIFICATION DispatchSpec
ACTION_CONSTRAINT RecordsApart
SYMMETRY MCForeign
INVARIANTS
  TypeOk
  GatesMatch
  HostLevelKept
  HandlersKept
  ListMatches
  UndisturbedReachAll
  CapturedOnce
PROPERTIES
  LateHandlersStay
  HostChangeRespected
