\* Two threads that make every call from the top; the console goes and comes.
CONSTANTS
  t1 = t1  t2 = t2
  c1 = c1  c2 = c2  s1 = s1  s2 = s2
  k1 = k1  k2 = k2
  Threads = {t1, t2}
  Resources = {c1, c2}
  SlotOf <- MCSlotOf
  Keys = {k1}
  NoKey = NoKey
  None = None
  Free = Free
  FlushJob = FlushJob
  Does <- FlatCalls
  Goals <- SwitchConsole
SPECIFICATION Spec
SYMMETRY AllAlike
INVARIANTS
  UsersCount
  NoCloseUnderUse
  TrueMeansClosed
  OnlyConfigureRestarts
PROPERTIES
  StoppedTakesNothing
  NeverReclose
  NoneUnattended
