\* Callers, deadlines and cleanup threads run; providers and transitions may hang.
CONSTANTS
  t1 = t1  t2 = t2
  c1 = c1  c2 = c2  s1 = s1  s2 = s2
  k1 = k1  k2 = k2
  Threads = {t1, t2}
  Resources = {c1}
  SlotOf <- MCSlotOf
  Keys = {k1}
  NoKey = NoKey
  None = None
  Free = Free
  FlushJob = FlushJob
  Does <- NestedCalls
  Goals <- SwitchConsole
SPECIFICATION FairSpec
PROPERTIES
  BoundedCalls
  CleanupRuns
  RetryCloses
