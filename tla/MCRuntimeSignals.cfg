CONSTANTS
  t1 = t1
  c1 = c1
  k1 = k1
  Threads = {t1, t2}
  Resources = {c1}
  SlotOf <- MCSlotOf
  Keys = {k1}
  NoKey = NoKey
  None = None
  Free = Free
  FlushJob = FlushJob
  Does <- Handles
  Goals <- Console
SPECIFICATION SpecWithSignals
INVARIANTS
  NoCloseUnderUse
