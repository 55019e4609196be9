\* One thread logs and flushes, one manages: the Sentry client is replaced, the console kept.
CONSTANTS
  t1 = t1  t2 = t2
  c1 = c1  c2 = c2  s1 = s1  s2 = s2
  k1 = k1  k2 = k2
  Threads = {t1, t2}
  Resources = {c1, s1, s2}
  SlotOf <- MCSlotOf
  Keys = {k1, k2}
  NoKey = NoKey
  None = None
  Free = Free
  FlushJob = FlushJob
  Does <- LogAndManage
  Goals <- SwitchSentry
SPECIFICATION Spec
SYMMETRY Alike
INVARIANTS
  PublishedUsable
  NoneForgotten
  RuntimeInv
PROPERTIES
  ImplementsLifecycle
