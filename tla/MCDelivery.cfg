\* Two emitters, a flusher; the provider is replaced, shut down, slow and unreliable.
CONSTANTS
  p1 = p1  p2 = p2  f1 = f1  f2 = f2  e1 = e1  e2 = e2  e3 = e3
  Emitters = {p1, p2}
  Flushers = {f1}
  Events = {e1, e2, e3}
  Capacity = 1
  FlushJob = FlushJob
  Happens = {"failure", "timeout", "replace", "shutdown"}
SPECIFICATION Spec
SYMMETRY Alike
INVARIANTS
  CloseLosesNothing
PROPERTIES
  OwnTrueMeansSent
  OwnFalseHasReason
  LivesAsPromised
