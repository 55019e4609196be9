\* Two flushers and one emitter; nothing fails.
CONSTANTS
  p1 = p1  p2 = p2  f1 = f1  f2 = f2  e1 = e1  e2 = e2  e3 = e3
  Emitters = {p1}
  Flushers = {f1, f2}
  Events = {e1, e2}
  Capacity = 2
  FlushJob = FlushJob
  Happens = {}
SPECIFICATION Spec
PROPERTIES
  TrueMeansDrained
