\* A provider that is replaced while it is slow.
CONSTANTS
  p1 = p1  p2 = p2  f1 = f1  f2 = f2  e1 = e1  e2 = e2  e3 = e3
  Emitters = {p1}
  Flushers = {f1}
  Events = {e1}
  Capacity = 2
  FlushJob = FlushJob
  Happens = {"replace"}
SPECIFICATION Spec
PROPERTIES
  QuietFlushSucceeds
