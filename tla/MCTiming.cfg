CONSTANTS
  main = main  task = task  other = other  work = work
  Contexts = {main, task, other}
  First = main
  Scopes = {work}
  MaxHandles = 4
SPECIFICATION Spec
SYMMETRY Alike
INVARIANTS
  StackIsRunning
  CanUnwind
PROPERTIES
  ExitStopsOwn
