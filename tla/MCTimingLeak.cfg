CONSTANTS
  main = main  task = task  other = other  work = work
  Contexts = {main, task}
  First = main
  Scopes = {work}
  MaxHandles = 4
SPECIFICATION Spec
PROPERTIES
  ContextExitStops
