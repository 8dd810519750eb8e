SPECIFICATION Spec
CONSTANTS
  l1 = l1
  c1 = c1
  c2 = c2
  Worker = Worker
  Listeners = {l1}
  Connections = {c1, c2}
  MaxFailures = 2
  FailWhileOpening = FALSE
PROPERTY
  ShutdownCompletes
CHECK_DEADLOCK FALSE
