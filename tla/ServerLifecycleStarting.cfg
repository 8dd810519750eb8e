\* A write may fail before New has opened the second listener.
SPECIFICATION Spec
CONSTANTS
  l1 = l1
  l2 = l2
  c1 = c1
  Worker = Worker
  Listeners = {l1, l2}
  Connections = {c1}
  MaxFailures = 1
  FailWhileOpening = TRUE
PROPERTY
  FatalEndsServer
CHECK_DEADLOCK FALSE
