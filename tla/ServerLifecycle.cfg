SPECIFICATION Spec
CONSTANTS
  l1 = l1
  l2 = l2
  c1 = c1
  c2 = c2
  c3 = c3
  Worker = Worker
  Listeners = {l1, l2}
  Connections = {c1, c2, c3}
  MaxFailures = 1
  FailWhileOpening = FALSE
INVARIANTS
  TypeOK
  NoWriteAfterClose
  GracefulHalt
PROPERTIES
  ShutdownCompletes
  FatalEndsServer
CHECK_DEADLOCK FALSE
