\* Two walletshields and a prober, and two plugins; the first wallet and the
\* first plugin were built with compression, the others without it, and the
\* first wallet's request is a GET.  A request may be as long as one byte more
\* than a message takes, an answer as long as the limit.
SPECIFICATION Spec
CONSTANTS
  None = None
  r1 = r1
  r2 = r2
  p1 = p1
  p2 = p2
  Requests = {r1, r2}
  TestProbeCount = 1
  Plugins = {p1, p2}
  Compressing = {p1, r1}
  Replayable = {r1}
  MaxResends = 1
  Sizes = {29980, 29990}
  UserForwardPayloadLength = 30000
INVARIANTS
  TypeOK
  AnswerOwn
  SurbUsedOnce
  ReplyFits
PROPERTIES
  
  CommandsAnswered
CHECK_DEADLOCK FALSE
