SPECIFICATION ReceiverFairSpec
CONSTANTS
  GrpcCalls = {g1, g2}
  HttpCalls = {h1}
  MaxEvents = 2
  GrpcAddr = TRUE
  HttpAddr = TRUE
INVARIANTS ClosedAtMostOnce StoppedIsQuiet
PROPERTY StopReturnsUnlessInCall
CHECK_DEADLOCK FALSE
