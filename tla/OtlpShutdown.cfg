SPECIFICATION ReceiverFairSpec
CONSTANTS
  GrpcCalls = {g1}
  HttpCalls = {}
  MaxEvents = 1
  GrpcAddr = TRUE
  HttpAddr = FALSE
PROPERTY StopReturns
CHECK_DEADLOCK FALSE
