SPECIFICATION FairSpec
CONSTANTS
  MaxEvents = 4
  InCap = 1
  SendCap = 1
  WireCap = 1
  Unsendable = {2}
  Big = {1, 3}
  MaxFaults = 1
  MaxBackoff = 2
INVARIANT LostOnlyIfRefusedOrUnsendable
PROPERTIES ImplementsLossyLink Reconnects StopEnds
CHECK_DEADLOCK FALSE
