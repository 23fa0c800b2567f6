SPECIFICATION Spec
CONSTANTS
  Values <- Times
  Zero <- NoTime
  Capacity = 2
  RateWindow = 1
  AliveWindow = 2
  MaxTime = 3
  MaxEvents = 4
  Skew = 1
INVARIANTS LastSeenCoversRings QuietReadIsExact
PROPERTY ImplementsWindow
