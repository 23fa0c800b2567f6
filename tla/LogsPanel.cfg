SPECIFICATION LogsPanelFairSpec
CONSTANTS
  Services = {a, b}
  AllServices = all
  LogCap = 2
  MaxTime = 3
  PanelHeights = {3, 4}
INVARIANTS AutoIsAtBottom
PROPERTIES PausedByScrollingUp TailIsFollowed
