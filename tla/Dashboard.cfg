SPECIFICATION Spec
CONSTANTS
  NumServices = 2
  Default = 1
  TraceOrders <- AnyOrder
  MetricOrder <- TwoMetrics
  Filters <- SecondOnly
  TraceLimit = 2
  MaxMessages = 2
INVARIANTS PanelsAgree
PROPERTIES SelectionSurvives
CHECK_DEADLOCK FALSE
