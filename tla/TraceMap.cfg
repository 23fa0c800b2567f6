SPECIFICATION Spec
CONSTANTS
  Spans <- SpanSet
  MaxAdds = 5
INVARIANTS DurationIsOrderFree SpansAreKept RootedListIsSorted
CHECK_DEADLOCK FALSE
