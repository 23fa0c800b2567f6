SPECIFICATION Spec
CONSTANTS
  Spans <- SpanSet
  MaxAdds = 4
INVARIANT NoConcurrentMapAccess
CHECK_DEADLOCK FALSE
