----------------------------- MODULE TraceMapMC -----------------------------
EXTENDS TraceMap

(* Trace 1 starts first and has a child that outlives its root and a       *)
(* grandchild; traces 2 and 4 are a root each; trace 3 never gets a root,  *)
(* and two parents of its spans are missing.                               *)
Span(t, p, a, b) == [trace |-> t, parent |-> p, start |-> a, end |-> b]
SpanSet == { Span(1, 0, 1, 3), Span(1, 11, 2, 6), Span(1, 12, 3, 4), Span(1, 11, 1, 2),
             Span(2, 0, 4, 6), Span(4, 0, 2, 3),
             Span(3, 31, 0, 1), Span(3, 32, 5, 7) }
=============================================================================
