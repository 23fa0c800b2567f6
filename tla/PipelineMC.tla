----------------------------- MODULE PipelineMC -----------------------------
(* A busy source and a quiet one, and two subscribers of the bus. *)
EXTENDS Pipeline

CONSTANTS busy, quiet

Quotas == [s \in Sources |-> IF s = busy THEN 3 ELSE 1]

EventSet == UNION {{s} \X (1 .. Quotas[s]) : s \in Sources}
=============================================================================
