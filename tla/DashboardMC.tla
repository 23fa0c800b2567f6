---------------------------- MODULE DashboardMC -----------------------------
(* One trace that two services have spans of, another of one service; any  *)
(* may be the newer.                                                       *)
EXTENDS Dashboard, TLC

SharedTraces == << [id |-> 1, service |-> 2], [id |-> 2, service |-> 1],
                   [id |-> 1, service |-> 1] >>
AnyOrder == {[i \in 1 .. 3 |-> SharedTraces[p[i]]] : p \in Permutations(1 .. 3)}
TwoMetrics == << [service |-> 1, key |-> 1], [service |-> 2, key |-> 1] >>
SecondOnly == {{TwoMetrics[2]}}
=============================================================================
