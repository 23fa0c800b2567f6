---------------------------- MODULE AlertEngineMC ---------------------------
(***************************************************************************)
(* Rules and services for the run on the alert engine.                     *)
(***************************************************************************)
EXTENDS AlertEngine

CONSTANTS r1, r2, m1, bell, webhook

OneService == << "svc" >>

(* A last-value rule that has to hold for two ticks, and a percentile rule *)
(* that fires at once.                                                     *)
TwoRules ==
    << [name |-> r1, metric |-> m1, pct |-> 0, op |-> ">", threshold |-> 1,
        for |-> 2, notify |-> {bell, webhook}],
       [name |-> r2, metric |-> m1, pct |-> 99, op |-> ">=", threshold |-> 2,
        for |-> 0, notify |-> {}] >>
=============================================================================
