----------------------------- MODULE SourcesMC ------------------------------
(* Small sources for Sources.tla. *)
EXTENDS Sources

MCFamilies == { [name |-> "up", type |-> "gauge"], [name |-> "latency", type |-> "summary"] }
Line(colon, number, type) == [colon |-> colon, number |-> number, type |-> type]
MCDatagrams ==
    << << Line(TRUE, TRUE, "c"), Line(TRUE, FALSE, "g"), Line(TRUE, TRUE, "ms") >>,
       << Line(FALSE, FALSE, ""), Line(TRUE, TRUE, "s"), Line(TRUE, TRUE, "x") >> >>
=============================================================================
