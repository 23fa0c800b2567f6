----------------------------- MODULE LossyLink ------------------------------
(***************************************************************************)
(* What the remote link promises a dashboard: of the events the agent      *)
(* offers, some arrive, each once and in the order they were offered,      *)
(* however often the connection is lost and made anew.  Module RemoteLink  *)
(* implements it.  Events are numbered as they are offered.                *)
(***************************************************************************)
EXTENDS Naturals, Sequences

VARIABLES offered,     \* how many events were offered
          delivered    \* the events that arrived, in order

Init == offered = 0 /\ delivered = << >>

Offer == offered' = offered + 1 /\ UNCHANGED delivered

(* Any event offered after the ones that have arrived may arrive next. *)
Deliver(n) ==
    /\ \A i \in DOMAIN delivered : delivered[i] < n
    /\ delivered' = Append(delivered, n)
    /\ UNCHANGED offered

Next == Offer \/ \E n \in 1 .. offered : Deliver(n)

Spec == Init /\ [][Next]_<< offered, delivered >>
=============================================================================
