----------------------------- MODULE LossyFifo ------------------------------
(***************************************************************************)
(* What the ingestion path promises: an event is either taken or refused   *)
(* on arrival, and the ones that were taken are delivered once each, in    *)
(* the order they were taken.  Module Pipeline implements it.              *)
(***************************************************************************)
EXTENDS Naturals, Sequences

CONSTANT Events

VARIABLES taken,      \* every event accepted so far, in order
          delivered   \* every event delivered so far, in order

Init == taken = << >> /\ delivered = << >>

Take(e) == taken' = Append(taken, e) /\ UNCHANGED delivered

(* The oldest event taken and not yet delivered. *)
Deliver ==
    /\ Len(delivered) < Len(taken)
    /\ delivered' = Append(delivered, taken[Len(delivered) + 1])
    /\ UNCHANGED taken

Next == Deliver \/ \E e \in Events : Take(e)

Spec == Init /\ [][Next]_<< taken, delivered >>
=============================================================================
