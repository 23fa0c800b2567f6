------------------------------- MODULE Window -------------------------------
(***************************************************************************)
(* What a bounded history promises its readers: they see the last Cap      *)
(* values that were pushed, oldest first, and nothing else.  store.Ring    *)
(* implements it with a circular buffer (module Ring).                     *)
(***************************************************************************)
EXTENDS Naturals, Sequences

CONSTANTS Values,   \* what can be pushed
          Cap       \* how many values are kept, at least one

VARIABLE window

Init == window = << >>

(* The window after one more push: the oldest value leaves a full window.  *)
Slide(w, v) == IF Len(w) < Cap THEN Append(w, v) ELSE Append(Tail(w), v)

Push(v) == window' = Slide(window, v)

Next == \E v \in Values : Push(v)

Spec == Init /\ [][Next]_window
=============================================================================
