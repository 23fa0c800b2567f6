-------------------------------- MODULE Ring --------------------------------
(***************************************************************************)
(* store.Ring (internal/store/ring.go): the fixed-capacity circular buffer *)
(* behind every metric series, log buffer and activity counter.  Push,     *)
(* Slice and Len each run under the ring's lock, so each is one step; what *)
(* the lock does not give is any relation between two calls, which the     *)
(* modules that read a ring model themselves.                              *)
(***************************************************************************)
EXTENDS Integers, Sequences

CONSTANTS Values,    \* what can be pushed
          Zero,      \* Go's zero value, what a fresh slot holds
          Capacity   \* the argument of NewRing, any int

ASSUME RingAssumption == Capacity \in Int

VARIABLES buf,       \* the slots
          head,      \* next write index
          count      \* number of valid entries

ringVars == << buf, head, count >>

(* NewRing raises a capacity below one to one. *)
Cap == IF Capacity < 1 THEN 1 ELSE Capacity

Slots == 0 .. Cap - 1

RingInit ==
    /\ buf = [i \in Slots |-> Zero]
    /\ head = 0
    /\ count = 0

Push(v) ==
    /\ buf' = [buf EXCEPT ![head] = v]
    /\ head' = (head + 1) % Cap
    /\ count' = IF count < Cap THEN count + 1 ELSE count

(* A mutated form: the oldest entry is taken to be in slot zero. *)
StartAtZero == 0

(* The slot of the oldest valid entry; Go's % would be negative without    *)
(* the added capacity.                                                     *)
Start == (head - count + Cap) % Cap

(* The copy a reader gets, oldest first. *)
Slice == [i \in 1 .. count |-> buf[(Start + i - 1) % Cap]]

RingNext == \E v \in Values : Push(v)

RingSpec == RingInit /\ [][RingNext]_ringVars

-----------------------------------------------------------------------------
(* The indices stay inside the allocation and only written slots are       *)
(* valid: what keeps `buf[head]` and `buf[(start+i)%cap]` in range in Go.  *)
RingTypeOK ==
    /\ buf \in [Slots -> Values \cup {Zero}]
    /\ head \in Slots
    /\ count \in 0 .. Cap

W == INSTANCE Window WITH window <- Slice

(* Slice behaves as the window of the last Cap pushes: a push shows up at  *)
(* the new end, the oldest entry leaves only when the ring is full, and    *)
(* everything between keeps its place.                                     *)
ImplementsWindow == W!Spec
=============================================================================
