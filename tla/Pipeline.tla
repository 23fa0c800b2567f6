------------------------------ MODULE Pipeline ------------------------------
(***************************************************************************)
(* The ingestion path wired by startReceivers (cmd/taplytix/main.go):      *)
(* receivers send without waiting into one bounded channel `out`; the pump *)
(* goroutine takes an event, publishes it on the bus (module Bus) and then *)
(* pushes it into the store.                                               *)
(*                                                                         *)
(* Events are << source, n >>: the n-th event of an emitting goroutine.    *)
(* The store is its per-service log rings, each the Window its Ring        *)
(* implements; what a push does to the other structures of a service is in *)
(* the modules on series and activity.                                     *)
(***************************************************************************)
EXTENDS Bus

CONSTANTS Sources,    \* emitting goroutines of the receivers
          Quota,      \* bound: how many events each source emits
          OutCap,     \* capacity of `out`, 4096 in the code
          LogCap,     \* store.logCap
          Pump        \* the pump goroutine, the only publisher

ASSUME PipelineAssumption ==
    /\ Publishers = {Pump}
    /\ Quota \in [Sources -> Nat] /\ OutCap \in Nat /\ LogCap \in Nat \ {0}
    /\ Events = UNION {{s} \X (1 .. Quota[s]) : s \in Sources}

VARIABLES
    emitted,    \* how many events each source has emitted
    out,        \* the shared channel
    pumpAt,     \* "recv" | "publishing" | "storing"
    hand,       \* the event the pump is working on, if any
    logs,       \* the log ring of each service, oldest first
    accepted,   \* history: every event the channel took
    stored      \* history: every event the store was given

pipeVars == << emitted, out, pumpAt, hand, logs, accepted, stored >>
vars == << busVars, pipeVars >>

Init ==
    /\ BusInit
    /\ emitted = [s \in Sources |-> 0]
    /\ out = << >>
    /\ pumpAt = "recv"
    /\ hand = << >>
    /\ logs = [s \in Sources |-> << >>]
    /\ accepted = << >>
    /\ stored = << >>

-----------------------------------------------------------------------------
(* A receiver's emit: a select with a default, so a full channel refuses   *)
(* the event and the receiver goes on.                                     *)
Emit(s) ==
    /\ emitted[s] < Quota[s]
    /\ emitted' = [emitted EXCEPT ![s] = @ + 1]
    /\ LET e == << s, emitted[s] + 1 >> IN
         IF Len(out) < OutCap
         THEN out' = Append(out, e) /\ accepted' = Append(accepted, e)
         ELSE UNCHANGED << out, accepted >>
    /\ UNCHANGED << busVars, pumpAt, hand, logs, stored >>

(* The pump's `for ev := range out`, up to taking the bus's read lock.     *)
PumpReceive ==
    /\ pumpAt = "recv"
    /\ out # << >>
    /\ PublishBegin(Pump, Head(out))
    /\ hand' = << Head(out) >>
    /\ out' = Tail(out)
    /\ pumpAt' = "publishing"
    /\ UNCHANGED << emitted, logs, accepted, stored >>

PumpOffer == Offer(Pump) /\ UNCHANGED pipeVars

PumpPublished ==
    /\ PublishEnd(Pump)
    /\ pumpAt' = "storing"
    /\ UNCHANGED << emitted, out, hand, logs, accepted, stored >>

LogRing(s) == INSTANCE Window WITH Values <- Events, Cap <- LogCap, window <- logs[s]

(* A mutated form: the event is filed under the newest event's service. *)
PumpStoreElsewhere ==
    /\ pumpAt = "storing"
    /\ LET e == hand[1]
           at == IF out = << >> THEN e[1] ELSE out[1][1]
       IN /\ logs' = [logs EXCEPT ![at] = LogRing(at)!Slide(@, e)]
          /\ stored' = Append(stored, e)
    /\ hand' = << >>
    /\ pumpAt' = "recv"
    /\ UNCHANGED << busVars, emitted, out, accepted >>

(* A mutated form: the event is put back and taken again. *)
PumpStoreTwice ==
    /\ pumpAt = "storing"
    /\ LET e == hand[1] IN
         /\ logs' = [logs EXCEPT ![e[1]] = LogRing(e[1])!Slide(@, e)]
         /\ stored' = Append(stored, e)
         /\ out' = IF Len(out) < OutCap THEN Append(out, e) ELSE out
    /\ hand' = << >>
    /\ pumpAt' = "recv"
    /\ UNCHANGED << busVars, emitted, accepted >>

(* The type switch: the event goes into its service's structures and the   *)
(* pump takes the next one.                                                *)
PumpStore ==
    /\ pumpAt = "storing"
    /\ LET e == hand[1] IN
         /\ logs' = [logs EXCEPT ![e[1]] = LogRing(e[1])!Slide(@, e)]
         /\ stored' = Append(stored, e)
    /\ hand' = << >>
    /\ pumpAt' = "recv"
    /\ UNCHANGED << busVars, emitted, out, accepted >>

PumpStep == PumpReceive \/ PumpOffer \/ PumpPublished \/ PumpStore

(* The other users of the bus; none of them touches the pipeline. *)
BusUser ==
    /\ Close \/ \E s \in Subscribers : Subscribe(s) \/ Receive(s)
    /\ UNCHANGED pipeVars

Next == PumpStep \/ BusUser \/ \E s \in Sources : Emit(s)

Spec == Init /\ [][Next]_vars

(* The pump goroutine is scheduled; sources may stop and subscribers may   *)
(* never read.                                                             *)
FairSpec == Spec /\ WF_vars(PumpStep)

-----------------------------------------------------------------------------
TypeOK ==
    /\ BusTypeOK
    /\ emitted \in [Sources -> Nat] /\ \A s \in Sources : emitted[s] =< Quota[s]
    /\ out \in Seq(Events) /\ Len(out) <= OutCap
    /\ pumpAt \in {"recv", "publishing", "storing"}
    /\ hand \in Seq(Events)
    /\ logs \in [Sources -> Seq(Events)]
    /\ accepted \in Seq(Events)
    /\ stored \in Seq(Events)

(* Nothing the channel took is lost, repeated or reordered on its way: it  *)
(* is in the store, in the pump's hand or still in the channel, in that    *)
(* order.  The hand is empty exactly between two events, and the pump is   *)
(* inside the bus exactly while it publishes.                              *)
InTransit ==
    /\ accepted = stored \o hand \o out
    /\ Len(hand) = IF pumpAt = "recv" THEN 0 ELSE 1
    /\ offering[Pump].active <=> pumpAt = "publishing"

Fifo == INSTANCE LossyFifo WITH taken <- accepted, delivered <- stored

(* From the receivers' side of the channel to the store, the path is a     *)
(* lossy FIFO: it may refuse, never lose, repeat or reorder.               *)
ImplementsLossyFifo == Fifo!Spec

(* What a logs panel reads for a service is that service's events only, in *)
(* the order they were emitted, the newest stored one last, however many   *)
(* were refused in between.                                                *)
LogsInEmissionOrder ==
    \A s \in Sources : LET log == logs[s] IN
        /\ \A i \in 1 .. Len(log) : log[i][1] = s
        /\ \A i, j \in 1 .. Len(log) : i < j => log[i][2] < log[j][2]

(* A subscriber of the bus sees what the store is given, in that order and *)
(* never twice, with gaps where it was full: the pump offers an event to   *)
(* everybody before it stores it, and stores it before it takes the next.  *)
SubscribersSeeStoreOrder ==
    \A s \in Subscribers :
        LET seen == received[s] \o channel[s]
            given == stored \o hand
            At(e) == CHOOSE i \in DOMAIN given : given[i] = e
        IN /\ Range(seen) \subseteq Range(given)
           /\ \A i, j \in DOMAIN seen : i < j => At(seen[i]) < At(seen[j])

(* An event the channel took reaches the store although no subscriber of   *)
(* the bus drains its channel: the pump never waits for anyone.            *)
AcceptedIsStored ==
    \A e \in Events : (e \in Range(accepted)) ~> (e \in Range(stored))
=============================================================================
