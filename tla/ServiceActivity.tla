-------------------------- MODULE ServiceActivity ---------------------------
(***************************************************************************)
(* The activity of one service in the store (internal/store/store.go):     *)
(* recordEvent, which every push ends with, and ServiceStatus, with which  *)
(* the Services panel and the status bar read it.                          *)
(*                                                                         *)
(* recordEvent takes three locks one after the other and ServiceStatus     *)
(* another three, so a reader may look between any two of the writer's     *)
(* steps.  Time is counted in coarse ticks.  An event carries the          *)
(* timestamp its source gave it; timeOrNow has replaced a missing one.     *)
(***************************************************************************)
EXTENDS Ring, Lists, FiniteSets, Functions

CONSTANTS
    RateWindow,     \* the 5 seconds of the counts, in ticks
    AliveWindow,    \* the 10 seconds of Connected, in ticks
    MaxTime,        \* bound: the clock stops here
    MaxEvents,      \* bound: events recorded
    Skew            \* how far a timestamp may lie before or after its arrival

NoTime == -1        \* the zero time.Time
Times == 0 .. MaxTime + Skew

ASSUME ActivityAssumption ==
    /\ {RateWindow, AliveWindow, MaxTime, MaxEvents, Skew} \subseteq Nat
    /\ Values = Times    \* the rings hold timestamps
    /\ Zero = NoTime

VARIABLES
    now,        \* the clock
    lastSeen,
    errors,     \* the ring of the timestamps of errors
    writer,     \* recordEvent in progress: its next step and its event
    reader,     \* ServiceStatus in progress or just returned
    arrivals    \* history: every event recorded

vars == << now, lastSeen, ringVars, errors, writer, reader, arrivals >>

(* The ring of all timestamps as a reader copies it; of the ring of errors *)
(* only the window a Ring implements is kept.                              *)
events == Slice

Resting == [at |-> "rest", ts |-> 0, isErr |-> FALSE]

Unread == [at |-> "rest", now |-> 0, ev |-> 0, er |-> 0, last |-> NoTime, quiet |-> TRUE]

Init ==
    /\ now = 0
    /\ lastSeen = NoTime
    /\ RingInit
    /\ errors = << >>
    /\ writer = Resting
    /\ reader = Unread
    /\ arrivals = << >>

Tick ==
    /\ now < MaxTime
    /\ now' = now + 1
    /\ UNCHANGED << lastSeen, ringVars, errors, writer, reader, arrivals >>

-----------------------------------------------------------------------------
(* A reader that overlaps a write did not have the data to itself. *)
Disturb == reader' = [reader EXCEPT !.quiet = FALSE]

(* A mutated form: the newest event sets lastSeen, late or not. *)
RecordSeenAlways(ts, isErr) ==
    /\ writer.at = "rest"
    /\ Len(arrivals) < MaxEvents
    /\ lastSeen' = ts
    /\ writer' = [at |-> "events", ts |-> ts, isErr |-> isErr]
    /\ arrivals' = Append(arrivals, [ts |-> ts, isErr |-> isErr])
    /\ Disturb
    /\ UNCHANGED << now, ringVars, errors >>

(* recordEvent, under the service's lock: lastSeen never goes back.        *)
RecordSeen(ts, isErr) ==
    /\ writer.at = "rest"
    /\ Len(arrivals) < MaxEvents
    /\ lastSeen' = IF ts > lastSeen THEN ts ELSE lastSeen
    /\ writer' = [at |-> "events", ts |-> ts, isErr |-> isErr]
    /\ arrivals' = Append(arrivals, [ts |-> ts, isErr |-> isErr])
    /\ Disturb
    /\ UNCHANGED << now, ringVars, errors >>

RecordEvent ==
    /\ writer.at = "events"
    /\ Push(writer.ts)
    /\ writer' = IF writer.isErr THEN [writer EXCEPT !.at = "errors"] ELSE Resting
    /\ Disturb
    /\ UNCHANGED << now, lastSeen, errors, arrivals >>

RecordError ==
    /\ writer.at = "errors"
    /\ errors' = W!Slide(errors, writer.ts)
    /\ writer' = Resting
    /\ Disturb
    /\ UNCHANGED << now, lastSeen, ringVars, arrivals >>

-----------------------------------------------------------------------------
(* A mutated form: the cutoff itself counts. *)
RecentInclusive(ring, at) ==
    Cardinality({i \in 1 .. Len(ring) : ring[i] >= at - RateWindow})

(* How many of a ring's timestamps lie after the cutoff. *)
Recent(ring, at) == Cardinality({i \in 1 .. Len(ring) : ring[i] > at - RateWindow})

(* ServiceStatus, in the order it reads. *)
ReadNow ==
    /\ reader.at = "rest"
    /\ reader' = [Unread EXCEPT !.at = "events", !.now = now, !.quiet = writer.at = "rest"]
    /\ UNCHANGED << now, lastSeen, ringVars, errors, writer, arrivals >>

ReadEvents ==
    /\ reader.at = "events"
    /\ reader' = [reader EXCEPT !.at = "errors", !.ev = Recent(events, reader.now)]
    /\ UNCHANGED << now, lastSeen, ringVars, errors, writer, arrivals >>

ReadErrors ==
    /\ reader.at = "errors"
    /\ reader' = [reader EXCEPT !.at = "last", !.er = Recent(errors, reader.now)]
    /\ UNCHANGED << now, lastSeen, ringVars, errors, writer, arrivals >>

ReadLast ==
    /\ reader.at = "last"
    /\ reader' = [reader EXCEPT !.at = "done", !.last = lastSeen]
    /\ UNCHANGED << now, lastSeen, ringVars, errors, writer, arrivals >>

(* The caller is done with the status. *)
Forget ==
    /\ reader.at = "done"
    /\ reader' = Unread
    /\ UNCHANGED << now, lastSeen, ringVars, errors, writer, arrivals >>

(* The field of the status the panels show as connected or not. *)
Connected == reader.last # NoTime /\ reader.now - reader.last =< AliveWindow

Record ==
    \/ \E isErr \in BOOLEAN, ts \in Times :
          /\ now - Skew =< ts /\ ts =< now + Skew
          /\ RecordSeen(ts, isErr)
    \/ RecordEvent
    \/ RecordError

Read == ReadNow \/ ReadEvents \/ ReadErrors \/ ReadLast \/ Forget

Next == Tick \/ Record \/ Read

Spec == Init /\ [][Next]_vars

-----------------------------------------------------------------------------
TypeOK ==
    /\ now \in 0 .. MaxTime
    /\ lastSeen \in Times \cup {NoTime}
    /\ RingTypeOK
    /\ events \in Seq(Times) /\ Len(events) = count
    /\ errors \in Seq(Times) /\ Len(errors) <= Cap
    /\ writer \in [at : {"rest", "events", "errors"}, ts : Times, isErr : BOOLEAN]
    /\ reader \in [at : {"rest", "events", "errors", "last", "done"}, now : 0 .. MaxTime,
                   ev : 0 .. Cap, er : 0 .. Cap,
                   last : Times \cup {NoTime}, quiet : BOOLEAN]
    /\ arrivals \in Seq([ts : Times, isErr : BOOLEAN])

(* A service is never shown older than an event a reader can find in its   *)
(* rings: lastSeen is ahead of them at every moment, also in mid-push and  *)
(* however late or early the timestamps arrive.                            *)
LastSeenCoversRings ==
    \A t \in Range(events) \cup Range(errors) : t =< lastSeen

Newest(rows) == IF Len(rows) > Cap THEN SubSeq(rows, Len(rows) - Cap + 1, Len(rows))
                ELSE rows
ErrorRows == [ts : Times, isErr : {TRUE}]
InWindow(rows) == {i \in DOMAIN rows : rows[i].ts > reader.now - RateWindow}

(* A read that no push overlaps reports exactly what was recorded: of the  *)
(* newest events and the newest errors, as many as a ring holds, those of  *)
(* its window, and Connected by the latest timestamp there ever was, also  *)
(* when its event has left the ring.                                       *)
QuietReadIsExact ==
    reader.at = "done" /\ reader.quiet =>
        /\ reader.ev = Cardinality(InWindow(Newest(arrivals)))
        /\ reader.er = Cardinality(InWindow(Newest(Kept(arrivals, ErrorRows))))
        /\ Connected <=> \E i \in DOMAIN arrivals : reader.now - arrivals[i].ts =< AliveWindow
=============================================================================
