------------------------------ MODULE TraceMap ------------------------------
(***************************************************************************)
(* store.TraceMap (internal/store/tracemap.go) of one service: the pump    *)
(* adds spans under the lock, and the TUI goroutine takes pointers to the  *)
(* traces under the lock and reads them after it has let the lock go:      *)
(* Recent sorts them, and the Traces panel (internal/tui/panels/traces.go) *)
(* walks one and sorts its lists of children in place.                     *)
(*                                                                         *)
(* A span is its trace, its parent (0 of a root), its start and its end;   *)
(* the lists of children of a trace are one sequence, in the order of      *)
(* arrival.  A map that is read while it is written is a fatal error of    *)
(* the Go runtime when the runtime notices, which it need not.  Evict is   *)
(* left out: nothing but a test calls it.                                  *)
(***************************************************************************)
EXTENDS Integers, SequencesExt, FiniteSetsExt

CONSTANTS Spans,     \* the spans the exporters may send
          MaxAdds    \* bound: spans that arrive, repeated ones included

isRoot(s) == s.parent = 0

(* A trace has one root, and no span starts before it. *)
ASSUME SpansAssumption ==
    /\ \A s \in Spans : /\ s.start \in Nat /\ s.end \in Nat /\ s.start =< s.end
                       /\ s.parent \in Nat
    /\ \A r, s \in Spans : isRoot(r) /\ s.trace = r.trace =>
          r.start =< s.start /\ (isRoot(s) => s = r)
ASSUME AddsAssumption == MaxAdds \in Nat

NoSpan == [parent |-> -1]
TraceIds == { s.trace : s \in Spans }
TraceStates == [root : Spans \cup {NoSpan}, kids : Seq(Spans), duration : Nat]

VARIABLES
    traces,     \* m.traces: a trace for each ID seen
    adding,     \* the span Add holds the lock for, or NoSpan
    phase,      \* Add: "idle" | "insert" | "duration"
    ui,         \* the TUI: "idle" | "sort" | "shown" | "walk"
    list,       \* all, the traces being sorted or shown
    si, sj,     \* the loops of the insertion sort
    walking,    \* the trace being walked
    race,       \* a map was read while it was written: "none" | "unnoticed" | "fatal"
    added,      \* history: the spans added
    adds,       \* how many additions
    rooted      \* history: the traces that had a root when the list was taken

mapVars == << traces, adding, phase, added, adds >>
uiVars == << ui, list, si, sj, walking, rooted >>
vars == << mapVars, uiVars, race >>

Init ==
    /\ traces = << >>
    /\ adding = NoSpan /\ phase = "idle"
    /\ ui = "idle" /\ list = << >> /\ si = 1 /\ sj = 1 /\ walking = 0
    /\ race = "none"
    /\ added = {} /\ adds = 0 /\ rooted = {}

-----------------------------------------------------------------------------
HasRoot(t) == traces[t].root # NoSpan

(* The starts traceStart may return: without a root, that of the first     *)
(* child of whichever list the iteration of the map comes to first.        *)
traceStart(t) ==
    IF HasRoot(t) THEN { traces[t].root.start }
    ELSE { traces[t].kids[i].start : i \in { i \in DOMAIN traces[t].kids :
              \A j \in 1 .. i - 1 : traces[t].kids[j].parent # traces[t].kids[i].parent } }

SpansOf(trace) == ToSet(trace.kids) \cup (IF trace.root = NoSpan THEN {} ELSE {trace.root})

traceLatestEnd(trace) == Max({ s.end : s \in SpansOf(trace) })

(* Add is about to write the map of children of t, or is writing it. *)
WritesChildren(t) == phase = "insert" /\ ~ isRoot(adding) /\ adding.trace = t

(* What becomes of the process when the map of children is read as Add     *)
(* writes it.                                                              *)
Collide == race' \in {"unnoticed", "fatal"}

-----------------------------------------------------------------------------
(* A fatal error ends the process. *)
Alive == race # "fatal"

(* Add of a span with a trace ID: a span without one changes nothing. *)
AddBegin(s) ==
    /\ Alive /\ phase = "idle" /\ adds < MaxAdds
    /\ adding' = s
    /\ phase' = "insert"
    /\ adds' = adds + 1
    /\ UNCHANGED << traces, added, uiVars, race >>

(* The trace as Add finds or makes it. *)
Found(t) == IF t \in DOMAIN traces THEN traces[t]
            ELSE [root |-> NoSpan, kids |-> << >>, duration |-> 0]

(* append may copy a list the panel is sorting, between the two halves of  *)
(* a swap: one sibling is then there twice and another not at all.         *)
Appended(kids, s) ==
    { Append(kids, s) } \cup
    { Append([kids EXCEPT ![p[1]] = kids[p[2]]], s) : p \in
        { p \in (DOMAIN kids) \X (DOMAIN kids) :
            walking = s.trace /\ kids[p[1]].parent = s.parent /\ kids[p[2]].parent = s.parent } }

(* The map with the trace of s, which has these children and perhaps s as  *)
(* its root.                                                               *)
Stored(s, kids) ==
    [t \in DOMAIN traces \cup {s.trace} |->
        IF t = s.trace THEN [Found(t) EXCEPT !.kids = kids, !.root = IF isRoot(s) THEN s ELSE @]
                       ELSE traces[t]]

(* A mutated form: the root begins a trace of its own. *)
AddInsertAfresh ==
    /\ Alive /\ phase = "insert"
    /\ \E kids \in IF isRoot(adding) THEN { << >> } ELSE Appended(Found(adding.trace).kids, adding) :
         traces' = Stored(adding, kids)
    /\ IF walking = adding.trace /\ ~ isRoot(adding) THEN Collide ELSE UNCHANGED race
    /\ phase' = "duration"
    /\ added' = added \cup {adding}
    /\ UNCHANGED << adding, adds, uiVars >>

AddInsert ==
    /\ Alive /\ phase = "insert"
    /\ LET kept == Found(adding.trace).kids
       IN \E kids \in IF isRoot(adding) THEN {kept} ELSE Appended(kept, adding) :
            traces' = Stored(adding, kids)
    /\ IF walking = adding.trace /\ ~ isRoot(adding) THEN Collide ELSE UNCHANGED race
    /\ phase' = "duration"
    /\ added' = added \cup {adding}
    /\ UNCHANGED << adding, adds, uiVars >>

(* A mutated form: a rooted trace ends with the span that came last. *)
AddDurationLast ==
    /\ Alive /\ phase = "duration"
    /\ LET t == traces[adding.trace]
       IN traces' = [traces EXCEPT ![adding.trace].duration =
             IF t.root # NoSpan THEN Max({0, adding.end - t.root.start})
             ELSE Max({t.duration, adding.end - adding.start})]
    /\ adding' = NoSpan
    /\ phase' = "idle"
    /\ UNCHANGED << added, adds, uiVars, race >>

(* The duration is that of the whole trace from its root to its latest     *)
(* end, or the longest span while there is no root; the lock is let go.    *)
AddDuration ==
    /\ Alive /\ phase = "duration"
    /\ LET t == traces[adding.trace]
       IN traces' = [traces EXCEPT ![adding.trace].duration =
             IF t.root # NoSpan THEN traceLatestEnd(t) - t.root.start
             ELSE Max({t.duration, adding.end - adding.start})]
    /\ adding' = NoSpan
    /\ phase' = "idle"
    /\ UNCHANGED << added, adds, uiVars, race >>

-----------------------------------------------------------------------------
(* Recent, under the read lock: the traces in the order of the map. *)
RecentCopy ==
    /\ Alive /\ ui \in {"idle", "shown"} /\ phase = "idle"
    /\ list' \in SetToSeqs(DOMAIN traces)
    /\ rooted' = { t \in DOMAIN traces : HasRoot(t) }
    /\ si' = 2 /\ sj' = 2
    /\ ui' = IF Cardinality(DOMAIN traces) > 1 THEN "sort" ELSE "shown"
    /\ UNCHANGED << mapVars, walking, race >>

(* A mutated form: an element moves down by one place only. *)
CompareOnce ==
    /\ Alive /\ ui = "sort"
    /\ \E a \in traceStart(list[sj]), b \in traceStart(list[sj - 1]) :
         /\ list' = IF a > b THEN [list EXCEPT ![sj] = list[sj - 1], ![sj - 1] = list[sj]] ELSE list
         /\ si' = si + 1 /\ sj' = si + 1
    /\ ui' = IF si' > Len(list) THEN "shown" ELSE "sort"
    /\ IF \E t \in {list[sj], list[sj - 1]} : WritesChildren(t) /\ ~ HasRoot(t)
       THEN Collide ELSE UNCHANGED race
    /\ UNCHANGED << mapVars, walking, rooted >>

(* One comparison of the insertion sort (sort.Slice of at most 12), after  *)
(* the lock was let go.  Without a root the map of children is iterated.   *)
Compare ==
    /\ Alive /\ ui = "sort"
    /\ \E a \in traceStart(list[sj]), b \in traceStart(list[sj - 1]) :
         /\ list' = IF a > b THEN [list EXCEPT ![sj] = list[sj - 1], ![sj - 1] = list[sj]] ELSE list
         /\ IF a > b /\ sj > 2 THEN sj' = sj - 1 /\ si' = si
                               ELSE si' = si + 1 /\ sj' = si + 1
    /\ ui' = IF si' > Len(list) THEN "shown" ELSE "sort"
    /\ IF \E t \in {list[sj], list[sj - 1]} : WritesChildren(t) /\ ~ HasRoot(t)
       THEN Collide ELSE UNCHANGED race
    /\ UNCHANGED << mapVars, walking, rooted >>

(* renderWaterfall of the selected trace: it counts the spans of every     *)
(* list, and walkTraceDFS sorts the lists.                                 *)
WalkBegin ==
    /\ Alive /\ ui = "shown"
    /\ \E t \in ToSet(list) :
         /\ HasRoot(t)
         /\ walking' = t
         /\ IF WritesChildren(t) THEN Collide ELSE UNCHANGED race
    /\ ui' = "walk"
    /\ UNCHANGED << mapVars, list, si, sj, rooted >>

WalkEnd ==
    /\ Alive /\ ui = "walk"
    /\ walking' = 0
    /\ ui' = "shown"
    /\ UNCHANGED << mapVars, list, si, sj, rooted, race >>

Next ==
    \/ \E s \in Spans : AddBegin(s)
    \/ AddInsert \/ AddDuration
    \/ RecentCopy \/ Compare \/ WalkBegin \/ WalkEnd

Spec == Init /\ [][Next]_vars

-----------------------------------------------------------------------------
TypeOK ==
    /\ DOMAIN traces \subseteq TraceIds
    /\ \A t \in DOMAIN traces : traces[t] \in TraceStates
    /\ adding \in Spans \cup {NoSpan} /\ (adding = NoSpan <=> phase = "idle")
    /\ phase \in {"idle", "insert", "duration"}
    /\ ui \in {"idle", "sort", "shown", "walk"}
    /\ list \in Seq(TraceIds)
    /\ si \in Nat /\ sj \in Nat
    /\ walking \in TraceIds \cup {0}
    /\ race \in {"none", "unnoticed", "fatal"}
    /\ added \subseteq Spans /\ adds \in 0 .. MaxAdds /\ rooted \subseteq TraceIds

Settled(t) == phase # "duration" \/ adding.trace # t

(* "The trace's Duration tracks the latest span end": from the root to the *)
(* end of the last of the spans ever added, whatever order they, the root  *)
(* among them, came in and however often; before the root came, the length *)
(* of the longest span.                                                    *)
DurationIsOrderFree ==
    race = "none" =>
        \A t \in DOMAIN traces : Settled(t) =>
            LET mine == { s \in added : s.trace = t }
            IN traces[t].duration =
                 IF \E s \in mine : isRoot(s)
                 THEN Max({ s.end : s \in mine }) - (CHOOSE s \in mine : isRoot(s)).start
                 ELSE Max({ s.end - s.start : s \in mine })

(* A span added stays in its trace, under its parent or as the root: the   *)
(* root that comes late finds the children that came before it.            *)
SpansAreKept ==
    race = "none" => added = UNION { SpansOf(traces[t]) : t \in DOMAIN traces }

(* When all traces of the list had their root, Recent is "newest-first by  *)
(* root start time", whatever is added while it sorts without the lock.    *)
RootedListIsSorted ==
    ui = "shown" /\ ToSet(list) \subseteq rooted =>
        \A i, j \in DOMAIN list : i < j =>
            traces[list[i]].root.start >= traces[list[j]].root.start

(* "It is safe for concurrent use": the process does not die of it. *)
NoConcurrentMapAccess == Alive
=============================================================================
