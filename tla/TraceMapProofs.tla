--------------------------- MODULE TraceMapProofs ---------------------------
(***************************************************************************)
(* For any spans, in any order and however often they arrive: no span is   *)
(* lost from its trace, its duration is that of its spans, and a list of   *)
(* traces that all have their root is sorted, although the traces change   *)
(* while they are sorted without the lock.  The types hold even after a    *)
(* race, when a list of children may have one span twice for another.     *)
(***************************************************************************)
EXTENDS TraceMap, ListProofs, FiniteSetTheorems, TLAPS

(* A span has a parent's number, so NoSpan is none. *)
LEMMA NoSpanIsNone == NoSpan \notin Spans
  BY SpansAssumption DEF NoSpan

-----------------------------------------------------------------------------
(* The map: every trace has its own spans, its root a root.                *)
IsTrace(t, x) ==
    /\ x = [root |-> x.root, kids |-> x.kids, duration |-> x.duration]
    /\ x.root \in Spans \cup {NoSpan} /\ x.kids \in Seq(Spans)
    /\ x.root # NoSpan => isRoot(x.root) /\ x.root.trace = t

Shape ==
    /\ IsFiniteSet(DOMAIN traces) /\ traces = [t \in DOMAIN traces |-> traces[t]]
    /\ \A t \in DOMAIN traces : IsTrace(t, traces[t])
    /\ phase \in {"idle", "insert", "duration"}
    /\ phase # "idle" => adding \in Spans
    /\ phase = "duration" => adding.trace \in DOMAIN traces
    /\ ui \in {"idle", "sort", "shown", "walk"}

(* The list: what was rooted stays so.  While it is sorted everything up   *)
(* to place si is in order, but for the trace at place sj, which is on its *)
(* way down and has passed only smaller ones.                              *)
StartOf(t) == traces[t].root.start

Sorted(n, moving) ==
    \A i, j \in 1 .. n : i < j /\ j # moving => StartOf(list[i]) >= StartOf(list[j])

Sorting ==
    /\ rooted \subseteq DOMAIN traces /\ \A t \in rooted : HasRoot(t)
    /\ list \in Seq(DOMAIN traces)
    /\ ui = "sort" => si \in Nat /\ sj \in Nat /\ 2 =< sj /\ sj =< si /\ si =< Len(list)
    /\ Range(list) \subseteq rooted =>
          /\ ui = "sort" => Sorted(si, sj)
          /\ ui \in {"shown", "walk"} => Sorted(Len(list), 0)

MapInv == Shape /\ Sorting

-----------------------------------------------------------------------------
(* What AddInsert makes of a trace: its root is a span that was its root   *)
(* already, or the one that came; its children are what it had and, unless *)
(* it is the root, the span that came, in some order.                      *)
LEMMA FoundIs ==
  ASSUME Shape, NEW t
  PROVE  IsTrace(t, Found(t))
<1>1. CASE t \in DOMAIN traces
  BY <1>1 DEF Shape, Found
<1>2. CASE t \notin DOMAIN traces
  BY <1>2 DEF Found, IsTrace
<1> QED
  BY <1>1, <1>2

LEMMA AppendedTyped ==
  ASSUME NEW kids \in Seq(Spans), NEW s \in Spans, NEW k \in Appended(kids, s)
  PROVE  k \in Seq(Spans)
<1>1. \A q \in Seq(Spans) : Append(q, s) \in Seq(Spans)
  OBVIOUS
<1>2. \A p \in (DOMAIN kids) \X (DOMAIN kids) : [kids EXCEPT ![p[1]] = kids[p[2]]] \in Seq(Spans)
  OBVIOUS
<1> QED
  BY <1>1, <1>2 DEF Appended

LEMMA Inserted ==
  ASSUME Shape, AddInsert
  PROVE  /\ adding \in Spans /\ phase' = "duration"
         /\ DOMAIN traces' = DOMAIN traces \cup {adding.trace}
         /\ traces' = [t \in DOMAIN traces' |-> traces'[t]]
         /\ \A t \in DOMAIN traces : t # adding.trace => traces'[t] = traces[t]
         /\ IsTrace(adding.trace, traces'[adding.trace])
         /\ traces'[adding.trace].root = IF isRoot(adding) THEN adding ELSE Found(adding.trace).root
         /\ isRoot(adding) => traces'[adding.trace].kids = Found(adding.trace).kids
         /\ ~ isRoot(adding) => traces'[adding.trace].kids \in Appended(Found(adding.trace).kids, adding)
<1> DEFINE f == Found(adding.trace)
<1>1. adding \in Spans /\ phase' = "duration"
  BY DEF AddInsert, Shape
<1>2. PICK kids \in IF isRoot(adding) THEN {f.kids} ELSE Appended(f.kids, adding) :
         traces' = Stored(adding, kids)
  BY DEF AddInsert
<1>3. IsTrace(adding.trace, f)
  BY FoundIs
<1>4. kids \in Seq(Spans)
  BY <1>1, <1>2, <1>3, AppendedTyped DEF IsTrace
<1>5. /\ DOMAIN traces' = DOMAIN traces \cup {adding.trace}
      /\ traces' = [t \in DOMAIN traces' |-> traces'[t]]
      /\ \A t \in DOMAIN traces : t # adding.trace => traces'[t] = traces[t]
      /\ traces'[adding.trace] = [f EXCEPT !.kids = kids, !.root = IF isRoot(adding) THEN adding ELSE @]
  BY <1>2 DEF Stored
<1>6. traces'[adding.trace] = [root |-> IF isRoot(adding) THEN adding ELSE f.root,
                               kids |-> kids, duration |-> f.duration]
  BY <1>3, <1>5 DEF IsTrace
<1>7. IsTrace(adding.trace, traces'[adding.trace])
  BY <1>1, <1>3, <1>4, <1>6 DEF IsTrace
<1> QED
  BY <1>1, <1>2, <1>5, <1>6, <1>7

LEMMA DurationKept ==
  ASSUME Shape, AddInsert
  PROVE  traces'[adding.trace].duration = Found(adding.trace).duration
<1>1. PICK kids : traces' = Stored(adding, kids)
  BY DEF AddInsert
<1>2. traces'[adding.trace] =
         [Found(adding.trace) EXCEPT !.kids = kids, !.root = IF isRoot(adding) THEN adding ELSE @]
  BY <1>1 DEF Stored
<1>3. IsTrace(adding.trace, Found(adding.trace))
  BY FoundIs
<1> QED
  BY <1>2, <1>3 DEF IsTrace

-----------------------------------------------------------------------------
(* A trace keeps the root it has, since a trace has one. *)
LEMMA RootsStay ==
  ASSUME Shape, AddInsert \/ AddDuration
  PROVE  /\ DOMAIN traces \subseteq DOMAIN traces'
         /\ \A t \in DOMAIN traces : HasRoot(t) => HasRoot(t)' /\ StartOf(t)' = StartOf(t)
<1>1. CASE AddInsert
  <2>1. \A t \in DOMAIN traces : t # adding.trace => traces'[t] = traces[t]
    BY <1>1, Inserted
  <2>2. ASSUME adding.trace \in DOMAIN traces, HasRoot(adding.trace)
        PROVE  traces'[adding.trace].root = traces[adding.trace].root
    <3>1. traces'[adding.trace].root =
             IF isRoot(adding) THEN adding ELSE traces[adding.trace].root
      BY <1>1, <2>2, Inserted DEF Found
    <3>2. /\ traces[adding.trace].root \in Spans
          /\ isRoot(traces[adding.trace].root)
          /\ traces[adding.trace].root.trace = adding.trace
      BY <2>2 DEF Shape, IsTrace, HasRoot
    <3>3. adding \in Spans
      BY <1>1, Inserted
    <3> QED
      BY <3>1, <3>2, <3>3, SpansAssumption
  <2>3. DOMAIN traces \subseteq DOMAIN traces'
    BY <1>1, Inserted
  <2> QED
    BY <2>1, <2>2, <2>3 DEF HasRoot, StartOf
<1>2. CASE AddDuration
  <2>1. DOMAIN traces' = DOMAIN traces
    BY <1>2 DEF AddDuration
  <2>2. \A t \in DOMAIN traces : traces'[t].root = traces[t].root
    BY <1>2 DEF AddDuration, Shape, IsTrace
  <2> QED
    BY <2>1, <2>2 DEF HasRoot, StartOf
<1> QED
  BY <1>1, <1>2

LEMMA SortingStays ==
  ASSUME Sorting, UNCHANGED uiVars, DOMAIN traces \subseteq DOMAIN traces',
         \A t \in DOMAIN traces : HasRoot(t) => HasRoot(t)' /\ StartOf(t)' = StartOf(t)
  PROVE  Sorting'
<1> USE DEF uiVars
<1>1. rooted' \subseteq DOMAIN traces' /\ \A t \in rooted' : HasRoot(t)'
  BY DEF Sorting
<1>2. list' \in Seq(DOMAIN traces')
  BY DEF Sorting
<1>3. ASSUME Range(list) \subseteq rooted, NEW n, n =< Len(list), n \in Nat, NEW m, Sorted(n, m)
      PROVE  Sorted(n, m)'
  <2>1. \A i \in 1 .. n : list[i] \in DOMAIN traces /\ HasRoot(list[i])
    BY <1>3 DEF Sorting, Range
  <2>2. \A i \in 1 .. n : StartOf(list[i])' = StartOf(list[i])
    BY <2>1
  <2> QED
    BY <1>3, <2>2 DEF Sorted
<1>4. Len(list) \in Nat
  BY DEF Sorting
<1> QED
  BY <1>1, <1>2, <1>3, <1>4 DEF Sorting, Range

-----------------------------------------------------------------------------
(* The sort.  A step either swaps the trace at place sj with the greater   *)
(* one above it, or finds the place right and goes on to the next.         *)
Swapped(s, j) == [s EXCEPT ![j] = s[j - 1], ![j - 1] = s[j]]

LEMMA SortStep ==
  ASSUME MapInv, Compare
  PROVE  Sorting'
<1> USE DEF MapInv
<1> DEFINE a == StartOf(list[sj])
           b == StartOf(list[sj - 1])
<1>1. /\ list \in Seq(DOMAIN traces) /\ si \in Nat /\ sj \in Nat
      /\ 2 =< sj /\ sj =< si /\ si =< Len(list) /\ Len(list) \in Nat
  BY DEF Sorting, Compare
<1>2. traces' = traces /\ rooted' = rooted
  BY DEF Compare, mapVars
<1>3. \/ /\ list' = Swapped(list, sj) /\ sj > 2 /\ sj' = sj - 1 /\ si' = si
      \/ /\ list' = Swapped(list, sj) /\ sj = 2 /\ si' = si + 1 /\ sj' = si + 1
      \/ /\ list' = list /\ si' = si + 1 /\ sj' = si + 1
  <2>1. PICK x \in traceStart(list[sj]), y \in traceStart(list[sj - 1]) :
           /\ list' = IF x > y THEN Swapped(list, sj) ELSE list
           /\ IF x > y /\ sj > 2 THEN sj' = sj - 1 /\ si' = si
                                 ELSE si' = si + 1 /\ sj' = si + 1
    BY DEF Compare, Swapped
  <2>2. CASE x > y /\ sj > 2
    BY <2>1, <2>2
  <2>3. CASE x > y /\ ~ (sj > 2)
    <3>1. list' = Swapped(list, sj) /\ si' = si + 1 /\ sj' = si + 1
      BY <2>1, <2>3
    <3>2. sj = 2
      BY <2>3, <1>1
    <3> QED
      BY <3>1, <3>2
  <2>4. CASE ~ (x > y)
    BY <2>1, <2>4
  <2> QED
    BY <2>2, <2>3, <2>4
<1>4. Swapped(list, sj) \in Seq(DOMAIN traces) /\ Len(Swapped(list, sj)) = Len(list)
  BY <1>1 DEF Swapped
<1>5. list' \in Seq(DOMAIN traces) /\ Len(list') = Len(list)
  BY <1>1, <1>3, <1>4
<1>6. ui' = IF si' > Len(list) THEN "shown" ELSE "sort"
  BY DEF Compare
<1>7. ui' = "sort" => /\ si' \in Nat /\ sj' \in Nat /\ 2 =< sj' /\ sj' =< si'
                      /\ si' =< Len(list')
  BY <1>1, <1>3, <1>5, <1>6
<1>8. ASSUME Range(list') \subseteq rooted'
      PROVE  /\ ui' = "sort" => Sorted(si, sj)'
             /\ ui' \in {"shown", "walk"} => Sorted(Len(list), 0)'
  <2>1. \A k \in 1 .. Len(list) : list[k] \in rooted
    <3>1. \A k \in 1 .. Len(list') : list'[k] \in rooted
      BY <1>2, <1>5, <1>8 DEF Range
    <3>2. CASE list' = list
      BY <3>1, <3>2
    <3>3. CASE list' = Swapped(list, sj)
      <4>1. TAKE k \in 1 .. Len(list)
      <4>2. \E m \in 1 .. Len(list) : list[k] = Swapped(list, sj)[m]
        <5>1. CASE k = sj
          BY <1>1, <5>1 DEF Swapped
        <5>2. CASE k = sj - 1
          BY <1>1, <5>2 DEF Swapped
        <5>3. CASE k # sj /\ k # sj - 1
          BY <1>1, <5>3 DEF Swapped
        <5> QED
          BY <5>1, <5>2, <5>3
      <4> QED
        BY <3>1, <3>3, <4>2, <1>5
    <3> QED
      BY <3>2, <3>3, <1>3
  <2>2. \A k \in 1 .. Len(list) : StartOf(list[k]) \in Nat /\ traceStart(list[k]) = {StartOf(list[k])}
    <3>1. \A t \in rooted : /\ traces[t].root \in Spans
                            /\ StartOf(t) \in Nat /\ traceStart(t) = {StartOf(t)}
      BY SpansAssumption DEF Shape, Sorting, IsTrace, HasRoot, StartOf, traceStart
    <3> QED
      BY <2>1, <3>1
  <2>3. Sorted(si, sj)
    <3>1. Range(list) \subseteq rooted
      BY <1>1, <2>1 DEF Range
    <3> QED
      BY <3>1 DEF Sorting, Compare
  <2>4. /\ a > b => list' = Swapped(list, sj)
        /\ a > b /\ sj > 2 => sj' = sj - 1 /\ si' = si
        /\ ~ (a > b) => list' = list
        /\ ~ (a > b /\ sj > 2) => si' = si + 1 /\ sj' = si + 1
    <3>1. traceStart(list[sj]) = {a} /\ traceStart(list[sj - 1]) = {b}
      <4>1. sj \in 1 .. Len(list) /\ sj - 1 \in 1 .. Len(list)
        BY <1>1
      <4> QED
        BY <2>2, <4>1
    <3> QED
      BY <3>1 DEF Compare, Swapped
  <2>5. \A t : StartOf(t)' = StartOf(t)
    BY <1>2 DEF StartOf
  <2> DEFINE S(k) == StartOf(list[k])
             P(k) == StartOf(list'[k])
  <2>6. \A k \in 1 .. Len(list) : S(k) \in Nat
    BY <2>2
  <2>7. \A i, j \in 1 .. si : i < j /\ j # sj => S(i) >= S(j)
    BY <2>3 DEF Sorted
  <2>8. CASE a > b
    <3>1. /\ P(sj) = S(sj - 1) /\ P(sj - 1) = S(sj)
          /\ \A k \in 1 .. Len(list) : k # sj /\ k # sj - 1 => P(k) = S(k)
      BY <1>1, <2>4, <2>8 DEF Swapped
    <3>2. S(sj) > S(sj - 1)
      BY <2>8
    <3> HIDE DEF S, P
    <3>3. \A i, j \in 1 .. si : i < j /\ j # sj - 1 => P(i) >= P(j)
      <4>1. SUFFICES ASSUME NEW i \in 1 .. si, NEW j \in 1 .. si, i < j, j # sj - 1
                     PROVE  P(i) >= P(j)
        OBVIOUS
      <4>2. sj \in 1 .. si /\ sj - 1 \in 1 .. si /\ si =< Len(list)
        BY <1>1
      <4>3. \A k \in 1 .. si : S(k) \in Nat
        BY <2>6, <4>2, <1>1
      <4>4. CASE j = sj
        BY <3>1, <3>2, <4>1, <4>2, <4>3, <4>4, <2>7, <1>1
      <4>5. CASE j # sj
        <5>1. P(j) = S(j)
          BY <3>1, <4>1, <4>5, <1>1
        <5>2. CASE i = sj
          BY <3>1, <4>1, <4>2, <4>5, <5>1, <5>2, <2>7, <1>1
        <5>3. CASE i = sj - 1
          BY <3>1, <4>1, <4>2, <4>5, <5>1, <5>3, <2>7, <1>1
        <5>4. CASE i # sj /\ i # sj - 1
          BY <3>1, <4>1, <4>2, <4>5, <5>1, <5>4, <2>7, <1>1
        <5> QED
          BY <5>2, <5>3, <5>4
      <4> QED
        BY <4>4, <4>5
    <3>4. CASE sj > 2
      <4>1. sj' = sj - 1 /\ si' = si /\ ui' = "sort"
        BY <1>1, <1>6, <2>4, <2>8, <3>4
      <4>2. Sorted(si, sj)'
        BY <3>3, <4>1, <2>5 DEF Sorted, P
      <4> QED
        BY <4>1, <4>2
    <3>5. CASE ~ (sj > 2)
      <4>1. sj' = si + 1 /\ si' = si + 1
        BY <2>4, <3>5
      <4>2. \A i, j \in 1 .. si : i < j => P(i) >= P(j)
        BY <3>3, <3>5, <1>1
      <4>3. Sorted(si, sj)'
        <5>1. \A i, j \in 1 .. si + 1 : i < j /\ j # si + 1 => P(i) >= P(j)
          BY <4>2, <1>1
        <5> QED
          BY <5>1, <4>1, <2>5 DEF Sorted, P
      <4>4. ASSUME ui' = "shown" PROVE Sorted(Len(list), 0)'
        <5>1. si = Len(list)
          BY <4>1, <4>4, <1>1, <1>6
        <5>2. \A i, j \in 1 .. Len(list) : i < j => P(i) >= P(j)
          BY <4>2, <5>1
        <5> QED
          BY <5>2, <1>5, <2>5 DEF Sorted, P
      <4> QED
        BY <4>3, <4>4, <1>6
    <3> QED
      BY <3>4, <3>5
  <2>9. CASE ~ (a > b)
    <3>1. list' = list /\ si' = si + 1 /\ sj' = si + 1
      BY <2>4, <2>9
    <3>2. S(sj - 1) >= S(sj)
      BY <2>6, <2>9, <1>1
    <3> HIDE DEF S
    <3>3. \A i, j \in 1 .. si : i < j => S(i) >= S(j)
      <4>1. SUFFICES ASSUME NEW i \in 1 .. si, NEW j \in 1 .. si, i < j
                     PROVE  S(i) >= S(j)
        OBVIOUS
      <4>2. sj \in 1 .. si /\ sj - 1 \in 1 .. si /\ si =< Len(list)
        BY <1>1
      <4>3. \A k \in 1 .. si : S(k) \in Nat
        BY <2>6, <4>2, <1>1
      <4>4. CASE j # sj
        BY <2>7, <4>1, <4>4
      <4>5. CASE j = sj /\ i = sj - 1
        BY <3>2, <4>5
      <4>6. CASE j = sj /\ i # sj - 1
        <5>1. i < sj - 1
          BY <4>1, <4>6, <1>1
        <5>2. S(i) >= S(sj - 1)
          BY <5>1, <4>2, <2>7, <1>1
        <5> QED
          BY <5>2, <3>2, <4>2, <4>3, <4>6
      <4> QED
        BY <4>4, <4>5, <4>6
    <3>4. Sorted(si, sj)'
      <4>1. \A i, j \in 1 .. si + 1 : i < j /\ j # si + 1 => S(i) >= S(j)
        BY <3>3, <1>1
      <4> QED
        BY <4>1, <3>1, <2>5 DEF Sorted, S
    <3>5. ASSUME ui' = "shown" PROVE Sorted(Len(list), 0)'
      <4>1. si = Len(list)
        BY <3>1, <3>5, <1>1, <1>6
      <4>2. \A i, j \in 1 .. Len(list) : i < j => S(i) >= S(j)
        BY <3>3, <4>1
      <4> QED
        BY <4>2, <3>1, <2>5 DEF Sorted, S
    <3> QED
      BY <3>4, <3>5, <1>6
  <2> QED
    BY <2>8, <2>9
<1>9. rooted' \subseteq DOMAIN traces' /\ \A t \in rooted' : HasRoot(t)'
  BY <1>2 DEF Sorting, HasRoot
<1> QED
  BY <1>2, <1>5, <1>7, <1>8, <1>9 DEF Sorting

-----------------------------------------------------------------------------
LEMMA MapInit == Init => MapInv
<1>1. IsFiniteSet({})
  BY FS_EmptySet
<1> QED
  BY <1>1 DEF Init, MapInv, Shape, Sorting

LEMMA AddBeginStep ==
  ASSUME MapInv, NEW s \in Spans, AddBegin(s)
  PROVE  MapInv'
<1>1. Shape'
  BY DEF MapInv, Shape, AddBegin, uiVars, IsTrace
<1>2. Sorting'
  BY SortingStays DEF MapInv, AddBegin, HasRoot, StartOf
<1> QED
  BY <1>1, <1>2 DEF MapInv

LEMMA AddInsertStep ==
  ASSUME MapInv, AddInsert
  PROVE  MapInv'
<1>1. Shape'
  <2>1. IsFiniteSet(DOMAIN traces')
    BY Inserted, FS_AddElement DEF MapInv, Shape
  <2>2. \A t \in DOMAIN traces' : IsTrace(t, traces'[t])
    BY Inserted DEF MapInv, Shape
  <2>3. adding' = adding /\ ui' = ui
    BY DEF AddInsert, uiVars
  <2> QED
    BY <2>1, <2>2, <2>3, Inserted DEF MapInv, Shape, IsTrace
<1>2. Sorting'
  BY RootsStay, SortingStays DEF MapInv, AddInsert
<1> QED
  BY <1>1, <1>2 DEF MapInv

LEMMA DurationWritten ==
  ASSUME Shape, AddDuration
  PROVE  /\ DOMAIN traces' = DOMAIN traces
         /\ traces' = [t \in DOMAIN traces' |-> traces'[t]]
         /\ \A t \in DOMAIN traces : /\ traces'[t].root = traces[t].root
                                    /\ traces'[t].kids = traces[t].kids
                                    /\ IsTrace(t, traces'[t])
<1>1. PICK d : traces' = [traces EXCEPT ![adding.trace].duration = d]
  BY DEF AddDuration
<1>2. \A t \in DOMAIN traces :
         traces'[t] = [root |-> traces[t].root, kids |-> traces[t].kids,
                       duration |-> IF t = adding.trace THEN d ELSE traces[t].duration]
  BY <1>1 DEF Shape, IsTrace
<1>3. DOMAIN traces' = DOMAIN traces /\ traces' = [t \in DOMAIN traces' |-> traces'[t]]
  BY <1>1
<1>4. ASSUME NEW t \in DOMAIN traces
      PROVE  /\ traces'[t].root = traces[t].root /\ traces'[t].kids = traces[t].kids
             /\ IsTrace(t, traces'[t])
  <2>1. PICK e : traces'[t] = [root |-> traces[t].root, kids |-> traces[t].kids, duration |-> e]
    BY <1>2
  <2>2. /\ traces'[t].root = traces[t].root /\ traces'[t].kids = traces[t].kids
        /\ traces'[t].duration = e
    BY <2>1
  <2> QED
    BY <2>1, <2>2 DEF Shape, IsTrace
<1> QED
  BY <1>3, <1>4

LEMMA AddDurationStep ==
  ASSUME MapInv, AddDuration
  PROVE  MapInv'
<1>1. Shape'
  BY DurationWritten DEF MapInv, Shape, AddDuration, uiVars, IsTrace
<1>2. Sorting'
  BY RootsStay, SortingStays DEF MapInv, AddDuration
<1> QED
  BY <1>1, <1>2 DEF MapInv

LEMMA RecentCopyStep ==
  ASSUME MapInv, RecentCopy
  PROVE  MapInv'
<1> DEFINE n == Cardinality(DOMAIN traces)
<1>1. n \in Nat
  BY FS_CardinalityType DEF MapInv, Shape
<1>2. list' \in [1 .. n -> DOMAIN traces]
  BY DEF RecentCopy, SetToSeqs
<1>3. list' \in Seq(DOMAIN traces) /\ Len(list') = n
  BY <1>1, <1>2
<1>4. Shape'
  BY DEF MapInv, Shape, RecentCopy, mapVars, IsTrace
<1>5. Sorting'
  <2>1. /\ rooted' \subseteq DOMAIN traces' /\ \A t \in rooted' : HasRoot(t)'
        /\ traces' = traces /\ si' = 2 /\ sj' = 2
        /\ ui' = IF n > 1 THEN "sort" ELSE "shown"
    BY DEF RecentCopy, mapVars, HasRoot
  <2>2. ui' = "sort" => /\ si' \in Nat /\ sj' \in Nat /\ 2 =< sj' /\ sj' =< si'
                        /\ si' =< Len(list')
    BY <1>1, <1>3, <2>1
  <2>3. Sorted(si, sj)'
    BY <2>1 DEF Sorted
  <2>4. ui' \in {"shown", "walk"} => Sorted(Len(list), 0)'
    BY <1>1, <1>3, <2>1 DEF Sorted
  <2> QED
    BY <1>3, <2>1, <2>2, <2>3, <2>4 DEF Sorting
<1> QED
  BY <1>4, <1>5 DEF MapInv

LEMMA CompareStep ==
  ASSUME MapInv, Compare
  PROVE  MapInv'
<1>1. Shape'
  BY DEF MapInv, Shape, Compare, mapVars, IsTrace
<1> QED
  BY <1>1, SortStep DEF MapInv

(* Beginning or ending a walk changes neither the map nor the list. *)
LEMMA WalkStep ==
  ASSUME MapInv, WalkBegin \/ WalkEnd
  PROVE  MapInv'
<1>1. /\ UNCHANGED << mapVars, list, si, sj, rooted >>
      /\ ui \in {"shown", "walk"} /\ ui' \in {"shown", "walk"}
  BY DEF WalkBegin, WalkEnd
<1>2. Shape'
  BY <1>1 DEF MapInv, Shape, mapVars, IsTrace
<1>3. Sorting'
  BY <1>1 DEF MapInv, Sorting, mapVars, HasRoot, Sorted, StartOf, Range
<1> QED
  BY <1>2, <1>3 DEF MapInv

LEMMA MapStutter ==
  ASSUME MapInv, UNCHANGED vars
  PROVE  MapInv'
<1>1. Shape'
  BY DEF MapInv, Shape, vars, mapVars, uiVars, IsTrace
<1>2. Sorting'
  BY SortingStays DEF MapInv, vars, mapVars, HasRoot, StartOf
<1> QED
  BY <1>1, <1>2 DEF MapInv

LEMMA MapNext == MapInv /\ [Next]_vars => MapInv'
<1> SUFFICES ASSUME MapInv, [Next]_vars PROVE MapInv'
  OBVIOUS
<1>1. ASSUME NEW s \in Spans, AddBegin(s) PROVE MapInv'
  BY <1>1, AddBeginStep
<1>2. CASE AddInsert
  BY <1>2, AddInsertStep
<1>3. CASE AddDuration
  BY <1>3, AddDurationStep
<1>4. CASE RecentCopy
  BY <1>4, RecentCopyStep
<1>5. CASE Compare
  BY <1>5, CompareStep
<1>6. CASE WalkBegin \/ WalkEnd
  BY <1>6, WalkStep
<1>7. CASE UNCHANGED vars
  BY <1>7, MapStutter
<1> QED
  BY <1>1, <1>2, <1>3, <1>4, <1>5, <1>6, <1>7 DEF Next

LEMMA MapAlways == Spec => []MapInv
  BY MapInit, MapNext, PTL DEF Spec

(* A list of traces that had their root when it was taken is in order when *)
(* it is shown, although spans were added while Recent sorted it.          *)
THEOREM RootedSorted == Spec => []RootedListIsSorted
<1>1. MapInv => RootedListIsSorted
  <2> SUFFICES ASSUME MapInv, ui = "shown", ToSet(list) \subseteq rooted
               PROVE  \A i, j \in DOMAIN list : i < j =>
                         traces[list[i]].root.start >= traces[list[j]].root.start
    BY DEF RootedListIsSorted
  <2>1. Sorted(Len(list), 0)
    BY DEF MapInv, Sorting, ToSet, Range
  <2>2. DOMAIN list = 1 .. Len(list)
    BY DEF MapInv, Sorting
  <2> QED
    BY <2>1, <2>2 DEF Sorted, StartOf
<1> QED
  BY <1>1, MapAlways, PTL

-----------------------------------------------------------------------------
LEMMA AppendedSet ==
  ASSUME NEW q \in Seq(Spans), NEW s \in Spans
  PROVE  ToSet(Append(q, s)) = ToSet(q) \cup {s}
<1>1. DOMAIN q = 1 .. Len(q) /\ DOMAIN Append(q, s) = 1 .. Len(q) + 1 /\ Len(q) \in Nat
  OBVIOUS
<1>2. \A i \in 1 .. Len(q) : Append(q, s)[i] = q[i]
  OBVIOUS
<1>3. Append(q, s)[Len(q) + 1] = s
  OBVIOUS
<1>4. 1 .. Len(q) + 1 = 1 .. Len(q) \cup {Len(q) + 1}
  BY <1>1
<1> QED
  BY <1>1, <1>2, <1>3, <1>4, Zenon DEF ToSet

(* The spans of a trace are what they were and the one that came. *)
LEMMA OneMore ==
  ASSUME Shape, AddInsert, race' = "none"
  PROVE  SpansOf(traces'[adding.trace]) = SpansOf(Found(adding.trace)) \cup {adding}
<1> DEFINE f == Found(adding.trace)
           x == traces'[adding.trace]
<1>1. adding \in Spans /\ adding # NoSpan
  BY Inserted, NoSpanIsNone
<1>2. IsTrace(adding.trace, f)
  BY FoundIs
<1>3. CASE isRoot(adding)
  <2>1. x.root = adding /\ x.kids = f.kids
    BY <1>3, Inserted
  <2>2. f.root # NoSpan => f.root = adding
    BY <1>1, <1>2, <1>3, SpansAssumption DEF IsTrace
  <2> QED
    BY <1>1, <2>1, <2>2 DEF SpansOf
<1>4. CASE ~ isRoot(adding)
  <2>1. walking # adding.trace
    BY <1>4 DEF AddInsert, Collide
  <2>2. x.root = f.root /\ x.kids = Append(f.kids, adding)
    BY <1>4, <2>1, Inserted DEF Appended
  <2>3. ToSet(x.kids) = ToSet(f.kids) \cup {adding}
    <3>1. \A q \in Seq(Spans) : ToSet(Append(q, adding)) = ToSet(q) \cup {adding}
      BY <1>1, AppendedSet
    <3> QED
      BY <1>2, <2>2, <3>1 DEF IsTrace
  <2> QED
    BY <2>2, <2>3 DEF SpansOf
<1> QED
  BY <1>3, <1>4

LEMMA KeptStep ==
  ASSUME MapInv, SpansAreKept, [Next]_vars
  PROVE  SpansAreKept'
<1> SUFFICES ASSUME race' = "none"
             PROVE  added' = UNION { SpansOf(traces'[t]) : t \in DOMAIN traces' }
  BY DEF SpansAreKept
<1>1. race = "none"
  BY DEF Next, AddBegin, AddInsert, AddDuration, RecentCopy, Compare, WalkBegin, WalkEnd,
         Collide, vars
<1>2. added = UNION { SpansOf(traces[t]) : t \in DOMAIN traces }
  BY <1>1 DEF SpansAreKept
<1>3. CASE AddInsert
  <2>1. added' = added \cup {adding}
    BY <1>3 DEF AddInsert
  <2>2. SpansOf(traces'[adding.trace]) = SpansOf(Found(adding.trace)) \cup {adding}
    BY <1>3, OneMore DEF MapInv
  <2>3. /\ DOMAIN traces' = DOMAIN traces \cup {adding.trace}
        /\ \A t \in DOMAIN traces : t # adding.trace => traces'[t] = traces[t]
    BY <1>3, Inserted DEF MapInv
  <2>4. CASE adding.trace \in DOMAIN traces
    <3>1. Found(adding.trace) = traces[adding.trace]
      BY <2>4 DEF Found
    <3> QED
      BY <1>2, <2>1, <2>2, <2>3, <2>4, <3>1
  <2>5. CASE adding.trace \notin DOMAIN traces
    <3>1. SpansOf(Found(adding.trace)) = {}
      BY <2>5 DEF Found, SpansOf, ToSet
    <3> QED
      BY <1>2, <2>1, <2>2, <2>3, <2>5, <3>1
  <2> QED
    BY <2>4, <2>5
<1>4. CASE AddDuration
  <2>1. added' = added
    BY <1>4 DEF AddDuration
  <2>2. /\ DOMAIN traces' = DOMAIN traces
        /\ \A t \in DOMAIN traces : SpansOf(traces'[t]) = SpansOf(traces[t])
    BY <1>4, DurationWritten DEF MapInv, SpansOf
  <2> QED
    BY <1>2, <2>1, <2>2
<1>5. CASE ~ AddInsert /\ ~ AddDuration
  <2>1. traces' = traces /\ added' = added
    BY <1>5 DEF Next, AddBegin, RecentCopy, Compare, WalkBegin, WalkEnd, mapVars, vars
  <2> QED
    BY <1>2, <2>1
<1> QED
  BY <1>3, <1>4, <1>5

(* Until a race, a span that was added is in its trace for good, as its    *)
(* root or among the children, in whatever order it and its root came.     *)
THEOREM SpansKept == Spec => []SpansAreKept
<1>1. Init => SpansAreKept
  BY DEF Init, SpansAreKept
<1>2. MapInv /\ SpansAreKept /\ [Next]_vars => SpansAreKept'
  BY KeptStep
<1> QED
  BY <1>1, <1>2, MapAlways, PTL DEF Spec

-----------------------------------------------------------------------------
(* The durations.  A set that grows by one element at a time always has a  *)
(* greatest one, so that the invariant carries it along.                   *)
IsMax(S, m) == m \in S /\ \A y \in S : m >= y

LEMMA MaxIs ==
  ASSUME NEW S \in SUBSET Int, NEW m, IsMax(S, m)
  PROVE  Max(S) = m
<1>1. m \in S /\ \A y \in S : m >= y
  BY DEF IsMax
<1>2. Max(S) \in S /\ \A y \in S : Max(S) >= y
  BY <1>1 DEF Max
<1>3. Max(S) >= m /\ m >= Max(S) /\ Max(S) \in Int /\ m \in Int
  BY <1>1, <1>2
<1> QED
  BY <1>3

LEMMA MaxGrows ==
  ASSUME NEW S \in SUBSET Int, NEW x \in Int, S = {} \/ \E m : IsMax(S, m)
  PROVE  \E m : IsMax(S \cup {x}, m)
<1>1. CASE S = {}
  BY <1>1 DEF IsMax
<1>2. ASSUME NEW m, IsMax(S, m) PROVE \E n : IsMax(S \cup {x}, n)
  <2>1. CASE m >= x
    BY <1>2, <2>1 DEF IsMax
  <2>2. CASE ~ (m >= x)
    <3>1. IsMax(S \cup {x}, x)
      BY <1>2, <2>2 DEF IsMax
    <3> QED
      BY <3>1
  <2> QED
    BY <2>1, <2>2
<1> QED
  BY <1>1, <1>2

Mine(t) == { s \in added : s.trace = t }
Pending(t) == IF phase = "duration" /\ adding.trace = t THEN {adding} ELSE {}
Ends(S) == { s.end : s \in S }
Lengths(S) == { s.end - s.start : s \in S }

(* Up to a race: a trace has the spans added to it, its children are no    *)
(* roots, and its duration is what it should be; between the two steps of  *)
(* Add it is that of the spans before, and one of a root is not kept yet.  *)
Holds(x, mine) ==
    /\ SpansOf(x) = mine
    /\ \A s \in ToSet(x.kids) : ~ isRoot(s)
    /\ \E m : IsMax(Ends(mine), m)

Measured(x, mine, pending) ==
    IF x.root # NoSpan
    THEN pending = {} => \E m : IsMax(Ends(mine), m) /\ x.duration = m - x.root.start
    ELSE /\ x.duration \in Lengths(mine) \cup {0}
         /\ \A s \in mine \ pending : s.end - s.start =< x.duration

DurationInv ==
    /\ added \subseteq Spans
    /\ \A s \in added : s.trace \in DOMAIN traces
    /\ phase = "duration" => adding \in added
    /\ \A t \in DOMAIN traces : /\ Holds(traces[t], Mine(t))
                               /\ Measured(traces[t], Mine(t), Pending(t))

LEMMA SpanNumbers ==
  ASSUME NEW S \in SUBSET Spans
  PROVE  /\ Ends(S) \in SUBSET Int /\ Lengths(S) \in SUBSET Nat
         /\ \A s \in S : s.end - s.start \in Nat /\ s.start \in Nat
  BY SpansAssumption DEF Ends, Lengths

(* What an insertion does to the trace: x was it, or an empty one.         *)
LEMMA InsertedHolds ==
  ASSUME NEW x, NEW mine \in SUBSET Spans, NEW s \in Spans, NEW y,
         SpansOf(x) = mine, \A k \in ToSet(x.kids) : ~ isRoot(k), x.kids \in Seq(Spans),
         mine = {} \/ \E m : IsMax(Ends(mine), m),
         SpansOf(y) = mine \cup {s},
         y.kids = IF isRoot(s) THEN x.kids ELSE Append(x.kids, s)
  PROVE  Holds(y, mine \cup {s})
<1>1. \A k \in ToSet(y.kids) : ~ isRoot(k)
  BY AppendedSet
<1>2. \E m : IsMax(Ends(mine \cup {s}), m)
  <2>1. Ends(mine \cup {s}) = Ends(mine) \cup {s.end}
    BY DEF Ends
  <2>2. Ends(mine) \in SUBSET Int /\ s.end \in Int
    BY SpanNumbers, SpansAssumption
  <2>3. Ends(mine) = {} \/ \E m : IsMax(Ends(mine), m)
    BY DEF Ends
  <2>4. \E m : IsMax(Ends(mine) \cup {s.end}, m)
    BY <2>2, <2>3, MaxGrows
  <2> QED
    BY <2>1, <2>4
<1> QED
  BY <1>1, <1>2 DEF Holds

LEMMA InsertedMeasured ==
  ASSUME NEW x, NEW mine \in SUBSET Spans, NEW s \in Spans, NEW y,
         x.root = NoSpan => /\ x.duration \in Lengths(mine) \cup {0}
                            /\ \A k \in mine : k.end - k.start =< x.duration,
         y.root = NoSpan => x.root = NoSpan, y.duration = x.duration
  PROVE  Measured(y, mine \cup {s}, {s})
<1>1. CASE y.root # NoSpan
  BY <1>1 DEF Measured
<1>2. CASE y.root = NoSpan
  <2>1. Lengths(mine) \subseteq Lengths(mine \cup {s})
    BY DEF Lengths
  <2> QED
    BY <1>2, <2>1 DEF Measured
<1> QED
  BY <1>1, <1>2

LEMMA DurationOfInsert ==
  ASSUME MapInv, DurationInv, AddInsert, race' = "none"
  PROVE  DurationInv'
<1> DEFINE u == adding.trace
           f == Found(u)
<1>1. /\ adding \in Spans /\ phase' = "duration" /\ adding' = adding /\ phase = "insert"
      /\ added' = added \cup {adding}
      /\ DOMAIN traces' = DOMAIN traces \cup {u}
      /\ \A t \in DOMAIN traces : t # u => traces'[t] = traces[t]
  BY Inserted DEF MapInv, AddInsert
<1>2. added' \subseteq Spans /\ \A s \in added' : s.trace \in DOMAIN traces'
  BY <1>1 DEF DurationInv
<1>3. ASSUME NEW t \in DOMAIN traces, t # u
      PROVE  Holds(traces'[t], Mine(t)') /\ Measured(traces'[t], Mine(t)', Pending(t)')
  <2>1. Mine(t)' = Mine(t) /\ traces'[t] = traces[t]
    BY <1>1, <1>3 DEF Mine
  <2>2. Pending(t)' = Pending(t)
    BY <1>1, <1>3 DEF Pending
  <2> QED
    BY <1>3, <2>1, <2>2 DEF DurationInv
<1>4. Holds(traces'[u], Mine(u)') /\ Measured(traces'[u], Mine(u)', Pending(u)')
  <2>1. Mine(u)' = Mine(u) \cup {adding} /\ Mine(u) \in SUBSET Spans
    BY <1>1 DEF Mine, DurationInv
  <2>2. Pending(u)' = {adding} /\ Pending(u) = {}
    BY <1>1 DEF Pending
  <2>3. /\ SpansOf(f) = Mine(u) /\ \A s \in ToSet(f.kids) : ~ isRoot(s)
        /\ Mine(u) = {} \/ \E m : IsMax(Ends(Mine(u)), m)
        /\ f.root = NoSpan => /\ f.duration \in Lengths(Mine(u)) \cup {0}
                              /\ \A s \in Mine(u) : s.end - s.start =< f.duration
    <3>1. CASE u \in DOMAIN traces
      <4>1. f = traces[u] /\ Holds(f, Mine(u)) /\ Measured(f, Mine(u), {})
        BY <2>2, <3>1 DEF Found, DurationInv
      <4> QED
        BY <4>1 DEF Holds, Measured
    <3>2. CASE u \notin DOMAIN traces
      <4>1. f = [root |-> NoSpan, kids |-> << >>, duration |-> 0] /\ Mine(u) = {}
        BY <3>2 DEF Found, Mine, DurationInv
      <4>2. f.kids = << >> /\ f.root = NoSpan /\ f.duration = 0
        BY <4>1
      <4>3. ToSet(<< >>) = {}
        BY DEF ToSet
      <4>4. SpansOf(f) = {}
        BY <4>2, <4>3 DEF SpansOf
      <4> QED
        BY <4>1, <4>2, <4>3, <4>4
    <3> QED
      BY <3>1, <3>2
  <2>4. SpansOf(traces'[u]) = Mine(u) \cup {adding}
    BY <2>3, OneMore DEF MapInv
  <2>5. traces'[u].kids = IF isRoot(adding) THEN f.kids ELSE Append(f.kids, adding)
    <3>1. CASE isRoot(adding)
      BY <3>1, Inserted DEF MapInv
    <3>2. CASE ~ isRoot(adding)
      <4>1. walking # u
        BY <3>2 DEF AddInsert, Collide
      <4> QED
        BY <3>2, <4>1, Inserted DEF Appended, MapInv
    <3> QED
      BY <3>1, <3>2
  <2>6. /\ f.kids \in Seq(Spans) /\ traces'[u].duration = f.duration
        /\ traces'[u].root = NoSpan => f.root = NoSpan
    BY <1>1, FoundIs, Inserted, DurationKept, NoSpanIsNone DEF MapInv, IsTrace
  <2>7. Holds(traces'[u], Mine(u) \cup {adding})
    BY <1>1, <2>1, <2>3, <2>4, <2>5, <2>6, InsertedHolds
  <2>8. Measured(traces'[u], Mine(u) \cup {adding}, {adding})
    BY <1>1, <2>1, <2>3, <2>6, InsertedMeasured
  <2> QED
    BY <2>1, <2>2, <2>7, <2>8
<1>5. adding' \in added'
  BY <1>1
<1> QED
  BY <1>1, <1>2, <1>3, <1>4, <1>5 DEF DurationInv

(* The greater of a duration and the length of a span. *)
LEMMA MaxOfTwo ==
  ASSUME NEW d \in Int, NEW x \in Int
  PROVE  /\ Max({d, x}) \in {d, x} /\ Max({d, x}) >= d /\ Max({d, x}) >= x
<1>1. PICK m : IsMax({d} \cup {x}, m)
  <2>1. IsMax({d}, d)
    BY DEF IsMax
  <2> QED
    BY <2>1, MaxGrows
<1>2. {d} \cup {x} = {d, x}
  OBVIOUS
<1>3. Max({d, x}) = m
  BY <1>1, <1>2, MaxIs
<1> QED
  BY <1>1, <1>2, <1>3 DEF IsMax

(* What the second step of Add does to the duration of x. *)
LEMMA Remeasured ==
  ASSUME NEW t, NEW x, IsTrace(t, x), NEW mine \in SUBSET Spans, NEW s \in mine,
         Holds(x, mine), Measured(x, mine, {s}), NEW y, y.root = x.root,
         y.duration = IF x.root # NoSpan THEN traceLatestEnd(x) - x.root.start
                      ELSE Max({x.duration, s.end - s.start})
  PROVE  Measured(y, mine, {})
<1>1. CASE x.root # NoSpan
  <2>1. PICK m : IsMax(Ends(mine), m)
    BY DEF Holds
  <2>2. traceLatestEnd(x) = Max(Ends(mine))
    BY DEF traceLatestEnd, Holds, Ends
  <2>3. traceLatestEnd(x) = m
    BY <2>1, <2>2, MaxIs, SpanNumbers
  <2> QED
    BY <1>1, <2>1, <2>3 DEF Measured
<1>2. CASE x.root = NoSpan
  <2> DEFINE d == x.duration
             l == s.end - s.start
  <2>1. l \in Lengths(mine) /\ l \in Nat /\ Lengths(mine) \subseteq Nat
    BY SpanNumbers DEF Lengths
  <2>2. d \in Lengths(mine) \cup {0} /\ d \in Nat
    BY <1>2, <2>1 DEF Measured
  <2>3. y.duration = Max({d, l})
    BY <1>2
  <2>4. \A k \in mine : k.end - k.start \in Nat /\ (k # s => k.end - k.start =< d)
    BY <1>2, SpanNumbers DEF Measured
  <2> HIDE DEF d
  <2>5. y.duration \in {d, l} /\ y.duration >= d /\ y.duration >= l
    BY <2>1, <2>2, <2>3, MaxOfTwo
  <2>6. y.duration \in Lengths(mine) \cup {0} /\ y.duration \in Nat
    BY <2>1, <2>2, <2>5
  <2>7. ASSUME NEW k \in mine PROVE k.end - k.start =< y.duration
    <3>1. CASE k = s
      BY <2>5, <2>6, <2>1, <3>1
    <3>2. CASE k # s
      BY <2>2, <2>4, <2>5, <2>6, <3>2
    <3> QED
      BY <3>1, <3>2
  <2> QED
    BY <1>2, <2>6, <2>7 DEF Measured
<1> QED
  BY <1>1, <1>2

LEMMA DurationOfAdd ==
  ASSUME MapInv, DurationInv, AddDuration
  PROVE  DurationInv'
<1> DEFINE u == adding.trace
<1>1. /\ adding \in Spans /\ adding \in added /\ u \in DOMAIN traces /\ phase = "duration"
      /\ phase' = "idle" /\ added' = added
  BY DEF MapInv, Shape, DurationInv, AddDuration
<1>2. /\ DOMAIN traces' = DOMAIN traces
      /\ \A t \in DOMAIN traces : /\ traces'[t].root = traces[t].root
                                 /\ traces'[t].kids = traces[t].kids
      /\ \A t \in DOMAIN traces : t # u => traces'[t] = traces[t]
  BY DurationWritten DEF MapInv, AddDuration
<1>3. \A t \in DOMAIN traces : Mine(t)' = Mine(t) /\ Pending(t)' = {}
  BY <1>1 DEF Mine, Pending
<1>4. ASSUME NEW t \in DOMAIN traces PROVE Holds(traces'[t], Mine(t)')
  <2>1. Holds(traces[t], Mine(t))
    BY <1>4 DEF DurationInv
  <2>2. traces'[t].root = traces[t].root /\ traces'[t].kids = traces[t].kids
    BY <1>2, <1>4
  <2>3. Holds(traces'[t], Mine(t))
    BY <2>1, <2>2 DEF Holds, SpansOf
  <2> QED
    BY <1>3, <1>4, <2>3
<1>5. ASSUME NEW t \in DOMAIN traces, t # u PROVE Measured(traces'[t], Mine(t)', Pending(t)')
  <2>1. Pending(t) = {}
    BY <1>1, <1>5 DEF Pending
  <2>2. Measured(traces[t], Mine(t), {})
    BY <1>5, <2>1 DEF DurationInv
  <2> QED
    BY <1>2, <1>3, <1>5, <2>2
<1>6. ASSUME NEW t \in DOMAIN traces, t = u PROVE Measured(traces'[t], Mine(t)', Pending(t)')
  <2>1. Pending(u) = {adding}
    BY <1>1 DEF Pending
  <2>2. /\ Holds(traces[u], Mine(u)) /\ Measured(traces[u], Mine(u), {adding})
        /\ IsTrace(u, traces[u]) /\ Mine(u) \in SUBSET Spans /\ adding \in Mine(u)
    BY <1>1, <2>1 DEF DurationInv, MapInv, Shape, Mine
  <2>3. traces'[u].duration = IF traces[u].root # NoSpan
                              THEN traceLatestEnd(traces[u]) - traces[u].root.start
                              ELSE Max({traces[u].duration, adding.end - adding.start})
    BY <1>1, <2>2 DEF AddDuration, IsTrace
  <2>4. traces'[u].root = traces[u].root
    BY <1>1, <1>2
  <2>5. Measured(traces'[u], Mine(u), {})
    BY <2>2, <2>3, <2>4, Remeasured
  <2> QED
    BY <1>3, <1>6, <2>5
<1>7. /\ added' \subseteq Spans /\ \A s \in added' : s.trace \in DOMAIN traces'
  BY <1>1, <1>2 DEF DurationInv
<1> QED
  BY <1>1, <1>2, <1>4, <1>5, <1>6, <1>7 DEF DurationInv

(* The other steps touch neither the traces nor what is being added after  *)
(* it was inserted.                                                        *)
LEMMA DurationElsewhere ==
  ASSUME DurationInv, traces' = traces, added' = added,
         \/ phase' # "duration" /\ phase # "duration"
         \/ phase' = phase /\ adding' = adding
  PROVE  DurationInv'
<1>1. \A t \in DOMAIN traces : Mine(t)' = Mine(t) /\ Pending(t)' = Pending(t)
  BY DEF Mine, Pending
<1>2. \A t \in DOMAIN traces' : /\ Holds(traces'[t], Mine(t)')
                               /\ Measured(traces'[t], Mine(t)', Pending(t)')
  BY <1>1 DEF DurationInv
<1> QED
  BY <1>2 DEF DurationInv

LEMMA DurationNext ==
  ASSUME MapInv, race = "none" => DurationInv, [Next]_vars
  PROVE  race' = "none" => DurationInv'
<1> SUFFICES ASSUME race' = "none" PROVE DurationInv'
  OBVIOUS
<1>1. DurationInv
  BY DEF Next, AddBegin, AddInsert, AddDuration, RecentCopy, Compare, WalkBegin, WalkEnd,
         Collide, vars
<1>2. CASE AddInsert
  BY <1>1, <1>2, DurationOfInsert
<1>3. CASE AddDuration
  BY <1>1, <1>3, DurationOfAdd
<1>4. CASE \E s \in Spans : AddBegin(s)
  <2>1. traces' = traces /\ added' = added /\ phase' # "duration" /\ phase # "duration"
    BY <1>4 DEF AddBegin
  <2> QED
    BY <1>1, <2>1, DurationElsewhere
<1>5. CASE RecentCopy \/ Compare \/ WalkBegin \/ WalkEnd \/ UNCHANGED vars
  <2>1. UNCHANGED mapVars
    BY <1>5 DEF RecentCopy, Compare, WalkBegin, WalkEnd, vars
  <2>2. traces' = traces /\ added' = added /\ phase' = phase /\ adding' = adding
    BY <2>1 DEF mapVars
  <2> QED
    BY <1>1, <2>2, DurationElsewhere
<1> QED
  BY <1>2, <1>3, <1>4, <1>5 DEF Next

(* Until a race, the duration of a trace is that of the spans it has been  *)
(* given, in whatever order, whenever its root came and however often.     *)
THEOREM DurationOrderFree == Spec => []DurationIsOrderFree
<1>1. Init => (race = "none" => DurationInv)
  BY DEF Init, DurationInv
<1>2. (race = "none" => DurationInv) /\ MapInv => DurationIsOrderFree
  <2> SUFFICES ASSUME DurationInv, MapInv, NEW t \in DOMAIN traces, Settled(t)
               PROVE  traces[t].duration =
                        IF \E s \in Mine(t) : isRoot(s)
                        THEN Max(Ends(Mine(t))) - (CHOOSE s \in Mine(t) : isRoot(s)).start
                        ELSE Max(Lengths(Mine(t)))
    BY Zenon DEF DurationIsOrderFree, Mine, Ends, Lengths
  <2> DEFINE x == traces[t]
             mine == Mine(t)
  <2>1. Holds(x, mine) /\ Measured(x, mine, {}) /\ mine \in SUBSET Spans /\ IsTrace(t, x)
    BY DEF DurationInv, Mine, MapInv, Shape, Settled, Pending
  <2>2. Ends(mine) \in SUBSET Int /\ Lengths(mine) \in SUBSET Nat
    BY <2>1, SpanNumbers
  <2>3. CASE x.root # NoSpan
    <3>1. x.root \in mine /\ isRoot(x.root)
      BY <2>1, <2>3 DEF Holds, SpansOf, IsTrace
    <3>2. \A s \in mine : isRoot(s) => s = x.root
      BY <2>1, <3>1, SpansAssumption DEF Mine
    <3>3. (CHOOSE s \in mine : isRoot(s)) = x.root
      BY <3>1, <3>2
    <3>4. x.duration = Max(Ends(mine)) - x.root.start
      BY <2>1, <2>2, <2>3, MaxIs DEF Measured
    <3> QED
      BY <3>1, <3>3, <3>4
  <2>4. CASE x.root = NoSpan
    <3>1. \A s \in mine : ~ isRoot(s)
      BY <2>1, <2>4 DEF Holds, SpansOf
    <3> DEFINE d == x.duration
    <3>2. d \in Lengths(mine) \cup {0} /\ \A l \in Lengths(mine) : l =< d
      BY <2>1, <2>4 DEF Measured, Lengths
    <3>3. Lengths(mine) # {}
      BY <2>1 DEF Holds, IsMax, Ends, Lengths
    <3>4. IsMax(Lengths(mine), d)
      <4> HIDE DEF d, mine
      <4>1. d \in Nat
        BY <2>2, <3>2
      <4>2. d \in Lengths(mine)
        BY <2>2, <3>2, <3>3, <4>1
      <4> QED
        BY <2>2, <3>2, <4>1, <4>2 DEF IsMax
    <3>5. Max(Lengths(mine)) = d
      BY <2>2, <3>4, MaxIs
    <3> QED
      BY <3>1, <3>5
  <2> QED
    BY <2>3, <2>4
<1>3. MapInv /\ (race = "none" => DurationInv) /\ [Next]_vars
         => (race = "none" => DurationInv)'
  BY DurationNext
<1> QED
  BY <1>1, <1>2, <1>3, MapAlways, PTL DEF Spec
-----------------------------------------------------------------------------
(* The types.  After a race a list of children may have lost a span, and   *)
(* the durations are still natural numbers: the latest end of the spans    *)
(* that are left is not before that of the root, if there is one.          *)
LEMMA LatestOfAll ==
  ASSUME NEW kids \in Seq(Spans), NEW r \in Int
  PROVE  \E m : IsMax(Ends(ToSet(kids)) \cup {r}, m)
<1> DEFINE E(n) == {kids[i].end : i \in 1 .. n} \cup {r}
           U == {n \in 0 .. Len(kids) : \E m : IsMax(E(n), m)}
<1>0. Len(kids) \in Nat /\ DOMAIN kids = 1 .. Len(kids)
  OBVIOUS
<1>1. \A i \in 1 .. Len(kids) : kids[i].end \in Int
  BY SpansAssumption
<1>2. 0 \in U
  <2>1. E(0) = {r}
    OBVIOUS
  <2>2. IsMax(E(0), r)
    BY <2>1 DEF IsMax
  <2>3. 0 \in 0 .. Len(kids)
    BY <1>0
  <2> HIDE DEF E
  <2> QED
    BY <2>2, <2>3
<1>3. ASSUME NEW n \in 0 .. Len(kids) - 1, n \in U PROVE n + 1 \in U
  <2>1. n + 1 \in 1 .. Len(kids) /\ 1 .. n + 1 = 1 .. n \cup {n + 1} /\ n + 1 \in 0 .. Len(kids)
    BY <1>0
  <2>2. E(n + 1) = E(n) \cup {kids[n + 1].end}
    BY <2>1
  <2>3. E(n) \in SUBSET Int /\ kids[n + 1].end \in Int
    BY <1>0, <1>1, <2>1
  <2>4. \E m : IsMax(E(n), m)
    BY <1>3
  <2> HIDE DEF E
  <2>5. \E m : IsMax(E(n) \cup {kids[n + 1].end}, m)
    BY <2>3, <2>4, MaxGrows
  <2>6. \E m : IsMax(E(n + 1), m)
    BY <2>2, <2>5
  <2> QED
    BY <2>1, <2>6
<1>4. Len(kids) \in U
  <2> HIDE DEF U
  <2>1. 0 .. Len(kids) \subseteq U
    BY <1>0, <1>2, <1>3, SetInductionUpTo
  <2> QED
    BY <1>0, <2>1
<1>5. Ends(ToSet(kids)) \cup {r} = E(Len(kids))
  BY <1>0 DEF Ends, ToSet
<1> QED
  BY <1>4, <1>5

LEMMA RootedDuration ==
  ASSUME NEW t, NEW x, IsTrace(t, x), x.root # NoSpan
  PROVE  traceLatestEnd(x) - x.root.start \in Nat
<1>1. /\ x.root \in Spans /\ x.kids \in Seq(Spans)
      /\ x.root.start \in Nat /\ x.root.end \in Nat /\ x.root.start =< x.root.end
  BY SpansAssumption DEF IsTrace
<1> DEFINE ends == Ends(ToSet(x.kids)) \cup {x.root.end}
<1>2. PICK m : IsMax(ends, m)
  <2>1. x.root.end \in Int
    BY <1>1
  <2>2. \E m : IsMax(Ends(ToSet(x.kids)) \cup {x.root.end}, m)
    BY <1>1, <2>1, LatestOfAll
  <2> QED
    BY <2>2
<1>3. { s.end : s \in SpansOf(x) } = ends
  BY DEF SpansOf, Ends
<1>4. ends \in SUBSET Int
  BY <1>1, SpansAssumption DEF Ends, ToSet
<1>5. traceLatestEnd(x) = m
  BY <1>2, <1>3, <1>4, MaxIs DEF traceLatestEnd
<1>6. m \in Int /\ m >= x.root.end
  BY <1>2, <1>4 DEF IsMax
<1> QED
  BY <1>1, <1>5, <1>6

LEMMA TracesTyped ==
  ASSUME MapInv, TypeOK, AddInsert \/ AddDuration
  PROVE  \A t \in DOMAIN traces' : t \in TraceIds /\ traces'[t] \in TraceStates
<1>1. MapInv'
  BY AddInsertStep, AddDurationStep
<1>2. SUFFICES \A t \in DOMAIN traces' : t \in TraceIds /\ traces'[t].duration \in Nat
  BY <1>1 DEF MapInv, Shape, IsTrace, TraceStates
<1>3. \A t \in DOMAIN traces : t \in TraceIds /\ traces[t].duration \in Nat
  BY DEF TypeOK, TraceStates
<1>4. CASE AddInsert
  <2>1. adding.trace \in TraceIds
    BY <1>4, Inserted DEF MapInv, TraceIds
  <2>2. traces'[adding.trace].duration \in Nat
    BY <1>3, <1>4, DurationKept DEF MapInv, Found
  <2>3. /\ DOMAIN traces' = DOMAIN traces \cup {adding.trace}
        /\ \A t \in DOMAIN traces : t # adding.trace => traces'[t] = traces[t]
    BY <1>4, Inserted DEF MapInv
  <2> QED
    BY <1>3, <2>1, <2>2, <2>3
<1>5. CASE AddDuration
  <2> DEFINE x == traces[adding.trace]
             d == IF x.root # NoSpan THEN traceLatestEnd(x) - x.root.start
                  ELSE Max({x.duration, adding.end - adding.start})
  <2>1. traces' = [traces EXCEPT ![adding.trace].duration = d]
    BY <1>5 DEF AddDuration
  <2>2. adding \in Spans /\ adding.trace \in DOMAIN traces /\ IsTrace(adding.trace, x)
    BY <1>5 DEF AddDuration, MapInv, Shape
  <2>3. d \in Nat
    <3>1. CASE x.root # NoSpan
      BY <2>2, <3>1, RootedDuration
    <3>2. CASE x.root = NoSpan
      <4>1. x.duration \in Nat /\ adding.end - adding.start \in Nat
        BY <1>3, <2>2, SpansAssumption
      <4>2. Max({x.duration, adding.end - adding.start}) \in {x.duration, adding.end - adding.start}
        <5>1. x.duration \in Int /\ adding.end - adding.start \in Int
          BY <4>1
        <5> QED
          BY <5>1, MaxOfTwo
      <4> QED
        BY <3>2, <4>1, <4>2
    <3> QED
      BY <3>1, <3>2
  <2> HIDE DEF d
  <2>4. \A t \in DOMAIN traces : traces'[t].duration = IF t = adding.trace THEN d ELSE traces[t].duration
    BY <2>1 DEF MapInv, Shape, IsTrace
  <2>5. DOMAIN traces' = DOMAIN traces
    BY <2>1
  <2> QED
    BY <1>3, <2>3, <2>4, <2>5
<1> QED
  BY <1>4, <1>5

LEMMA TypesNext ==
  ASSUME MapInv, MapInv', TypeOK, [Next]_vars
  PROVE  TypeOK'
<1>1. list' \in Seq(TraceIds) /\ rooted' \subseteq TraceIds
  <2>1. DOMAIN traces' \subseteq TraceIds
    <3>1. CASE AddInsert \/ AddDuration
      BY <3>1, TracesTyped
    <3>2. CASE ~ (AddInsert \/ AddDuration)
      BY <3>2 DEF TypeOK, Next, AddBegin, RecentCopy, Compare, WalkBegin, WalkEnd, mapVars, vars
    <3> QED
      BY <3>1, <3>2
  <2>2. list' \in Seq(DOMAIN traces') /\ rooted' \subseteq DOMAIN traces'
    BY DEF MapInv, Sorting
  <2> QED
    BY <2>1, <2>2
<1>2. ASSUME NEW s \in Spans, AddBegin(s) PROVE TypeOK'
  BY <1>1, <1>2, NoSpanIsNone, AddsAssumption DEF TypeOK, AddBegin, uiVars
<1>3. CASE AddInsert
  <2>1. \A t \in DOMAIN traces' : t \in TraceIds /\ traces'[t] \in TraceStates
    BY <1>3, TracesTyped
  <2>2. adding \in Spans /\ adding # NoSpan
    BY <1>3, NoSpanIsNone DEF AddInsert, MapInv, Shape
  <2>3. race' \in {"none", "unnoticed", "fatal"}
    BY <1>3 DEF AddInsert, Collide, TypeOK
  <2>4. /\ adding' = adding /\ adds' = adds /\ UNCHANGED uiVars
        /\ phase' = "duration" /\ added' = added \cup {adding}
    BY <1>3 DEF AddInsert
  <2> QED
    BY <1>1, <2>1, <2>2, <2>3, <2>4 DEF TypeOK, uiVars
<1>4. CASE AddDuration
  <2>1. \A t \in DOMAIN traces' : t \in TraceIds /\ traces'[t] \in TraceStates
    BY <1>4, TracesTyped
  <2>2. adding' = NoSpan /\ phase' = "idle" /\ UNCHANGED << added, adds, uiVars, race >>
    BY <1>4 DEF AddDuration
  <2> QED
    BY <1>1, <2>1, <2>2 DEF TypeOK, uiVars
<1>5. CASE RecentCopy
  BY <1>1, <1>5 DEF TypeOK, RecentCopy, mapVars
<1>6. CASE Compare
  <2>1. si \in Nat /\ sj \in Nat /\ 2 =< sj
    BY <1>6 DEF Compare, MapInv, Sorting
  <2>2. si' \in Nat /\ sj' \in Nat
    BY <1>6, <2>1 DEF Compare
  <2>3. race' \in {"none", "unnoticed", "fatal"} /\ ui' \in {"sort", "shown"}
    BY <1>6 DEF Compare, Collide, TypeOK
  <2>4. UNCHANGED << mapVars, walking, rooted >>
    BY <1>6 DEF Compare
  <2> QED
    BY <1>1, <2>2, <2>3, <2>4 DEF TypeOK, mapVars
<1>7. CASE WalkBegin
  <2>1. walking' \in TraceIds
    BY <1>7 DEF WalkBegin, TypeOK, ToSet
  <2>2. race' \in {"none", "unnoticed", "fatal"}
    BY <1>7 DEF WalkBegin, Collide, TypeOK
  <2>3. ui' = "walk" /\ UNCHANGED << mapVars, list, si, sj, rooted >>
    BY <1>7 DEF WalkBegin
  <2> QED
    BY <2>1, <2>2, <2>3 DEF TypeOK, mapVars
<1>8. CASE WalkEnd
  BY <1>8 DEF TypeOK, WalkEnd, mapVars
<1>9. CASE UNCHANGED vars
  BY <1>9 DEF TypeOK, vars, mapVars, uiVars
<1> QED
  BY <1>2, <1>3, <1>4, <1>5, <1>6, <1>7, <1>8, <1>9 DEF Next

(* The traces keep their types whatever the race between Add and the panel *)
(* does to a list of children: no duration is ever below zero.             *)
THEOREM TracesAreTyped == Spec => []TypeOK
<1>1. Init => TypeOK
  <2> SUFFICES ASSUME Init PROVE TypeOK
    OBVIOUS
  <2>1. DOMAIN traces = {}
    BY DEF Init
  <2> QED
    BY <2>1, AddsAssumption DEF Init, TypeOK
<1>2. MapInv /\ MapInv' /\ TypeOK /\ [Next]_vars => TypeOK'
  BY TypesNext
<1> QED
  BY <1>1, <1>2, MapAlways, PTL DEF Spec
=============================================================================
