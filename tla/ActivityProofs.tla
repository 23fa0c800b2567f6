--------------------------- MODULE ActivityProofs ---------------------------
(***************************************************************************)
(* For every capacity, also the ones NewRing corrects: a ring implements   *)
(* the window of its last Cap pushes.  And for every capacity, window and  *)
(* clock skew: the activity of a service is well typed, lastSeen covers    *)
(* its rings at every moment, and its ring stays such a window.            *)
(***************************************************************************)
EXTENDS ServiceActivity, ListProofs, FiniteSetTheorems

(* The ring. *)

(* Remainder by a positive number, for the two ranges the indices visit.   *)
LEMMA ModBelow ==
  ASSUME NEW c \in Nat \ {0}, NEW a \in 0 .. c - 1
  PROVE  a % c = a
  OBVIOUS

(* A modulus of an index less than twice the capacity. *)
LEMMA ModOnce ==
  ASSUME NEW c \in Nat \ {0}, NEW a \in c .. 2 * c - 1
  PROVE  a % c = a - c
  OBVIOUS

(* The capacity is at least one, whatever NewRing is given. *)
LEMMA CapPositive == Cap \in Nat \ {0}
  BY RingAssumption DEF Cap

-----------------------------------------------------------------------------
(* The ring's indices stay inside its allocation: store.Ring's `buf[head]`  *)
(* never panics, whatever capacity NewRing was asked for.                   *)
THEOREM RingTyped == RingSpec => []RingTypeOK
<1> USE CapPositive
<1>1. RingInit => RingTypeOK
  BY DEF RingInit, RingTypeOK, Slots
<1>2. RingTypeOK /\ [RingNext]_ringVars => RingTypeOK'
  <2> SUFFICES ASSUME RingTypeOK, [RingNext]_ringVars PROVE RingTypeOK'
    OBVIOUS
  <2>1. ASSUME NEW v \in Values, Push(v) PROVE RingTypeOK'
    <3>1. buf' \in [Slots -> Values \cup {Zero}]
      BY <2>1 DEF RingTypeOK, Push
    <3>2. head' \in Slots
      BY <2>1 DEF RingTypeOK, Push, Slots
    <3>3. count' \in 0 .. Cap
      BY <2>1 DEF RingTypeOK, Push
    <3> QED
      BY <3>1, <3>2, <3>3 DEF RingTypeOK
  <2>2. CASE UNCHANGED ringVars
    BY <2>2 DEF RingTypeOK, ringVars
  <2> QED
    BY <2>1, <2>2 DEF RingNext
<1> QED
  BY <1>1, <1>2, PTL DEF RingSpec

-----------------------------------------------------------------------------
(* Where the oldest of c entries is when h is written next, without the    *)
(* remainder.                                                              *)
LEMMA StartSlot ==
  ASSUME NEW h \in Slots, NEW c \in 0 .. Cap
  PROVE  /\ (h - c + Cap) % Cap \in Slots
         /\ h >= c => (h - c + Cap) % Cap = h - c
         /\ h < c => (h - c + Cap) % Cap = h - c + Cap
<1> USE CapPositive DEF Slots
<1>1. CASE h >= c
  <2>1. h - c + Cap \in Cap .. 2 * Cap - 1
    BY <1>1
  <2>2. \A x \in Cap .. 2 * Cap - 1 : x % Cap = x - Cap
    BY ModOnce
  <2> QED
    BY <1>1, <2>1, <2>2
<1>2. CASE h < c
  <2>1. h - c + Cap \in 0 .. Cap - 1
    BY <1>2
  <2>2. \A x \in 0 .. Cap - 1 : x % Cap = x
    BY ModBelow
  <2> QED
    BY <1>2, <2>1, <2>2
<1> QED
  BY <1>1, <1>2

(* One step around the ring. *)
LEMMA NextSlot ==
  ASSUME NEW h \in Slots
  PROVE  (h + 1) % Cap = IF h = Cap - 1 THEN 0 ELSE h + 1
<1> USE CapPositive DEF Slots
<1>1. CASE h = Cap - 1
  BY <1>1, ModOnce
<1>2. CASE h # Cap - 1
  BY <1>2, ModBelow
<1> QED
  BY <1>1, <1>2

(* The slot a valid entry is read from, without the remainder. *)
LEMMA EntrySlot ==
  ASSUME NEW s \in Slots, NEW i \in 1 .. Cap
  PROVE  /\ (s + i - 1) % Cap \in Slots
         /\ s + i - 1 < Cap => (s + i - 1) % Cap = s + i - 1
         /\ s + i - 1 >= Cap => (s + i - 1) % Cap = s + i - 1 - Cap
<1> USE CapPositive DEF Slots
<1>1. CASE s + i - 1 < Cap
  <2>1. s + i - 1 \in 0 .. Cap - 1
    BY <1>1
  <2> QED
    BY <1>1, <2>1, ModBelow
<1>2. CASE s + i - 1 >= Cap
  <2>1. s + i - 1 \in Cap .. 2 * Cap - 1
    BY <1>2
  <2> QED
    BY <1>2, <2>1, ModOnce
<1> QED
  BY <1>1, <1>2

(* What a push does to the copy a reader gets, in a ring with room left:   *)
(* the oldest entry stays where it is and one more follows the newest.     *)
LEMMA PushWithRoom ==
  ASSUME RingTypeOK, NEW v \in Values, Push(v), count < Cap
  PROVE  Slice' = Append(Slice, v)
<1> USE CapPositive DEF RingTypeOK, Slots
<1>1. /\ count' = count + 1
      /\ head' = (IF head = Cap - 1 THEN 0 ELSE head + 1)
      /\ buf' = [buf EXCEPT ![head] = v]
  BY NextSlot DEF Push
<1>2. Start' = Start /\ Start \in Slots
  <2>1. Start' = (head' - count' + Cap) % Cap
    BY DEF Start
  <2> QED
    BY <1>1, <2>1, StartSlot DEF Start
<1>3. (Start + count) % Cap = head
  BY <1>2, EntrySlot, StartSlot, count + 1 \in 1 .. Cap DEF Start
<1>4. \A i \in 1 .. count : (Start + i - 1) % Cap # head
  BY <1>2, EntrySlot, StartSlot DEF Start
<1>5. Slice' = [i \in 1 .. count + 1 |-> buf'[(Start + i - 1) % Cap]]
  BY <1>1, <1>2 DEF Slice
<1>6. \A i \in 1 .. count + 1 :
         buf'[(Start + i - 1) % Cap] = IF i = count + 1 THEN v ELSE Slice[i]
  <2> TAKE i \in 1 .. count + 1
  <2>1. CASE i = count + 1
    <3>1. Start + i - 1 = Start + count
      BY <1>2, <2>1
    <3> QED
      BY <1>1, <1>3, <2>1, <3>1
  <2>2. CASE i # count + 1
    <3>1. i \in 1 .. count /\ i \in 1 .. Cap
      BY <2>2
    <3>2. Slice[i] = buf[(Start + i - 1) % Cap]
      BY <3>1 DEF Slice
    <3>3. buf'[(Start + i - 1) % Cap] = buf[(Start + i - 1) % Cap]
      BY <1>1, <1>2, <1>4, <3>1, EntrySlot
    <3> QED
      BY <2>2, <3>2, <3>3
  <2> QED
    BY <2>1, <2>2
<1>7. Slice' = [i \in 1 .. count + 1 |-> IF i = count + 1 THEN v ELSE Slice[i]]
  BY <1>5, <1>6
<1>8. Slice \in Seq(Values \cup {Zero}) /\ Len(Slice) = count
  BY <1>2, EntrySlot DEF Slice
<1> QED
  BY <1>7, <1>8

(* A sequence that loses its first element and gains one at the end. *)
LEMMA Slid ==
  ASSUME NEW X, NEW s \in Seq(X), s # << >>, NEW x \in X
  PROVE  Append(Tail(s), x) = [i \in 1 .. Len(s) |-> IF i = Len(s) THEN x ELSE s[i + 1]]
<1> DEFINE t == Append(Tail(s), x)
<1>1. /\ t \in Seq(X) /\ Len(t) = Len(s)
      /\ \A i \in 1 .. Len(s) : t[i] = IF i = Len(s) THEN x ELSE s[i + 1]
  OBVIOUS
<1> HIDE DEF t
<1>2. t = [i \in 1 .. Len(s) |-> t[i]]
  BY <1>1
<1>3. t = [i \in 1 .. Len(s) |-> IF i = Len(s) THEN x ELSE s[i + 1]]
  BY <1>1, <1>2
<1> QED
  BY <1>3 DEF t

(* And in a full ring: the slot written is the oldest entry's, and the     *)
(* next one becomes the oldest.                                            *)
LEMMA PushWhenFull ==
  ASSUME RingTypeOK, NEW v \in Values, Push(v), ~(count < Cap)
  PROVE  Slice' = Append(Tail(Slice), v)
<1> USE CapPositive DEF RingTypeOK, Slots
<1>1. /\ count = Cap /\ count' = Cap
      /\ head' = (IF head = Cap - 1 THEN 0 ELSE head + 1)
      /\ buf' = [buf EXCEPT ![head] = v]
  BY NextSlot DEF Push
<1>2. Start = head /\ Start' = head'
  <2>1. Start' = (head' - count' + Cap) % Cap /\ head' \in Slots
    BY <1>1 DEF Start
  <2> QED
    BY <1>1, <2>1, StartSlot DEF Start
<1>3. (head' + Cap - 1) % Cap = head
  BY <1>1, EntrySlot, Cap \in 1 .. Cap
<1>4. \A i \in 1 .. Cap - 1 : /\ (head' + i - 1) % Cap = (head + i) % Cap
                              /\ (head' + i - 1) % Cap # head
  <2> TAKE i \in 1 .. Cap - 1
  <2>1. i \in 1 .. Cap /\ i + 1 \in 1 .. Cap /\ head' \in Slots
    BY <1>1
  <2>2. (head + (i + 1) - 1) % Cap = (head + i) % Cap
    OBVIOUS
  <2> QED
    BY <1>1, <2>1, <2>2, EntrySlot
<1>5. Slice = [i \in 1 .. Cap |-> buf[(head + i - 1) % Cap]]
  BY <1>1, <1>2 DEF Slice
<1>6. Slice' = [i \in 1 .. Cap |-> buf'[(head' + i - 1) % Cap]]
  BY <1>1, <1>2 DEF Slice
<1>7. \A i \in 1 .. Cap :
         buf'[(head' + i - 1) % Cap] = IF i = Cap THEN v ELSE Slice[i + 1]
  <2> TAKE i \in 1 .. Cap
  <2>1. CASE i = Cap
    BY <1>1, <1>3, <2>1
  <2>2. CASE i # Cap
    <3>1. i \in 1 .. Cap - 1 /\ i + 1 \in 1 .. Cap
      BY <2>2
    <3>2. Slice[i + 1] = buf[(head + (i + 1) - 1) % Cap]
      BY <1>5, <3>1
    <3>3. buf'[(head' + i - 1) % Cap] = buf[(head + i) % Cap]
      BY <1>1, <1>4, <3>1, EntrySlot
    <3> QED
      BY <2>2, <3>2, <3>3
  <2> QED
    BY <2>1, <2>2
<1>8. Slice' = [i \in 1 .. Cap |-> IF i = Cap THEN v ELSE Slice[i + 1]]
  BY <1>6, <1>7
<1>9. Slice \in Seq(Values \cup {Zero}) /\ Len(Slice) = Cap
  BY <1>1, <1>2, <1>5, EntrySlot
<1>10. Slice # << >> /\ v \in Values \cup {Zero}
  BY <1>9
<1> HIDE DEF RingTypeOK
<1> QED
  BY <1>8, <1>9, <1>10, Slid

-----------------------------------------------------------------------------
(* store.Ring keeps the last Cap pushes, oldest first: the refinement that *)
(* the run activity checks for one capacity holds for every one.               *)
THEOREM RingImplementsWindow == RingSpec => ImplementsWindow
<1>1. RingInit => W!Init
  BY DEF RingInit, W!Init, Slice
<1>2. RingTypeOK /\ [RingNext]_ringVars => [W!Next]_Slice
  <2> SUFFICES ASSUME RingTypeOK, [RingNext]_ringVars PROVE [W!Next]_Slice
    OBVIOUS
  <2>1. ASSUME NEW v \in Values, Push(v) PROVE W!Push(v)
    <3>1. Len(Slice) = count
      BY StartSlot, EntrySlot, CapPositive DEF Slice, RingTypeOK
    <3> QED
      BY <2>1, <3>1, PushWithRoom, PushWhenFull DEF W!Push, W!Slide
  <2>2. CASE UNCHANGED ringVars
    BY <2>2 DEF ringVars, Slice, Start
  <2> QED
    BY <2>1, <2>2 DEF RingNext, W!Next
<1> QED
  BY <1>1, <1>2, RingTyped, PTL DEF RingSpec, ImplementsWindow, W!Spec

-----------------------------------------------------------------------------
(* The activity of a service. *)

(* What the assumption on the constants says of instants. *)
LEMMA ConstantsTyped ==
    /\ Cap \in Nat \ {0} /\ MaxTime \in Nat /\ Skew \in Nat /\ RateWindow \in Nat
    /\ Times \subseteq Int /\ 0 \in Times /\ NoTime \in Int /\ NoTime \notin Times
    /\ \A t \in Times : t > NoTime
  BY ActivityAssumption, CapPositive DEF Times, NoTime

(* A push keeps a ring of instants within its capacity. *)
LEMMA SlideTyped ==
  ASSUME NEW r \in Seq(Times), Len(r) =< Cap, NEW t \in Times
  PROVE  /\ W!Slide(r, t) \in Seq(Times)
         /\ Len(W!Slide(r, t)) =< Cap
         /\ \A x \in Range(W!Slide(r, t)) : x \in Range(r) \/ x = t
<1>1. Cap \in Nat \ {0}
  BY ConstantsTyped
<1>2. ASSUME NEW q \in Seq(Times)
      PROVE  \A x \in Range(Append(q, t)) : x \in Range(q) \/ x = t
  BY DEF Range
<1>3. CASE Len(r) < Cap
  BY <1>1, <1>2, <1>3 DEF W!Slide
<1>4. CASE ~ (Len(r) < Cap)
  <2>1. r # << >> /\ Tail(r) \in Seq(Times) /\ Len(Tail(r)) = Len(r) - 1
    BY <1>1, <1>4
  <2>2. Range(Tail(r)) \subseteq Range(r)
    BY <2>1 DEF Range
  <2>3. W!Slide(r, t) = Append(Tail(r), t)
    BY <1>4 DEF W!Slide
  <2>4. \A x \in Range(Append(Tail(r), t)) : x \in Range(Tail(r)) \/ x = t
    BY <1>2, <2>1
  <2>5. Append(Tail(r), t) \in Seq(Times) /\ Len(Append(Tail(r), t)) = Len(r)
    BY <1>1, <1>4, <2>1
  <2> QED
    BY <2>2, <2>3, <2>4, <2>5
<1> QED
  BY <1>3, <1>4

(* What the rest of the proof needs of the ring of all timestamps: it      *)
(* starts empty, a push slides its copy, and nothing else moves it.        *)
LEMMA RingEmpty == RingInit => RingTypeOK /\ events = << >> /\ count = 0
  BY CapPositive DEF RingInit, RingTypeOK, Slots, events, Slice

LEMMA RingPushed ==
  ASSUME RingTypeOK, Len(events) = count, NEW t \in Times, Push(t)
  PROVE  RingTypeOK' /\ events' = W!Slide(events, t) /\ count' = Len(events')
<1>1. t \in Values
  BY ActivityAssumption
<1>2. RingTypeOK'
  <2>1. buf' \in [Slots -> Values \cup {Zero}] /\ count' \in 0 .. Cap
    BY <1>1, CapPositive DEF RingTypeOK, Push
  <2>2. head' \in Slots
    BY CapPositive DEF RingTypeOK, Push, Slots
  <2> QED
    BY <2>1, <2>2 DEF RingTypeOK
<1>3. events' = W!Slide(events, t)
  BY <1>1, PushWithRoom, PushWhenFull DEF events, W!Slide
<1>4. count' = Len(events')
  BY <1>2, CapPositive DEF events, Slice, RingTypeOK
<1> QED
  BY <1>2, <1>3, <1>4

LEMMA RingKept ==
  ASSUME UNCHANGED ringVars
  PROVE  UNCHANGED << events, count >> /\ RingTypeOK' = RingTypeOK
  BY DEF ringVars, events, Slice, Start, RingTypeOK

(* A count over a ring is between zero and its capacity. *)
LEMMA RecentTyped ==
  ASSUME NEW r \in Seq(Times), Len(r) =< Cap, NEW at
  PROVE  Recent(r, at) \in 0 .. Cap
<1> DEFINE n == Len(r)
           S == {i \in 1 .. n : r[i] > at - RateWindow}
<1>1. n \in Nat /\ S \in SUBSET (1 .. n)
  OBVIOUS
<1>2. IsFiniteSet(1 .. n) /\ Cardinality(1 .. n) = n
  <2> HIDE DEF n
  <2> QED
    BY <1>1, FS_Interval
<1>3. Cardinality(S) =< n /\ Cardinality(S) \in Nat
  <2> HIDE DEF S, n
  <2> QED
    BY <1>1, <1>2, FS_Subset, FS_CardinalityType
<1> QED
  BY <1>1, <1>3, ConstantsTyped DEF Recent

-----------------------------------------------------------------------------
(* lastSeen is set before the rings take the timestamp: what is on its way *)
(* into them is covered too.                                               *)
WriterCovered == writer.at # "rest" => writer.ts =< lastSeen

Covered == TypeOK /\ LastSeenCoversRings /\ WriterCovered

(* The inductive invariant holds of a fresh service. *)
LEMMA CoveredInit == Init => Covered
<1> SUFFICES ASSUME Init PROVE Covered
  OBVIOUS
<1>1. RingTypeOK /\ events = << >> /\ count = 0 /\ Range(events) = {} /\ Range(errors) = {}
  BY RingEmpty DEF Init, Range
<1>2. TypeOK
  <2>1. writer \in [at : {"rest", "events", "errors"}, ts : Times, isErr : BOOLEAN]
    BY ConstantsTyped DEF Init, Resting
  <2>2. reader \in [at : {"rest", "events", "errors", "last", "done"}, now : 0 .. MaxTime,
                    ev : 0 .. Cap, er : 0 .. Cap,
                    last : Times \cup {NoTime}, quiet : BOOLEAN]
    BY ConstantsTyped DEF Init, Unread
  <2> QED
    BY <1>1, <2>1, <2>2, ConstantsTyped DEF Init, TypeOK
<1> QED
  BY <1>1, <1>2 DEF Covered, LastSeenCoversRings, WriterCovered, Init, Resting

(* The steps of recordEvent keep the invariant. *)
LEMMA CoveredRecord ==
  ASSUME Covered, Record
  PROVE  Covered'
<1> DEFINE Readers == [at : {"rest", "events", "errors", "last", "done"}, now : 0 .. MaxTime,
                       ev : 0 .. Cap, er : 0 .. Cap,
                       last : Times \cup {NoTime}, quiet : BOOLEAN]
           Writers == [at : {"rest", "events", "errors"}, ts : Times, isErr : BOOLEAN]
           Arrivals == [ts : Times, isErr : BOOLEAN]
<1>1. ASSUME NEW isErr \in BOOLEAN, NEW ts \in Times, RecordSeen(ts, isErr)
      PROVE  Covered'
  <2>1. reader' \in Readers
    BY <1>1 DEF RecordSeen, Disturb, Covered, TypeOK
  <2>2. writer' \in Writers /\ writer'.ts = ts
    BY <1>1 DEF RecordSeen
  <2>3. arrivals' \in Seq(Arrivals)
    <3>1. [ts |-> ts, isErr |-> isErr] \in Arrivals /\ arrivals \in Seq(Arrivals)
      BY DEF Covered, TypeOK
    <3> QED
      BY <1>1, <3>1 DEF RecordSeen
  <2>4. lastSeen \in Times \cup {NoTime}
    BY DEF Covered, TypeOK
  <2>5. lastSeen' \in Times /\ lastSeen' >= lastSeen /\ lastSeen' >= ts
    BY <1>1, <2>4, ConstantsTyped DEF RecordSeen
  <2>6. TypeOK'
    BY <1>1, <2>1, <2>2, <2>3, <2>5, RingKept DEF RecordSeen, Covered, TypeOK
  <2>7. LastSeenCoversRings'
    <3>1. Range(events) \cup Range(errors) \subseteq Times
      BY DEF Covered, TypeOK, Range
    <3>2. ASSUME NEW t \in Range(events) \cup Range(errors) PROVE t =< lastSeen'
      <4>1. t =< lastSeen /\ t \in Int
        BY <3>1, ConstantsTyped DEF Covered, LastSeenCoversRings
      <4>2. lastSeen \in Int /\ lastSeen' \in Int
        BY <2>4, <2>5, ConstantsTyped
      <4> QED
        BY <2>5, <4>1, <4>2
    <3> QED
      BY <1>1, <3>2, RingKept DEF RecordSeen, LastSeenCoversRings
  <2> QED
    BY <2>2, <2>5, <2>6, <2>7 DEF Covered, WriterCovered
<1>2. ASSUME RecordEvent \/ RecordError PROVE Covered'
  <2> DEFINE ts == writer.ts
  <2>1. writer.at # "rest" /\ ts \in Times /\ ts =< lastSeen
    BY <1>2 DEF RecordEvent, RecordError, Covered, TypeOK, WriterCovered
  <2>2. reader' \in Readers
    BY <1>2 DEF RecordEvent, RecordError, Disturb, Covered, TypeOK
  <2>3. writer' \in Writers /\ (writer'.at # "rest" => writer'.ts = ts)
    <3>1. writer \in Writers /\ Resting \in Writers /\ Resting.at = "rest"
      BY ConstantsTyped DEF Resting, Covered, TypeOK
    <3>2. [writer EXCEPT !.at = "errors"] \in Writers /\ [writer EXCEPT !.at = "errors"].ts = ts
      BY <3>1
    <3>3. writer' = [writer EXCEPT !.at = "errors"] \/ writer' = Resting
      BY <1>2 DEF RecordEvent, RecordError
    <3> QED
      BY <3>1, <3>2, <3>3
  <2>4. /\ events' = events \/ events' = W!Slide(events, ts)
        /\ errors' = errors \/ errors' = W!Slide(errors, ts)
        /\ UNCHANGED << now, lastSeen, arrivals >>
        /\ RingTypeOK' /\ Len(events') = count'
    <3>1. RingTypeOK /\ Len(events) = count
      BY DEF Covered, TypeOK
    <3>2. CASE RecordEvent
      BY <2>1, <3>1, <3>2, RingPushed DEF RecordEvent
    <3>3. CASE RecordError
      BY <3>1, <3>3, RingKept DEF RecordError
    <3> QED
      BY <1>2, <3>2, <3>3
  <2> HIDE DEF ts
  <2>5. /\ events \in Seq(Times) /\ Len(events) <= Cap
        /\ errors \in Seq(Times) /\ Len(errors) <= Cap
    BY CapPositive DEF Covered, TypeOK, RingTypeOK
  <2>6. /\ events' \in Seq(Times) /\ Len(events') <= Cap
        /\ \A x \in Range(events') : x \in Range(events) \/ x = ts
    BY <2>1, <2>4, <2>5, SlideTyped
  <2>7. /\ errors' \in Seq(Times) /\ Len(errors') <= Cap
        /\ \A x \in Range(errors') : x \in Range(errors) \/ x = ts
    BY <2>1, <2>4, <2>5, SlideTyped
  <2>8. TypeOK'
    BY <2>2, <2>3, <2>4, <2>6, <2>7 DEF Covered, TypeOK
  <2>9. LastSeenCoversRings'
    BY <2>1, <2>4, <2>6, <2>7 DEF Covered, LastSeenCoversRings
  <2> QED
    BY <2>1, <2>3, <2>4, <2>8, <2>9 DEF Covered, WriterCovered
<1> QED
  BY <1>1, <1>2 DEF Record

(* The steps of ServiceStatus keep the invariant. *)
LEMMA CoveredRead ==
  ASSUME Covered, Read
  PROVE  Covered'
<1>1. UNCHANGED << now, lastSeen, ringVars, errors, writer, arrivals >>
  BY DEF Read, ReadNow, ReadEvents, ReadErrors, ReadLast, Forget
<1>2. Recent(events, reader.now) \in 0 .. Cap /\ Recent(errors, reader.now) \in 0 .. Cap
  BY RecentTyped, CapPositive DEF Covered, TypeOK, RingTypeOK
<1> DEFINE Readers == [at : {"rest", "events", "errors", "last", "done"}, now : 0 .. MaxTime,
                       ev : 0 .. Cap, er : 0 .. Cap,
                       last : Times \cup {NoTime}, quiet : BOOLEAN]
<1>3. reader' \in Readers
  <2>1. reader \in Readers /\ now \in 0 .. MaxTime /\ lastSeen \in Times \cup {NoTime}
    BY DEF Covered, TypeOK
  <2>2. Unread \in Readers
    BY ConstantsTyped DEF Unread
  <2>3. CASE ReadNow
    <3>1. reader' = [Unread EXCEPT !.at = "events", !.now = now, !.quiet = (writer.at = "rest")]
      BY <2>3 DEF ReadNow
    <3> QED
      BY <2>1, <2>2, <3>1
  <2>4. CASE ReadEvents
    BY <1>2, <2>1, <2>4 DEF ReadEvents
  <2>5. CASE ReadErrors
    BY <1>2, <2>1, <2>5 DEF ReadErrors
  <2>6. CASE ReadLast
    BY <2>1, <2>6 DEF ReadLast
  <2>7. CASE Forget
    BY <2>2, <2>7 DEF Forget
  <2> QED
    BY <2>3, <2>4, <2>5, <2>6, <2>7 DEF Read
<1>4. TypeOK'
  BY <1>1, <1>3, RingKept DEF Covered, TypeOK
<1> QED
  BY <1>1, <1>4, RingKept DEF Covered, LastSeenCoversRings, WriterCovered

(* Every step keeps the invariant. *)
LEMMA CoveredStep == Covered /\ [Next]_vars => Covered'
<1>1. ASSUME Covered, Tick PROVE Covered'
  <2>1. now' \in 0 .. MaxTime
    BY <1>1, ConstantsTyped DEF Tick, Covered, TypeOK
  <2> QED
    BY <1>1, <2>1, RingKept DEF Tick, Covered, TypeOK, LastSeenCoversRings, WriterCovered
<1>2. ASSUME Covered, UNCHANGED vars PROVE Covered'
  BY <1>2, RingKept DEF vars, Covered, TypeOK, LastSeenCoversRings, WriterCovered
<1> QED
  BY <1>1, <1>2, CoveredRecord, CoveredRead DEF Next

(* A service's activity keeps its types: no ring outgrows its capacity and *)
(* no count exceeds it.                                                    *)
THEOREM ActivityTyped == Spec => []TypeOK
  BY CoveredInit, CoveredStep, PTL DEF Spec, Covered

(* lastSeen is never behind a timestamp a reader can find in the rings,    *)
(* however early or late the timestamps are, and in mid-push too.          *)
THEOREM LastSeenIsAhead == Spec => []LastSeenCoversRings
  BY CoveredInit, CoveredStep, PTL DEF Spec, Covered

(* The ring of all timestamps stays a window of the last Cap events while  *)
(* recordEvent and ServiceStatus interleave and the clock runs.            *)
THEOREM ActivityKeepsWindow == Spec => ImplementsWindow
<1>1. Init => W!Init
  BY RingEmpty DEF Init, W!Init, events
<1>2. Covered /\ [Next]_vars => [W!Next]_Slice
  <2> SUFFICES ASSUME Covered, [Next]_vars PROVE [W!Next]_Slice
    OBVIOUS
  <2>1. CASE RecordEvent
    <3>1. writer.ts \in Times /\ Push(writer.ts) /\ RingTypeOK /\ Len(events) = count
      BY <2>1 DEF RecordEvent, Covered, TypeOK
    <3>2. Slice' = W!Slide(Slice, writer.ts)
      BY <3>1, RingPushed DEF events
    <3> QED
      BY <3>1, <3>2, ActivityAssumption DEF W!Next, W!Push
  <2>2. CASE UNCHANGED ringVars
    BY <2>2, RingKept DEF events
  <2>3. RecordEvent \/ UNCHANGED ringVars
    BY DEF Next, Record, Read, Tick, RecordSeen, RecordError, ReadNow, ReadEvents, ReadErrors,
           ReadLast, Forget, vars
  <2> QED
    BY <2>1, <2>2, <2>3
<1>3. Spec => []Covered
  BY CoveredInit, CoveredStep, PTL DEF Spec
<1> QED
  BY <1>1, <1>2, <1>3, PTL DEF Spec, ImplementsWindow, W!Spec
-----------------------------------------------------------------------------
(* What ServiceStatus reports (QuietReadIsExact).                          *)

Rows == [ts : Times, isErr : BOOLEAN]

(* The ring r holds the timestamps of the newest rows, as many as it can.  *)
Tells(r, rows) ==
    /\ Len(r) = IF Len(rows) > Cap THEN Cap ELSE Len(rows)
    /\ \A i \in 1 .. Len(r) : r[i] = rows[Len(rows) - Len(r) + i].ts

(* The rings tell of all that arrived, but for the event being recorded.   *)
RingsTell ==
    IF writer.at = "rest"
    THEN Tells(events, arrivals) /\ Tells(errors, Kept(arrivals, ErrorRows))
    ELSE \E past \in Seq(Rows) :
            /\ arrivals = Append(past, [ts |-> writer.ts, isErr |-> writer.isErr])
            /\ Tells(events, IF writer.at = "events" THEN past ELSE arrivals)
            /\ Tells(errors, Kept(past, ErrorRows))
            /\ writer.at = "errors" => writer.isErr

(* lastSeen is the latest timestamp there ever was. *)
LastIsLatest ==
    /\ \A i \in DOMAIN arrivals : arrivals[i].ts =< lastSeen
    /\ lastSeen # NoTime => \E i \in DOMAIN arrivals : arrivals[i].ts = lastSeen

(* A reader no push has disturbed has read what is there still. *)
ReaderFollows ==
    reader.at # "rest" /\ reader.quiet =>
        /\ writer.at = "rest"
        /\ reader.at \in {"errors", "last", "done"} => reader.ev = Recent(events, reader.now)
        /\ reader.at \in {"last", "done"} => reader.er = Recent(errors, reader.now)
        /\ reader.at = "done" => reader.last = lastSeen

Exact == RingsTell /\ LastIsLatest /\ ReaderFollows

(* One event more slides the ring that tells of them. *)
LEMMA SlideTells ==
  ASSUME NEW r \in Seq(Times), NEW rows \in Seq(Rows), NEW x \in Rows, Tells(r, rows)
  PROVE  Tells(W!Slide(r, x.ts), Append(rows, x))
<1> DEFINE N == Len(rows)
           k == Len(r)
           more == Append(rows, x)
<1>1. N \in Nat /\ k \in Nat /\ Cap \in Nat \ {0} /\ k = IF N > Cap THEN Cap ELSE N
  BY ConstantsTyped DEF Tells
<1>2. Len(more) = N + 1 /\ more[N + 1] = x /\ \A i \in 1 .. N : more[i] = rows[i]
  OBVIOUS
<1>3. \A i \in 1 .. k : r[i] = rows[N - k + i].ts
  BY DEF Tells
<1>4. x.ts \in Times
  BY DEF Rows
<1>5. CASE k < Cap
  <2> DEFINE w == Append(r, x.ts)
  <2>1. Len(w) = k + 1 /\ w[k + 1] = x.ts /\ \A i \in 1 .. k : w[i] = r[i]
    BY <1>4
  <2>2. W!Slide(r, x.ts) = w
    BY <1>5 DEF W!Slide
  <2> HIDE DEF w, more, N, k
  <2>3. k = N
    BY <1>1, <1>5
  <2>4. Len(w) = IF Len(more) > Cap THEN Cap ELSE Len(more)
    BY <1>1, <1>2, <1>5, <2>1, <2>3
  <2>5. ASSUME NEW i \in 1 .. Len(w) PROVE w[i] = more[Len(more) - Len(w) + i].ts
    <3>1. Len(more) - Len(w) + i = i
      BY <1>1, <1>2, <2>1, <2>3
    <3>2. CASE i = k + 1
      BY <1>2, <2>1, <2>3, <3>1, <3>2
    <3>3. CASE i # k + 1
      <4>1. i \in 1 .. k /\ i \in 1 .. N /\ N - k + i = i
        BY <1>1, <2>1, <2>3, <3>3
      <4> QED
        BY <1>2, <1>3, <2>1, <3>1, <4>1
    <3> QED
      BY <3>2, <3>3
  <2> QED
    BY <2>2, <2>4, <2>5 DEF Tells, more
<1>6. CASE ~ (k < Cap)
  <2> DEFINE w == Append(Tail(r), x.ts)
  <2>1. k = Cap /\ k >= 1 /\ N >= k
    BY <1>1, <1>6
  <2>2. /\ Len(w) = k /\ w[k] = x.ts
        /\ \A i \in 1 .. k - 1 : w[i] = r[i + 1]
    BY <1>1, <1>4, <2>1
  <2>3. W!Slide(r, x.ts) = w
    BY <1>6 DEF W!Slide
  <2> HIDE DEF w, more, N, k
  <2>4. Len(w) = IF Len(more) > Cap THEN Cap ELSE Len(more)
    BY <1>1, <1>2, <2>1, <2>2
  <2>5. ASSUME NEW i \in 1 .. Len(w) PROVE w[i] = more[Len(more) - Len(w) + i].ts
    <3>1. Len(more) - Len(w) + i = N - k + (i + 1) /\ i \in Nat
      BY <1>1, <1>2, <2>2
    <3>2. CASE i = k
      <4>1. N - k + (i + 1) = N + 1
        BY <1>1, <3>2
      <4> QED
        BY <1>2, <2>2, <3>1, <3>2, <4>1
    <3>3. CASE i # k
      <4>1. i \in 1 .. k - 1 /\ i + 1 \in 1 .. k /\ N - k + (i + 1) \in 1 .. N
        BY <1>1, <2>1, <2>2, <3>3
      <4> QED
        BY <1>2, <1>3, <2>2, <3>1, <4>1
    <3> QED
      BY <3>2, <3>3
  <2> QED
    BY <2>3, <2>4, <2>5 DEF Tells, more
<1> QED
  BY <1>5, <1>6

(* The rows of errors are rows, and those of the rest are not among them. *)
LEMMA ErrorsAreRows ==
    /\ ErrorRows \subseteq Rows
    /\ \A x \in Rows : x \in ErrorRows <=> x.isErr
  BY DEF ErrorRows, Rows

(* What the errors kept of one row more are. *)
LEMMA ErrorsOfMore ==
  ASSUME NEW past \in Seq(Rows), NEW x \in Rows
  PROVE  /\ Kept(past, ErrorRows) \in Seq(Rows)
         /\ Kept(Append(past, x), ErrorRows) =
                IF x.isErr THEN Append(Kept(past, ErrorRows), x) ELSE Kept(past, ErrorRows)
  BY KeptTyped, KeptAppend, ErrorsAreRows

(* All of it holds of a fresh service. *)
LEMMA ExactInit == Init => Exact
<1> SUFFICES ASSUME Init PROVE Exact
  OBVIOUS
<1>1. events = << >> /\ errors = << >> /\ arrivals = << >> /\ writer.at = "rest"
      /\ lastSeen = NoTime /\ reader.at = "rest"
  BY RingEmpty DEF Init, Resting, Unread
<1>2. Tells(<< >>, << >>) /\ DOMAIN << >> = {}
  BY ConstantsTyped DEF Tells
<1> QED
  BY <1>1, <1>2, KeptEmpty DEF Exact, RingsTell, LastIsLatest, ReaderFollows

(* recordEvent's first step: an event has arrived that no ring tells of. *)
LEMMA ExactSeen ==
  ASSUME Covered, Exact, NEW isErr \in BOOLEAN, NEW ts \in Times, RecordSeen(ts, isErr)
  PROVE  Exact'
<1> DEFINE x == [ts |-> ts, isErr |-> isErr]
           n == Len(arrivals)
<1>1. /\ writer.at = "rest" /\ writer' = [at |-> "events", ts |-> ts, isErr |-> isErr]
      /\ lastSeen' = (IF ts > lastSeen THEN ts ELSE lastSeen)
      /\ arrivals' = Append(arrivals, x) /\ events' = events /\ errors' = errors
  BY RingKept DEF RecordSeen
<1>2. arrivals \in Seq(Rows) /\ x \in Rows /\ lastSeen \in Times \cup {NoTime} /\ n \in Nat
  BY DEF Covered, TypeOK, Rows
<1>3. RingsTell'
  <2>1. Tells(events, arrivals) /\ Tells(errors, Kept(arrivals, ErrorRows))
    BY <1>1 DEF Exact, RingsTell
  <2>2. writer'.at = "events" /\ writer'.ts = ts /\ writer'.isErr = isErr
    BY <1>1
  <2>3. arrivals' = Append(arrivals, [ts |-> writer'.ts, isErr |-> writer'.isErr])
    BY <1>1, <2>2
  <2>4. Tells(events', arrivals) /\ Tells(errors', Kept(arrivals, ErrorRows))
    BY <1>1, <2>1
  <2> QED
    BY <1>2, <2>2, <2>3, <2>4 DEF RingsTell, Tells
<1>4. LastIsLatest'
  <2>1. /\ DOMAIN arrivals = 1 .. n /\ DOMAIN arrivals' = 1 .. n + 1
        /\ arrivals'[n + 1] = x /\ x.ts = ts
        /\ \A i \in 1 .. n : arrivals'[i] = arrivals[i] /\ arrivals[i].ts \in Times
    <3>1. \A i \in 1 .. n : arrivals[i] \in Rows
      BY <1>2
    <3>2. \A row \in Rows : row.ts \in Times
      BY DEF Rows
    <3>3. /\ DOMAIN arrivals = 1 .. n /\ DOMAIN arrivals' = 1 .. n + 1
          /\ arrivals'[n + 1] = x /\ \A i \in 1 .. n : arrivals'[i] = arrivals[i]
      BY <1>1, <1>2
    <3> QED
      BY <3>1, <3>2, <3>3
  <2>2. lastSeen \in Int /\ ts \in Int /\ lastSeen' \in Int /\ lastSeen' >= lastSeen /\ lastSeen' >= ts
    BY <1>1, <1>2, ConstantsTyped
  <2>3. ASSUME NEW i \in 1 .. n + 1 PROVE arrivals'[i].ts =< lastSeen'
    <3>1. CASE i = n + 1
      BY <2>1, <2>2, <3>1
    <3>2. CASE i # n + 1
      <4>1. i \in 1 .. n
        BY <1>2, <3>2
      <4>2. arrivals[i].ts =< lastSeen /\ arrivals[i].ts \in Int
        BY <2>1, <4>1, ConstantsTyped DEF Exact, LastIsLatest
      <4> QED
        BY <2>1, <2>2, <4>1, <4>2
    <3> QED
      BY <3>1, <3>2
  <2>4. \E i \in 1 .. n + 1 : lastSeen' # NoTime => arrivals'[i].ts = lastSeen'
    <3>1. CASE lastSeen' = ts
      BY <1>2, <2>1, <3>1, n + 1 \in 1 .. n + 1
    <3>2. CASE lastSeen' # ts
      <4>1. lastSeen' = lastSeen
        BY <1>1, <3>2
      <4>2. lastSeen # NoTime => \E i \in 1 .. n : arrivals[i].ts = lastSeen
        BY <2>1 DEF Exact, LastIsLatest
      <4>3. n + 1 \in 1 .. n + 1 /\ \A i \in 1 .. n : i \in 1 .. n + 1
        BY <1>2
      <4> QED
        BY <2>1, <4>1, <4>2, <4>3
    <3> QED
      BY <3>1, <3>2
  <2> QED
    BY <2>1, <2>3, <2>4 DEF LastIsLatest
<1>5. ReaderFollows'
  <2>1. reader' = [reader EXCEPT !.quiet = FALSE] /\ ~ reader'.quiet
    BY DEF RecordSeen, Disturb, Covered, TypeOK
  <2> QED
    BY <2>1 DEF ReaderFollows
<1> QED
  BY <1>3, <1>4, <1>5 DEF Exact

(* What the rings do not touch: the latest timestamp, and a reader that is *)
(* disturbed.                                                              *)
LEMMA RecordedKeeps ==
  ASSUME Covered, Exact, RecordEvent \/ RecordError, RingsTell'
  PROVE  Exact'
<1>1. LastIsLatest'
  BY DEF RecordEvent, RecordError, Exact, LastIsLatest
<1>2. reader' = [reader EXCEPT !.quiet = FALSE] /\ ~ reader'.quiet
  BY DEF RecordEvent, RecordError, Disturb, Covered, TypeOK
<1> QED
  BY <1>1, <1>2 DEF Exact, ReaderFollows

(* The rings follow, the one of all events before the one of errors. *)
LEMMA ExactRecorded ==
  ASSUME Covered, Exact, RecordEvent \/ RecordError
  PROVE  Exact'
<1>1. writer \in [at : {"rest", "events", "errors"}, ts : Times, isErr : BOOLEAN]
      /\ writer.at \in {"events", "errors"}
  BY DEF Covered, TypeOK, RecordEvent, RecordError
<1> DEFINE x == [ts |-> writer.ts, isErr |-> writer.isErr]
<1>2. x \in Rows /\ x.ts = writer.ts /\ x.isErr = writer.isErr
  BY <1>1 DEF Rows
<1>3. PICK past \in Seq(Rows) :
            /\ arrivals = Append(past, x)
            /\ Tells(events, IF writer.at = "events" THEN past ELSE arrivals)
            /\ Tells(errors, Kept(past, ErrorRows))
            /\ writer.at = "errors" => writer.isErr
  BY <1>1 DEF Exact, RingsTell
<1>4. arrivals' = arrivals /\ lastSeen' = lastSeen
  BY DEF RecordEvent, RecordError
<1>5. events \in Seq(Times) /\ errors \in Seq(Times)
  BY DEF Covered, TypeOK
<1> HIDE DEF x
<1>6. CASE RecordEvent
  <2>1. writer.at = "events" /\ errors' = errors /\ events' = W!Slide(events, x.ts)
    BY <1>1, <1>2, <1>6, RingPushed DEF RecordEvent, Covered, TypeOK
  <2>2. Tells(events', arrivals')
    BY <1>2, <1>3, <1>4, <1>5, <2>1, SlideTells
  <2>3. CASE writer.isErr
    <3>1. /\ writer' = [writer EXCEPT !.at = "errors"]
          /\ writer'.at = "errors" /\ writer'.ts = writer.ts /\ writer'.isErr = writer.isErr
      BY <1>1, <1>6, <2>3 DEF RecordEvent
    <3>2. arrivals' = Append(past, [ts |-> writer'.ts, isErr |-> writer'.isErr])
      BY <1>3, <1>4, <3>1 DEF x
    <3>3. Tells(errors', Kept(past, ErrorRows))
      BY <1>3, <2>1
    <3> QED
      BY <2>2, <2>3, <3>1, <3>2, <3>3, RecordedKeeps, <1>4, <1>6 DEF RingsTell
  <2>4. CASE ~ writer.isErr
    <3>1. writer' = Resting /\ writer'.at = "rest"
      BY <1>6, <2>4 DEF RecordEvent, Resting
    <3>2. Kept(arrivals', ErrorRows) = Kept(past, ErrorRows)
      BY <1>2, <1>3, <1>4, <2>4, ErrorsOfMore
    <3> QED
      BY <1>3, <2>1, <2>2, <3>1, <3>2, RecordedKeeps, <1>4, <1>6 DEF RingsTell
  <2> QED
    BY <2>3, <2>4
<1>7. CASE RecordError
  <2>1. /\ writer.at = "errors" /\ errors' = W!Slide(errors, x.ts) /\ events' = events
        /\ writer'.at = "rest"
    BY <1>2, <1>7, RingKept DEF RecordError, Resting
  <2>2. Tells(events', arrivals')
    BY <1>3, <1>4, <2>1
  <2>3. Kept(past, ErrorRows) \in Seq(Rows)
        /\ Kept(arrivals', ErrorRows) = Append(Kept(past, ErrorRows), x)
    BY <1>2, <1>3, <1>4, <2>1, ErrorsOfMore
  <2>4. Tells(errors', Kept(arrivals', ErrorRows))
    BY <1>2, <1>3, <1>5, <2>1, <2>3, SlideTells
  <2> QED
    BY <2>1, <2>2, <2>4, RecordedKeeps, <1>4, <1>7 DEF RingsTell
<1> QED
  BY <1>6, <1>7
(* ServiceStatus reads one ring, the other and lastSeen, and Tick moves    *)
(* only the clock.                                                         *)
LEMMA ExactRead ==
  ASSUME Covered, Exact, Read \/ Tick \/ UNCHANGED vars
  PROVE  Exact'
<1>1. UNCHANGED << lastSeen, errors, writer, arrivals >> /\ events' = events
  BY RingKept DEF Read, ReadNow, ReadEvents, ReadErrors, ReadLast, Forget, Tick, vars
<1>2. RingsTell' /\ LastIsLatest'
  BY <1>1 DEF Exact, RingsTell, Tells, LastIsLatest
<1> DEFINE Readers == [at : {"rest", "events", "errors", "last", "done"}, now : 0 .. MaxTime,
                       ev : 0 .. Cap, er : 0 .. Cap,
                       last : Times \cup {NoTime}, quiet : BOOLEAN]
<1>3. reader \in Readers
  BY DEF Covered, TypeOK
<1>4. CASE ReadNow
  <2>1. reader'.at = "events" /\ reader'.quiet = (writer.at = "rest")
    BY <1>4 DEF ReadNow, Unread
  <2> QED
    BY <1>1, <1>2, <2>1 DEF Exact, ReaderFollows
<1>5. CASE ReadEvents
  <2>1. /\ reader.at = "events" /\ reader'.at = "errors" /\ reader'.quiet = reader.quiet
        /\ reader'.now = reader.now /\ reader'.ev = Recent(events, reader.now)
    BY <1>3, <1>5 DEF ReadEvents
  <2> QED
    BY <1>1, <1>2, <2>1 DEF Exact, ReaderFollows, Recent
<1>6. CASE ReadErrors
  <2>1. /\ reader.at = "errors" /\ reader'.at = "last" /\ reader'.quiet = reader.quiet
        /\ reader'.now = reader.now /\ reader'.ev = reader.ev
        /\ reader'.er = Recent(errors, reader.now)
    BY <1>3, <1>6 DEF ReadErrors
  <2> QED
    BY <1>1, <1>2, <2>1 DEF Exact, ReaderFollows, Recent
<1>7. CASE ReadLast
  <2>1. /\ reader.at = "last" /\ reader'.at = "done" /\ reader'.quiet = reader.quiet
        /\ reader'.now = reader.now /\ reader'.ev = reader.ev /\ reader'.er = reader.er
        /\ reader'.last = lastSeen
    BY <1>3, <1>7 DEF ReadLast
  <2> QED
    BY <1>1, <1>2, <2>1 DEF Exact, ReaderFollows, Recent
<1>8. CASE Forget
  <2>1. reader'.at = "rest"
    BY <1>8 DEF Forget, Unread
  <2> QED
    BY <1>2, <2>1 DEF Exact, ReaderFollows
<1>9. CASE Tick \/ UNCHANGED vars
  <2>1. reader' = reader
    BY <1>9 DEF Tick, vars
  <2> QED
    BY <1>1, <1>2, <2>1 DEF Exact, ReaderFollows, Recent
<1> QED
  BY <1>4, <1>5, <1>6, <1>7, <1>8, <1>9 DEF Read

(* Every step keeps all of it. *)
LEMMA ExactStep == Covered /\ Exact /\ [Next]_vars => Exact'
  BY ExactSeen, ExactRecorded, ExactRead DEF Next, Record

(* The newest rows, as the property cuts them out, are those the ring has. *)
LEMMA NewestIsTold ==
  ASSUME NEW r \in Seq(Times), NEW rows \in Seq(Rows), Tells(r, rows)
  PROVE  Recent(r, reader.now) = Cardinality(InWindow(Newest(rows)))
<1> DEFINE N == Len(rows)
           k == Len(r)
           newest == Newest(rows)
<1>1. N \in Nat /\ Cap \in Nat \ {0} /\ k = IF N > Cap THEN Cap ELSE N
  BY ConstantsTyped DEF Tells
<1>2. \A i \in 1 .. k : r[i] = rows[N - k + i].ts
  BY DEF Tells
<1>3. DOMAIN newest = 1 .. k /\ \A i \in 1 .. k : newest[i] = rows[N - k + i]
  <2>1. CASE N > Cap
    <3>1. newest = SubSeq(rows, N - Cap + 1, N)
      BY <2>1 DEF Newest
    <3>2. N - Cap + 1 \in 1 .. N + 1 /\ N \in 0 .. N
      BY <1>1, <2>1
    <3>3. newest = [i \in 1 .. N - (N - Cap + 1) + 1 |-> rows[N - Cap + 1 + i - 1]]
      BY <3>1, <3>2
    <3> HIDE DEF newest, N, k
    <3>4. k = Cap /\ N - (N - Cap + 1) + 1 = k
      BY <1>1, <2>1
    <3>5. \A i \in 1 .. k : N - Cap + 1 + i - 1 = N - k + i
      BY <1>1, <3>4
    <3> QED
      BY <3>3, <3>4, <3>5
  <2>2. CASE ~ (N > Cap)
    <3>1. newest = rows /\ k = N
      BY <1>1, <2>2 DEF Newest
    <3>2. DOMAIN rows = 1 .. N
      OBVIOUS
    <3> HIDE DEF newest, N, k
    <3>3. \A i \in 1 .. k : N - k + i = i
      BY <1>1, <3>1
    <3> QED
      BY <3>1, <3>2, <3>3
  <2> QED
    BY <2>1, <2>2
<1> HIDE DEF newest, N, k
<1>4. {i \in 1 .. k : r[i] > reader.now - RateWindow} = InWindow(newest)
  BY <1>2, <1>3 DEF InWindow
<1> QED
  BY <1>4 DEF Recent, k, newest

(* A read that no push overlaps reports exactly what was recorded, and     *)
(* Connected by the latest timestamp there ever was (ServiceStatus).       *)
THEOREM QuietReadsAreExact == Spec => []QuietReadIsExact
<1>1. Covered /\ Exact => QuietReadIsExact
  <2> SUFFICES ASSUME Covered, Exact, reader.at = "done", reader.quiet
               PROVE  /\ reader.ev = Cardinality(InWindow(Newest(arrivals)))
                      /\ reader.er = Cardinality(InWindow(Newest(Kept(arrivals, ErrorRows))))
                      /\ Connected <=> \E i \in DOMAIN arrivals :
                                          reader.now - arrivals[i].ts =< AliveWindow
    BY DEF QuietReadIsExact
  <2>1. /\ writer.at = "rest" /\ reader.ev = Recent(events, reader.now)
        /\ reader.er = Recent(errors, reader.now) /\ reader.last = lastSeen
    BY DEF Exact, ReaderFollows
  <2>2. Tells(events, arrivals) /\ Tells(errors, Kept(arrivals, ErrorRows))
    BY <2>1 DEF Exact, RingsTell
  <2>3. /\ arrivals \in Seq(Rows) /\ events \in Seq(Times) /\ errors \in Seq(Times)
        /\ lastSeen \in Times \cup {NoTime} /\ reader.now \in 0 .. MaxTime
    BY DEF Covered, TypeOK, Rows
  <2>4. Kept(arrivals, ErrorRows) \in Seq(Rows)
    BY <2>3, KeptTyped
  <2>5. /\ reader.ev = Cardinality(InWindow(Newest(arrivals)))
        /\ reader.er = Cardinality(InWindow(Newest(Kept(arrivals, ErrorRows))))
    BY <2>1, <2>2, <2>3, <2>4, NewestIsTold
  <2>6. \A i \in DOMAIN arrivals : arrivals[i].ts \in Times /\ arrivals[i].ts =< lastSeen
    <3>1. \A i \in DOMAIN arrivals : arrivals[i] \in Rows
      BY <2>3
    <3> QED
      BY <3>1 DEF Rows, Exact, LastIsLatest
  <2>7. lastSeen # NoTime => \E i \in DOMAIN arrivals : arrivals[i].ts = lastSeen
    BY DEF Exact, LastIsLatest
  <2>8. AliveWindow \in Nat /\ reader.now \in Int /\ lastSeen \in Int
    BY <2>3, ActivityAssumption, ConstantsTyped
  <2>9. Connected <=> lastSeen # NoTime /\ reader.now - lastSeen =< AliveWindow
    BY <2>1 DEF Connected
  <2>10. ASSUME NEW i \in DOMAIN arrivals, reader.now - arrivals[i].ts =< AliveWindow
         PROVE  lastSeen # NoTime /\ reader.now - lastSeen =< AliveWindow
    <3>1. arrivals[i].ts \in Times /\ arrivals[i].ts \in Int /\ arrivals[i].ts =< lastSeen
      BY <2>6, ConstantsTyped
    <3>2. lastSeen # NoTime
      BY <3>1, <2>8, ConstantsTyped
    <3> QED
      BY <2>8, <2>10, <3>1, <3>2
  <2> QED
    BY <2>5, <2>7, <2>9, <2>10
<1>2. Init => Covered /\ Exact
  BY CoveredInit, ExactInit
<1>3. Covered /\ Exact /\ [Next]_vars => (Covered /\ Exact)'
  BY CoveredStep, ExactStep
<1> QED
  BY <1>1, <1>2, <1>3, PTL DEF Spec
=============================================================================
