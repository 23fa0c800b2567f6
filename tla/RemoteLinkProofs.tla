-------------------------- MODULE RemoteLinkProofs --------------------------
(***************************************************************************)
(* For any number of events, connections, faults and any buffer sizes: the *)
(* link between an agent and a dashboard is well typed, loses on a         *)
(* connection that stands only what does not encode or what its own buffer *)
(* refuses, and is the lossy link it promises to be: some of the events,   *)
(* each once, in their order.                                              *)
(***************************************************************************)
EXTENDS RemoteLink, FiniteSetTheorems, TLAPS

-----------------------------------------------------------------------------
(* Sequences as queues: their elements, and the order among them. *)
Increasing(q) == \A i, j \in DOMAIN q : i < j => q[i] < q[j]

(* Appending adds one element, *)
LEMMA RangeAppend ==
  ASSUME NEW S, NEW q \in Seq(S), NEW x \in S
  PROVE  Range(Append(q, x)) = Range(q) \cup {x}
<1>1. \A i \in 1 .. Len(q) : Append(q, x)[i] = q[i]
  OBVIOUS
<1>2. Append(q, x)[Len(q) + 1] = x /\ DOMAIN Append(q, x) = 1 .. Len(q) + 1
  OBVIOUS
<1>3. \A i \in 1 .. Len(q) + 1 : i \in 1 .. Len(q) \/ i = Len(q) + 1
  OBVIOUS
<1> QED
  BY <1>1, <1>2, <1>3 DEF Range

(* and taking the head takes one away. *)
LEMMA RangeHead ==
  ASSUME NEW S, NEW q \in Seq(S), q # << >>
  PROVE  /\ Head(q) \in S /\ Tail(q) \in Seq(S) /\ Len(Tail(q)) = Len(q) - 1
         /\ Range(q) = {Head(q)} \cup Range(Tail(q))
<1>1. /\ Len(q) \in Nat /\ Len(q) > 0 /\ Head(q) = q[1]
      /\ Tail(q) \in Seq(S) /\ Len(Tail(q)) = Len(q) - 1
  OBVIOUS
<1>2. \A i \in 1 .. Len(q) - 1 : Tail(q)[i] = q[i + 1]
  OBVIOUS
<1>3. \A i \in 1 .. Len(q) : i = 1 \/ i - 1 \in 1 .. Len(q) - 1
  BY <1>1
<1>4. \A i \in 1 .. Len(q) : i # 1 => q[i] = Tail(q)[i - 1]
  BY <1>1, <1>2, <1>3
<1>5. DOMAIN q = 1 .. Len(q) /\ DOMAIN Tail(q) = 1 .. Len(q) - 1 /\ 1 \in 1 .. Len(q)
  BY <1>1
<1>6. Range(q) \subseteq {Head(q)} \cup Range(Tail(q))
  <2> SUFFICES ASSUME NEW i \in 1 .. Len(q) PROVE q[i] \in {Head(q)} \cup Range(Tail(q))
    BY <1>5 DEF Range
  <2>1. CASE i = 1
    BY <1>1, <2>1
  <2>2. CASE i # 1
    BY <1>3, <1>4, <1>5, <2>2 DEF Range
  <2> QED
    BY <2>1, <2>2
<1>7. \A i \in 1 .. Len(q) - 1 : i + 1 \in 1 .. Len(q)
  BY <1>1
<1>8. {Head(q)} \cup Range(Tail(q)) \subseteq Range(q)
  BY <1>1, <1>2, <1>5, <1>7 DEF Range
<1> QED
  BY <1>1, <1>5, <1>6, <1>8

(* The elements of a sequence over a set are in the set, and an empty one  *)
(* has none.                                                               *)
LEMMA RangeSubset ==
  ASSUME NEW S, NEW q \in Seq(S)
  PROVE  Range(q) \subseteq S
  BY DEF Range

LEMMA RangeEmpty == Range(<< >>) = {} /\ Increasing(<< >>)
  BY DEF Range, Increasing

(* A queue of at most one element holds its first, or nothing. *)
LEMMA RangeOne ==
  ASSUME NEW S, NEW q \in Seq(S), Len(q) =< 1, q # << >>
  PROVE  q[1] \in S /\ Range(q) = {q[1]} /\ Len(q) = 1 /\ q = << q[1] >>
<1>1. Len(q) \in Nat /\ Len(q) # 0
  OBVIOUS
<1>2. Len(q) = 1
  BY <1>1
<1>3. DOMAIN q = {1} /\ q[1] \in S
  BY <1>2
<1>4. q = << q[1] >>
  BY <1>2, <1>3
<1> QED
  BY <1>2, <1>3, <1>4 DEF Range

(* A queue stays in order when something greater joins it, *)
LEMMA IncreasingAppend ==
  ASSUME NEW S, S \subseteq Nat, NEW q \in Seq(S), NEW x \in S,
         Increasing(q), \A y \in Range(q) : y < x
  PROVE  Increasing(Append(q, x))
<1>1. \A i \in 1 .. Len(q) : Append(q, x)[i] = q[i]
  OBVIOUS
<1>2. Append(q, x)[Len(q) + 1] = x /\ DOMAIN Append(q, x) = 1 .. Len(q) + 1 /\ DOMAIN q = 1 .. Len(q)
  OBVIOUS
<1>3. \A i \in 1 .. Len(q) + 1 : i \in 1 .. Len(q) \/ i = Len(q) + 1
  OBVIOUS
<1>4. \A i \in 1 .. Len(q) : q[i] < x
  BY <1>2 DEF Range
<1>5. SUFFICES ASSUME NEW i \in 1 .. Len(q) + 1, NEW j \in 1 .. Len(q) + 1, i < j
               PROVE  Append(q, x)[i] < Append(q, x)[j]
  BY <1>2 DEF Increasing
<1>6. i \in 1 .. Len(q)
  BY <1>5
<1>7. CASE j = Len(q) + 1
  BY <1>1, <1>2, <1>4, <1>6, <1>7
<1>8. CASE j # Len(q) + 1
  <2>1. j \in 1 .. Len(q)
    BY <1>8
  <2> QED
    BY <1>1, <1>2, <1>5, <1>6, <2>1 DEF Increasing
<1> QED
  BY <1>7, <1>8

(* and when its head leaves, which is the least of it. *)
LEMMA IncreasingHead ==
  ASSUME NEW S, S \subseteq Nat, NEW q \in Seq(S), q # << >>, Increasing(q)
  PROVE  Increasing(Tail(q)) /\ \A y \in Range(Tail(q)) : Head(q) < y
<1>1. /\ Len(q) \in Nat /\ Len(q) > 0 /\ Head(q) = q[1]
      /\ Len(Tail(q)) = Len(q) - 1 /\ Tail(q) \in Seq(S)
  OBVIOUS
<1>2. \A i \in 1 .. Len(q) - 1 : Tail(q)[i] = q[i + 1] /\ i + 1 \in 1 .. Len(q)
  BY <1>1
<1>3. DOMAIN q = 1 .. Len(q) /\ DOMAIN Tail(q) = 1 .. Len(q) - 1 /\ 1 \in 1 .. Len(q)
  BY <1>1
<1>4. \A i \in 1 .. Len(q) - 1 : q[1] < q[i + 1]
  BY <1>1, <1>2, <1>3 DEF Increasing
<1>5. \A i, j \in 1 .. Len(q) - 1 : i < j => q[i + 1] < q[j + 1]
  BY <1>1, <1>2, <1>3 DEF Increasing
<1>6. Increasing(Tail(q))
  BY <1>2, <1>3, <1>5 DEF Increasing
<1>7. \A y \in Range(Tail(q)) : Head(q) < y
  BY <1>1, <1>2, <1>3, <1>4 DEF Range
<1> QED
  BY <1>6, <1>7
-----------------------------------------------------------------------------
(* The inductive invariant.  A connection that was never made holds nothing: *)
(* the least one is what the next dial gets.                                 *)
Blank(c) ==
    /\ c \notin clients \cup walk \cup open
    /\ send[c] = << >> /\ frame[c] = << >> /\ wire[c] = << >>
    /\ owed[c] = {}

Fresh == \A c \in Conns : handler[c] = "no" => Blank(c)

(* What is on the way to c, between the fan-out and its dashboard. *)
OnWay(c) == Range(wire[c]) \cup Range(frame[c]) \cup Range(send[c])

(* It is in order, older than what is being offered to c and than all that *)
(* Pump has yet to take.                                                   *)
Lane(c) ==
    /\ Increasing(wire[c]) /\ Increasing(send[c])
    /\ \A x \in Range(wire[c]), y \in Range(frame[c]) : x < y
    /\ \A x \in Range(wire[c]) \cup Range(frame[c]), y \in Range(send[c]) : x < y
    /\ c \in walk => \A x \in OnWay(c), y \in Range(hand) : x < y
    /\ \A x \in OnWay(c) : x =< emitted
    /\ \A x \in OnWay(c), y \in Range(in) : x < y

(* The agent's own queue. *)
Ahead ==
    /\ Increasing(in)
    /\ \A x \in Range(in) \cup Range(hand) : x =< emitted
    /\ \A x \in Range(hand), y \in Range(in) : x < y

(* What the dashboard has read is in order, and older than all that may    *)
(* still come over the connection it reads, or over a later one.           *)
Past == Range(received) \cup (IF event = 0 THEN {} ELSE {event})

Read ==
    /\ event # 0 <=> loop = "emit"
    /\ Increasing(received)
    /\ event # 0 => \A x \in Range(received) : x < event
    /\ \A x \in Past : x =< emitted
    /\ \A x \in Past, y \in Range(in) : x < y
    /\ conn # 0 => /\ \A x \in Past, y \in OnWay(conn) : x < y
                   /\ conn \in walk => \A x \in Past, y \in Range(hand) : x < y

LinkInv ==
    /\ TypeOK
    /\ Fresh
    /\ \A c \in Conns : Lane(c)
    /\ Ahead
    /\ Read

-----------------------------------------------------------------------------
(* The bounds are numbers, and so are events and connections. *)
LEMMA LinkBounds ==
    /\ MaxEvents \in Nat /\ MaxFaults \in Nat /\ MaxBackoff \in Nat \ {0}
    /\ InCap \in Nat \ {0} /\ SendCap \in Nat \ {0} /\ WireCap \in Nat \ {0}
    /\ Events \subseteq Nat \ {0} /\ Conns \subseteq Nat \ {0}
  BY LinkAssumption DEF Events, Conns

(* The two programs start with nothing on its way. *)
LEMMA LinkInit == Init => LinkInv
<1> SUFFICES ASSUME Init PROVE LinkInv
  OBVIOUS
<1> USE LinkBounds
<1>1. faults \in 0 .. MaxFaults /\ big \subseteq Big
  <2>1. big \subseteq Big /\ Cardinality(big) =< MaxFaults
    BY DEF Init
  <2>2. IsFiniteSet(1 .. MaxEvents)
    BY FS_Interval
  <2>3. big \subseteq 1 .. MaxEvents
    BY <2>1, LinkAssumption
  <2>4. IsFiniteSet(big)
    BY <2>2, <2>3, FS_Subset
  <2>5. Cardinality(big) \in Nat
    BY <2>4, FS_CardinalityType
  <2> QED
    BY <2>1, <2>5 DEF Init
<1>2. TypeOK
  <2>1. \A S : << >> \in Seq(S) /\ Len(<< >>) = 0
    OBVIOUS
  <2>2. /\ in \in Seq(Events) /\ Len(in) =< InCap /\ hand \in Seq(Events) /\ Len(hand) =< 1
        /\ received \in Seq(Events) /\ owed \in [Conns -> SUBSET Events]
    BY <2>1 DEF Init
  <2>3. /\ send \in [Conns -> Seq(Events)] /\ \A c \in Conns : Len(send[c]) =< SendCap
        /\ wire \in [Conns -> Seq(Events)] /\ \A c \in Conns : Len(wire[c]) =< WireCap
    BY <2>1 DEF Init
  <2>4. /\ frame \in [Conns -> Seq(Events)]
        /\ handler \in [Conns -> {"no", "accepted", "serve", "write", "leaving", "gone"}]
        /\ \A c \in Conns : Len(frame[c]) = IF handler[c] = "write" THEN 1 ELSE 0
    BY <2>1 DEF Init
  <2>5. backoff \in 1 .. 2 * MaxBackoff /\ emitted \in 0 .. MaxEvents
    BY DEF Init
  <2> QED
    BY <1>1, <2>2, <2>3, <2>4, <2>5 DEF Init, TypeOK
<1>3. Fresh
  BY DEF Init, Fresh, Blank
<1>4. \A c \in Conns : Lane(c)
  BY RangeEmpty DEF Init, Lane, OnWay
<1>5. Ahead
  BY RangeEmpty DEF Init, Ahead
<1>6. Read
  BY RangeEmpty DEF Init, Read, Past
<1> QED
  BY <1>2, <1>3, <1>4, <1>5, <1>6 DEF LinkInv

-----------------------------------------------------------------------------
(* Types, action by action. *)
LEMMA TypeEmit == TypeOK /\ Emit /\ UNCHANGED big => TypeOK'
<1> SUFFICES ASSUME TypeOK, Emit, UNCHANGED big PROVE TypeOK'
  OBVIOUS
<1>1. emitted' \in 0 .. MaxEvents /\ emitted + 1 \in Events
  BY LinkBounds DEF TypeOK, Emit, Events
<1>2. in' \in Seq(Events) /\ Len(in') =< InCap
  BY <1>1, LinkBounds DEF TypeOK, Emit
<1> QED
  BY <1>1, <1>2 DEF TypeOK, Emit, serverVars, netVars, loopVars, histVars

LEMMA TypePump ==
  ASSUME TypeOK, PumpTake \/ PumpDone \/ \E c \in Conns : Fanout(c), UNCHANGED big
  PROVE  TypeOK'
<1>1. CASE PumpTake
  <2>1. /\ Head(in) \in Events /\ Tail(in) \in Seq(Events)
        /\ Len(Tail(in)) = Len(in) - 1 /\ Len(in) \in Nat
    BY <1>1, RangeHead DEF PumpTake, TypeOK
  <2>2. /\ hand' \in Seq(Events) /\ Len(hand') =< 1
        /\ walk' # {} => hand' # << >>
    <3>1. CASE Head(in) \in Unsendable
      BY <1>1, <3>1 DEF PumpTake, TypeOK
    <3>2. CASE Head(in) \notin Unsendable
      <4>1. hand' = << Head(in) >>
        BY <1>1, <3>2 DEF PumpTake
      <4> QED
        BY <2>1, <4>1
    <3> QED
      BY <3>1, <3>2
  <2>3. in' \in Seq(Events) /\ Len(in') =< InCap
    BY <1>1, <2>1, LinkBounds DEF PumpTake, TypeOK
  <2>4. owed' \in [Conns -> SUBSET Events]
    BY <1>1, <2>1 DEF PumpTake, TypeOK
  <2>5. walk' \subseteq Conns
    BY <1>1 DEF PumpTake, TypeOK
  <2> QED
    BY <1>1, <2>2, <2>3, <2>4, <2>5 DEF PumpTake, TypeOK, serverVars, netVars, loopVars
<1>2. CASE PumpDone
  BY <1>2 DEF PumpDone, TypeOK, serverVars, netVars, loopVars, histVars
<1>3. ASSUME NEW c \in Conns, Fanout(c) PROVE TypeOK'
  <2>1. hand # << >> /\ hand[1] \in Events
    BY <1>3, RangeOne DEF Fanout, TypeOK
  <2>2. send' \in [Conns -> Seq(Events)] /\ \A d \in Conns : Len(send'[d]) =< SendCap
    <3>1. CASE Len(send[c]) < SendCap
      <4>1. send[c] \in Seq(Events)
        BY DEF TypeOK
      <4>2. Append(send[c], hand[1]) \in Seq(Events) /\ Len(Append(send[c], hand[1])) =< SendCap
        BY <2>1, <3>1, <4>1, LinkBounds
      <4>3. send' = [send EXCEPT ![c] = Append(send[c], hand[1])]
        BY <1>3, <3>1 DEF Fanout
      <4> QED
        BY <4>2, <4>3 DEF TypeOK
    <3>2. CASE ~ (Len(send[c]) < SendCap)
      BY <1>3, <3>2 DEF Fanout, TypeOK
    <3> QED
      BY <3>1, <3>2
  <2>3. owed' \in [Conns -> SUBSET Events]
    <3>1. owed' = owed \/ owed' = [owed EXCEPT ![c] = owed[c] \ {hand[1]}]
      BY <1>3 DEF Fanout
    <3> QED
      BY <3>1 DEF TypeOK
  <2>4. walk' \subseteq Conns /\ hand' = hand
    BY <1>3 DEF Fanout, TypeOK
  <2> QED
    BY <1>3, <2>1, <2>2, <2>3, <2>4 DEF Fanout, TypeOK, netVars, loopVars
<1> QED
  BY <1>1, <1>2, <1>3

LEMMA TypeHandler ==
  ASSUME TypeOK, NEW c \in Conns,
         HandlerStep(c) \/ ReaderEnds(c) \/ WriteFails(c), UNCHANGED big
  PROVE  TypeOK'
<1>1. CASE Register(c)
  BY <1>1 DEF Register, TypeOK, agentVars, netVars, loopVars, histVars
<1>2. CASE TakeFrame(c)
  <2>1. send[c] \in Seq(Events) /\ send[c] # << >> /\ Len(send[c]) =< SendCap
    BY <1>2 DEF TakeFrame, TypeOK
  <2>2. /\ Head(send[c]) \in Events /\ Tail(send[c]) \in Seq(Events)
        /\ Len(Tail(send[c])) =< SendCap
    BY <2>1, RangeHead, LinkBounds
  <2>3. send' \in [Conns -> Seq(Events)] /\ \A d \in Conns : Len(send'[d]) =< SendCap
    BY <1>2, <2>2 DEF TakeFrame, TypeOK
  <2>4. << Head(send[c]) >> \in Seq(Events) /\ Len(<< Head(send[c]) >>) = 1
    BY <2>2
  <2>5. /\ frame' \in [Conns -> Seq(Events)]
        /\ handler' \in [Conns -> {"no", "accepted", "serve", "write", "leaving", "gone"}]
        /\ \A d \in Conns : Len(frame'[d]) = IF handler'[d] = "write" THEN 1 ELSE 0
    BY <1>2, <2>4 DEF TakeFrame, TypeOK
  <2> QED
    BY <1>2, <2>3, <2>5 DEF TakeFrame, TypeOK, agentVars, netVars, loopVars, histVars
<1>3. CASE WriteFrame(c)
  <2>1. frame[c] \in Seq(Events) /\ Len(frame[c]) = 1 /\ frame[c][1] \in Events
    BY <1>3 DEF WriteFrame, TypeOK
  <2>2. wire' \in [Conns -> Seq(Events)] /\ \A d \in Conns : Len(wire'[d]) =< WireCap
    <3>1. CASE c \in open
      <4>1. wire[c] \in Seq(Events) /\ Len(wire[c]) < WireCap
        BY <1>3, <3>1, LinkBounds DEF WriteFrame, TypeOK
      <4>2. /\ Append(wire[c], frame[c][1]) \in Seq(Events)
            /\ Len(Append(wire[c], frame[c][1])) =< WireCap
        BY <2>1, <4>1, LinkBounds
      <4>3. wire' = [wire EXCEPT ![c] = Append(wire[c], frame[c][1])]
        BY <1>3, <3>1 DEF WriteFrame
      <4> QED
        BY <4>2, <4>3 DEF TypeOK
    <3>2. CASE c \notin open
      BY <1>3, <3>2 DEF WriteFrame, TypeOK
    <3> QED
      BY <3>1, <3>2
  <2>3. /\ frame' \in [Conns -> Seq(Events)]
        /\ handler' \in [Conns -> {"no", "accepted", "serve", "write", "leaving", "gone"}]
        /\ \A d \in Conns : Len(frame'[d]) = IF handler'[d] = "write" THEN 1 ELSE 0
    <3>1. << >> \in Seq(Events) /\ Len(<< >>) = 0
      OBVIOUS
    <3>2. /\ frame' = [frame EXCEPT ![c] = << >>]
          /\ handler' = [handler EXCEPT ![c] = "serve"]
      BY <1>3 DEF WriteFrame
    <3>3. ASSUME NEW d \in Conns
          PROVE  Len(frame'[d]) = IF handler'[d] = "write" THEN 1 ELSE 0
      <4>1. CASE d = c
        BY <3>1, <3>2, <4>1 DEF TypeOK
      <4>2. CASE d # c
        BY <3>2, <4>2 DEF TypeOK
      <4> QED
        BY <4>1, <4>2
    <3> QED
      BY <3>1, <3>2, <3>3 DEF TypeOK
  <2> QED
    BY <1>3, <2>2, <2>3 DEF WriteFrame, TypeOK, agentVars, loopVars, histVars
<1>4. CASE SeeCancel(c)
  BY <1>4 DEF SeeCancel, TypeOK, agentVars, netVars, loopVars, histVars
<1>5. CASE Leave(c)
  BY <1>5 DEF Leave, Ends, TypeOK, agentVars, loopVars
<1>6. CASE WriteFails(c)
  <2>1. /\ frame' \in [Conns -> Seq(Events)]
        /\ handler' \in [Conns -> {"no", "accepted", "serve", "write", "leaving", "gone"}]
        /\ \A d \in Conns : Len(frame'[d]) = IF handler'[d] = "write" THEN 1 ELSE 0
    <3>1. << >> \in Seq(Events) /\ Len(<< >>) = 0
      OBVIOUS
    <3>2. /\ frame' = [frame EXCEPT ![c] = << >>]
          /\ handler' = [handler EXCEPT ![c] = "leaving"]
      BY <1>6 DEF WriteFails
    <3>3. ASSUME NEW d \in Conns
          PROVE  Len(frame'[d]) = IF handler'[d] = "write" THEN 1 ELSE 0
      <4>1. CASE d = c
        BY <3>1, <3>2, <4>1 DEF TypeOK
      <4>2. CASE d # c
        BY <3>2, <4>2 DEF TypeOK
      <4> QED
        BY <4>1, <4>2
    <3> QED
      BY <3>1, <3>2, <3>3 DEF TypeOK
  <2>2. faults' \in 0 .. MaxFaults
    <3>1. faults' = faults \/ (faults < MaxFaults /\ faults' = faults + 1)
      BY <1>6 DEF WriteFails
    <3>2. faults \in 0 .. MaxFaults
      BY DEF TypeOK
    <3> QED
      BY <3>1, <3>2, LinkBounds
  <2>3. open' \subseteq Conns /\ owed' \in [Conns -> SUBSET Events]
    BY <1>6 DEF WriteFails, Ends, TypeOK
  <2> QED
    BY <1>6, <2>1, <2>2, <2>3 DEF WriteFails, TypeOK, agentVars, loopVars
<1>7. CASE ReaderEnds(c)
  BY <1>7 DEF ReaderEnds, TypeOK, agentVars, netVars, loopVars, histVars
<1> QED
  BY <1>1, <1>2, <1>3, <1>4, <1>5, <1>6, <1>7 DEF HandlerStep

LEMMA TypeLoop == ASSUME TypeOK, LoopStep \/ Stop, UNCHANGED big PROVE TypeOK'
<1>1. CASE DialSucceeds
  BY <1>1 DEF DialSucceeds, Unused, TypeOK, agentVars, histVars
<1>2. CASE DialFails
  <2>1. faults' = faults \/ (faults < MaxFaults /\ faults' = faults + 1)
    BY <1>2 DEF DialFails
  <2>2. faults' \in 0 .. MaxFaults
    BY <2>1, LinkBounds DEF TypeOK
  <2>3. loop' \in {"wait", "ended"}
    BY <1>2 DEF DialFails
  <2> QED
    BY <1>2, <2>2, <2>3 DEF DialFails, TypeOK, agentVars, serverVars, netVars, histVars
<1>3. CASE ReadFrame
  <2>1. conn \in Conns /\ wire[conn] \in Seq(Events) /\ wire[conn] # << >>
    BY <1>3 DEF ReadFrame, TypeOK
  <2>2. /\ Head(wire[conn]) \in Events /\ Tail(wire[conn]) \in Seq(Events)
        /\ Len(Tail(wire[conn])) =< WireCap
    BY <2>1, RangeHead, LinkBounds DEF TypeOK
  <2>3. wire' \in [Conns -> Seq(Events)] /\ \A d \in Conns : Len(wire'[d]) =< WireCap
    BY <1>3, <2>2 DEF ReadFrame, TypeOK
  <2>4. owed' \in [Conns -> SUBSET Events]
    BY <1>3 DEF ReadFrame, TypeOK
  <2>5. /\ event' \in Events \cup {0} /\ loop' \in {"read", "emit"}
        /\ loop' = "emit" => event' \in Events
    BY <1>3, <2>2 DEF ReadFrame, TypeOK
  <2> QED
    BY <1>3, <2>1, <2>3, <2>4, <2>5 DEF ReadFrame, TypeOK, agentVars, serverVars
<1>4. CASE EmitEvent
  <2>1. event \in Events /\ conn \in Conns
    BY <1>4 DEF EmitEvent, TypeOK
  <2>2. received' \in Seq(Events)
    <3>1. Append(received, event) \in Seq(Events) /\ received \in Seq(Events)
      BY <2>1 DEF TypeOK
    <3> QED
      BY <1>4, <3>1 DEF EmitEvent
  <2> QED
    BY <1>4, <2>1, <2>2 DEF EmitEvent, TypeOK, agentVars, serverVars, netVars
<1>5. CASE ReadFails
  <2>1. wire' \in [Conns -> Seq(Events)] /\ \A d \in Conns : Len(wire'[d]) =< WireCap
    BY <1>5, LinkBounds DEF ReadFails, TypeOK
  <2>2. open' \subseteq Conns /\ owed' \in [Conns -> SUBSET Events]
    BY <1>5 DEF ReadFails, Ends, TypeOK
  <2> QED
    BY <1>5, <2>1, <2>2 DEF ReadFails, TypeOK, agentVars, serverVars
<1>6. CASE Wait
  <2>1. backoff' = backoff \/ (backoff < MaxBackoff /\ backoff' = 2 * backoff)
    BY <1>6 DEF Wait
  <2>2. backoff' \in 1 .. 2 * MaxBackoff
    BY <2>1, LinkBounds DEF TypeOK
  <2>3. loop' \in {"dial", "ended"}
    BY <1>6 DEF Wait
  <2> QED
    BY <1>6, <2>2, <2>3 DEF Wait, TypeOK, agentVars, serverVars, netVars, histVars
<1>7. CASE Stop
  BY <1>7 DEF Stop, TypeOK, agentVars, serverVars, netVars, histVars
<1> QED
  BY <1>1, <1>2, <1>3, <1>4, <1>5, <1>6, <1>7 DEF LoopStep

LEMMA TypeFaults == ASSUME TypeOK, Cut \/ Crash \/ Restart, UNCHANGED big PROVE TypeOK'
<1>1. CASE Cut
  <2>1. wire' \in [Conns -> Seq(Events)] /\ \A d \in Conns : Len(wire'[d]) =< WireCap
    BY <1>1, LinkBounds DEF Cut, TypeOK
  <2>2. open' \subseteq Conns /\ owed' \in [Conns -> SUBSET Events]
    BY <1>1 DEF Cut, Ends, TypeOK
  <2>3. faults' \in 0 .. MaxFaults
    BY <1>1, LinkBounds DEF Cut, TypeOK
  <2> QED
    BY <1>1, <2>1, <2>2, <2>3 DEF Cut, TypeOK, agentVars, serverVars, loopVars
<1>2. CASE Crash
  <2>1. send' \in [Conns -> Seq(Events)] /\ \A d \in Conns : Len(send'[d]) =< SendCap
    BY <1>2, LinkBounds DEF Crash
  <2>2. /\ frame' \in [Conns -> Seq(Events)]
        /\ handler' \in [Conns -> {"no", "accepted", "serve", "write", "leaving", "gone"}]
        /\ \A d \in Conns : Len(frame'[d]) = IF handler'[d] = "write" THEN 1 ELSE 0
    BY <1>2 DEF Crash
  <2>3. open' \subseteq Conns /\ owed' \in [Conns -> SUBSET Events]
    BY <1>2 DEF Crash, Ends, TypeOK
  <2>4. faults' \in 0 .. MaxFaults
    BY <1>2, LinkBounds DEF Crash, TypeOK
  <2>5. /\ in' \in Seq(Events) /\ Len(in') =< InCap
        /\ hand' \in Seq(Events) /\ Len(hand') =< 1
    BY <1>2, LinkBounds DEF Crash
  <2> QED
    BY <1>2, <2>1, <2>2, <2>3, <2>4, <2>5 DEF Crash, TypeOK, loopVars
<1>3. CASE Restart
  BY <1>3 DEF Restart, TypeOK, serverVars, netVars, loopVars, histVars
<1> QED
  BY <1>1, <1>2, <1>3

LEMMA TypeStep == TypeOK /\ [Next]_vars => TypeOK'
<1> SUFFICES ASSUME TypeOK, [Next]_vars PROVE TypeOK'
  OBVIOUS
<1>1. CASE UNCHANGED vars
  BY <1>1 DEF vars, TypeOK, agentVars, serverVars, netVars, loopVars, histVars
<1>2. CASE Next
  BY <1>2, TypeEmit, TypePump, TypeHandler, TypeLoop, TypeFaults DEF Next, PumpStep
<1> QED
  BY <1>1, <1>2

-----------------------------------------------------------------------------
(* A connection that was never made stays blank: nobody fans out to it,    *)
(* writes to it or reads from it.                                          *)
LEMMA FreshStep == TypeOK /\ Fresh /\ [Next]_vars => Fresh'
<1> SUFFICES ASSUME TypeOK, Fresh, [Next]_vars, NEW c \in Conns, handler'[c] = "no"
             PROVE  Blank(c)'
  BY DEF Fresh
<1>1. CASE Emit
  BY <1>1 DEF Emit, Fresh, Blank, serverVars, netVars, histVars
<1>2. CASE PumpTake
  BY <1>2 DEF PumpTake, Fresh, Blank, serverVars, netVars
<1>3. CASE PumpDone
  BY <1>3 DEF PumpDone, Fresh, Blank, serverVars, netVars, histVars
<1>4. ASSUME NEW d \in Conns, Fanout(d) PROVE Blank(c)'
  <2>1. Blank(c) /\ d # c
    BY <1>4 DEF Fanout, Fresh, Blank
  <2>2. send'[c] = send[c] /\ owed'[c] = owed[c]
    BY <1>4, <2>1 DEF Fanout, TypeOK
  <2> QED
    BY <1>4, <2>1, <2>2 DEF Fanout, Blank, netVars
<1>5. ASSUME NEW d \in Conns, HandlerStep(d) \/ WriteFails(d) PROVE Blank(c)'
  <2>1. /\ Blank(c) /\ d # c
        /\ handler[d] # "no"
    BY <1>5 DEF HandlerStep, Register, TakeFrame, WriteFrame, SeeCancel, Leave, WriteFails,
                Fresh, TypeOK
  <2>2. CASE Register(d)
    BY <2>1, <2>2 DEF Register, Blank, agentVars, netVars, histVars
  <2>3. CASE TakeFrame(d)
    BY <2>1, <2>3 DEF TakeFrame, Blank, TypeOK, agentVars, netVars, histVars
  <2>4. CASE WriteFrame(d)
    <3>1. wire'[c] = wire[c] /\ frame'[c] = frame[c]
      BY <2>1, <2>4 DEF WriteFrame, TypeOK
    <3> QED
      BY <2>1, <2>4, <3>1 DEF WriteFrame, Blank, agentVars, histVars
  <2>5. CASE SeeCancel(d)
    BY <2>1, <2>5 DEF SeeCancel, Blank, agentVars, netVars, histVars
  <2>6. CASE Leave(d)
    BY <2>1, <2>6 DEF Leave, Ends, Blank, agentVars
  <2>7. CASE WriteFails(d)
    BY <2>1, <2>7 DEF WriteFails, Ends, Blank, TypeOK, agentVars
  <2> QED
    BY <1>5, <2>2, <2>3, <2>4, <2>5, <2>6, <2>7 DEF HandlerStep
<1>6. ASSUME NEW d \in Conns, ReaderEnds(d) PROVE Blank(c)'
  BY <1>6 DEF ReaderEnds, Fresh, Blank, agentVars, netVars, histVars
<1>7. CASE DialSucceeds
  <2>1. PICK d \in Conns : handler' = [handler EXCEPT ![d] = "accepted"] /\ open' = open \cup {d}
    BY <1>7 DEF DialSucceeds, Unused
  <2>2. d # c /\ Blank(c)
    BY <2>1 DEF TypeOK, Fresh
  <2> QED
    BY <1>7, <2>1, <2>2 DEF DialSucceeds, Blank, agentVars, histVars
<1>8. CASE DialFails
  BY <1>8 DEF DialFails, Fresh, Blank, agentVars, serverVars, netVars, histVars
<1>9. CASE ReadFrame
  <2>1. Blank(c) /\ conn \in Conns /\ wire[conn] # << >>
    BY <1>9 DEF ReadFrame, Fresh, TypeOK, serverVars
  <2>2. conn # c
    BY <2>1 DEF Blank
  <2>3. wire'[c] = wire[c] /\ owed'[c] = owed[c]
    BY <1>9, <2>2 DEF ReadFrame, TypeOK
  <2> QED
    BY <1>9, <2>1, <2>3 DEF ReadFrame, Blank, agentVars, serverVars
<1>10. CASE EmitEvent
  BY <1>10 DEF EmitEvent, Fresh, Blank, agentVars, serverVars, netVars
<1>11. CASE ReadFails
  <2>1. Blank(c) /\ wire'[c] \in {wire[c], << >>} /\ owed'[c] \in {owed[c], {}}
    BY <1>11 DEF ReadFails, Ends, Fresh, TypeOK, serverVars
  <2> QED
    BY <1>11, <2>1 DEF ReadFails, Ends, Blank, agentVars, serverVars
<1>12. CASE Wait
  BY <1>12 DEF Wait, Fresh, Blank, agentVars, serverVars, netVars, histVars
<1>13. CASE Stop
  BY <1>13 DEF Stop, Fresh, Blank, agentVars, serverVars, netVars, histVars
<1>14. CASE Cut
  <2>1. Blank(c) /\ wire'[c] \in {wire[c], << >>} /\ owed'[c] \in {owed[c], {}}
    BY <1>14 DEF Cut, Ends, Fresh, TypeOK, serverVars
  <2> QED
    BY <1>14, <2>1 DEF Cut, Ends, Blank, agentVars, serverVars
<1>15. CASE Crash
  <2>1. Blank(c)
    BY <1>15 DEF Crash, Fresh
  <2> QED
    BY <1>15, <2>1 DEF Crash, Ends, Blank, loopVars
<1>16. CASE Restart
  BY <1>16 DEF Restart, Fresh, Blank, serverVars, netVars, histVars
<1>17. CASE UNCHANGED vars
  BY <1>17 DEF vars, Fresh, Blank, agentVars, serverVars, netVars, histVars
<1> QED
  BY <1>1, <1>2, <1>3, <1>4, <1>5, <1>6, <1>7, <1>8, <1>9, <1>10, <1>11, <1>12, <1>13,
     <1>14, <1>15, <1>16, <1>17 DEF Next, PumpStep, LoopStep

-----------------------------------------------------------------------------
(* Order.  Events are numbers, wherever they are. *)
Order == (\A c \in Conns : Lane(c)) /\ Ahead /\ Read

LEMMA EventsTyped ==
  ASSUME TypeOK
  PROVE  /\ Events \subseteq Nat /\ emitted \in Nat
         /\ Range(in) \subseteq Events /\ Range(hand) \subseteq Events
         /\ Range(received) \subseteq Events /\ Past \subseteq Events
         /\ \A c \in Conns : /\ OnWay(c) \subseteq Events
                              /\ wire[c] \in Seq(Events) /\ frame[c] \in Seq(Events)
                              /\ send[c] \in Seq(Events)
<1>1. Range(in) \subseteq Events /\ Range(hand) \subseteq Events /\ Range(received) \subseteq Events
  BY RangeSubset DEF TypeOK
<1>2. ASSUME NEW c \in Conns
      PROVE  /\ wire[c] \in Seq(Events) /\ frame[c] \in Seq(Events) /\ send[c] \in Seq(Events)
             /\ OnWay(c) \subseteq Events
  <2>1. wire[c] \in Seq(Events) /\ frame[c] \in Seq(Events) /\ send[c] \in Seq(Events)
    BY DEF TypeOK
  <2> QED
    BY <2>1, RangeSubset DEF OnWay
<1>3. emitted \in Nat /\ Events \subseteq Nat
  BY LinkBounds DEF TypeOK
<1>4. Past \subseteq Events
  BY <1>1 DEF Past, TypeOK
<1> QED
  BY <1>1, <1>2, <1>3, <1>4

(* What may be left of a queue: all of it, nothing, or all but its head. *)
Rest(q) == {q, << >>} \cup (IF q = << >> THEN {} ELSE {Tail(q)})

LEMMA RestOrdered ==
  ASSUME NEW q \in Seq(Events), Increasing(q), NEW p \in Rest(q)
  PROVE  Range(p) \subseteq Range(q) /\ Increasing(p)
<1>1. CASE p = q
  BY <1>1
<1>2. CASE p = << >>
  BY <1>2, RangeEmpty
<1>3. CASE q # << >> /\ p = Tail(q)
  <2>1. Events \subseteq Nat
    BY LinkBounds
  <2> QED
    BY <1>3, <2>1, RangeHead, IncreasingHead
<1> QED
  BY <1>1, <1>2, <1>3 DEF Rest

(* An event that does not encode, or a frame that does not decode. *)
PassesOver ==
    \/ PumpTake /\ Head(in) \in Unsendable
    \/ ReadFrame /\ loop' # "emit"

(* A step that only loses things keeps the order of what is left: broken   *)
(* connections, crashes, handlers, pauses and what is passed over.         *)
Loses ==
    /\ UNCHANGED << emitted, received, event, conn >> /\ (loop' = "emit" <=> loop = "emit")
    /\ in' \in Rest(in) /\ hand' \in {hand, << >>} /\ walk' \subseteq walk
    /\ \A c \in Conns : /\ wire'[c] \in Rest(wire[c])
                         /\ frame'[c] \in {frame[c], << >>}
                         /\ send'[c] \in {send[c], << >>}

LEMMA OrderLoses == ASSUME TypeOK, Order, Loses PROVE Order'
<1>1. /\ Range(in') \subseteq Range(in) /\ Increasing(in')
      /\ Range(hand') \subseteq Range(hand)
      /\ Past' = Past
  <2>1. in \in Seq(Events) /\ Increasing(in)
    BY DEF TypeOK, Order, Ahead
  <2> QED
    BY <2>1, RestOrdered, RangeEmpty DEF Loses, Past
<1>2. ASSUME NEW c \in Conns
      PROVE  /\ Range(wire'[c]) \subseteq Range(wire[c]) /\ Increasing(wire'[c])
             /\ Range(send'[c]) \subseteq Range(send[c]) /\ Increasing(send'[c])
             /\ Range(frame'[c]) \subseteq Range(frame[c])
  <2>1. wire[c] \in Seq(Events) /\ Increasing(wire[c]) /\ wire'[c] \in Rest(wire[c])
    BY DEF TypeOK, Order, Lane, Loses
  <2>2. Range(wire'[c]) \subseteq Range(wire[c]) /\ Increasing(wire'[c])
    BY <2>1, RestOrdered
  <2> QED
    BY <2>2, RangeEmpty DEF Order, Lane, Loses
<1>3. ASSUME NEW c \in Conns PROVE OnWay(c)' \subseteq OnWay(c)
  BY <1>2 DEF OnWay
<1>4. ASSUME NEW c \in Conns PROVE Lane(c)'
  BY <1>1, <1>2, <1>3 DEF Order, Lane, Loses
<1>5. Ahead'
  BY <1>1 DEF Order, Ahead, Loses
<1>6. Read'
  <2>1. conn # 0 => conn \in Conns
    BY DEF TypeOK
  <2> QED
    BY <1>1, <1>3, <2>1 DEF Order, Read, Loses
<1> QED
  BY <1>4, <1>5, <1>6 DEF Order

(* A new event is the greatest there is. *)
LEMMA OrderEmit == ASSUME TypeOK, Order, Emit PROVE Order'
<1> USE EventsTyped
<1>1. /\ emitted + 1 \in Events /\ emitted' = emitted + 1
      /\ UNCHANGED << hand, walk, send, wire, frame, received, event, conn, loop >>
  BY LinkBounds DEF Emit, TypeOK, Events, serverVars, netVars, loopVars, histVars
<1>2. /\ \A x \in Range(in') : x \in Range(in) \/ x = emitted + 1
      /\ Increasing(in')
  <2>1. CASE in' = in
    BY <2>1 DEF Order, Ahead
  <2>2. CASE in' = Append(in, emitted + 1)
    <3>1. in \in Seq(Events) /\ Range(in') = Range(in) \cup {emitted + 1}
      BY <1>1, <2>2, RangeAppend DEF TypeOK
    <3>2. \A x \in Range(in) : x < emitted + 1
      BY DEF Order, Ahead
    <3> QED
      BY <1>1, <2>2, <3>1, <3>2, IncreasingAppend DEF Order, Ahead
  <2> QED
    BY <2>1, <2>2 DEF Emit
<1>3. Past' = Past /\ \A c \in Conns : OnWay(c)' = OnWay(c)
  BY <1>1 DEF Past, OnWay
<1>4. ASSUME NEW c \in Conns PROVE Lane(c)'
  BY <1>1, <1>2, <1>3 DEF Order, Lane
<1>5. Ahead'
  BY <1>1, <1>2 DEF Order, Ahead
<1>6. Read'
  <2>1. conn # 0 => conn \in Conns
    BY DEF TypeOK
  <2>2. \A x \in Past : x < emitted + 1 /\ x =< emitted + 1
    BY DEF Order, Read
  <2>3. \A x \in Past', y \in Range(in') : x < y
    BY <1>2, <1>3, <2>2 DEF Order, Read
  <2>4. conn # 0 => /\ \A x \in Past', y \in OnWay(conn)' : x < y
                    /\ conn \in walk => \A x \in Past', y \in Range(hand) : x < y
    BY <1>1, <1>3, <2>1 DEF Order, Read
  <2>5. (/\ event # 0 <=> loop = "emit"
         /\ Increasing(received)
         /\ event # 0 => \A x \in Range(received) : x < event)'
    BY <1>1 DEF Order, Read
  <2>6. (\A x \in Past : x =< emitted)'
    BY <1>1, <1>3, <2>2
  <2>7. (conn # 0 => /\ \A x \in Past, y \in OnWay(conn) : x < y
                     /\ conn \in walk => \A x \in Past, y \in Range(hand) : x < y)'
    BY <1>1, <2>4
  <2> QED
    BY <2>3, <2>5, <2>6, <2>7 DEF Read
<1> QED
  BY <1>4, <1>5, <1>6 DEF Order

(* The event Pump takes is less than those it leaves, and greater than all *)
(* it took before.                                                         *)
LEMMA OrderTake ==
  ASSUME TypeOK, Order, PumpTake, Head(in) \notin Unsendable
  PROVE  Order'
<1> USE EventsTyped
<1> DEFINE h == Head(in)
<1>1. /\ in \in Seq(Events) /\ in # << >> /\ hand' = << h >> /\ in' = Tail(in) /\ walk' = clients
      /\ UNCHANGED << emitted, send, wire, frame, received, event, conn, loop >>
  BY DEF PumpTake, TypeOK, serverVars, netVars, loopVars
<1>2. /\ h \in Events /\ Range(in) = {h} \cup Range(in') /\ Increasing(in')
      /\ \A y \in Range(in') : h < y
  BY <1>1, RangeHead, IncreasingHead DEF Order, Ahead
<1>3. Range(hand') = {h}
  BY <1>1 DEF Range
<1>4. Past' = Past /\ \A c \in Conns : OnWay(c)' = OnWay(c)
  BY <1>1 DEF Past, OnWay
<1>5. ASSUME NEW c \in Conns PROVE Lane(c)'
  BY <1>1, <1>2, <1>3, <1>4 DEF Order, Lane
<1>6. Ahead'
  BY <1>1, <1>2, <1>3 DEF Order, Ahead
<1>7. Read'
  <2>1. conn # 0 => conn \in Conns
    BY DEF TypeOK
  <2> QED
    BY <1>1, <1>2, <1>3, <1>4, <2>1 DEF Order, Read
<1> QED
  BY <1>5, <1>6, <1>7 DEF Order

(* What is offered to a client is greater than all on its way there. *)
LEMMA OrderFanout == ASSUME TypeOK, Order, NEW c \in Conns, Fanout(c) PROVE Order'
<1> USE EventsTyped
<1>1. /\ c \in walk /\ walk' = walk \ {c}
      /\ UNCHANGED << emitted, in, hand, wire, frame, received, event, conn, loop >>
  BY DEF Fanout, netVars, loopVars
<1>2. hand[1] \in Events /\ Range(hand) = {hand[1]}
  BY <1>1, RangeOne DEF TypeOK
<1>3. /\ \A d \in Conns : d # c => send'[d] = send[d]
      /\ \A x \in Range(send'[c]) : x \in Range(send[c]) \/ x = hand[1]
      /\ Increasing(send'[c])
  <2>1. CASE send' = send
    BY <2>1 DEF Order, Lane
  <2>2. CASE send' = [send EXCEPT ![c] = Append(send[c], hand[1])]
    <3>1. send'[c] = Append(send[c], hand[1]) /\ \A d \in Conns : d # c => send'[d] = send[d]
      BY <2>2 DEF TypeOK
    <3>2. \A x \in Range(send[c]) : x < hand[1]
      BY <1>1, <1>2 DEF Order, Lane, OnWay
    <3>3. Range(send'[c]) = Range(send[c]) \cup {hand[1]}
      BY <1>2, <3>1, RangeAppend
    <3>4. Increasing(send'[c])
      <4>1. send[c] \in Seq(Events) /\ Increasing(send[c])
        BY DEF Order, Lane
      <4>2. Increasing(Append(send[c], hand[1]))
        BY <1>2, <3>2, <4>1, IncreasingAppend
      <4> QED
        BY <3>1, <4>2
    <3> QED
      BY <3>1, <3>3, <3>4
  <2> QED
    BY <2>1, <2>2 DEF Fanout
<1>4. /\ Past' = Past
      /\ \A d \in Conns : d # c => OnWay(d)' = OnWay(d)
      /\ \A x \in OnWay(c)' : x \in OnWay(c) \/ x = hand[1]
  BY <1>1, <1>3 DEF Past, OnWay
<1>5. ASSUME NEW d \in Conns PROVE Lane(d)'
  <2>1. CASE d # c
    BY <1>1, <1>3, <1>4, <2>1 DEF Order, Lane
  <2>2. CASE d = c
    <3>1. \A x \in Range(wire[c]) \cup Range(frame[c]) : x < hand[1]
      BY <1>1, <1>2 DEF Order, Lane, OnWay
    <3>2. \A x \in Range(wire[c]) \cup Range(frame[c]), y \in Range(send'[c]) : x < y
      BY <1>3, <3>1 DEF Order, Lane
    <3>3. /\ \A x \in OnWay(c)' : x =< emitted
          /\ \A x \in OnWay(c)', y \in Range(in) : x < y
      BY <1>2, <1>4 DEF Order, Lane, Ahead
    <3> QED
      BY <1>1, <1>3, <2>2, <3>2, <3>3 DEF Order, Lane
  <2> QED
    BY <2>1, <2>2
<1>6. Ahead'
  BY <1>1 DEF Order, Ahead
<1>7. Read'
  BY <1>1, <1>2, <1>4 DEF Order, Read, TypeOK
<1> QED
  BY <1>5, <1>6, <1>7 DEF Order

(* A frame moves from the buffer to the handler, *)
LEMMA OrderFrame == ASSUME TypeOK, Order, NEW c \in Conns, TakeFrame(c) PROVE Order'
<1> USE EventsTyped
<1> DEFINE h == Head(send[c])
<1>1. /\ handler[c] = "serve" /\ send[c] # << >>
      /\ UNCHANGED << emitted, in, hand, walk, wire, received, event, conn, loop >>
      /\ send'[c] = Tail(send[c]) /\ frame'[c] = << h >>
      /\ \A d \in Conns : d # c => send'[d] = send[d] /\ frame'[d] = frame[d]
  BY DEF TakeFrame, TypeOK, agentVars, netVars, loopVars, histVars
<1>2. /\ h \in Events /\ Range(send[c]) = {h} \cup Range(send'[c])
      /\ Increasing(send'[c]) /\ \A y \in Range(send'[c]) : h < y
  BY <1>1, RangeHead, IncreasingHead DEF Order, Lane
<1>3. Range(frame'[c]) = {h}
  BY <1>1 DEF Range
<1>4. Past' = Past /\ OnWay(c)' \subseteq OnWay(c) /\ \A d \in Conns : d # c => OnWay(d)' = OnWay(d)
  BY <1>1, <1>2, <1>3 DEF Past, OnWay
<1>5. ASSUME NEW d \in Conns PROVE Lane(d)'
  <2>1. CASE d # c
    BY <1>1, <1>4, <2>1 DEF Order, Lane
  <2>2. CASE d = c
    BY <1>1, <1>2, <1>3, <1>4, <2>2 DEF Order, Lane
  <2> QED
    BY <2>1, <2>2
<1>6. Ahead'
  BY <1>1 DEF Order, Ahead
<1>7. Read'
  BY <1>1, <1>4 DEF Order, Read, TypeOK
<1> QED
  BY <1>5, <1>6, <1>7 DEF Order

(* and from the handler to the wire. *)
LEMMA OrderWrite == ASSUME TypeOK, Order, NEW c \in Conns, WriteFrame(c) PROVE Order'
<1> USE EventsTyped
<1> DEFINE h == frame[c][1]
<1>1. /\ UNCHANGED << emitted, in, hand, walk, send, received, event, conn, loop >>
      /\ frame'[c] = << >>
      /\ \A d \in Conns : d # c => wire'[d] = wire[d] /\ frame'[d] = frame[d]
  BY DEF WriteFrame, TypeOK, agentVars, loopVars, histVars
<1>2. h \in Events /\ Range(frame[c]) = {h} /\ Range(frame'[c]) = {}
  <2>1. Len(frame[c]) = 1
    BY DEF WriteFrame, TypeOK
  <2>2. frame[c] # << >> /\ Len(frame[c]) =< 1 /\ frame[c] \in Seq(Events)
    <3>1. Len(<< >>) = 0
      OBVIOUS
    <3>2. frame[c] \in Seq(Events)
      BY DEF TypeOK
    <3> HIDE EventsTyped
    <3>3. frame[c] # << >>
      BY <2>1, <3>1
    <3>4. Len(frame[c]) =< 1
      BY <2>1
    <3> QED
      BY <3>2, <3>3, <3>4
  <2> QED
    BY <1>1, <2>2, RangeOne, RangeEmpty
<1>3. /\ \A x \in Range(wire'[c]) : x \in Range(wire[c]) \/ x = h
      /\ Increasing(wire'[c])
  <2>1. CASE wire' = wire
    BY <2>1 DEF Order, Lane
  <2>2. CASE wire' = [wire EXCEPT ![c] = Append(wire[c], h)]
    <3>1. wire'[c] = Append(wire[c], h)
      BY <2>2 DEF TypeOK
    <3>2. \A x \in Range(wire[c]) : x < h
      BY <1>2 DEF Order, Lane
    <3>3. Range(wire'[c]) = Range(wire[c]) \cup {h}
      BY <1>2, <3>1, RangeAppend
    <3>4. Increasing(wire'[c])
      BY <1>2, <3>1, <3>2, IncreasingAppend DEF Order, Lane
    <3> QED
      BY <3>3, <3>4
  <2> QED
    BY <2>1, <2>2 DEF WriteFrame
<1>4. Past' = Past /\ OnWay(c)' \subseteq OnWay(c) /\ \A d \in Conns : d # c => OnWay(d)' = OnWay(d)
  BY <1>1, <1>2, <1>3 DEF Past, OnWay
<1>5. ASSUME NEW d \in Conns PROVE Lane(d)'
  <2>1. CASE d # c
    BY <1>1, <1>4, <2>1 DEF Order, Lane
  <2>2. CASE d = c
    BY <1>1, <1>2, <1>3, <1>4, <2>2 DEF Order, Lane
  <2> QED
    BY <2>1, <2>2
<1>6. Ahead'
  BY <1>1 DEF Order, Ahead
<1>7. Read'
  BY <1>1, <1>4 DEF Order, Read, TypeOK
<1> QED
  BY <1>5, <1>6, <1>7 DEF Order

(* A new connection has nothing on its way, and no part in the fan-out.    *)
LEMMA OrderDial == ASSUME TypeOK, Fresh, Order, DialSucceeds PROVE Order'
<1>1. PICK c \in Conns : handler[c] = "no" /\ conn' = c
  BY DEF DialSucceeds, Unused
<1>2. /\ UNCHANGED << emitted, in, hand, walk, send, frame, wire, received, event >>
      /\ loop = "dial" /\ loop' = "read"
  BY DEF DialSucceeds, agentVars, histVars
<1>3. c \notin walk /\ OnWay(c) = {}
  BY <1>1, RangeEmpty DEF Fresh, Blank, OnWay
<1>4. Past' = Past /\ \A d \in Conns : OnWay(d)' = OnWay(d)
  BY <1>2 DEF Past, OnWay
<1>5. (\A d \in Conns : Lane(d)') /\ Ahead'
  BY <1>2, <1>4 DEF Order, Lane, Ahead
<1>6. Read'
  BY <1>1, <1>2, <1>3, <1>4 DEF Order, Read
<1> QED
  BY <1>5, <1>6 DEF Order

(* The frame that is read is the least on its way, greater than all before *)
(* it,                                                                     *)
LEMMA OrderRead == ASSUME TypeOK, Order, ReadFrame, loop' = "emit" PROVE Order'
<1> USE EventsTyped
<1> DEFINE c == conn
           h == Head(wire[conn])
<1>1. /\ c \in Conns /\ wire[c] # << >> /\ event' = h /\ loop = "read" /\ loop' = "emit"
      /\ UNCHANGED << emitted, in, hand, walk, send, frame, received, conn >>
      /\ wire'[c] = Tail(wire[c]) /\ \A d \in Conns : d # c => wire'[d] = wire[d]
  BY DEF ReadFrame, TypeOK, agentVars, serverVars
<1>2. /\ h \in Events /\ Range(wire[c]) = {h} \cup Range(wire'[c])
      /\ Increasing(wire'[c]) /\ \A y \in Range(wire'[c]) : h < y
  <2>1. wire[c] \in Seq(Events) /\ Increasing(wire[c])
    BY <1>1 DEF Order, Lane
  <2>2. h \in Events /\ Range(wire[c]) = {h} \cup Range(Tail(wire[c]))
    BY <1>1, <2>1, RangeHead
  <2>3. Increasing(Tail(wire[c])) /\ \A y \in Range(Tail(wire[c])) : h < y
    BY <1>1, <2>1, IncreasingHead
  <2> QED
    BY <1>1, <2>2, <2>3
<1>3. event = 0 /\ h # 0
  BY <1>1, <1>2, LinkBounds DEF Order, Read
<1>4. /\ Past = Range(received) /\ Past' = Range(received) \cup {h}
      /\ h \in OnWay(c)
      /\ OnWay(c)' \subseteq OnWay(c) /\ \A d \in Conns : d # c => OnWay(d)' = OnWay(d)
  BY <1>1, <1>2, <1>3 DEF Past, OnWay
<1>5. /\ \A x \in Range(received) : x < h
      /\ c # 0
  BY <1>1, <1>4, LinkBounds DEF Order, Read
<1>6. \A y \in OnWay(c)' : h < y
  BY <1>1, <1>2 DEF Order, Lane, OnWay
<1>7. ASSUME NEW d \in Conns PROVE Lane(d)'
  <2>1. CASE d # c
    BY <1>1, <1>4, <2>1 DEF Order, Lane
  <2>2. CASE d = c
    BY <1>1, <1>2, <1>4, <2>2 DEF Order, Lane
  <2> QED
    BY <2>1, <2>2
<1>8. Ahead'
  BY <1>1 DEF Order, Ahead
<1>9. Read'
  <2>1. /\ h =< emitted /\ \A y \in Range(in) : h < y
        /\ c \in walk => \A y \in Range(hand) : h < y
    BY <1>1, <1>4 DEF Order, Lane
  <2>2. /\ \A x \in Past', y \in OnWay(c)' : x < y
        /\ c \in walk => \A x \in Past', y \in Range(hand) : x < y
    BY <1>4, <1>5, <1>6, <2>1 DEF Order, Read
  <2>3. (\A x \in Past' : x =< emitted) /\ \A x \in Past', y \in Range(in) : x < y
    BY <1>4, <2>1 DEF Order, Read
  <2> QED
    BY <1>1, <1>3, <1>5, <2>2, <2>3 DEF Order, Read
<1> QED
  BY <1>7, <1>8, <1>9 DEF Order

(* and so it is emitted after them. *)
LEMMA OrderDeliver == ASSUME TypeOK, Order, EmitEvent PROVE Order'
<1> USE EventsTyped
<1>1. /\ event \in Events /\ event # 0 /\ loop = "emit" /\ loop' = "read" /\ event' = 0
      /\ UNCHANGED << emitted, in, hand, walk, send, frame, wire, conn >>
      /\ received' = received \/ received' = Append(received, event)
  BY LinkBounds DEF EmitEvent, TypeOK, agentVars, serverVars, netVars
<1>2. Range(received') \subseteq Range(received) \cup {event} /\ Increasing(received')
  <2>1. received \in Seq(Events) /\ \A x \in Range(received) : x < event
    BY <1>1 DEF TypeOK, Order, Read
  <2>2. Range(Append(received, event)) = Range(received) \cup {event}
    BY <1>1, <2>1, RangeAppend
  <2>3. Increasing(received) /\ Increasing(Append(received, event))
    BY <1>1, <2>1, IncreasingAppend DEF Order, Read
  <2> QED
    BY <1>1, <2>2, <2>3
<1>3. Past' \subseteq Past /\ \A c \in Conns : OnWay(c)' = OnWay(c)
  BY <1>1, <1>2 DEF Past, OnWay
<1>4. (\A c \in Conns : Lane(c)') /\ Ahead'
  BY <1>1, <1>3 DEF Order, Lane, Ahead
<1>5. Read'
  <2>1. conn # 0 => conn \in Conns
    BY DEF TypeOK
  <2> QED
    BY <1>1, <1>2, <1>3, <2>1 DEF Order, Read
<1> QED
  BY <1>4, <1>5 DEF Order

(* Every other step leaves what is on its way alone or loses some of it.   *)
LEMMA HandlerLoses ==
  ASSUME TypeOK, NEW c \in Conns,
         Register(c) \/ SeeCancel(c) \/ Leave(c) \/ WriteFails(c) \/ ReaderEnds(c)
  PROVE  Loses
<1> USE DEF Rest
<1>1. CASE Register(c)
  BY <1>1 DEF Register, Loses, agentVars, netVars, loopVars, histVars
<1>2. CASE SeeCancel(c)
  BY <1>2 DEF SeeCancel, Loses, agentVars, netVars, loopVars, histVars
<1>3. CASE Leave(c)
  BY <1>3 DEF Leave, Loses, agentVars, loopVars
<1>4. CASE WriteFails(c)
  BY <1>4 DEF WriteFails, Loses, TypeOK, agentVars, loopVars
<1>5. CASE ReaderEnds(c)
  BY <1>5 DEF ReaderEnds, Loses, agentVars, netVars, loopVars, histVars
<1> QED
  BY <1>1, <1>2, <1>3, <1>4, <1>5

LEMMA RestLoses ==
  ASSUME TypeOK,
         PassesOver \/ PumpDone \/ DialFails \/ ReadFails \/ Wait \/ Stop \/ Cut \/ Crash \/ Restart
         \/ UNCHANGED vars
  PROVE  Loses
<1> USE DEF Rest
<1>10. CASE PassesOver
  <2>1. CASE PumpTake /\ Head(in) \in Unsendable
    BY <2>1 DEF PumpTake, Loses, serverVars, netVars, loopVars
  <2>2. CASE ReadFrame /\ loop' # "emit"
    <3>1. /\ UNCHANGED << emitted, received, event, conn, in, hand, walk, frame, send >>
          /\ loop' # "emit" /\ loop # "emit"
      BY <2>2 DEF ReadFrame, agentVars, serverVars
    <3>2. wire[conn] # << >> /\ wire' = [wire EXCEPT ![conn] = Tail(wire[conn])]
      BY <2>2 DEF ReadFrame
    <3>3. \A c \in Conns : wire'[c] \in Rest(wire[c])
      BY <3>2 DEF TypeOK
    <3> QED
      BY <3>1, <3>3 DEF Loses
  <2> QED
    BY <1>10, <2>1, <2>2 DEF PassesOver
<1>1. CASE PumpDone
  BY <1>1 DEF PumpDone, Loses, serverVars, netVars, loopVars, histVars
<1>2. CASE DialFails
  BY <1>2 DEF DialFails, Loses, agentVars, serverVars, netVars, histVars
<1>3. CASE ReadFails
  BY <1>3 DEF ReadFails, Loses, TypeOK, agentVars, serverVars
<1>4. CASE Wait
  BY <1>4 DEF Wait, Loses, agentVars, serverVars, netVars, histVars
<1>5. CASE Stop
  BY <1>5 DEF Stop, Loses, agentVars, serverVars, netVars, histVars
<1>6. CASE Cut
  BY <1>6 DEF Cut, Loses, TypeOK, agentVars, serverVars, loopVars
<1>7. CASE Crash
  BY <1>7 DEF Crash, Loses, loopVars
<1>8. CASE Restart
  BY <1>8 DEF Restart, Loses, serverVars, netVars, loopVars, histVars
<1>9. CASE UNCHANGED vars
  BY <1>9 DEF vars, Loses, agentVars, serverVars, netVars, loopVars, histVars
<1> QED
  BY <1>1, <1>2, <1>3, <1>4, <1>5, <1>6, <1>7, <1>8, <1>9, <1>10

LEMMA LinkStep == LinkInv /\ [Next]_vars => LinkInv'
<1> SUFFICES ASSUME LinkInv, [Next]_vars PROVE LinkInv'
  OBVIOUS
<1>1. TypeOK /\ Fresh /\ Order
  BY DEF LinkInv, Order
<1>2. TypeOK' /\ Fresh'
  BY <1>1, TypeStep, FreshStep
<1>3. Order'
  <2>1. CASE Emit
    BY <1>1, <2>1, OrderEmit
  <2>2. CASE PumpTake
    BY <1>1, <2>2, OrderTake, RestLoses, OrderLoses DEF PassesOver
  <2>3. ASSUME NEW c \in Conns, Fanout(c) PROVE Order'
    BY <1>1, <2>3, OrderFanout
  <2>4. ASSUME NEW c \in Conns, HandlerStep(c) \/ ReaderEnds(c) \/ WriteFails(c) PROVE Order'
    BY <1>1, <2>4, OrderFrame, OrderWrite, HandlerLoses, OrderLoses DEF HandlerStep
  <2>5. CASE LoopStep
    <3>1. CASE ReadFrame
      BY <1>1, <3>1, OrderRead, RestLoses, OrderLoses DEF PassesOver
    <3> QED
      BY <1>1, <2>5, <3>1, OrderDial, OrderDeliver, RestLoses, OrderLoses DEF LoopStep
  <2>6. CASE PumpDone \/ Stop \/ Cut \/ Crash \/ Restart \/ UNCHANGED vars
    BY <1>1, <2>6, RestLoses, OrderLoses
  <2> QED
    BY <2>1, <2>2, <2>3, <2>4, <2>5, <2>6 DEF Next, PumpStep
<1> QED
  BY <1>2, <1>3 DEF LinkInv, Order

-----------------------------------------------------------------------------
(* The agent, the network and the dashboard stay well formed: no buffer is *)
(* overfilled, a handler writes one frame at a time, the loop reads a      *)
(* connection that was made.                                               *)
THEOREM RemoteLinkTyped == Spec => []TypeOK
<1>1. LinkInv => TypeOK
  BY DEF LinkInv
<1> QED
  BY <1>1, LinkInit, LinkStep, PTL DEF Spec

(* Broadcaster and RemoteReceiver together are the lossy link: whatever    *)
(* breaks, dies, lags or is dialled again, the dashboard's channel gets    *)
(* some of the agent's events, each once and in the order of their         *)
(* emission.                                                               *)
THEOREM RemoteLinkImplementsLossyLink == Spec => ImplementsLossyLink
<1>1. Init => Link!Init
  BY DEF Init, Link!Init
<1>2. LinkInv /\ [Next]_vars => [Link!Next]_<< emitted, received >>
  <2> SUFFICES ASSUME LinkInv, [Next]_vars PROVE [Link!Next]_<< emitted, received >>
    OBVIOUS
  <2>1. CASE Emit
    BY <2>1 DEF Emit, Link!Next, Link!Offer, histVars
  <2>2. CASE EmitEvent
    <3>1. CASE received' = received
      BY <2>2, <3>1 DEF EmitEvent, agentVars
    <3>2. CASE received' = Append(received, event)
      <4>1. event \in 1 .. emitted
        <5>1. event \in Events /\ event # 0 /\ emitted \in Nat
          BY <2>2, LinkBounds, EventsTyped DEF EmitEvent, LinkInv, TypeOK
        <5>2. event =< emitted
          BY <5>1 DEF LinkInv, Read, Past
        <5> QED
          BY <5>1, <5>2 DEF Events
      <4>2. \A i \in DOMAIN received : received[i] < event
        BY <2>2, <4>1 DEF EmitEvent, LinkInv, Read, Range
      <4>3. Link!Deliver(event)
        BY <2>2, <3>2, <4>2 DEF EmitEvent, Link!Deliver, agentVars
      <4> QED
        BY <4>1, <4>3 DEF Link!Next
    <3> QED
      BY <2>2, <3>1, <3>2 DEF EmitEvent
  <2>3. CASE PumpStep
    BY <2>3 DEF PumpStep, PumpTake, PumpDone, Fanout, histVars
  <2>4. ASSUME NEW c \in Conns, HandlerStep(c) \/ ReaderEnds(c) \/ WriteFails(c)
        PROVE  UNCHANGED << emitted, received >>
    BY <2>4 DEF HandlerStep, Register, TakeFrame, WriteFrame, SeeCancel, Leave, WriteFails,
                ReaderEnds, agentVars, histVars
  <2>5. CASE DialSucceeds \/ DialFails \/ ReadFrame \/ ReadFails \/ Wait \/ Stop
    BY <2>5 DEF DialSucceeds, DialFails, ReadFrame, ReadFails, Wait, Stop, agentVars, histVars
  <2>6. CASE Cut \/ Crash \/ Restart
    BY <2>6 DEF Cut, Crash, Restart, agentVars, histVars
  <2>7. CASE UNCHANGED vars
    BY <2>7 DEF vars, agentVars, histVars
  <2> QED
    BY <2>1, <2>2, <2>3, <2>4, <2>5, <2>6, <2>7 DEF Next, LoopStep
<1> QED
  BY <1>1, <1>2, LinkInit, LinkStep, PTL DEF Spec, ImplementsLossyLink, Link!Spec

-----------------------------------------------------------------------------
(* A client's buffer takes what is offered, or the connection's account is *)
(* cleared of it.                                                          *)
LEMMA LossFanout ==
  ASSUME TypeOK, LostOnlyIfRefusedOrUnsendable, NEW d \in Conns, Fanout(d)
  PROVE  LostOnlyIfRefusedOrUnsendable'
<1>1. /\ d \in walk /\ walk' = walk \ {d} /\ UNCHANGED << hand, frame, wire, open >>
      /\ open \subseteq Conns
  BY DEF Fanout, TypeOK, netVars
<1>2. hand[1] \in Events /\ hand = << hand[1] >>
  BY <1>1, RangeOne DEF TypeOK
<1>3. SUFFICES ASSUME NEW c \in open, NEW e \in owed'[c] \ Unsendable
               PROVE  \/ c \in walk' /\ hand = << e >>
                      \/ e \in Range(send'[c]) \cup Range(frame[c]) \cup Range(wire[c])
  BY <1>1 DEF LostOnlyIfRefusedOrUnsendable
<1>4. CASE c # d
  <2>1. send'[c] = send[c] /\ owed'[c] = owed[c]
    BY <1>1, <1>3, <1>4 DEF Fanout, TypeOK
  <2> QED
    BY <1>1, <1>3, <1>4, <2>1 DEF LostOnlyIfRefusedOrUnsendable
<1>5. CASE c = d /\ Len(send[d]) < SendCap
  <2>1. owed' = owed /\ send'[d] = Append(send[d], hand[1])
    BY <1>5 DEF Fanout, TypeOK
  <2>2. Range(send'[d]) = Range(send[d]) \cup {hand[1]}
    BY <1>2, <2>1, RangeAppend DEF TypeOK
  <2>3. hand = << e >> => e = hand[1]
    BY <1>2
  <2> QED
    BY <1>3, <1>5, <2>1, <2>2, <2>3 DEF LostOnlyIfRefusedOrUnsendable
<1>6. CASE c = d /\ ~ (Len(send[d]) < SendCap)
  <2>1. owed'[d] = owed[d] \ {hand[1]} /\ send' = send
    BY <1>6 DEF Fanout, TypeOK
  <2>2. hand = << e >> => e = hand[1]
    BY <1>2
  <2> QED
    BY <1>3, <1>6, <2>1, <2>2 DEF LostOnlyIfRefusedOrUnsendable
<1> QED
  BY <1>4, <1>5, <1>6

(* A frame that moves on is still on its way; one that is read is settled; *)
(* and what goes down with a connection is no longer owed.                 *)
LEMMA LossHandler ==
  ASSUME TypeOK, LostOnlyIfRefusedOrUnsendable, NEW d \in Conns,
         HandlerStep(d) \/ ReaderEnds(d) \/ WriteFails(d)
  PROVE  LostOnlyIfRefusedOrUnsendable'
<1>1. UNCHANGED << hand, walk >> /\ open' \subseteq open /\ open \subseteq Conns
  BY DEF HandlerStep, Register, TakeFrame, WriteFrame, SeeCancel, Leave, WriteFails, ReaderEnds,
         Ends, agentVars, netVars, TypeOK
<1>2. \A c \in open' : owed'[c] = owed[c]
  BY <1>1 DEF HandlerStep, Register, TakeFrame, WriteFrame, SeeCancel, Leave, WriteFails,
              ReaderEnds, Ends, histVars
<1>3. ASSUME NEW c \in open' PROVE OnWay(c) \subseteq OnWay(c)'
  <2>1. c \in Conns /\ c \in open
    BY <1>1
  <2>2. CASE TakeFrame(d)
    <3>1. CASE c = d
      <4>1. /\ send[c] \in Seq(Events) /\ send[c] # << >> /\ send'[c] = Tail(send[c])
            /\ frame'[c] = << Head(send[c]) >> /\ wire' = wire /\ Len(frame[c]) = 0
            /\ frame[c] \in Seq(Events)
        BY <2>1, <2>2, <3>1 DEF TakeFrame, TypeOK, netVars
      <4>2. Range(send[c]) = {Head(send[c])} \cup Range(send'[c])
        BY <4>1, RangeHead
      <4>3. Range(frame[c]) = {} /\ Range(frame'[c]) = {Head(send[c])}
        BY <4>1 DEF Range
      <4> QED
        BY <4>1, <4>2, <4>3 DEF OnWay
    <3>2. CASE c # d
      BY <2>1, <2>2, <3>2 DEF TakeFrame, OnWay, TypeOK, netVars
    <3> QED
      BY <3>1, <3>2
  <2>3. CASE WriteFrame(d)
    <3>1. CASE c = d
      <4>1. /\ wire[c] \in Seq(Events) /\ frame[c] \in Seq(Events) /\ Len(frame[c]) = 1
            /\ wire'[c] = Append(wire[c], frame[c][1]) /\ send' = send
        BY <2>1, <2>3, <3>1 DEF WriteFrame, TypeOK
      <4>2. frame[c][1] \in Events /\ Range(frame[c]) = {frame[c][1]}
        BY <4>1 DEF Range
      <4>3. Range(wire'[c]) = Range(wire[c]) \cup {frame[c][1]}
        BY <4>1, <4>2, RangeAppend
      <4> QED
        BY <4>1, <4>2, <4>3 DEF OnWay
    <3>2. CASE c # d
      BY <2>1, <2>3, <3>2 DEF WriteFrame, OnWay, TypeOK
    <3> QED
      BY <3>1, <3>2
  <2>4. CASE WriteFails(d)
    <3>1. c # d
      BY <2>4 DEF WriteFails, Ends
    <3> QED
      BY <2>1, <2>4, <3>1 DEF WriteFails, OnWay, TypeOK
  <2>5. CASE Register(d) \/ SeeCancel(d) \/ Leave(d) \/ ReaderEnds(d)
    BY <2>5 DEF Register, SeeCancel, Leave, ReaderEnds, OnWay, netVars
  <2> QED
    BY <2>2, <2>3, <2>4, <2>5 DEF HandlerStep
<1> QED
  BY <1>1, <1>2, <1>3 DEF LostOnlyIfRefusedOrUnsendable, OnWay

LEMMA LossLoop ==
  ASSUME TypeOK, Fresh, LostOnlyIfRefusedOrUnsendable, LoopStep \/ Stop
  PROVE  LostOnlyIfRefusedOrUnsendable'
<1>1. UNCHANGED << hand, walk, send, frame >>
  BY DEF LoopStep, DialSucceeds, DialFails, ReadFrame, EmitEvent, ReadFails, Wait, Stop,
         agentVars, serverVars
<1>2. CASE DialSucceeds
  <2>1. PICK c \in Conns : handler[c] = "no" /\ open' = open \cup {c}
    BY <1>2 DEF DialSucceeds, Unused
  <2>2. owed[c] = {} /\ UNCHANGED << wire, owed >>
    BY <1>2, <2>1 DEF DialSucceeds, Fresh, Blank, histVars
  <2> QED
    BY <1>1, <2>1, <2>2 DEF LostOnlyIfRefusedOrUnsendable
<1>3. CASE ReadFrame
  <2>1. /\ conn \in Conns /\ wire[conn] \in Seq(Events) /\ wire[conn] # << >> /\ open' = open
        /\ wire'[conn] = Tail(wire[conn]) /\ owed'[conn] = owed[conn] \ {Head(wire[conn])}
        /\ \A c \in Conns : c # conn => wire'[c] = wire[c] /\ owed'[c] = owed[c]
    BY <1>3 DEF ReadFrame, TypeOK
  <2>2. Range(wire[conn]) = {Head(wire[conn])} \cup Range(wire'[conn])
    BY <2>1, RangeHead
  <2>3. open \subseteq Conns
    BY DEF TypeOK
  <2> QED
    BY <1>1, <2>1, <2>2, <2>3 DEF LostOnlyIfRefusedOrUnsendable
<1>4. CASE ReadFails
  <2>1. /\ open' = open \ {conn} /\ open \subseteq Conns
        /\ \A c \in Conns : c # conn => wire'[c] = wire[c] /\ owed'[c] = owed[c]
    BY <1>4 DEF ReadFails, Ends, TypeOK
  <2> QED
    BY <1>1, <2>1 DEF LostOnlyIfRefusedOrUnsendable
<1>5. CASE DialFails \/ EmitEvent \/ Wait \/ Stop
  <2>1. UNCHANGED << wire, open, owed >>
    BY <1>5 DEF DialFails, EmitEvent, Wait, Stop, netVars, histVars
  <2> QED
    BY <1>1, <2>1 DEF LostOnlyIfRefusedOrUnsendable
<1> QED
  BY <1>2, <1>3, <1>4, <1>5 DEF LoopStep

LEMMA LossFaults ==
  ASSUME TypeOK, LostOnlyIfRefusedOrUnsendable, Cut \/ Crash \/ Restart
  PROVE  LostOnlyIfRefusedOrUnsendable'
<1>1. CASE Cut
  <2>1. PICK d \in open : Ends({d}) /\ wire' = [wire EXCEPT ![d] = << >>]
    BY <1>1 DEF Cut
  <2>2. /\ open' = open \ {d} /\ open \subseteq Conns
        /\ \A c \in Conns : c # d => wire'[c] = wire[c] /\ owed'[c] = owed[c]
    BY <2>1 DEF Ends, TypeOK
  <2> QED
    BY <1>1, <2>2 DEF Cut, LostOnlyIfRefusedOrUnsendable, agentVars, serverVars
<1>2. CASE Crash
  BY <1>2 DEF Crash, Ends, LostOnlyIfRefusedOrUnsendable
<1>3. CASE Restart
  BY <1>3 DEF Restart, LostOnlyIfRefusedOrUnsendable, serverVars, netVars, histVars
<1> QED
  BY <1>1, <1>2, <1>3

LEMMA LossStep == TypeOK /\ Fresh /\ LostOnlyIfRefusedOrUnsendable /\ [Next]_vars => LostOnlyIfRefusedOrUnsendable'
<1> SUFFICES ASSUME TypeOK, Fresh, LostOnlyIfRefusedOrUnsendable, [Next]_vars PROVE LostOnlyIfRefusedOrUnsendable'
  OBVIOUS
<1>1. CASE Emit
  BY <1>1 DEF Emit, LostOnlyIfRefusedOrUnsendable, serverVars, netVars, histVars
<1>2. CASE PumpTake
  <2>1. UNCHANGED << send, frame, wire, open >> /\ open \subseteq Conns
    BY <1>2 DEF PumpTake, TypeOK, serverVars, netVars
  <2>2. \A e : hand # << e >>
    BY <1>2 DEF PumpTake
  <2>3. \A c \in Conns : \A e \in owed'[c] :
           e \in owed[c] \/ (c \in clients /\ e = Head(in))
    BY <1>2 DEF PumpTake
  <2>4. Head(in) \notin Unsendable => hand' = << Head(in) >> /\ walk' = clients
    BY <1>2 DEF PumpTake
  <2> QED
    BY <2>1, <2>2, <2>3, <2>4 DEF LostOnlyIfRefusedOrUnsendable
<1>3. CASE PumpDone
  BY <1>3 DEF PumpDone, LostOnlyIfRefusedOrUnsendable, serverVars, netVars, histVars
<1>4. ASSUME NEW c \in Conns, Fanout(c) PROVE LostOnlyIfRefusedOrUnsendable'
  BY <1>4, LossFanout
<1>5. ASSUME NEW c \in Conns, HandlerStep(c) \/ ReaderEnds(c) \/ WriteFails(c)
      PROVE  LostOnlyIfRefusedOrUnsendable'
  BY <1>5, LossHandler
<1>6. CASE LoopStep \/ Stop
  BY <1>6, LossLoop
<1>7. CASE Cut \/ Crash \/ Restart
  BY <1>7, LossFaults
<1>8. CASE UNCHANGED vars
  BY <1>8 DEF vars, LostOnlyIfRefusedOrUnsendable, agentVars, serverVars, netVars, histVars
<1> QED
  BY <1>1, <1>2, <1>3, <1>4, <1>5, <1>6, <1>7, <1>8 DEF Next, PumpStep

(* What Pump takes for a connection that stands did not encode, is refused *)
(* by its own full buffer, or is on its way, or read: slow clients, old    *)
(* handlers and other connections' ends take nothing away from it.         *)
THEOREM LinkLosesOnlyRefusedOrUnsendable == Spec => []LostOnlyIfRefusedOrUnsendable
<1>1. Init => LostOnlyIfRefusedOrUnsendable
  BY DEF Init, LostOnlyIfRefusedOrUnsendable
<1>2. LinkInv /\ LostOnlyIfRefusedOrUnsendable /\ [Next]_vars => LostOnlyIfRefusedOrUnsendable'
  BY LossStep DEF LinkInv
<1> QED
  BY <1>1, <1>2, LinkInit, LinkStep, PTL DEF Spec

=============================================================================
