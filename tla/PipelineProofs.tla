--------------------------- MODULE PipelineProofs ---------------------------
(***************************************************************************)
(* The bus, for any publishers, subscribers and buffer size: it is well    *)
(* typed, never sends on a closed channel and loses nothing silently.      *)
(*                                                                         *)
(* The pipeline, for any sources, any capacities and any users of the bus: *)
(* what the shared channel takes reaches the store once and in order, the  *)
(* path is the lossy FIFO it promises to be, and every subscriber sees     *)
(* what it sees in the store's order.                                      *)
(***************************************************************************)
EXTENDS Pipeline, TLAPS

(* The bus. *)

(* What appending and dropping the head do to the elements of a sequence.  *)
LEMMA RangeAppend ==
  ASSUME NEW S, NEW q \in Seq(S), NEW x \in S
  PROVE  Range(Append(q, x)) = Range(q) \cup {x}
<1>1. \A i \in 1 .. Len(q) : Append(q, x)[i] = q[i]
  OBVIOUS
<1>2. Append(q, x)[Len(q) + 1] = x /\ DOMAIN Append(q, x) = 1 .. Len(q) + 1
  OBVIOUS
<1>3. \A i \in 1 .. Len(q) + 1 : i \in 1 .. Len(q) \/ i = Len(q) + 1
  OBVIOUS
<1> QED
  BY <1>1, <1>2, <1>3 DEF Range

(* The rest of a sequence holds nothing new. *)
LEMMA RangeTail ==
  ASSUME NEW S, NEW q \in Seq(S), q # << >>
  PROVE  Range(Tail(q)) \subseteq Range(q)
  BY DEF Range

(* The elements of a sequence over a set are in the set. *)
LEMMA RangeSubset ==
  ASSUME NEW S, NEW q \in Seq(S)
  PROVE  Range(q) \subseteq S
  BY DEF Range

(* The empty sequence holds nothing. *)
LEMMA RangeEmpty == Range(<< >>) = {}
  BY DEF Range

-----------------------------------------------------------------------------
(* Type correctness, as a step of any system that uses the bus. *)
LEMMA BusStepTyped ==
  ASSUME BusTypeOK, [BusNext]_busVars
  PROVE  BusTypeOK'
<1> USE DEF BusTypeOK
<1>1. ASSUME NEW s \in Subscribers, Subscribe(s) PROVE BusTypeOK'
  BY <1>1 DEF Subscribe
<1>2. ASSUME NEW p \in Publishers, NEW e \in Events, PublishBegin(p, e)
      PROVE  BusTypeOK'
  BY <1>2 DEF PublishBegin
<1>3. ASSUME NEW p \in Publishers, Offer(p) PROVE BusTypeOK'
  <2> DEFINE s == Head(offering[p].rest)
             e == offering[p].event
             room == Len(channel[s]) < BufSize
  <2>1. offering[p].rest \in Seq(Subscribers) /\ offering[p].rest # << >>
    BY <1>3 DEF Offer
  <2>2. e \in Events /\ s \in Subscribers /\ Tail(offering[p].rest) \in Seq(Subscribers)
    BY <2>1
  <2>3. channel' \in [Subscribers -> Seq(Events)]
    <3>1. channel' = IF room THEN [channel EXCEPT ![s] = Append(@, e)] ELSE channel
      BY <1>3 DEF Offer
    <3> QED
      BY <2>2, <3>1
  <2>4. lost' \in [Subscribers -> SUBSET Events]
    <3>1. lost' = IF room THEN lost ELSE [lost EXCEPT ![s] = @ \cup {e}]
      BY <1>3 DEF Offer
    <3> QED
      BY <2>2, <3>1
  <2>5. offering' = [offering EXCEPT ![p].rest = Tail(@)]
    BY <1>3 DEF Offer
  <2>6. \A q \in Publishers : offering'[q] =
           IF q = p THEN [offering[p] EXCEPT !.rest = Tail(@)] ELSE offering[q]
    BY <2>5
  <2>7. offering' \in [Publishers -> [active : BOOLEAN, event : Events \cup {<< >>},
                                     rest : Seq(Subscribers)]]
    BY <2>2, <2>5
  <2>8. offering[p].active /\ \A q \in Publishers : offering'[q].rest # << >> =>
           offering'[q].active /\ offering'[q].event \in Events
    <3>1. offering[p].active /\ offering[p].event \in Events
      BY <2>1
    <3>2. ASSUME NEW q \in Publishers, offering'[q].rest # << >>
          PROVE  offering'[q].active /\ offering'[q].event \in Events
      <4>1. CASE q = p
        BY <2>6, <3>1, <4>1
      <4>2. CASE q # p
        BY <2>6, <3>2, <4>2
      <4> QED
        BY <4>1, <4>2
    <3> QED
      BY <3>1, <3>2
  <2> QED
    BY <1>3, <2>3, <2>4, <2>7, <2>8 DEF Offer
<1>4. ASSUME NEW p \in Publishers, PublishEnd(p) PROVE BusTypeOK'
  BY <1>4 DEF PublishEnd, Idle
<1>5. ASSUME Close PROVE BusTypeOK'
  BY <1>5, RangeSubset DEF Close
<1>6. ASSUME NEW s \in Subscribers, Receive(s) PROVE BusTypeOK'
  BY <1>6 DEF Receive
<1>7. CASE UNCHANGED busVars
  BY <1>7 DEF busVars
<1> QED
  BY <1>1, <1>2, <1>3, <1>4, <1>5, <1>6, <1>7 DEF BusNext, BusStep

(* The bus keeps its types, whatever its users do. *)
THEOREM BusTyped == BusSpec => []BusTypeOK
<1>1. BusInit => BusTypeOK
  BY DEF BusInit, BusTypeOK, Idle
<1> QED
  BY <1>1, BusStepTyped, PTL DEF BusSpec

-----------------------------------------------------------------------------
(* The strengthening: a channel that is closed has left the list, so a     *)
(* walk that starts now cannot meet it; and while a walk is under way      *)
(* nobody closes.                                                          *)
ClosedIsGone == Range(subscribers) \cap closed = {}

(* No step of the bus puts a closed channel before a publisher. *)
LEMMA BusStepSafe ==
  ASSUME BusTypeOK, ClosedIsGone, NoSendOnClosed, [BusNext]_busVars
  PROVE  ClosedIsGone' /\ NoSendOnClosed'
<1> USE DEF BusTypeOK, ClosedIsGone, NoSendOnClosed
<1>1. ASSUME NEW s \in Subscribers, Subscribe(s)
      PROVE  ClosedIsGone' /\ NoSendOnClosed'
  <2>1. Range(subscribers') = Range(subscribers) \cup {s}
    BY <1>1, RangeAppend DEF Subscribe
  <2> QED
    BY <1>1, <2>1 DEF Subscribe
<1>2. ASSUME NEW p \in Publishers, NEW e \in Events, PublishBegin(p, e)
      PROVE  ClosedIsGone' /\ NoSendOnClosed'
  <2>1. offering'[p].rest = subscribers
    BY <1>2 DEF PublishBegin
  <2>2. \A q \in Publishers : q # p => offering'[q] = offering[q]
    BY <1>2 DEF PublishBegin
  <2> QED
    BY <1>2, <2>1, <2>2 DEF PublishBegin
<1>3. ASSUME NEW p \in Publishers, Offer(p)
      PROVE  ClosedIsGone' /\ NoSendOnClosed'
  <2>1. offering[p].rest \in Seq(Subscribers) /\ offering[p].rest # << >>
    BY <1>3 DEF Offer
  <2>2. offering'[p].rest = Tail(offering[p].rest)
    BY <1>3 DEF Offer
  <2>3. Range(offering'[p].rest) \subseteq Range(offering[p].rest)
    BY <2>1, <2>2, RangeTail
  <2>4. \A q \in Publishers : q # p => offering'[q] = offering[q]
    BY <1>3 DEF Offer
  <2> QED
    BY <1>3, <2>3, <2>4 DEF Offer
<1>4. ASSUME NEW p \in Publishers, PublishEnd(p)
      PROVE  ClosedIsGone' /\ NoSendOnClosed'
  <2>1. \A q \in Publishers : offering'[q] = IF q = p THEN Idle ELSE offering[q]
    BY <1>4 DEF PublishEnd
  <2> QED
    BY <1>4, <2>1, RangeEmpty DEF PublishEnd, Idle
<1>5. ASSUME Close PROVE ClosedIsGone' /\ NoSendOnClosed'
  <2>1. \A p \in Publishers : offering[p].rest = << >>
    BY <1>5 DEF Close, NoReader
  <2> QED
    BY <1>5, <2>1, RangeEmpty DEF Close
<1>6. ASSUME NEW s \in Subscribers, Receive(s)
      PROVE  ClosedIsGone' /\ NoSendOnClosed'
  BY <1>6 DEF Receive
<1>7. CASE UNCHANGED busVars
  BY <1>7 DEF busVars
<1> QED
  BY <1>1, <1>2, <1>3, <1>4, <1>5, <1>6, <1>7 DEF BusNext, BusStep

(* Publish never panics: whatever Subscribe and Close do meanwhile, every  *)
(* channel a publisher still has to visit is open.                         *)
THEOREM BusNeverSendsOnClosed == BusSpec => []NoSendOnClosed
<1>1. BusInit => BusTypeOK /\ ClosedIsGone /\ NoSendOnClosed
  BY RangeEmpty DEF BusInit, BusTypeOK, ClosedIsGone, NoSendOnClosed, Idle
<1>2. BusTypeOK /\ ClosedIsGone /\ NoSendOnClosed /\ [BusNext]_busVars
        => (BusTypeOK /\ ClosedIsGone /\ NoSendOnClosed)'
  BY BusStepTyped, BusStepSafe
<1> QED
  BY <1>1, <1>2, PTL DEF BusSpec

-----------------------------------------------------------------------------
(* The elements of a sequence are its head and those of the rest.          *)
LEMMA RangeHead ==
  ASSUME NEW S, NEW q \in Seq(S), q # << >>
  PROVE  Range(q) = {Head(q)} \cup Range(Tail(q))
<1>1. /\ Head(q) = q[1] /\ DOMAIN q = 1 .. Len(q) /\ Len(q) \in Nat \ {0}
      /\ DOMAIN Tail(q) = 1 .. (Len(q) - 1) /\ \A i \in 1 .. (Len(q) - 1) : Tail(q)[i] = q[i + 1]
  OBVIOUS
<1>2. ASSUME NEW i \in DOMAIN q PROVE q[i] = Head(q) \/ \E j \in DOMAIN Tail(q) : Tail(q)[j] = q[i]
  <2>1. CASE i = 1
    BY <1>1, <2>1
  <2>2. CASE i # 1
    <3>1. i - 1 \in DOMAIN Tail(q) /\ Tail(q)[i - 1] = q[i]
      BY <1>1, <2>2
    <3> QED
      BY <3>1
  <2> QED
    BY <2>1, <2>2
<1>3. Range(q) \subseteq {Head(q)} \cup Range(Tail(q))
  BY <1>2 DEF Range
<1>4. Head(q) \in Range(q)
  BY <1>1 DEF Range
<1> QED
  BY <1>3, <1>4, RangeTail

(* Whether an event published to a subscriber is accounted for.            *)
Accounted(s, e) ==
    \/ e \in Range(channel[s]) \cup Range(received[s]) \cup lost[s]
    \/ \E p \in Publishers : offering[p].event = e /\ s \in Range(offering[p].rest)

(* A step of the bus loses track of no event.                              *)
LEMMA BusStepAccounts ==
  ASSUME BusTypeOK, NoSilentLoss, [BusNext]_busVars
  PROVE  NoSilentLoss'
<1>1. \A s \in Subscribers : \A e \in expected[s] : Accounted(s, e)
  BY DEF NoSilentLoss, Accounted
<1>2. SUFFICES \A s \in Subscribers : \A e \in expected'[s] : Accounted(s, e)'
  BY DEF NoSilentLoss, Accounted
<1>3. CASE UNCHANGED << channel, received, lost, offering, expected >>
  BY <1>1, <1>3 DEF Accounted
<1>4. ASSUME NEW p \in Publishers, NEW f \in Events, PublishBegin(p, f),
             NEW s \in Subscribers, NEW e \in expected'[s]
      PROVE  Accounted(s, e)'
  <2>1. /\ UNCHANGED << channel, received, lost >>
        /\ offering'[p].event = f /\ offering'[p].rest = subscribers
        /\ \A q \in Publishers : q # p => offering'[q] = offering[q]
        /\ e \in expected[s] \/ (e = f /\ s \in Range(subscribers))
    BY <1>4 DEF PublishBegin, BusTypeOK
  <2>2. offering[p].rest = << >>
    BY <1>4 DEF PublishBegin, BusTypeOK
  <2>3. CASE e = f /\ s \in Range(subscribers)
    BY <2>1, <2>3 DEF Accounted
  <2>4. CASE e \in expected[s]
    <3>1. s \notin Range(offering[p].rest)
      BY <2>2, RangeEmpty
    <3> QED
      BY <1>1, <2>1, <2>4, <3>1 DEF Accounted
  <2> QED
    BY <2>1, <2>3, <2>4
<1>5. ASSUME NEW p \in Publishers, Offer(p), NEW s \in Subscribers, NEW e \in expected'[s]
      PROVE  Accounted(s, e)'
  <2> DEFINE t == Head(offering[p].rest)
             f == offering[p].event
  <2>1. /\ offering[p].rest \in Seq(Subscribers) /\ offering[p].rest # << >> /\ f \in Events
        /\ t \in Subscribers
    BY <1>5 DEF Offer, BusTypeOK
  <2>2. Range(offering[p].rest) = {t} \cup Range(Tail(offering[p].rest))
    BY <2>1, RangeHead
  <2>3. /\ offering'[p].rest = Tail(offering[p].rest) /\ offering'[p].event = f
        /\ \A q \in Publishers : q # p => offering'[q] = offering[q]
        /\ UNCHANGED << received, expected >>
    BY <1>5 DEF Offer, BusTypeOK
  <2>4. /\ Range(channel[s]) \cup lost[s] \subseteq Range(channel'[s]) \cup lost'[s]
        /\ s = t => f \in Range(channel'[s]) \cup lost'[s]
    <3>1. CASE Len(channel[t]) < BufSize
      <4>1. channel' = [channel EXCEPT ![t] = Append(@, f)] /\ lost' = lost
        BY <1>5, <3>1 DEF Offer
      <4>2. Range(Append(channel[t], f)) = Range(channel[t]) \cup {f}
        BY <2>1, RangeAppend DEF BusTypeOK
      <4>3. channel'[t] = Append(channel[t], f) /\ (s # t => channel'[s] = channel[s])
        BY <2>1, <4>1 DEF BusTypeOK
      <4> QED
        BY <4>1, <4>2, <4>3
    <3>2. CASE ~ (Len(channel[t]) < BufSize)
      <4>1. channel' = channel /\ lost' = [lost EXCEPT ![t] = @ \cup {f}]
        BY <1>5, <3>2 DEF Offer
      <4>2. lost'[t] = lost[t] \cup {f} /\ (s # t => lost'[s] = lost[s])
        BY <2>1, <4>1 DEF BusTypeOK
      <4> QED
        BY <4>1, <4>2
    <3> QED
      BY <3>1, <3>2
  <2>5. Accounted(s, e)
    BY <1>1, <1>5, <2>3
  <2> HIDE DEF t, f
  <2>6. CASE e \in Range(channel[s]) \cup Range(received[s]) \cup lost[s]
    BY <2>3, <2>4, <2>6 DEF Accounted
  <2>7. ASSUME NEW q \in Publishers, offering[q].event = e, s \in Range(offering[q].rest)
        PROVE  Accounted(s, e)'
    <3>1. CASE q # p
      BY <2>3, <2>7, <3>1 DEF Accounted
    <3>2. CASE q = p /\ s = t
      <4>1. e = f
        BY <2>7, <3>2 DEF f
      <4> QED
        BY <2>4, <3>2, <4>1 DEF Accounted
    <3>3. CASE q = p /\ s # t
      <4>1. s \in Range(offering'[p].rest) /\ offering'[p].event = e
        BY <2>2, <2>3, <2>7, <3>3 DEF f
      <4> QED
        BY <4>1 DEF Accounted
    <3> QED
      BY <3>1, <3>2, <3>3
  <2> QED
    BY <2>5, <2>6, <2>7 DEF Accounted
<1>6. ASSUME NEW p \in Publishers, PublishEnd(p), NEW s \in Subscribers, NEW e \in expected'[s]
      PROVE  Accounted(s, e)'
  <2>1. /\ UNCHANGED << channel, received, lost, expected >>
        /\ \A q \in Publishers : q # p => offering'[q] = offering[q]
        /\ offering[p].rest = << >>
    BY <1>6 DEF PublishEnd, BusTypeOK
  <2>2. s \notin Range(offering[p].rest)
    BY <2>1, RangeEmpty
  <2> QED
    BY <1>1, <2>1, <2>2 DEF Accounted
<1>7. ASSUME NEW r \in Subscribers, Receive(r), NEW s \in Subscribers, NEW e \in expected'[s]
      PROVE  Accounted(s, e)'
  <2>1. /\ UNCHANGED << offering, lost, expected >>
        /\ channel[r] # << >> /\ channel[r] \in Seq(Events) /\ received[r] \in Seq(Events)
        /\ channel'[r] = Tail(channel[r]) /\ received'[r] = Append(received[r], Head(channel[r]))
        /\ s # r => channel'[s] = channel[s] /\ received'[s] = received[s]
    BY <1>7 DEF Receive, BusTypeOK
  <2>2. Range(channel[r]) = {Head(channel[r])} \cup Range(Tail(channel[r]))
    BY <2>1, RangeHead
  <2>3. Range(received'[r]) = Range(received[r]) \cup {Head(channel[r])}
    <3>1. Head(channel[r]) \in Events
      BY <2>1
    <3> QED
      BY <2>1, <3>1, RangeAppend
  <2>4. Range(channel[s]) \cup Range(received[s]) \subseteq Range(channel'[s]) \cup Range(received'[s])
    BY <2>1, <2>2, <2>3
  <2>5. Accounted(s, e)
    BY <1>1, <2>1
  <2> QED
    BY <2>1, <2>4, <2>5 DEF Accounted
<1>8. CASE Close \/ \E s \in Subscribers : Subscribe(s)
  BY <1>3, <1>8 DEF Close, Subscribe
<1>9. CASE UNCHANGED busVars
  BY <1>3, <1>9 DEF busVars
<1> QED
  BY <1>4, <1>5, <1>6, <1>7, <1>8, <1>9 DEF BusNext, BusStep

(* "Falling behind means lost events for that subscriber", and nothing     *)
(* else does: whatever was published while a channel was subscribed is in  *)
(* it, received, still offered, or was refused because it was full.        *)
THEOREM BusLosesNothingSilently == BusSpec => []NoSilentLoss
<1>1. BusInit => BusTypeOK /\ NoSilentLoss
  BY DEF BusInit, BusTypeOK, NoSilentLoss, Idle
<1>2. BusTypeOK /\ NoSilentLoss /\ [BusNext]_busVars => (BusTypeOK /\ NoSilentLoss)'
  BY BusStepTyped, BusStepAccounts
<1> QED
  BY <1>1, <1>2, PTL DEF BusSpec

-----------------------------------------------------------------------------
(* The pipeline. *)

(* Every step of the pipeline is a step of the bus, or leaves it alone.    *)
LEMMA PipelineStepsBus ==
  ASSUME TypeOK, [Next]_vars
  PROVE  [BusNext]_busVars
<1>1. CASE PumpReceive
  <2>1. Head(out) \in Events /\ Pump \in Publishers
    BY <1>1, PipelineAssumption DEF PumpReceive, TypeOK
  <2> QED
    BY <1>1, <2>1 DEF PumpReceive, BusNext
<1>2. CASE PumpOffer
  BY <1>2, PipelineAssumption DEF PumpOffer, BusNext, BusStep
<1>3. CASE PumpPublished
  BY <1>3, PipelineAssumption DEF PumpPublished, BusNext, BusStep
<1>4. CASE PumpStore
  BY <1>4 DEF PumpStore
<1>5. CASE BusUser
  BY <1>5 DEF BusUser, BusNext, BusStep
<1>6. ASSUME NEW s \in Sources, Emit(s) PROVE [BusNext]_busVars
  BY <1>6 DEF Emit
<1>7. CASE UNCHANGED vars
  BY <1>7 DEF vars
<1> QED
  BY <1>1, <1>2, <1>3, <1>4, <1>5, <1>6, <1>7 DEF Next, PumpStep

(* The window a push leaves holds what it held and the new event. *)
LEMMA SlideTyped ==
  ASSUME NEW s \in Sources, NEW w \in Seq(Events), NEW e \in Events
  PROVE  LogRing(s)!Slide(w, e) \in Seq(Events)
<1>1. CASE Len(w) < LogCap
  BY <1>1 DEF LogRing!Slide
<1>2. CASE ~ (Len(w) < LogCap)
  <2>1. w # << >>
    BY <1>2, PipelineAssumption
  <2> QED
    BY <1>2, <2>1 DEF LogRing!Slide
<1> QED
  BY <1>1, <1>2

PipelineInv == TypeOK /\ InTransit

(* The inductive invariant holds initially. *)
LEMMA PipelineInitInv == Init => PipelineInv
<1> SUFFICES ASSUME Init PROVE PipelineInv
  OBVIOUS
<1>1. BusTypeOK
  BY DEF Init, BusInit, BusTypeOK, Idle
<1>2. TypeOK
  BY <1>1, PipelineAssumption DEF Init, TypeOK
<1>3. InTransit
  BY PipelineAssumption DEF Init, InTransit, BusInit, Idle
<1> QED
  BY <1>2, <1>3 DEF PipelineInv

-----------------------------------------------------------------------------
(* Facts on sequences the steps need. *)
LEMMA ConcatTyped ==
  ASSUME NEW S, NEW p \in Seq(S), NEW q \in Seq(S)
  PROVE  p \o q \in Seq(S)
  OBVIOUS

(* Appending to the last part is appending to the whole. *)
LEMMA AppendAfter ==
  ASSUME NEW S, NEW p \in Seq(S), NEW q \in Seq(S), NEW x \in S
  PROVE  p \o Append(q, x) = Append(p \o q, x)
  OBVIOUS

(* A sequence of length one is its head alone. *)
LEMMA Single ==
  ASSUME NEW S, NEW q \in Seq(S), Len(q) = 1
  PROVE  q = << q[1] >> /\ q[1] \in S
<1>1. q[1] \in S /\ DOMAIN q = 1 .. 1
  OBVIOUS
<1>2. << q[1] >> \in Seq(S) /\ Len(<< q[1] >>) = 1 /\ << q[1] >>[1] = q[1]
  BY <1>1
<1>3. \A t \in Seq(S) : Len(t) = 1 /\ t[1] = q[1] => q = t
  OBVIOUS
<1> QED
  BY <1>1, <1>2, <1>3

-----------------------------------------------------------------------------
(* One lemma per step: it keeps the invariant, and what it does is what a  *)
(* lossy FIFO may do.                                                      *)
LEMMA EmitStep ==
  ASSUME PipelineInv, NEW s \in Sources, Emit(s)
  PROVE  PipelineInv' /\ [Fifo!Next]_<< accepted, stored >>
<1> DEFINE e == << s, emitted[s] + 1 >>
<1> USE DEF PipelineInv
<1>1. e \in Events /\ emitted' \in [Sources -> Nat] /\ \A q \in Sources : emitted'[q] =< Quota[q]
  <2>1. emitted[s] \in Nat /\ emitted[s] < Quota[s] /\ Quota[s] \in Nat
    BY PipelineAssumption DEF Emit, TypeOK
  <2>2. emitted[s] + 1 \in 1 .. Quota[s]
    BY <2>1, PipelineAssumption
  <2>3. e \in Events
    BY <2>2, PipelineAssumption
  <2>4. emitted' = [emitted EXCEPT ![s] = emitted[s] + 1]
    BY DEF Emit
  <2> QED
    BY <2>2, <2>3, <2>4, PipelineAssumption DEF TypeOK
<1>2. BusTypeOK'
  BY PipelineStepsBus, BusStepTyped DEF Next, TypeOK
<1>3. CASE Len(out) < OutCap
  <2>1. out' = Append(out, e) /\ accepted' = Append(accepted, e)
    BY <1>3 DEF Emit
  <2>2. TypeOK'
    BY <1>1, <1>2, <1>3, <2>1, PipelineAssumption DEF Emit, TypeOK
  <2>3. stored \o hand \o Append(out, e) = Append(stored \o hand \o out, e)
    <3>1. stored \o hand \in Seq(Events) /\ out \in Seq(Events)
      BY ConcatTyped DEF TypeOK
    <3>2. e \in Events
      BY <1>1
    <3> HIDE DEF e, PipelineInv
    <3> QED
      BY <3>1, <3>2, AppendAfter
  <2>4. InTransit'
    BY <2>1, <2>3 DEF Emit, InTransit, busVars
  <2>5. Fifo!Take(e)
    BY <2>1 DEF Emit, Fifo!Take
  <2> QED
    BY <1>1, <2>2, <2>4, <2>5 DEF Fifo!Next
<1>4. CASE ~ (Len(out) < OutCap)
  <2>1. UNCHANGED << out, accepted >>
    BY <1>4 DEF Emit
  <2> QED
    BY <1>1, <1>2, <2>1 DEF Emit, TypeOK, InTransit, busVars
<1> QED
  BY <1>3, <1>4

(* Taking an event from the channel keeps the invariant. *)
LEMMA ReceiveStep ==
  ASSUME PipelineInv, PumpReceive
  PROVE  PipelineInv' /\ UNCHANGED << accepted, stored >>
<1> USE DEF PipelineInv
<1>1. out # << >> /\ out \in Seq(Events) /\ Head(out) \in Events
  BY DEF PumpReceive, TypeOK
<1>2. BusTypeOK'
  BY PipelineStepsBus, BusStepTyped DEF Next, PumpStep, TypeOK
<1>3. TypeOK'
  <2>1. out' \in Seq(Events) /\ Len(out') <= OutCap
    BY <1>1, PipelineAssumption DEF PumpReceive, TypeOK
  <2>2. hand' \in Seq(Events)
    BY <1>1 DEF PumpReceive
  <2> QED
    BY <1>2, <2>1, <2>2 DEF PumpReceive, TypeOK
<1>4. hand = << >>
  BY DEF PumpReceive, InTransit, TypeOK
<1>5. stored \o << >> \o out = stored \o << Head(out) >> \o Tail(out)
  BY <1>1 DEF TypeOK
<1>6. offering'[Pump].active
  BY PipelineAssumption DEF PumpReceive, PublishBegin, TypeOK, BusTypeOK
<1>7. InTransit'
  BY <1>4, <1>5, <1>6 DEF PumpReceive, InTransit
<1> QED
  BY <1>3, <1>7 DEF PumpReceive

(* Offering it to a subscriber keeps the invariant. *)
LEMMA OfferStep ==
  ASSUME PipelineInv, PumpOffer
  PROVE  PipelineInv' /\ UNCHANGED << accepted, stored >>
<1> USE DEF PipelineInv
<1>1. BusTypeOK'
  BY PipelineStepsBus, BusStepTyped DEF Next, PumpStep, TypeOK
<1>2. offering'[Pump].active = offering[Pump].active
  BY PipelineAssumption DEF PumpOffer, Offer, TypeOK, BusTypeOK
<1> QED
  BY <1>1, <1>2 DEF PumpOffer, pipeVars, TypeOK, InTransit

(* Leaving the bus keeps the invariant. *)
LEMMA PublishedStep ==
  ASSUME PipelineInv, PumpPublished
  PROVE  PipelineInv' /\ UNCHANGED << accepted, stored >>
<1> USE DEF PipelineInv
<1>1. BusTypeOK'
  BY PipelineStepsBus, BusStepTyped DEF Next, PumpStep, TypeOK
<1>2. offering[Pump].active /\ ~ offering'[Pump].active
  BY PipelineAssumption DEF PumpPublished, PublishEnd, Idle, TypeOK, BusTypeOK
<1> QED
  BY <1>1, <1>2 DEF PumpPublished, TypeOK, InTransit

(* Pushing the event into the store keeps the invariant. *)
LEMMA StoreStep ==
  ASSUME PipelineInv, PumpStore
  PROVE  PipelineInv' /\ Fifo!Deliver
<1> DEFINE e == hand[1]
<1> USE DEF PipelineInv
<1>1. hand = << e >> /\ e \in Events
  <2>1. hand \in Seq(Events) /\ Len(hand) = 1
    BY DEF PumpStore, InTransit, TypeOK
  <2> QED
    BY <2>1, Single
<1>2. BusTypeOK'
  BY PipelineStepsBus, BusStepTyped DEF Next, PumpStep, TypeOK
<1>3. e[1] \in Sources
  BY <1>1, PipelineAssumption
<1>4. logs' \in [Sources -> Seq(Events)]
  <2>1. logs' = [logs EXCEPT ![e[1]] = LogRing(e[1])!Slide(logs[e[1]], e)]
    BY DEF PumpStore
  <2>2. LogRing(e[1])!Slide(logs[e[1]], e) \in Seq(Events)
    BY <1>1, <1>3, SlideTyped DEF TypeOK
  <2> QED
    BY <2>1, <2>2 DEF TypeOK
<1>5. stored' = Append(stored, e) /\ hand' = << >> /\ UNCHANGED << busVars, emitted, out, accepted >>
  BY DEF PumpStore
<1>6. TypeOK'
  BY <1>1, <1>2, <1>4, <1>5 DEF PumpStore, TypeOK
<1>7. stored \o << e >> \o out = Append(stored, e) \o << >> \o out
  BY <1>1 DEF TypeOK
<1>8. InTransit'
  BY <1>1, <1>5, <1>7 DEF PumpStore, InTransit, busVars
<1>9. Len(stored) < Len(accepted) /\ accepted[Len(stored) + 1] = e
  <2>1. accepted = (stored \o << e >>) \o out
    BY <1>1 DEF InTransit
  <2>2. stored \in Seq(Events) /\ out \in Seq(Events) /\ e \in Events
    BY <1>1 DEF TypeOK
  <2> HIDE DEF e, PipelineInv
  <2> QED
    BY <2>1, <2>2
<1> QED
  BY <1>5, <1>6, <1>8, <1>9 DEF Fifo!Deliver

(* The other users of the bus keep the invariant. *)
LEMMA BusUserStep ==
  ASSUME PipelineInv, BusUser
  PROVE  PipelineInv' /\ UNCHANGED << accepted, stored >>
<1> USE DEF PipelineInv
<1>1. BusTypeOK'
  BY PipelineStepsBus, BusStepTyped DEF Next, TypeOK
<1>2. offering' = offering
  BY DEF BusUser, Close, Subscribe, Receive
<1> QED
  BY <1>1, <1>2 DEF BusUser, pipeVars, TypeOK, InTransit

(* Every step keeps the invariant. *)
LEMMA PipelineStep ==
  ASSUME PipelineInv, [Next]_vars
  PROVE  PipelineInv' /\ [Fifo!Next]_<< accepted, stored >>
<1>1. CASE UNCHANGED vars
  BY <1>1 DEF vars, pipeVars, busVars, PipelineInv, TypeOK, BusTypeOK, InTransit
<1>2. CASE Next
  BY <1>2, EmitStep, ReceiveStep, OfferStep, PublishedStep, StoreStep, BusUserStep
     DEF Next, PumpStep, Fifo!Next
<1> QED
  BY <1>1, <1>2

-----------------------------------------------------------------------------
(* Every variable keeps its type and the channel its bound. *)
THEOREM PipelineTyped == Spec => []TypeOK
  BY PipelineInitInv, PipelineStep, PTL DEF Spec, PipelineInv

(* No event the channel took is lost, repeated or reordered between the    *)
(* receivers and the store, for any capacities and any bus users.          *)
THEOREM PipelineInTransit == Spec => []InTransit
  BY PipelineInitInv, PipelineStep, PTL DEF Spec, PipelineInv

(* The ingestion path is the lossy FIFO it promises to be. *)
THEOREM PipelineImplementsLossyFifo == Spec => ImplementsLossyFifo
<1>1. Init => Fifo!Init
  BY DEF Init, Fifo!Init
<1> QED
  BY <1>1, PipelineInitInv, PipelineStep, PTL DEF Spec, ImplementsLossyFifo, Fifo!Spec

(* The pump never panics on a channel that Close closed. *)
THEOREM PumpNeverSendsOnClosed == Spec => []NoSendOnClosed
<1>1. Init => BusInit
  BY DEF Init
<1>2. TypeOK /\ [Next]_vars => [BusNext]_busVars
  BY PipelineStepsBus
<1>3. Spec => BusSpec
  BY <1>1, <1>2, PipelineTyped, PTL DEF Spec, BusSpec
<1> QED
  BY <1>3, BusNeverSendsOnClosed

(* No event published on the bus is lost to a subscriber but by that       *)
(* subscriber's own full channel.                                          *)
THEOREM PipelineLosesNothingSilently == Spec => []NoSilentLoss
<1>1. Init => BusInit
  BY DEF Init
<1>2. TypeOK /\ [Next]_vars => [BusNext]_busVars
  BY PipelineStepsBus
<1>3. Spec => BusSpec
  BY <1>1, <1>2, PipelineTyped, PTL DEF Spec, BusSpec
<1> QED
  BY <1>3, BusLosesNothingSilently

-----------------------------------------------------------------------------
(* What a service's logs show is older than what is on its way, and what   *)
(* is on its way is in the order of its emission.                          *)
Way == hand \o out

InOrder ==
    /\ \A i \in DOMAIN Way : Way[i][2] =< emitted[Way[i][1]]
    /\ \A i, j \in DOMAIN Way : i < j /\ Way[i][1] = Way[j][1] => Way[i][2] < Way[j][2]
    /\ \A s \in Sources : \A i \in DOMAIN logs[s] :
          /\ logs[s][i][1] = s /\ logs[s][i][2] =< emitted[s]
          /\ \A j \in DOMAIN Way : Way[j][1] = s => logs[s][i][2] < Way[j][2]
    /\ \A s \in Sources : \A i, j \in DOMAIN logs[s] : i < j => logs[s][i][2] < logs[s][j][2]

(* An event is a source and a number. *)
LEMMA EventParts == ASSUME NEW e \in Events PROVE e[1] \in Sources /\ e[2] \in Nat
  BY PipelineAssumption

(* The new event is the last of a window. *)
LEMMA SlideLast ==
  ASSUME NEW s \in Sources, NEW w \in Seq(Events), NEW e \in Events,
         NEW u, u = LogRing(s)!Slide(w, e)
  PROVE  u \in Seq(Events) /\ u[Len(u)] = e /\ Len(u) \in Nat \ {0}
<1>1. CASE Len(w) < LogCap
  <2>1. u = Append(w, e)
    BY <1>1 DEF LogRing!Slide
  <2> QED
    BY <2>1
<1>2. CASE ~ (Len(w) < LogCap)
  <2>1. u = Append(Tail(w), e) /\ w # << >>
    BY <1>2, PipelineAssumption DEF LogRing!Slide
  <2>2. PICK t \in Seq(Events) : t = Tail(w)
    <3>1. Tail(w) \in Seq(Events)
      BY <2>1
    <3> QED
      BY <3>1
  <2> QED
    BY <2>1, <2>2
<1> QED
  BY <1>1, <1>2

(* The others stand before it in the order they had.                       *)
LEMMA SlideRest ==
  ASSUME NEW s \in Sources, NEW w \in Seq(Events), NEW e \in Events,
         NEW u, u = LogRing(s)!Slide(w, e)
  PROVE  \E d \in {0, 1} : \A i \in 1 .. (Len(u) - 1) : i + d \in DOMAIN w /\ u[i] = w[i + d]
<1>1. CASE Len(w) < LogCap
  <2>1. u = Append(w, e)
    BY <1>1 DEF LogRing!Slide
  <2>2. \A i \in 1 .. (Len(u) - 1) : i + 0 \in DOMAIN w /\ u[i] = w[i + 0]
    BY <2>1
  <2> QED
    BY <2>2
<1>2. CASE ~ (Len(w) < LogCap)
  <2>1. u = Append(Tail(w), e) /\ w # << >>
    BY <1>2, PipelineAssumption DEF LogRing!Slide
  <2>2. PICK t \in Seq(Events) : t = Tail(w)
    <3>1. Tail(w) \in Seq(Events)
      BY <2>1
    <3> QED
      BY <3>1
  <2>3. \A i \in 1 .. Len(t) : i + 1 \in DOMAIN w /\ t[i] = w[i + 1]
    BY <2>1, <2>2
  <2>4. Len(u) - 1 = Len(t) /\ \A i \in 1 .. Len(t) : u[i] = t[i]
    BY <2>1, <2>2
  <2>5. \A i \in 1 .. (Len(u) - 1) : i + 1 \in DOMAIN w /\ u[i] = w[i + 1]
    BY <2>3, <2>4
  <2> QED
    BY <2>5
<1> QED
  BY <1>1, <1>2

LEMMA OrderInit == Init => InOrder
  BY DEF Init, InOrder, Way

LEMMA OrderEmit == ASSUME PipelineInv, InOrder, NEW s \in Sources, Emit(s) PROVE InOrder'
<1> DEFINE e == << s, emitted[s] + 1 >>
<1>1. /\ Way \in Seq(Events) /\ emitted \in [Sources -> Nat]
      /\ logs \in [Sources -> Seq(Events)]
  BY ConcatTyped DEF Way, PipelineInv, TypeOK
<1>2. /\ emitted' = [emitted EXCEPT ![s] = emitted[s] + 1]
      /\ UNCHANGED << hand, logs >>
  BY DEF Emit
<1>3. \A r \in Sources : /\ emitted[r] =< emitted'[r]
                          /\ emitted'[r] \in Nat /\ emitted[r] \in Nat
  BY <1>1, <1>2
<1>4. emitted'[s] = emitted[s] + 1
  BY <1>1, <1>2
<1>5. \A i \in DOMAIN Way : Way[i] \in Events /\ Way[i][1] \in Sources /\ Way[i][2] \in Nat
  <2>1. \A i \in DOMAIN Way : Way[i] \in Events
    BY <1>1
  <2> QED
    BY <2>1, EventParts
<1>6. \A r \in Sources : \A i \in DOMAIN logs[r] : logs[r][i][2] \in Nat
  <2>1. ASSUME NEW r \in Sources, NEW i \in DOMAIN logs[r] PROVE logs[r][i] \in Events
    BY <1>1
  <2> QED
    BY <2>1, EventParts
<1>7. CASE Len(out) < OutCap
  <2>1. out' = Append(out, e) /\ e \in Events
    <3>1. emitted[s] + 1 \in 1 .. Quota[s]
      BY <1>1, PipelineAssumption DEF Emit
    <3> QED
      BY <1>7, <3>1, PipelineAssumption DEF Emit
  <2>2. Way' = Append(Way, e)
    <3>1. hand \in Seq(Events) /\ out \in Seq(Events)
      BY DEF PipelineInv, TypeOK
    <3> HIDE DEF e
    <3>2. hand \o Append(out, e) = Append(hand \o out, e)
      BY <2>1, <3>1, AppendAfter
    <3> QED
      BY <1>2, <2>1, <3>2 DEF Way
  <2>3. /\ DOMAIN Way' = 1 .. (Len(Way) + 1) /\ DOMAIN Way = 1 .. Len(Way) /\ Len(Way) \in Nat
        /\ Way'[Len(Way) + 1] = e /\ \A i \in 1 .. Len(Way) : Way'[i] = Way[i]
    BY <1>1, <2>1, <2>2
  <2>4. e[1] = s /\ e[2] = emitted[s] + 1
    OBVIOUS
  <2> HIDE DEF e
  <2>5. \A i \in DOMAIN Way' : Way'[i][2] =< emitted'[Way'[i][1]]
    <3>1. ASSUME NEW i \in 1 .. Len(Way)
          PROVE  Way'[i][2] =< emitted'[Way'[i][1]]
      <4>1. Way'[i] = Way[i] /\ Way[i][2] =< emitted[Way[i][1]] /\ Way[i][1] \in Sources
        BY <1>5, <2>3 DEF InOrder
      <4>2. Way[i][2] \in Nat
        BY <1>5, <2>3
      <4> QED
        BY <1>3, <4>1, <4>2
    <3>2. emitted'[e[1]] = e[2] /\ e[2] \in Nat
      BY <1>3, <1>4, <2>4
    <3>3. \A i \in DOMAIN Way' : i \in 1 .. Len(Way) \/ i = Len(Way) + 1
      BY <2>3
    <3>4. Way'[Len(Way) + 1][2] =< emitted'[Way'[Len(Way) + 1][1]]
      BY <2>3, <3>2
    <3> QED
      BY <3>1, <3>3, <3>4
  <2>6. ASSUME NEW i \in DOMAIN Way', NEW j \in DOMAIN Way', i < j, Way'[i][1] = Way'[j][1]
        PROVE  Way'[i][2] < Way'[j][2]
    <3>1. i \in DOMAIN Way /\ Way'[i] = Way[i]
      BY <2>3, <2>6
    <3>2. CASE j \in DOMAIN Way
      BY <2>3, <2>6, <3>1, <3>2 DEF InOrder
    <3>3. CASE j = Len(Way) + 1
      <4>1. Way[i][1] = s /\ Way[i][2] =< emitted[s]
        BY <2>3, <2>4, <2>6, <3>1, <3>3 DEF InOrder
      <4> QED
        BY <1>3, <1>5, <2>3, <2>4, <3>1, <3>3, <4>1
    <3> QED
      BY <2>3, <3>2, <3>3
  <2>7. ASSUME NEW r \in Sources, NEW i \in DOMAIN logs[r], NEW j \in DOMAIN Way', Way'[j][1] = r
        PROVE  logs[r][i][2] < Way'[j][2]
    <3>1. logs[r][i][2] =< emitted[r]
      BY DEF InOrder
    <3>2. CASE j \in DOMAIN Way
      BY <2>3, <2>7, <3>2 DEF InOrder
    <3>3. CASE j = Len(Way) + 1
      BY <1>3, <1>6, <2>3, <2>4, <2>7, <3>1, <3>3
    <3> QED
      BY <2>3, <3>2, <3>3
  <2>8. ASSUME NEW r \in Sources, NEW i \in DOMAIN logs[r]
        PROVE  logs[r][i][1] = r /\ logs[r][i][2] =< emitted'[r]
    BY <1>3, <1>6 DEF InOrder
  <2>9. logs' = logs /\ \A r \in Sources : \A i, j \in DOMAIN logs[r] : i < j => logs[r][i][2] < logs[r][j][2]
    BY <1>2 DEF InOrder
  <2> QED
    BY <2>5, <2>6, <2>7, <2>8, <2>9 DEF InOrder
<1>8. CASE ~ (Len(out) < OutCap)
  <2>1. Way' = Way /\ logs' = logs
    BY <1>2, <1>8 DEF Emit, Way
  <2>2. \A i \in DOMAIN Way : Way[i][2] =< emitted'[Way[i][1]]
    BY <1>3, <1>5 DEF InOrder
  <2>3. ASSUME NEW r \in Sources, NEW i \in DOMAIN logs[r] PROVE logs[r][i][2] =< emitted'[r]
    BY <1>3, <1>6 DEF InOrder
  <2> QED
    BY <2>1, <2>2, <2>3 DEF InOrder
<1> QED
  BY <1>7, <1>8

LEMMA OrderStore == ASSUME PipelineInv, InOrder, PumpStore PROVE InOrder'
<1>1. PICK e \in Events : hand = << e >>
  <2>1. hand \in Seq(Events) /\ Len(hand) = 1
    BY DEF PumpStore, PipelineInv, InTransit, TypeOK
  <2> QED
    BY <2>1, Single
<1>2. /\ out \in Seq(Events) /\ e[1] \in Sources /\ e[2] \in Nat
      /\ logs \in [Sources -> Seq(Events)]
  BY EventParts DEF PipelineInv, TypeOK
<1>3. PICK at \in Sources : at = e[1]
  BY <1>2
<1> DEFINE u == LogRing(at)!Slide(logs[at], e)
<1>4. /\ logs' = [logs EXCEPT ![at] = u] /\ Way' = << >> \o out /\ emitted' = emitted
  BY <1>1, <1>3 DEF PumpStore, Way
<1>5. Way' = out
  BY <1>2, <1>4
<1>6. /\ Way = << e >> \o out /\ Len(out) \in Nat /\ DOMAIN out = 1 .. Len(out)
      /\ DOMAIN Way = 1 .. (Len(out) + 1) /\ Way[1] = e
      /\ \A j \in DOMAIN out : j + 1 \in DOMAIN Way /\ Way[j + 1] = out[j]
  BY <1>1, <1>2 DEF Way
<1>7. \A j \in DOMAIN out : out[j][1] \in Sources /\ out[j][2] \in Nat
  <2>1. \A j \in DOMAIN out : out[j] \in Events
    BY <1>2
  <2> QED
    BY <2>1, EventParts
<1>8. /\ e[2] =< emitted[at]
      /\ \A j \in DOMAIN out : out[j][2] =< emitted[out[j][1]]
      /\ \A j \in DOMAIN out : out[j][1] = at => e[2] < out[j][2]
      /\ \A i, j \in DOMAIN out : i < j /\ out[i][1] = out[j][1] => out[i][2] < out[j][2]
  <2>1. 1 \in DOMAIN Way
    BY <1>6
  <2>2. e[2] =< emitted[at]
    BY <1>3, <1>6, <2>1 DEF InOrder
  <2>3. ASSUME NEW j \in DOMAIN out
        PROVE  out[j][2] =< emitted[out[j][1]] /\ (out[j][1] = at => e[2] < out[j][2])
    <3>1. 1 < j + 1 /\ j + 1 \in DOMAIN Way /\ Way[j + 1] = out[j]
      BY <1>6
    <3> QED
      BY <1>3, <1>6, <2>1, <3>1 DEF InOrder
  <2>4. ASSUME NEW i \in DOMAIN out, NEW j \in DOMAIN out, i < j, out[i][1] = out[j][1]
        PROVE  out[i][2] < out[j][2]
    <3>1. i + 1 < j + 1 /\ i + 1 \in DOMAIN Way /\ j + 1 \in DOMAIN Way
          /\ Way[i + 1] = out[i] /\ Way[j + 1] = out[j]
      BY <1>6, <2>4
    <3> QED
      BY <2>4, <3>1 DEF InOrder
  <2> QED
    BY <2>2, <2>3, <2>4
<1>9. ASSUME NEW r \in Sources, NEW i \in DOMAIN logs[r]
      PROVE  /\ logs[r][i][1] = r /\ logs[r][i][2] =< emitted[r]
             /\ r = at => logs[r][i][2] < e[2]
             /\ \A j \in DOMAIN out : out[j][1] = r => logs[r][i][2] < out[j][2]
  <2>1. /\ logs[r][i][1] = r /\ logs[r][i][2] =< emitted[r]
        /\ \A j \in DOMAIN Way : Way[j][1] = r => logs[r][i][2] < Way[j][2]
    BY <1>9 DEF InOrder
  <2>2. r = at => logs[r][i][2] < e[2]
    <3>1. 1 \in DOMAIN Way
      BY <1>6
    <3> QED
      BY <1>3, <1>6, <2>1, <3>1
  <2>3. ASSUME NEW j \in DOMAIN out, out[j][1] = r PROVE logs[r][i][2] < out[j][2]
    <3>1. j + 1 \in DOMAIN Way /\ Way[j + 1] = out[j]
      BY <1>6
    <3> QED
      BY <2>1, <2>3, <3>1
  <2> QED
    BY <2>1, <2>2, <2>3
<1>10. /\ u \in Seq(Events) /\ u[Len(u)] = e /\ Len(u) \in Nat \ {0}
       /\ \E d \in {0, 1} : \A i \in 1 .. (Len(u) - 1) :
             i + d \in DOMAIN logs[at] /\ u[i] = logs[at][i + d]
  <2>1. PICK w \in Seq(Events) : w = logs[at]
    BY <1>2
  <2>2. PICK v : v = LogRing(at)!Slide(w, e)
    OBVIOUS
  <2> HIDE DEF u
  <2>3. /\ v \in Seq(Events) /\ v[Len(v)] = e /\ Len(v) \in Nat \ {0}
    BY <2>2, SlideLast
  <2>4. \E d \in {0, 1} : \A i \in 1 .. (Len(v) - 1) : i + d \in DOMAIN w /\ v[i] = w[i + d]
    BY <2>2, SlideRest
  <2>5. u = v
    BY <2>1, <2>2 DEF u
  <2> QED
    BY <2>1, <2>3, <2>4, <2>5
<1> HIDE DEF u
<1>11. PICK d \in {0, 1} : \A i \in 1 .. (Len(u) - 1) :
             i + d \in DOMAIN logs[at] /\ u[i] = logs[at][i + d]
  BY <1>10
<1>12. DOMAIN u = 1 .. Len(u) /\ logs'[at] = u /\ \A r \in Sources : r # at => logs'[r] = logs[r]
  BY <1>2, <1>4, <1>10
<1>13. ASSUME NEW i \in DOMAIN u
       PROVE  /\ u[i][1] = at /\ u[i][2] =< emitted[at]
              /\ \A j \in DOMAIN out : out[j][1] = at => u[i][2] < out[j][2]
  <2>1. CASE i = Len(u)
    BY <1>3, <1>8, <1>10, <2>1
  <2>2. CASE i \in 1 .. (Len(u) - 1)
    BY <1>9, <1>11, <2>2
  <2> QED
    BY <1>10, <1>12, <2>1, <2>2
<1>14. ASSUME NEW i \in DOMAIN u, NEW j \in DOMAIN u, i < j PROVE u[i][2] < u[j][2]
  <2>1. i \in 1 .. (Len(u) - 1) /\ i + d \in DOMAIN logs[at] /\ u[i] = logs[at][i + d]
    BY <1>10, <1>11, <1>12, <1>14
  <2>2. CASE j = Len(u)
    BY <1>9, <1>10, <2>1, <2>2
  <2>3. CASE j \in 1 .. (Len(u) - 1)
    <3>1. j + d \in DOMAIN logs[at] /\ u[j] = logs[at][j + d] /\ i + d < j + d
      BY <1>11, <1>12, <1>14, <2>3
    <3> QED
      BY <2>1, <3>1 DEF InOrder
  <2> QED
    BY <1>10, <1>12, <2>2, <2>3
<1>15. ASSUME NEW r \in Sources, r # at, NEW i \in DOMAIN logs[r], NEW j \in DOMAIN logs[r], i < j
       PROVE  logs[r][i][2] < logs[r][j][2]
  BY <1>15 DEF InOrder
<1>16. \A r \in Sources : \A i \in DOMAIN logs'[r] :
         /\ logs'[r][i][1] = r /\ logs'[r][i][2] =< emitted[r]
         /\ \A j \in DOMAIN out : out[j][1] = r => logs'[r][i][2] < out[j][2]
  BY <1>9, <1>12, <1>13
<1>17. \A r \in Sources : \A i, j \in DOMAIN logs'[r] : i < j => logs'[r][i][2] < logs'[r][j][2]
  BY <1>12, <1>14, <1>15
<1> QED
  BY <1>4, <1>5, <1>8, <1>16, <1>17 DEF InOrder

LEMMA OrderStep == ASSUME PipelineInv, InOrder, [Next]_vars PROVE InOrder'
<1>1. CASE UNCHANGED << hand, out, logs, emitted >>
  BY <1>1 DEF InOrder, Way
<1>2. CASE PumpReceive
  <2>1. out \in Seq(Events) /\ out # << >> /\ hand = << >> /\ Head(out) \in Events
    BY <1>2 DEF PumpReceive, PipelineInv, InTransit, TypeOK
  <2>2. << >> \o out = << Head(out) >> \o Tail(out)
    BY <2>1
  <2>3. Way' = Way /\ UNCHANGED << logs, emitted >>
    BY <1>2, <2>1, <2>2 DEF PumpReceive, Way
  <2> QED
    BY <2>3 DEF InOrder
<1>3. CASE PumpOffer \/ PumpPublished \/ BusUser \/ UNCHANGED vars
  BY <1>1, <1>3 DEF PumpOffer, PumpPublished, BusUser, pipeVars, vars
<1> QED
  BY <1>2, <1>3, OrderStore, OrderEmit DEF Next, PumpStep

(* A service's logs hold its own events only, in the order in which its    *)
(* receiver emitted them, whatever was refused in between.                 *)
THEOREM PipelineLogsInOrder == Spec => []LogsInEmissionOrder
<1>1. PipelineInv /\ InOrder => LogsInEmissionOrder
  <2> SUFFICES ASSUME PipelineInv, InOrder PROVE LogsInEmissionOrder
    OBVIOUS
  <2>1. \A s \in Sources : logs[s] \in Seq(Events)
    BY DEF PipelineInv, TypeOK
  <2>2. \A s \in Sources : DOMAIN logs[s] = 1 .. Len(logs[s])
    BY <2>1
  <2>3. \A s \in Sources : \A i \in DOMAIN logs[s] : logs[s][i][1] = s
    BY DEF InOrder
  <2>4. \A s \in Sources : \A i, j \in DOMAIN logs[s] : i < j => logs[s][i][2] < logs[s][j][2]
    BY DEF InOrder
  <2> QED
    BY <2>2, <2>3, <2>4 DEF LogsInEmissionOrder
<1> QED
  BY <1>1, PipelineInitInv, PipelineStep, OrderInit, OrderStep, PTL DEF Spec

-----------------------------------------------------------------------------
(* What a subscriber has seen follows what the store is given: every event *)
(* of the one is in the other, and in the same order.                      *)
Distinct(q) == \A i, j \in DOMAIN q : q[i] = q[j] => i = j

Follows(q, g) ==
    /\ \A i \in DOMAIN q : \E k \in DOMAIN g : g[k] = q[i]
    /\ \A i, j \in DOMAIN q : i < j =>
          \A k, l \in DOMAIN g : g[k] = q[i] /\ g[l] = q[j] => k < l

(* Appending a new element keeps a sequence distinct. *)
LEMMA DistinctAppend ==
  ASSUME NEW S, NEW q \in Seq(S), NEW x \in S, Distinct(q), x \notin Range(q)
  PROVE  Distinct(Append(q, x))
<1>1. /\ DOMAIN Append(q, x) = 1 .. (Len(q) + 1) /\ DOMAIN q = 1 .. Len(q) /\ Len(q) \in Nat
      /\ Append(q, x)[Len(q) + 1] = x /\ \A i \in 1 .. Len(q) : Append(q, x)[i] = q[i]
  OBVIOUS
<1> DEFINE u == Append(q, x)
<1> HIDE DEF u
<1>2. ASSUME NEW i \in DOMAIN u, NEW j \in DOMAIN u, u[i] = u[j] PROVE i = j
  <2>1. CASE i \in 1 .. Len(q) /\ j \in 1 .. Len(q)
    BY <1>1, <1>2, <2>1 DEF u, Distinct
  <2>2. CASE i = Len(q) + 1 \/ j = Len(q) + 1
    BY <1>1, <1>2, <2>2 DEF u, Range
  <2> QED
    BY <1>1, <2>1, <2>2 DEF u
<1> QED
  BY <1>2 DEF u, Distinct

(* The rest of a distinct sequence is distinct and without its head. *)
LEMMA DistinctTail ==
  ASSUME NEW S, NEW q \in Seq(S), q # << >>, Distinct(q)
  PROVE  Distinct(Tail(q)) /\ Head(q) \notin Range(Tail(q))
<1>1. /\ Head(q) = q[1] /\ Len(q) \in Nat \ {0} /\ DOMAIN q = 1 .. Len(q)
      /\ DOMAIN Tail(q) = 1 .. (Len(q) - 1) /\ \A i \in 1 .. (Len(q) - 1) : Tail(q)[i] = q[i + 1]
  OBVIOUS
<1> QED
  BY <1>1 DEF Distinct, Range

(* A part of a distinct sequence is distinct, and apart from what follows. *)
LEMMA DistinctParts ==
  ASSUME NEW S, NEW p \in Seq(S), NEW q \in Seq(S), Distinct(p \o q)
  PROVE  Distinct(p) /\ \A j \in DOMAIN q : q[j] \notin Range(p)
<1>1. /\ DOMAIN (p \o q) = 1 .. (Len(p) + Len(q)) /\ DOMAIN p = 1 .. Len(p) /\ DOMAIN q = 1 .. Len(q)
      /\ Len(p) \in Nat /\ Len(q) \in Nat
      /\ \A i \in DOMAIN p : (p \o q)[i] = p[i]
      /\ \A j \in DOMAIN q : (p \o q)[Len(p) + j] = q[j]
  OBVIOUS
<1> DEFINE u == p \o q
<1> HIDE DEF u
<1>2. \A i, j \in DOMAIN u : u[i] = u[j] => i = j
  BY DEF u, Distinct
<1>3. ASSUME NEW i \in DOMAIN p, NEW j \in DOMAIN p, p[i] = p[j] PROVE i = j
  <2>1. i \in DOMAIN u /\ j \in DOMAIN u /\ u[i] = p[i] /\ u[j] = p[j]
    BY <1>1 DEF u
  <2> QED
    BY <1>2, <1>3, <2>1
<1>4. ASSUME NEW j \in DOMAIN q, NEW i \in DOMAIN p, q[j] = p[i] PROVE FALSE
  <2>1. i \in DOMAIN u /\ Len(p) + j \in DOMAIN u /\ u[i] = p[i] /\ u[Len(p) + j] = q[j]
        /\ Len(p) + j # i
    BY <1>1 DEF u
  <2> QED
    BY <1>2, <1>4, <2>1
<1> QED
  BY <1>3, <1>4 DEF Distinct, Range

(* One more event given to the store. *)
LEMMA FollowsGiven ==
  ASSUME NEW S, NEW q \in Seq(S), NEW g \in Seq(S), NEW h \in S, h \notin Range(g), Follows(q, g)
  PROVE  Follows(q, Append(g, h)) /\ h \notin Range(q)
<1>1. /\ DOMAIN Append(g, h) = 1 .. (Len(g) + 1) /\ DOMAIN g = 1 .. Len(g) /\ Len(g) \in Nat
      /\ Append(g, h)[Len(g) + 1] = h /\ \A i \in 1 .. Len(g) : Append(g, h)[i] = g[i]
  OBVIOUS
<1> DEFINE u == Append(g, h)
<1> HIDE DEF u
<1>2. \A i \in DOMAIN q : q[i] # h /\ \E k \in DOMAIN g : g[k] = q[i]
  BY DEF Follows, Range
<1>3. \A i \in DOMAIN q : \A k \in DOMAIN u : u[k] = q[i] => k \in DOMAIN g /\ g[k] = q[i]
  BY <1>1, <1>2 DEF u
<1>4. \A i \in DOMAIN q : \E k \in DOMAIN u : u[k] = q[i]
  BY <1>1, <1>2 DEF u
<1>5. ASSUME NEW i \in DOMAIN q, NEW j \in DOMAIN q, i < j, NEW k \in DOMAIN u, NEW l \in DOMAIN u,
             u[k] = q[i], u[l] = q[j]
      PROVE  k < l
  BY <1>3, <1>5 DEF Follows
<1>6. h \notin Range(q)
  BY <1>2 DEF Range
<1> QED
  BY <1>4, <1>5, <1>6 DEF Follows, u

(* One more event seen, the newest that was given. *)
LEMMA FollowsSeen ==
  ASSUME NEW S, NEW q \in Seq(S), NEW g \in Seq(S), g # << >>, Distinct(g),
         NEW x \in S, x = g[Len(g)], x \notin Range(q), Follows(q, g)
  PROVE  Follows(Append(q, x), g)
<1>1. /\ DOMAIN Append(q, x) = 1 .. (Len(q) + 1) /\ DOMAIN q = 1 .. Len(q) /\ Len(q) \in Nat
      /\ Append(q, x)[Len(q) + 1] = x /\ \A i \in 1 .. Len(q) : Append(q, x)[i] = q[i]
      /\ DOMAIN g = 1 .. Len(g) /\ Len(g) \in Nat \ {0}
  OBVIOUS
<1> DEFINE u == Append(q, x)
<1> HIDE DEF u
<1>2. ASSUME NEW i \in DOMAIN u PROVE \E k \in DOMAIN g : g[k] = u[i]
  <2>1. CASE i = Len(q) + 1
    BY <1>1, <2>1 DEF u
  <2>2. CASE i \in DOMAIN q
    BY <1>1, <2>2 DEF u, Follows
  <2> QED
    BY <1>1, <2>1, <2>2 DEF u
<1>3. ASSUME NEW i \in DOMAIN u, NEW j \in DOMAIN u, i < j, NEW k \in DOMAIN g, NEW l \in DOMAIN g,
             g[k] = u[i], g[l] = u[j]
      PROVE  k < l
  <2>1. i \in DOMAIN q /\ u[i] = q[i]
    BY <1>1, <1>3 DEF u
  <2>2. CASE j \in DOMAIN q
    <3>1. u[j] = q[j]
      BY <1>1, <2>2 DEF u
    <3> QED
      BY <1>3, <2>1, <2>2, <3>1 DEF Follows
  <2>3. CASE j = Len(q) + 1
    <3>1. u[j] = x /\ x # q[i]
      BY <1>1, <2>1, <2>3 DEF u, Range
    <3>2. l = Len(g)
      BY <1>1, <1>3, <3>1 DEF Distinct
    <3>3. k # l
      BY <1>3, <2>1, <3>1
    <3> QED
      BY <1>1, <3>2, <3>3
  <2> QED
    BY <1>1, <2>2, <2>3 DEF u
<1> QED
  BY <1>2, <1>3 DEF Follows, u

Given == stored \o hand
Seen(s) == received[s] \o channel[s]

(* Events are apart, the pump offers what it has in hand, and whoever is   *)
(* still to be offered it has not seen it.                                 *)
SeenInv ==
    /\ Distinct(accepted)
    /\ \A i \in DOMAIN accepted : accepted[i][2] =< emitted[accepted[i][1]]
    /\ Distinct(subscribers) /\ Distinct(offering[Pump].rest)
    /\ offering[Pump].active => hand = << offering[Pump].event >>
    /\ \A s \in Subscribers : Follows(Seen(s), Given)
    /\ \A s \in Range(offering[Pump].rest) : offering[Pump].event \notin Range(Seen(s))

LEMMA SeenTyped ==
  ASSUME PipelineInv
  PROVE  /\ Pump \in Publishers /\ Given \in Seq(Events) /\ accepted = Given \o out
         /\ \A s \in Subscribers : Seen(s) \in Seq(Events)
         /\ out \in Seq(Events) /\ accepted \in Seq(Events)
  BY ConcatTyped, PipelineAssumption DEF PipelineInv, TypeOK, BusTypeOK, InTransit, Given, Seen

LEMMA SeenInit == Init => SeenInv
<1> SUFFICES ASSUME Init PROVE SeenInv
  OBVIOUS
<1>1. /\ offering[Pump] = Idle /\ Pump \in Publishers /\ accepted = << >> /\ subscribers = << >>
      /\ \A s \in Subscribers : Seen(s) = << >>
  BY PipelineAssumption DEF Init, BusInit, Seen
<1> QED
  BY <1>1, RangeEmpty DEF SeenInv, Distinct, Follows, Idle

(* A step that changes neither what was given and seen nor the walk.       *)
LEMMA SeenKept ==
  ASSUME SeenInv, UNCHANGED << accepted, subscribers, offering, hand >>,
         Given' = Given, \A s \in Subscribers : Seen(s)' = Seen(s),
         Range(offering[Pump].rest) \subseteq Subscribers,
         \A i \in DOMAIN accepted : accepted[i][2] =< emitted'[accepted[i][1]]
  PROVE  SeenInv'
  BY DEF SeenInv

LEMMA SeenEmit == ASSUME PipelineInv, SeenInv, NEW s \in Sources, Emit(s) PROVE SeenInv'
<1> DEFINE e == << s, emitted[s] + 1 >>
<1>1. /\ UNCHANGED << busVars, hand, stored >> /\ emitted' = [emitted EXCEPT ![s] = emitted[s] + 1]
      /\ emitted \in [Sources -> Nat] /\ accepted \in Seq(Events)
  BY DEF Emit, PipelineInv, TypeOK
<1>2. \A r \in Sources : emitted[r] =< emitted'[r] /\ emitted'[r] \in Nat /\ emitted[r] \in Nat
  BY <1>1
<1>3. \A i \in DOMAIN accepted : accepted[i] \in Events /\ accepted[i][1] \in Sources
                                /\ accepted[i][2] \in Nat
  <2>1. \A i \in DOMAIN accepted : accepted[i] \in Events
    BY <1>1
  <2> QED
    BY <2>1, EventParts
<1>4. \A i \in DOMAIN accepted : accepted[i][2] =< emitted'[accepted[i][1]]
  BY <1>2, <1>3 DEF SeenInv
<1>5. Distinct(accepted') /\ \A i \in DOMAIN accepted' : accepted'[i][2] =< emitted'[accepted'[i][1]]
  <2>1. CASE Len(out) < OutCap
    <3>1. accepted' = Append(accepted, e) /\ e \in Events
      <4>1. emitted[s] + 1 \in 1 .. Quota[s]
        <5>1. emitted[s] \in Nat /\ Quota[s] \in Nat /\ emitted[s] < Quota[s]
          BY <1>1, PipelineAssumption DEF Emit
        <5> QED
          BY <5>1
      <4> QED
        BY <2>1, <4>1, PipelineAssumption DEF Emit
    <3>2. e[1] = s /\ e[2] = emitted[s] + 1 /\ emitted'[s] = emitted[s] + 1
      BY <1>1
    <3> HIDE DEF e
    <3>3. e \notin Range(accepted)
      <4> SUFFICES ASSUME NEW i \in DOMAIN accepted, accepted[i] = e PROVE FALSE
        BY DEF Range
      <4>1. emitted[s] + 1 =< emitted[s]
        BY <3>2 DEF SeenInv
      <4> QED
        BY <1>2, <4>1
    <3>4. Distinct(accepted')
      BY <1>1, <3>1, <3>3, DistinctAppend DEF SeenInv
    <3>5. ASSUME NEW i \in DOMAIN accepted' PROVE accepted'[i][2] =< emitted'[accepted'[i][1]]
      <4>1. \/ i \in DOMAIN accepted /\ accepted'[i] = accepted[i]
            \/ accepted'[i] = e
        BY <1>1, <3>1
      <4> QED
        BY <1>2, <1>4, <3>2, <4>1
    <3> QED
      BY <3>4, <3>5
  <2>2. CASE ~ (Len(out) < OutCap)
    BY <1>4, <2>2 DEF Emit, SeenInv
  <2> QED
    BY <2>1, <2>2
<1>6. UNCHANGED << subscribers, offering, hand, stored, received, channel >>
  BY <1>1 DEF busVars
<1> QED
  BY <1>5, <1>6 DEF SeenInv, Given, Seen

LEMMA SeenReceive == ASSUME PipelineInv, SeenInv, PumpReceive PROVE SeenInv'
<1> DEFINE h == Head(out)
<1>1. /\ out \in Seq(Events) /\ out # << >> /\ h \in Events /\ 1 \in DOMAIN out /\ h = out[1]
      /\ hand = << >> /\ stored \in Seq(Events)
  BY DEF PumpReceive, PipelineInv, InTransit, TypeOK
<1>2. /\ hand' = << h >> /\ UNCHANGED << stored, accepted, emitted, subscribers, channel, received >>
      /\ offering'[Pump].event = h /\ offering'[Pump].rest = subscribers
  BY SeenTyped DEF PumpReceive, PublishBegin, PipelineInv, TypeOK, BusTypeOK
<1> HIDE DEF h
<1>3. Given = stored /\ Given' = Append(Given, h)
  BY <1>1, <1>2 DEF Given
<1>4. h \notin Range(Given)
  BY <1>1, SeenTyped, DistinctParts DEF SeenInv
<1>5. \A s \in Subscribers : Seen(s)' = Seen(s)
  BY <1>2 DEF Seen
<1>6. ASSUME NEW s \in Subscribers PROVE Follows(Seen(s), Given)' /\ h \notin Range(Seen(s))
  <2>1. Follows(Seen(s), Append(Given, h)) /\ h \notin Range(Seen(s))
    BY <1>1, <1>4, SeenTyped, FollowsGiven DEF SeenInv
  <2> QED
    BY <1>3, <1>5, <2>1
<1>7. Range(subscribers) \subseteq Subscribers
  BY RangeSubset DEF PipelineInv, TypeOK, BusTypeOK
<1> QED
  BY <1>2, <1>5, <1>6, <1>7 DEF SeenInv

LEMMA SeenOffer == ASSUME PipelineInv, SeenInv, PumpOffer PROVE SeenInv'
<1> DEFINE g == Given
<1>1. /\ offering[Pump].rest # << >> /\ offering[Pump].rest \in Seq(Subscribers)
      /\ offering[Pump].active /\ offering[Pump].event \in Events
  BY SeenTyped DEF PumpOffer, Offer, PipelineInv, TypeOK, BusTypeOK
<1>2. PICK t \in Subscribers, e \in Events : t = Head(offering[Pump].rest) /\ e = offering[Pump].event
  BY <1>1
<1>3. /\ offering[Pump].rest # << >> /\ offering[Pump].rest \in Seq(Subscribers)
      /\ offering[Pump].active
      /\ channel \in [Subscribers -> Seq(Events)] /\ received \in [Subscribers -> Seq(Events)]
  BY SeenTyped DEF PumpOffer, Offer, PipelineInv, TypeOK, BusTypeOK
<1>4. /\ offering'[Pump].rest = Tail(offering[Pump].rest) /\ offering'[Pump].event = e
      /\ UNCHANGED << accepted, emitted, stored, hand, subscribers, received >>
  BY <1>2, SeenTyped DEF PumpOffer, Offer, pipeVars, PipelineInv, TypeOK, BusTypeOK
<1>5. hand = << e >> /\ stored \in Seq(Events)
  BY <1>3, <1>2 DEF SeenInv, PipelineInv, TypeOK
<1>6. /\ t \in Range(offering[Pump].rest) /\ t \notin Range(Tail(offering[Pump].rest))
      /\ Range(Tail(offering[Pump].rest)) \subseteq Range(offering[Pump].rest)
      /\ Distinct(Tail(offering[Pump].rest))
  BY <1>3, <1>2, RangeHead, RangeTail, DistinctTail DEF SeenInv
<1>7. g \in Seq(Events) /\ g # << >> /\ g[Len(g)] = e /\ Distinct(g) /\ Given' = g
  <2>1. Distinct(g) /\ g \in Seq(Events)
    BY SeenTyped, DistinctParts DEF SeenInv
  <2>2. g = stored \o << e >>
    BY <1>5 DEF Given
  <2> HIDE DEF g
  <2> QED
    BY <1>3, <1>4, <1>5, <2>1, <2>2 DEF Given, g
<1>8. channel'[t] \in {channel[t], Append(channel[t], e)}
      /\ \A s \in Subscribers : s # t => channel'[s] = channel[s]
  BY <1>3, <1>2 DEF PumpOffer, Offer
<1> HIDE DEF g
<1>9. ASSUME NEW s \in Subscribers, s # t PROVE Seen(s)' = Seen(s)
  BY <1>4, <1>8, <1>9 DEF Seen
<1>10. Seen(t)' \in {Seen(t), Append(Seen(t), e)}
  <2>1. received[t] \o Append(channel[t], e) = Append(received[t] \o channel[t], e)
    BY <1>3, AppendAfter
  <2> QED
    BY <1>4, <1>8, <2>1 DEF Seen
<1>11. Follows(Seen(t), g) /\ e \notin Range(Seen(t)) /\ Seen(t) \in Seq(Events)
  BY <1>3, <1>2, <1>6, SeenTyped DEF SeenInv, g
<1>12. Follows(Append(Seen(t), e), g)
  BY <1>3, <1>7, <1>11, FollowsSeen
<1>13. ASSUME NEW s \in Subscribers PROVE Follows(Seen(s), Given)'
  <2>1. CASE s = t
    BY <1>7, <1>10, <1>11, <1>12, <2>1
  <2>2. CASE s # t
    BY <1>7, <1>9, <2>2 DEF SeenInv, g
  <2> QED
    BY <2>1, <2>2
<1>14. ASSUME NEW s \in Range(Tail(offering[Pump].rest)) PROVE e \notin Range(Seen(s)')
  <2>1. s # t /\ s \in Range(offering[Pump].rest) /\ s \in Subscribers
    BY <1>3, <1>6, RangeSubset
  <2> QED
    BY <1>2, <1>9, <2>1 DEF SeenInv
<1>15. Distinct(accepted)' /\ Distinct(subscribers)' /\ Distinct(offering[Pump].rest)'
  BY <1>4, <1>6 DEF SeenInv
<1>16. /\ \A i \in DOMAIN accepted' : accepted'[i][2] =< emitted'[accepted'[i][1]]
       /\ hand' = << offering'[Pump].event >>
  BY <1>4, <1>5 DEF SeenInv
<1> QED
  BY <1>4, <1>13, <1>14, <1>15, <1>16 DEF SeenInv

LEMMA SeenStore == ASSUME PipelineInv, SeenInv, PumpStore PROVE SeenInv'
<1>1. hand \in Seq(Events) /\ Len(hand) = 1 /\ stored \in Seq(Events) /\ ~ offering[Pump].active
  BY DEF PumpStore, PipelineInv, InTransit, TypeOK
<1>2. PICK e \in Events : hand = << e >>
  BY <1>1, Single
<1>3. stored' = Append(stored, e) /\ hand' = << >> /\ UNCHANGED << busVars, emitted, accepted >>
  BY <1>2 DEF PumpStore
<1>4. Append(stored, e) \o << >> = stored \o << e >>
  BY <1>1
<1>5. Given' = Given
  BY <1>2, <1>3, <1>4 DEF Given
<1>6. UNCHANGED << subscribers, offering, received, channel >>
  BY <1>3 DEF busVars
<1>7. \A s \in Subscribers : Seen(s)' = Seen(s)
  BY <1>6 DEF Seen
<1>8. Range(offering[Pump].rest) \subseteq Subscribers
  BY SeenTyped, RangeSubset DEF PipelineInv, TypeOK, BusTypeOK
<1> QED
  BY <1>1, <1>3, <1>5, <1>6, <1>7, <1>8 DEF SeenInv

(* Moving the head of one sequence to the end of another. *)
LEMMA HeadMoves ==
  ASSUME NEW S, NEW p \in Seq(S), NEW q \in Seq(S), q # << >>
  PROVE  Append(p, Head(q)) \o Tail(q) = p \o q
<1>1. q = << Head(q) >> \o Tail(q) /\ Head(q) \in S /\ Tail(q) \in Seq(S)
  OBVIOUS
<1>2. \A x \in S, t \in Seq(S) : Append(p, x) \o t = p \o (<< x >> \o t)
  OBVIOUS
<1> QED
  BY <1>1, <1>2

LEMMA SeenUser == ASSUME PipelineInv, SeenInv, BusUser PROVE SeenInv'
<1>1. /\ UNCHANGED << accepted, emitted, stored, hand >> /\ Given' = Given
      /\ \A i \in DOMAIN accepted : accepted[i][2] =< emitted'[accepted[i][1]]
  BY DEF BusUser, pipeVars, Given, SeenInv
<1>2. Range(offering[Pump].rest) \subseteq Subscribers
  BY SeenTyped, RangeSubset DEF PipelineInv, TypeOK, BusTypeOK
<1>3. CASE Close \/ \E s \in Subscribers : Subscribe(s)
  <2>1. Distinct(subscribers')
    <3>1. CASE Close
      BY <3>1 DEF Close, Distinct
    <3>2. ASSUME NEW s \in Subscribers, Subscribe(s) PROVE Distinct(subscribers')
      <4>1. /\ subscribers \in Seq(Subscribers) /\ s \notin Range(subscribers)
            /\ subscribers' = Append(subscribers, s)
        BY <3>2 DEF Subscribe, PipelineInv, TypeOK, BusTypeOK
      <4> QED
        BY <4>1, DistinctAppend DEF SeenInv
    <3> QED
      BY <1>3, <3>1, <3>2
  <2>2. UNCHANGED << offering, received, channel >>
    BY <1>3 DEF Close, Subscribe
  <2>3. \A s \in Subscribers : Seen(s)' = Seen(s)
    BY <2>2 DEF Seen
  <2> QED
    BY <1>1, <1>2, <2>1, <2>2, <2>3 DEF SeenInv
<1>4. ASSUME NEW r \in Subscribers, Receive(r) PROVE SeenInv'
  <2>1. /\ channel[r] \in Seq(Events) /\ received[r] \in Seq(Events) /\ channel[r] # << >>
        /\ Head(channel[r]) \in Events
    BY <1>4 DEF Receive, PipelineInv, TypeOK, BusTypeOK
  <2>2. /\ received'[r] = Append(received[r], Head(channel[r])) /\ channel'[r] = Tail(channel[r])
        /\ \A s \in Subscribers : s # r => received'[s] = received[s] /\ channel'[s] = channel[s]
        /\ UNCHANGED << subscribers, offering >>
    BY <1>4 DEF Receive, PipelineInv, TypeOK, BusTypeOK
  <2>3. Append(received[r], Head(channel[r])) \o Tail(channel[r]) = received[r] \o channel[r]
    BY <2>1, HeadMoves
  <2>4. \A s \in Subscribers : Seen(s)' = Seen(s)
    BY <2>2, <2>3 DEF Seen
  <2> QED
    BY <1>1, <1>2, <2>2, <2>4, SeenKept
<1> QED
  BY <1>3, <1>4 DEF BusUser

LEMMA SeenStep == ASSUME PipelineInv, SeenInv, [Next]_vars PROVE SeenInv'
<1>1. CASE PumpPublished
  <2>1. /\ UNCHANGED << emitted, hand, accepted, stored, subscribers, received, channel >>
        /\ offering'[Pump] = Idle
    BY <1>1, SeenTyped DEF PumpPublished, PublishEnd, PipelineInv, TypeOK, BusTypeOK
  <2>2. Given' = Given /\ \A s \in Subscribers : Seen(s)' = Seen(s)
    BY <2>1 DEF Given, Seen
  <2> QED
    BY <2>1, <2>2, RangeEmpty DEF SeenInv, Idle, Distinct
<1>2. CASE UNCHANGED vars
  <2>1. /\ UNCHANGED << emitted, hand, accepted, stored, subscribers, received, channel, offering >>
    BY <1>2 DEF vars, busVars, pipeVars
  <2>2. Given' = Given /\ \A s \in Subscribers : Seen(s)' = Seen(s)
    BY <2>1 DEF Given, Seen
  <2>3. Range(offering[Pump].rest) \subseteq Subscribers
    BY SeenTyped, RangeSubset DEF PipelineInv, TypeOK, BusTypeOK
  <2> QED
    BY <2>1, <2>2, <2>3 DEF SeenInv
<1> QED
  BY <1>1, <1>2, SeenEmit, SeenReceive, SeenOffer, SeenStore, SeenUser DEF Next, PumpStep

(* Every subscriber of the bus sees what the store is given, in that order *)
(* and never twice, whoever comes, lags or is closed meanwhile.            *)
THEOREM PipelineSubscribersFollowStore == Spec => []SubscribersSeeStoreOrder
<1>1. PipelineInv /\ SeenInv => SubscribersSeeStoreOrder
  <2> SUFFICES ASSUME PipelineInv, SeenInv PROVE SubscribersSeeStoreOrder
    OBVIOUS
  <2>1. ASSUME NEW s \in Subscribers
        PROVE  LET At(e) == CHOOSE i \in DOMAIN Given : Given[i] = e IN
                 /\ Range(Seen(s)) \subseteq Range(Given)
                 /\ \A i, j \in DOMAIN Seen(s) : i < j => At(Seen(s)[i]) < At(Seen(s)[j])
    <3> DEFINE At(e) == CHOOSE i \in DOMAIN Given : Given[i] = e
    <3>1. Follows(Seen(s), Given)
      BY DEF SeenInv
    <3>2. \A i \in DOMAIN Seen(s) :
            At(Seen(s)[i]) \in DOMAIN Given /\ Given[At(Seen(s)[i])] = Seen(s)[i]
      BY <3>1 DEF Follows
    <3>3. Range(Seen(s)) \subseteq Range(Given)
      BY <3>1 DEF Follows, Range
    <3> HIDE DEF At
    <3>4. \A i, j \in DOMAIN Seen(s) : i < j => At(Seen(s)[i]) < At(Seen(s)[j])
      BY <3>1, <3>2 DEF Follows
    <3> QED
      BY <3>3, <3>4 DEF At
  <2> QED
    BY <2>1 DEF SubscribersSeeStoreOrder, Given, Seen
<1> QED
  BY <1>1, PipelineInitInv, PipelineStep, SeenInit, SeenStep, PTL DEF Spec
=============================================================================
