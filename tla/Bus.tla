--------------------------------- MODULE Bus --------------------------------
(***************************************************************************)
(* bus.Bus (internal/bus/bus.go): the publish/subscribe fan-out.  Publish  *)
(* walks the subscribers under the read lock and offers the event to each  *)
(* channel without waiting; Subscribe and Close take the write lock.       *)
(*                                                                         *)
(* A publisher's walk is one step per channel, so that publishers, the     *)
(* subscribers' receives and the writers interleave as the lock lets them. *)
(* Subscribe and Close are one step each: while they hold the write lock   *)
(* nobody else is inside.  The lock's preference for writers is left out;  *)
(* it only matters to how long a writer may wait.                          *)
(***************************************************************************)
EXTENDS Naturals, Sequences, Functions

CONSTANTS Publishers,   \* goroutines that call Publish
          Subscribers,  \* the channels Subscribe may hand out
          Events,       \* what is published
          BufSize       \* bufSize, the capacity of a subscriber's channel

ASSUME BusAssumption == BufSize \in Nat

VARIABLES
    subscribers,  \* b.subscribers, in order of subscription
    channel,      \* what each subscriber's channel holds
    closed,       \* the channels that were closed
    offering,     \* the publishers inside Publish: the event, and the
                  \* channels of the walk that are still to come
    expected,     \* history: published while the channel was subscribed
    lost,         \* history: refused by a full channel
    received      \* history: taken out of the channel by its subscriber

busVars ==
    << subscribers, channel, closed, offering, expected, lost, received >>

Idle == [active |-> FALSE, event |-> << >>, rest |-> << >>]

BusInit ==
    /\ subscribers = << >>
    /\ channel = [s \in Subscribers |-> << >>]
    /\ closed = {}
    /\ offering = [p \in Publishers |-> Idle]
    /\ expected = [s \in Subscribers |-> {}]
    /\ lost = [s \in Subscribers |-> {}]
    /\ received = [s \in Subscribers |-> << >>]

(* No publisher holds the read lock: what a writer waits for. *)
NoReader == \A p \in Publishers : ~ offering[p].active

-----------------------------------------------------------------------------
(* Subscribe: a fresh channel joins the list. *)
Subscribe(s) ==
    /\ NoReader
    /\ s \notin Range(subscribers) \cup closed
    /\ subscribers' = Append(subscribers, s)
    /\ UNCHANGED << channel, closed, offering, expected, lost, received >>

(* Publish takes the read lock; the range statement fixes the channels to  *)
(* visit now.                                                              *)
PublishBegin(p, e) ==
    /\ ~ offering[p].active
    /\ offering' = [offering EXCEPT
                      ![p] = [active |-> TRUE, event |-> e, rest |-> subscribers]]
    /\ expected' = [s \in Subscribers |->
                      IF s \in Range(subscribers) THEN expected[s] \cup {e}
                                                  ELSE expected[s]]
    /\ UNCHANGED << subscribers, channel, closed, lost, received >>

(* A mutated form: the send waits for room. *)
OfferBlocking(p) ==
    /\ offering[p].rest # << >>
    /\ LET s == Head(offering[p].rest) IN
         /\ Len(channel[s]) < BufSize
         /\ channel' = [channel EXCEPT ![s] = Append(@, offering[p].event)]
    /\ offering' = [offering EXCEPT ![p].rest = Tail(@)]
    /\ UNCHANGED << subscribers, closed, expected, lost, received >>

(* A mutated form: a full channel ends the walk. *)
OfferGivesUp(p) ==
    /\ offering[p].rest # << >>
    /\ LET s == Head(offering[p].rest)
           room == Len(channel[s]) < BufSize
       IN /\ channel' = IF room
                        THEN [channel EXCEPT ![s] = Append(@, offering[p].event)]
                        ELSE channel
          /\ lost' = IF room THEN lost
                     ELSE [lost EXCEPT ![s] = @ \cup {offering[p].event}]
          /\ offering' = [offering EXCEPT ![p].rest =
                            IF room THEN Tail(@) ELSE << >>]
    /\ UNCHANGED << subscribers, closed, expected, received >>

(* A mutated form: the event overtakes what the channel already holds. *)
OfferNewestFirst(p) ==
    /\ offering[p].rest # << >>
    /\ LET s == Head(offering[p].rest)
           room == Len(channel[s]) < BufSize
       IN /\ channel' = IF room
                        THEN [channel EXCEPT ![s] = << offering[p].event >> \o @]
                        ELSE channel
          /\ lost' = IF room THEN lost
                     ELSE [lost EXCEPT ![s] = @ \cup {offering[p].event}]
    /\ offering' = [offering EXCEPT ![p].rest = Tail(@)]
    /\ UNCHANGED << subscribers, closed, expected, received >>

(* One turn of Publish's loop: a send if there is room, else the event is  *)
(* lost for this subscriber and the walk goes on.                          *)
Offer(p) ==
    /\ offering[p].rest # << >>
    /\ LET s == Head(offering[p].rest)
           room == Len(channel[s]) < BufSize
       IN /\ channel' = IF room
                        THEN [channel EXCEPT ![s] = Append(@, offering[p].event)]
                        ELSE channel
          /\ lost' = IF room THEN lost
                     ELSE [lost EXCEPT ![s] = @ \cup {offering[p].event}]
    /\ offering' = [offering EXCEPT ![p].rest = Tail(@)]
    /\ UNCHANGED << subscribers, closed, expected, received >>

(* The deferred unlock. *)
PublishEnd(p) ==
    /\ offering[p].active
    /\ offering[p].rest = << >>
    /\ offering' = [offering EXCEPT ![p] = Idle]
    /\ UNCHANGED << subscribers, channel, closed, expected, lost, received >>

(* A mutated form: Close does not take the lock. *)
CloseUnlocked ==
    /\ closed' = closed \cup Range(subscribers)
    /\ subscribers' = << >>
    /\ UNCHANGED << channel, offering, expected, lost, received >>

(* Close: every registered channel is closed and the list dropped.         *)
Close ==
    /\ NoReader
    /\ closed' = closed \cup Range(subscribers)
    /\ subscribers' = << >>
    /\ UNCHANGED << channel, offering, expected, lost, received >>

(* The subscriber's own receive; a closed channel still drains. *)
Receive(s) ==
    /\ channel[s] # << >>
    /\ received' = [received EXCEPT ![s] = Append(@, Head(channel[s]))]
    /\ channel' = [channel EXCEPT ![s] = Tail(@)]
    /\ UNCHANGED << subscribers, closed, offering, expected, lost >>

BusStep ==
    \/ \E p \in Publishers : Offer(p) \/ PublishEnd(p)
    \/ \E s \in Subscribers : Subscribe(s) \/ Receive(s)
    \/ Close

BusNext == BusStep \/ \E p \in Publishers, e \in Events : PublishBegin(p, e)

BusSpec == BusInit /\ [][BusNext]_busVars

-----------------------------------------------------------------------------
BusTypeOK ==
    /\ subscribers \in Seq(Subscribers)
    /\ channel \in [Subscribers -> Seq(Events)]
    /\ closed \subseteq Subscribers
    /\ offering \in [Publishers -> [active : BOOLEAN,
                                    event : Events \cup {<< >>},
                                    rest : Seq(Subscribers)]]
    /\ \A p \in Publishers : offering[p].rest # << >> =>
          offering[p].active /\ offering[p].event \in Events
    /\ expected \in [Subscribers -> SUBSET Events]
    /\ lost \in [Subscribers -> SUBSET Events]
    /\ received \in [Subscribers -> Seq(Events)]

(* A send on a closed channel panics in Go.  Publish is about to send to   *)
(* the channels left in its walk, so none of them may be closed, whatever  *)
(* Subscribe and Close do meanwhile.                                       *)
NoSendOnClosed ==
    \A p \in Publishers : Range(offering[p].rest) \cap closed = {}

(* "Falling behind means lost events for that subscriber": an event        *)
(* published while a channel was subscribed is still to be offered to it,  *)
(* waits in it, was received, or was refused because that very channel was *)
(* full.  One slow subscriber costs the others nothing.                    *)
NoSilentLoss ==
    \A s \in Subscribers : \A e \in expected[s] :
        \/ e \in Range(channel[s]) \cup Range(received[s]) \cup lost[s]
        \/ \E p \in Publishers :
              offering[p].event = e /\ s \in Range(offering[p].rest)
=============================================================================
