----------------------------- MODULE RemoteLink -----------------------------
(***************************************************************************)
(* The way of an event from a taplytix-agent to a dashboard: the agent's   *)
(* Broadcaster (internal/agent/broadcaster.go) fans it out to a bounded    *)
(* buffer per connection, a handler writes it to the WebSocket, and the    *)
(* dashboard's RemoteReceiver (internal/receiver/remote.go) reads, decodes *)
(* and emits it, dialling again with a growing pause when the connection   *)
(* is lost.                                                                *)
(*                                                                         *)
(* Each dial that succeeds makes a new connection; the handler of an old   *)
(* one may live on beside it.  The network and the WebSocket library are   *)
(* external: a connection keeps order, holds a bounded number of frames,   *)
(* and may break at any time, with what is on its way.  Events are         *)
(* numbered in the order they are emitted.                                 *)
(***************************************************************************)
EXTENDS Integers, Sequences, FiniteSets, Functions

CONSTANTS
    MaxEvents,   \* bound: events emitted
    InCap,       \* capacity of the agent's channel, 4096 in the code
    SendCap,     \* capacity of a client's buffer, 1024 in the code
    WireCap,     \* frames a connection holds on their way
    Unsendable,  \* the events that do not encode: a value that is NaN or infinite
    Big,         \* the events whose frame may exceed the read limit of 1 MiB
    MaxBackoff,  \* runLoop doubles its pause while it is below this, 30 in the code
    MaxFaults    \* bound: frames too big, failed dials, broken connections,
                 \* stalled writes, agent crashes

ASSUME LinkAssumption ==
    /\ MaxEvents \in Nat /\ MaxFaults \in Nat /\ MaxBackoff \in Nat \ {0}
    /\ InCap \in Nat \ {0} /\ SendCap \in Nat \ {0} /\ WireCap \in Nat \ {0}
    /\ Big \subseteq 1 .. MaxEvents /\ Unsendable \subseteq 1 .. MaxEvents

Events == 1 .. MaxEvents

(* Every fault costs at most one connection. *)
Conns == 1 .. MaxFaults + 1

VARIABLES
    agentUp,    \* the agent process runs
    emitted,    \* events its receiver has emitted
    in,         \* the channel Pump reads
    hand,       \* the event Pump is fanning out, if any
    walk,       \* the clients of fanout's copy still to be offered it
    clients,    \* b.clients
    send,       \* each client's buffer
    handler,    \* each connection's ServeHTTP: "no" | "accepted" | "serve" |
                \* "write" | "leaving" | "gone"
    frame,      \* the frame it is writing, if any
    gone,       \* its reader has seen the connection end: ctx is cancelled
    wire,       \* the frames on their way to the dashboard
    open,       \* the connection stands
    loop,       \* runLoop: "dial" | "read" | "emit" | "wait" | "ended"
    conn,       \* the connection it reads, 0 before the first
    event,      \* the event it is about to emit, 0 if none
    backoff,    \* its pause, in seconds
    cancelled,  \* its context is done: Stop, or the program's end
    big,        \* the events whose frame is too big
    faults,     \* faults so far, the frames too big included
    received,   \* history: what the dashboard's channel was given
    owed        \* history: what a standing connection still owes its
                \* dashboard: meant for it, neither refused nor read yet

agentVars == << agentUp, emitted, in, hand, walk >>
serverVars == << clients, send, handler, frame, gone >>
netVars == << wire, open >>
loopVars == << loop, conn, event, backoff, cancelled >>
histVars == << received, owed >>
vars == << agentVars, serverVars, netVars, loopVars, histVars, faults, big >>

Init ==
    /\ agentUp = TRUE
    /\ emitted = 0
    /\ in = << >>
    /\ hand = << >>
    /\ walk = {}
    /\ clients = {}
    /\ send = [c \in Conns |-> << >>]
    /\ handler = [c \in Conns |-> "no"]
    /\ frame = [c \in Conns |-> << >>]
    /\ gone = {}
    /\ wire = [c \in Conns |-> << >>]
    /\ open = {}
    /\ loop = "dial"
    /\ conn = 0
    /\ event = 0
    /\ backoff = 1
    /\ cancelled = FALSE
    /\ big \in {b \in SUBSET Big : Cardinality(b) =< MaxFaults}
    /\ faults = Cardinality(big)
    /\ received = << >>
    /\ owed = [c \in Conns |-> {}]

-----------------------------------------------------------------------------
(* The agent: its receiver's emit, and the broadcaster's Pump. *)
Emit ==
    /\ agentUp
    /\ emitted < MaxEvents
    /\ emitted' = emitted + 1
    /\ in' = IF Len(in) < InCap THEN Append(in, emitted + 1) ELSE in
    /\ UNCHANGED << agentUp, hand, walk, serverVars, netVars, loopVars, histVars, faults >>

(* Pump takes an event, which is meant for every client there is.  One     *)
(* that does not encode goes to none of them; for another, fanout copies   *)
(* the clients under the lock.                                             *)
PumpTake ==
    /\ hand = << >>
    /\ in # << >>
    /\ in' = Tail(in)
    /\ IF Head(in) \in Unsendable
       THEN UNCHANGED << hand, walk >>
       ELSE hand' = << Head(in) >> /\ walk' = clients
    /\ owed' = [c \in Conns |-> IF c \in clients THEN owed[c] \cup {Head(in)} ELSE owed[c]]
    /\ UNCHANGED << agentUp, emitted, serverVars, netVars, loopVars, received, faults >>

(* A mutated form: a slow client ends the fan-out. *)
FanoutGivesUp(c) ==
    /\ c \in walk
    /\ IF Len(send[c]) < SendCap
       THEN send' = [send EXCEPT ![c] = Append(@, hand[1])] /\ walk' = walk \ {c}
       ELSE walk' = {} /\ UNCHANGED send
    /\ owed' = IF Len(send[c]) < SendCap THEN owed ELSE [owed EXCEPT ![c] = @ \ {hand[1]}]
    /\ UNCHANGED << agentUp, emitted, in, hand, clients, handler, frame, gone, netVars,
                    loopVars, received, faults >>

(* One turn of fanout's loop, in the order the map gave: a full buffer     *)
(* drops the frame for its client, who may have left meanwhile.            *)
Fanout(c) ==
    /\ c \in walk
    /\ walk' = walk \ {c}
    /\ IF Len(send[c]) < SendCap
       THEN send' = [send EXCEPT ![c] = Append(@, hand[1])] /\ UNCHANGED owed
       ELSE owed' = [owed EXCEPT ![c] = @ \ {hand[1]}] /\ UNCHANGED send
    /\ UNCHANGED << agentUp, emitted, in, hand, clients, handler, frame, gone, netVars,
                    loopVars, received, faults >>

PumpDone ==
    /\ hand # << >>
    /\ walk = {}
    /\ hand' = << >>
    /\ UNCHANGED << agentUp, emitted, in, walk, serverVars, netVars, loopVars, histVars, faults >>

-----------------------------------------------------------------------------
(* ServeHTTP, after the upgrade: register, then serve. *)
Register(c) ==
    /\ handler[c] = "accepted"
    /\ handler' = [handler EXCEPT ![c] = "serve"]
    /\ clients' = clients \cup {c}
    /\ UNCHANGED << send, frame, gone, agentVars, netVars, loopVars, histVars, faults >>

(* Its reader meets the end of the connection and cancels. *)
ReaderEnds(c) ==
    /\ handler[c] \in {"serve", "write", "leaving"}
    /\ c \notin open \cup gone
    /\ gone' = gone \cup {c}
    /\ UNCHANGED << clients, send, handler, frame, agentVars, netVars, loopVars, histVars, faults >>

TakeFrame(c) ==
    /\ handler[c] = "serve"
    /\ send[c] # << >>
    /\ frame' = [frame EXCEPT ![c] = << Head(send[c]) >>]
    /\ send' = [send EXCEPT ![c] = Tail(@)]
    /\ handler' = [handler EXCEPT ![c] = "write"]
    /\ UNCHANGED << clients, gone, agentVars, netVars, loopVars, histVars, faults >>

(* The write succeeds; on a connection that has just ended the frame may   *)
(* be lost without an error.                                               *)
WriteFrame(c) ==
    /\ handler[c] = "write"
    /\ IF c \in open THEN /\ Len(wire[c]) < WireCap
                          /\ wire' = [wire EXCEPT ![c] = Append(@, frame[c][1])]
                     ELSE UNCHANGED wire
    /\ frame' = [frame EXCEPT ![c] = << >>]
    /\ handler' = [handler EXCEPT ![c] = "serve"]
    /\ UNCHANGED << clients, send, gone, agentVars, open, loopVars, histVars, faults >>

(* Connections end: they carry nothing new, and owe nothing any more.      *)
Ends(cs) ==
    /\ open' = open \ cs
    /\ owed' = [c \in Conns |-> IF c \in cs THEN {} ELSE owed[c]]

(* It fails: the connection has ended, or it took no frame for 5 seconds,  *)
(* upon which the library closes it.                                       *)
WriteFails(c) ==
    /\ handler[c] = "write"
    /\ IF c \in open
       THEN Len(wire[c]) = WireCap /\ faults < MaxFaults /\ faults' = faults + 1
       ELSE UNCHANGED faults
    /\ frame' = [frame EXCEPT ![c] = << >>]
    /\ handler' = [handler EXCEPT ![c] = "leaving"]
    /\ Ends({c})
    /\ UNCHANGED << clients, send, gone, agentVars, wire, loopVars, received >>

(* The select's other case, taken or not while there are frames. *)
SeeCancel(c) ==
    /\ handler[c] = "serve"
    /\ c \in gone
    /\ handler' = [handler EXCEPT ![c] = "leaving"]
    /\ UNCHANGED << clients, send, frame, gone, agentVars, netVars, loopVars, histVars, faults >>

(* A mutated form: the client stays registered. *)
LeaveRegistered(c) ==
    /\ handler[c] = "leaving"
    /\ Ends({c})
    /\ handler' = [handler EXCEPT ![c] = "gone"]
    /\ UNCHANGED << clients, send, frame, gone, agentVars, wire, loopVars, received, faults >>

(* The deferred calls: the client is deleted and its connection closed.    *)
(* Its buffer is left to whoever still holds it.                           *)
Leave(c) ==
    /\ handler[c] = "leaving"
    /\ clients' = clients \ {c}
    /\ Ends({c})
    /\ handler' = [handler EXCEPT ![c] = "gone"]
    /\ UNCHANGED << send, frame, gone, agentVars, wire, loopVars, received, faults >>

-----------------------------------------------------------------------------
(* The dashboard's runLoop and connectAndPump. *)
Unused == {c \in Conns : handler[c] = "no" /\ c > conn}

DialSucceeds ==
    /\ loop = "dial"
    /\ agentUp
    /\ ~ cancelled
    /\ \E c \in Unused :
         /\ \A d \in Unused : c =< d
         /\ conn' = c
         /\ handler' = [handler EXCEPT ![c] = "accepted"]
         /\ open' = open \cup {c}
    /\ loop' = "read"
    /\ UNCHANGED << event, backoff, cancelled, clients, send, frame, gone, wire, agentVars,
                    histVars, faults >>

(* Connecting fails, at once or after ten seconds, or the context ends it. *)
DialFails ==
    /\ loop = "dial"
    /\ IF agentUp /\ ~ cancelled
       THEN faults < MaxFaults /\ faults' = faults + 1
       ELSE UNCHANGED faults
    /\ loop' = IF cancelled THEN "ended" ELSE "wait"
    /\ UNCHANGED << conn, event, backoff, cancelled, agentVars, serverVars, netVars, histVars >>

(* A frame within the read limit is decoded; one that does not decode is   *)
(* passed over.                                                            *)
ReadFrame ==
    /\ loop = "read"
    /\ ~ cancelled
    /\ wire[conn] # << >>
    /\ Head(wire[conn]) \notin big
    /\ wire' = [wire EXCEPT ![conn] = Tail(@)]
    /\ owed' = [owed EXCEPT ![conn] = @ \ {Head(wire[conn])}]
    /\ \/ event' = Head(wire[conn]) /\ loop' = "emit"
       \/ UNCHANGED << event, loop >>
    /\ UNCHANGED << conn, backoff, cancelled, open, agentVars, serverVars, received, faults >>

(* A mutated form: an event the channel refuses is read again. *)
EmitEventAgain ==
    /\ loop = "emit"
    /\ received' = Append(received, event)
    /\ \/ event' = 0 /\ loop' = "read"
       \/ Len(received) < 2 * MaxEvents /\ UNCHANGED << event, loop >>
    /\ UNCHANGED << conn, backoff, cancelled, agentVars, serverVars, netVars, owed, faults >>

(* and emitted, if the dashboard's channel has room. *)
EmitEvent ==
    /\ loop = "emit"
    /\ \/ received' = Append(received, event)
       \/ UNCHANGED received
    /\ event' = 0
    /\ loop' = "read"
    /\ UNCHANGED << conn, backoff, cancelled, agentVars, serverVars, netVars, owed, faults >>

(* A mutated form: a lost connection ends the loop. *)
ReadFailsForGood ==
    /\ loop = "read"
    /\ \/ cancelled
       \/ wire[conn] = << >> /\ conn \notin open
       \/ wire[conn] # << >> /\ Head(wire[conn]) \in big
    /\ Ends({conn})
    /\ wire' = [wire EXCEPT ![conn] = << >>]
    /\ loop' = "ended"
    /\ UNCHANGED << conn, event, backoff, cancelled, agentVars, serverVars, received, faults >>

(* The read fails: the connection has ended, the frame is too big, or the  *)
(* context is done.  The deferred Close ends the connection in any case.   *)
ReadFails ==
    /\ loop = "read"
    /\ \/ cancelled
       \/ wire[conn] = << >> /\ conn \notin open
       \/ wire[conn] # << >> /\ Head(wire[conn]) \in big
    /\ Ends({conn})
    /\ wire' = [wire EXCEPT ![conn] = << >>]
    /\ loop' = IF cancelled THEN "ended" ELSE "wait"
    /\ UNCHANGED << conn, event, backoff, cancelled, agentVars, serverVars, received, faults >>

(* The pause, and its growth; connectAndPump never returns nil, so nothing *)
(* ever shortens it.                                                       *)
Wait ==
    /\ loop = "wait"
    /\ IF cancelled
       THEN loop' = "ended" /\ UNCHANGED backoff
       ELSE loop' = "dial" /\ backoff' = IF backoff < MaxBackoff THEN 2 * backoff ELSE backoff
    /\ UNCHANGED << conn, event, cancelled, agentVars, serverVars, netVars, histVars, faults >>

(* Stop, or the end of the program. *)
Stop ==
    /\ ~ cancelled
    /\ cancelled' = TRUE
    /\ UNCHANGED << loop, conn, event, backoff, agentVars, serverVars, netVars, histVars, faults >>

-----------------------------------------------------------------------------
(* The network drops a connection, with the frames on their way. *)
Cut ==
    /\ faults < MaxFaults
    /\ \E c \in open :
         /\ Ends({c})
         /\ wire' = [wire EXCEPT ![c] = << >>]
    /\ faults' = faults + 1
    /\ UNCHANGED << agentVars, serverVars, loopVars, received >>

(* The agent dies with everything it held, *)
Crash ==
    /\ agentUp
    /\ faults < MaxFaults
    /\ faults' = faults + 1
    /\ agentUp' = FALSE
    /\ in' = << >>
    /\ hand' = << >>
    /\ walk' = {}
    /\ clients' = {}
    /\ send' = [c \in Conns |-> << >>]
    /\ handler' = [c \in Conns |-> IF handler[c] = "no" THEN "no" ELSE "gone"]
    /\ frame' = [c \in Conns |-> << >>]
    /\ Ends(open)
    /\ UNCHANGED << emitted, gone, wire, loopVars, received >>

(* and is started again. *)
Restart ==
    /\ ~ agentUp
    /\ agentUp' = TRUE
    /\ UNCHANGED << emitted, in, hand, walk, serverVars, netVars, loopVars, histVars, faults >>

PumpStep == PumpTake \/ PumpDone \/ \E c \in Conns : Fanout(c)

HandlerStep(c) ==
    \/ Register(c) \/ TakeFrame(c) \/ WriteFrame(c) \/ SeeCancel(c) \/ Leave(c)
    \/ c \notin open /\ WriteFails(c)

LoopStep == DialSucceeds \/ DialFails \/ ReadFrame \/ EmitEvent \/ ReadFails \/ Wait

Next ==
    /\ \/ Emit \/ PumpStep \/ LoopStep \/ Stop \/ Cut \/ Crash \/ Restart
       \/ \E c \in Conns : HandlerStep(c) \/ ReaderEnds(c) \/ WriteFails(c)
    /\ UNCHANGED big

Spec == Init /\ [][Next]_vars

(* The goroutines of both programs are scheduled.  Nothing has to be       *)
(* emitted, nothing has to fail, and a dead agent may stay dead.           *)
FairSpec ==
    /\ Spec
    /\ WF_vars(PumpStep /\ UNCHANGED big)
    /\ WF_vars(LoopStep /\ UNCHANGED big)
    /\ \A c \in Conns : /\ WF_vars(HandlerStep(c) /\ UNCHANGED big)
                        /\ WF_vars(ReaderEnds(c) /\ UNCHANGED big)

-----------------------------------------------------------------------------
TypeOK ==
    /\ agentUp \in BOOLEAN /\ cancelled \in BOOLEAN
    /\ emitted \in 0 .. MaxEvents
    /\ in \in Seq(Events) /\ Len(in) =< InCap
    /\ hand \in Seq(Events) /\ Len(hand) =< 1
    /\ walk \subseteq Conns /\ (walk # {} => hand # << >>)
    /\ clients \subseteq Conns
    /\ send \in [Conns -> Seq(Events)] /\ \A c \in Conns : Len(send[c]) =< SendCap
    /\ handler \in [Conns -> {"no", "accepted", "serve", "write", "leaving", "gone"}]
    /\ frame \in [Conns -> Seq(Events)]
    /\ \A c \in Conns : Len(frame[c]) = IF handler[c] = "write" THEN 1 ELSE 0
    /\ gone \subseteq Conns /\ open \subseteq Conns
    /\ wire \in [Conns -> Seq(Events)] /\ \A c \in Conns : Len(wire[c]) =< WireCap
    /\ loop \in {"dial", "read", "emit", "wait", "ended"}
    /\ conn \in Conns \cup {0} /\ (loop \in {"read", "emit"} => conn \in Conns)
    /\ event \in Events \cup {0} /\ (loop = "emit" => event \in Events)
    /\ backoff \in 1 .. 2 * MaxBackoff
    /\ faults \in 0 .. MaxFaults
    /\ big \subseteq Big
    /\ received \in Seq(Events)
    /\ owed \in [Conns -> SUBSET Events]

Link == INSTANCE LossyLink WITH offered <- emitted, delivered <- received

(* What reaches the dashboard's channel is a part of what the agent's      *)
(* receiver emitted, in order and without repeats, across every reconnect  *)
(* and while an old connection's handler is still at work.                 *)
ImplementsLossyLink == Link!Spec

(* A connection that stands loses an event in two ways only: its own full  *)
(* buffer refuses it, or it did not encode (a metric that is NaN, which    *)
(* Pump passes over for everybody).  Any other event that Pump took while  *)
(* the client was registered and that its dashboard has not read yet is    *)
(* still to be offered to it, or waits on its way; no other client's full  *)
(* buffer, departure or broken connection costs it one.                    *)
LostOnlyIfRefusedOrUnsendable ==
    \A c \in open : \A e \in owed[c] \ Unsendable :
        \/ c \in walk /\ hand = << e >>
        \/ e \in Range(send[c]) \cup Range(frame[c]) \cup Range(wire[c])

Connected == loop \in {"read", "emit"} /\ conn \in clients \cap open

(* "Reconnects on disconnect": once nothing fails any more, a dashboard    *)
(* that was not stopped is connected to an agent that runs, and the agent  *)
(* has let go of every connection before.                                  *)
Reconnects == <>[](cancelled \/ ~ agentUp \/ (Connected /\ clients = {conn}))

(* A stopped receiver's loop ends and its client leaves the broadcaster.   *)
StopEnds == cancelled ~> loop = "ended" /\ clients = {}
=============================================================================
