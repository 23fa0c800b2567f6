------------------------------- MODULE StatsD -------------------------------
(***************************************************************************)
(* receiver.StatsDReceiver (internal/receiver/statsd.go): Start, the loop  *)
(* of run that reads datagrams and emits a metric for each line that       *)
(* parses, the goroutine beside it that closes the socket when the context *)
(* is done, and Stop, which closes it too and clears r.conn.               *)
(*                                                                         *)
(* Of a line `name:value|type` the model has what decides whether it is    *)
(* taken: a colon (a blank line has none), a number and a type, "" if      *)
(* there is no second part.  A line is named by its datagram and number;   *)
(* the network is external, and gives the socket any datagrams in any      *)
(* order.                                                                  *)
(***************************************************************************)
EXTENDS Naturals, Sequences, SequencesExt, Lists

CONSTANTS Datagrams    \* datagrams, each a sequence of lines

VARIABLES
    conn,        \* r.conn: is it set
    socket,      \* the UDP socket: "open" | "closed"
    udpAt,       \* run: "check" | "read" | "lines" | "ended"
    reading,     \* run's copy of the connection is set
    line,        \* the datagram in buf and the next of its lines
    unread,      \* datagrams the network has not delivered
    watchAt,     \* the goroutine beside run: "waiting" | "ended"
    taken,       \* history: the datagrams read
    counted,     \* history: the lines given to emit
    cancelled    \* the context is done

statsdVars == << conn, socket, udpAt, reading, line, unread, watchAt, taken, counted >>
vars == << statsdVars, cancelled >>

NoLine == [datagram |-> 0, number |-> 0]

statsdKind == [c |-> "counter", g |-> "gauge", ms |-> "histogram", h |-> "histogram",
               s |-> "counter"]

Parses(l) == l.colon /\ l.number /\ l.type \in DOMAIN statsdKind

(* Start has listened, set r.conn and started both goroutines. *)
Init ==
    /\ conn = TRUE
    /\ socket = "open"
    /\ udpAt = "check"
    /\ reading = FALSE
    /\ line = NoLine
    /\ unread = DOMAIN Datagrams
    /\ watchAt = "waiting"
    /\ taken = << >>
    /\ counted = << >>
    /\ cancelled = FALSE

-----------------------------------------------------------------------------
(* The context Start was given is done, r.cancel has not been called. *)
Cancel ==
    /\ ~ cancelled
    /\ cancelled' = TRUE
    /\ UNCHANGED statsdVars

(* Stop: cancel, close and clear under one lock. *)
Stop ==
    /\ conn
    /\ cancelled' = TRUE
    /\ socket' = "closed"
    /\ conn' = FALSE
    /\ UNCHANGED << udpAt, reading, line, unread, watchAt, taken, counted >>

(* The goroutine beside run: closes r.conn, if Stop has not cleared it. *)
Watch ==
    /\ watchAt = "waiting"
    /\ cancelled
    /\ watchAt' = "ended"
    /\ socket' = IF conn THEN "closed" ELSE socket
    /\ UNCHANGED << conn, udpAt, reading, line, unread, taken, counted, cancelled >>

-----------------------------------------------------------------------------
(* run takes r.conn under the lock and lets go of it before it reads. *)
Check ==
    /\ udpAt = "check"
    /\ reading' = conn
    /\ udpAt' = IF conn THEN "read" ELSE "ended"
    /\ UNCHANGED << conn, socket, line, unread, watchAt, taken, counted, cancelled >>

ReadDatagram ==
    /\ udpAt = "read"
    /\ socket = "open"
    /\ \E d \in unread :
         /\ unread' = unread \ {d}
         /\ line' = [datagram |-> d, number |-> 1]
         /\ taken' = Append(taken, d)
    /\ udpAt' = "lines"
    /\ UNCHANGED << conn, socket, reading, watchAt, counted, cancelled >>

(* A read of a closed socket fails, another may, and any error ends run. *)
ReadFails ==
    /\ udpAt = "read"
    /\ udpAt' = "ended"
    /\ UNCHANGED << conn, socket, reading, line, unread, watchAt, taken, counted, cancelled >>

(* The next line; one that is blank or does not parse is passed over. *)
NextLine ==
    /\ udpAt = "lines"
    /\ line.number <= Len(Datagrams[line.datagram])
    /\ line' = [line EXCEPT !.number = @ + 1]
    /\ counted' = IF Parses(Datagrams[line.datagram][line.number])
                  THEN Append(counted, line) ELSE counted
    /\ UNCHANGED << conn, socket, udpAt, reading, unread, watchAt, taken, cancelled >>

LinesEnd ==
    /\ udpAt = "lines"
    /\ line.number > Len(Datagrams[line.datagram])
    /\ line' = NoLine
    /\ udpAt' = "check"
    /\ UNCHANGED << conn, socket, reading, unread, watchAt, taken, counted, cancelled >>

(* What run does unless the network lets it wait, or fails it. *)
Run ==
    \/ Check \/ ReadDatagram \/ NextLine \/ LinesEnd
    \/ socket = "closed" /\ ReadFails

Next == Run \/ ReadFails \/ Watch \/ Stop \/ Cancel

-----------------------------------------------------------------------------
TypeOK ==
    /\ conn \in BOOLEAN /\ reading \in BOOLEAN /\ cancelled \in BOOLEAN
    /\ socket \in {"open", "closed"} /\ (socket = "closed" => cancelled)
    /\ udpAt \in {"check", "read", "lines", "ended"} /\ (udpAt = "read" => reading)
    /\ watchAt \in {"waiting", "ended"}
    /\ unread \subseteq DOMAIN Datagrams
    /\ line.datagram \in DOMAIN Datagrams \cup {0} /\ (udpAt = "lines" <=> line # NoLine)

(* The good lines of a datagram, up to number n. *)
Good(d) == {[datagram |-> d, number |-> i] :
               i \in {k \in DOMAIN Datagrams[d] : Parses(Datagrams[d][k])}}
GoodLines(d, n) == Kept([i \in 1 .. n |-> [datagram |-> d, number |-> i]], Good(d))

(* Each good line of the datagrams read is emitted once and in its place,  *)
(* whatever bad lines it shares the datagram with.                         *)
GoodLinesInOrder ==
    counted = FlattenSeq([i \in DOMAIN taken |->
                 GoodLines(taken[i], IF i = Len(taken) /\ udpAt = "lines"
                                     THEN line.number - 1 ELSE Len(Datagrams[taken[i]]))])
=============================================================================
