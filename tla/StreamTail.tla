----------------------------- MODULE StreamTail -----------------------------
(***************************************************************************)
(* The streams of receiver.LogTailReceiver (internal/receiver/logtail.go): *)
(* runReader, a goroutine that scans lines into a channel and one that     *)
(* takes them from it and emits them, for standard input or for each       *)
(* connection that runTCP accepts.                                         *)
(*                                                                         *)
(* A line is its number in its stream.  Whoever writes a stream is         *)
(* external; the last line it writes may lack its newline.                 *)
(***************************************************************************)
EXTENDS Naturals, Sequences

CONSTANTS Streams,     \* connections, or standard input
          StreamLines, \* bound: lines written to each stream
          Huge,        \* lines longer than the scanner's buffer, 1 MiB
          LinesCap     \* capacity of lines, 64

VARIABLES
    listener,    \* "none" (standard input) | "open" | "closed"
    acceptAt,    \* runTCP: "accept" | "ended"
    closerAt,    \* the goroutine that closes the listener: "waiting" | "ended"
    stream,      \* each stream with its scanner, its channel and its reader
    cancelled    \* the context is done

listenVars == << listener, acceptAt, closerAt >>
streamVars == << listenVars, stream >>
vars == << streamVars, cancelled >>

(* `is` is "none", "queued" for accept or "read"; `sent` and `over` are the *)
(* writer's, or what came of it; the channel is `lines` and `closed`,       *)
(* `heard` what was emitted.                                                *)
Fresh(is) ==
    [is |-> is, sent |-> 0, over |-> FALSE, scanAt |-> "scan", scanned |-> 0,
     lines |-> << >>, closed |-> FALSE, emitAt |-> "select", heard |-> << >>]

Stdin == CHOOSE s \in Streams : TRUE

(* Start: over a listener, or at once on standard input. *)
Init ==
    /\ listener \in {"none", "open"}
    /\ acceptAt = IF listener = "open" THEN "accept" ELSE "ended"
    /\ closerAt = IF listener = "open" THEN "waiting" ELSE "ended"
    /\ stream = [s \in Streams |->
                   Fresh(IF listener = "none" /\ s = Stdin THEN "read" ELSE "none")]
    /\ cancelled = FALSE

-----------------------------------------------------------------------------
Connect ==
    /\ listener = "open"
    /\ \E s \in Streams : stream[s].is = "none" /\ stream' = [stream EXCEPT ![s].is = "queued"]
    /\ UNCHANGED << listenVars, cancelled >>

WriteLine ==
    /\ \E s \in Streams :
         /\ stream[s].is # "none" /\ ~ stream[s].over /\ stream[s].sent < StreamLines
         /\ stream' = [stream EXCEPT ![s].sent = @ + 1]
    /\ UNCHANGED << listenVars, cancelled >>

(* Its writer ends it, or it breaks and takes what is not read with it. *)
CloseStream ==
    /\ \E s \in Streams :
         /\ stream[s].is # "none" /\ ~ stream[s].over
         /\ \E came \in stream[s].scanned .. stream[s].sent :
              stream' = [stream EXCEPT ![s].over = TRUE, ![s].sent = came]
    /\ UNCHANGED << listenVars, cancelled >>

(* The context Start was given is done. *)
Cancel ==
    /\ ~ cancelled
    /\ cancelled' = TRUE
    /\ UNCHANGED streamVars

(* Stop cancels and closes the listener. *)
Stop ==
    /\ listener = "open"
    /\ cancelled' = TRUE
    /\ listener' = "closed"
    /\ UNCHANGED << acceptAt, closerAt, stream >>

-----------------------------------------------------------------------------
CloseListener ==
    /\ closerAt = "waiting"
    /\ cancelled
    /\ closerAt' = "ended"
    /\ listener' = "closed"
    /\ UNCHANGED << acceptAt, stream, cancelled >>

AcceptConn ==
    /\ acceptAt = "accept"
    /\ listener = "open"
    /\ \E s \in Streams : stream[s].is = "queued" /\ stream' = [stream EXCEPT ![s].is = "read"]
    /\ UNCHANGED << listenVars, cancelled >>

(* Any error of Accept ends the loop, a closed listener or another; the    *)
(* connections there are go on.                                            *)
AcceptFails ==
    /\ acceptAt = "accept"
    /\ acceptAt' = "ended"
    /\ UNCHANGED << listener, closerAt, stream, cancelled >>

(* Scan: the next line, unless it is too long for the buffer. *)
Scan(s) ==
    /\ stream[s].is = "read" /\ stream[s].scanAt = "scan"
    /\ stream[s].scanned < stream[s].sent
    /\ stream[s].scanned + 1 \notin Huge
    /\ stream' = [stream EXCEPT ![s].scanned = @ + 1, ![s].scanAt = "send"]
    /\ UNCHANGED << listenVars, cancelled >>

(* lines <- scanner.Text() waits for room, and nothing else. *)
SendLine(s) ==
    /\ stream[s].scanAt = "send"
    /\ Len(stream[s].lines) < LinesCap
    /\ stream' = [stream EXCEPT ![s].lines = Append(@, stream[s].scanned), ![s].scanAt = "scan"]
    /\ UNCHANGED << listenVars, cancelled >>

(* The end of the stream and a line that is too long end the scanner. *)
ScanEnds(s) ==
    /\ stream[s].is = "read" /\ stream[s].scanAt = "scan"
    /\ IF stream[s].scanned = stream[s].sent THEN stream[s].over
                                             ELSE stream[s].scanned + 1 \in Huge
    /\ stream' = [stream EXCEPT ![s].scanAt = "ended", ![s].closed = TRUE]
    /\ UNCHANGED << listenVars, cancelled >>

(* The select of runReader, which takes either case when both are ready. *)
EmitLine(s) ==
    /\ stream[s].is = "read" /\ stream[s].emitAt = "select"
    /\ stream[s].lines # << >>
    /\ stream' = [stream EXCEPT ![s].heard = Append(@, Head(stream[s].lines)),
                                ![s].lines = Tail(@)]
    /\ UNCHANGED << listenVars, cancelled >>

(* A mutated form: a closed channel is left with the lines still in it. *)
ReaderEndsEarly(s) ==
    /\ stream[s].is = "read" /\ stream[s].emitAt = "select"
    /\ cancelled \/ stream[s].closed
    /\ stream' = [stream EXCEPT ![s].emitAt = "ended"]
    /\ UNCHANGED << listenVars, cancelled >>

ReaderEnds(s) ==
    /\ stream[s].is = "read" /\ stream[s].emitAt = "select"
    /\ cancelled \/ (stream[s].closed /\ stream[s].lines = << >>)
    /\ stream' = [stream EXCEPT ![s].emitAt = "ended"]
    /\ UNCHANGED << listenVars, cancelled >>

Scanner(s) == Scan(s) \/ SendLine(s) \/ ScanEnds(s)
Reader(s) == EmitLine(s) \/ ReaderEnds(s)

Next ==
    \/ \E s \in Streams : Scanner(s) \/ Reader(s)
    \/ CloseListener \/ AcceptConn \/ AcceptFails
    \/ Connect \/ WriteLine \/ CloseStream \/ Stop \/ Cancel

-----------------------------------------------------------------------------
TypeOK ==
    /\ listener \in {"none", "open", "closed"}
    /\ acceptAt \in {"accept", "ended"} /\ closerAt \in {"waiting", "ended"}
    /\ cancelled \in BOOLEAN
    /\ \A s \in Streams :
         /\ stream[s].is \in {"none", "queued", "read"}
         /\ stream[s].scanAt \in {"scan", "send", "ended"}
         /\ stream[s].emitAt \in {"select", "ended"}
         /\ stream[s].scanned \in 0 .. stream[s].sent /\ stream[s].sent <= StreamLines
         /\ Len(stream[s].lines) <= LinesCap
         /\ stream[s].closed <=> stream[s].scanAt = "ended"

(* The lines of a stream are emitted once and in their order, none left    *)
(* out, up to the first that is too long, and no further: that one ends    *)
(* the stream, with every good line behind it.  A reader that ends before  *)
(* it is cancelled has emitted all the stream held, or all before that     *)
(* line.                                                                   *)
LinesInOrder ==
    \A s \in Streams :
      LET n == Len(stream[s].heard) IN
        /\ stream[s].heard = [i \in 1 .. n |-> i]
        /\ Huge \cap 1 .. n = {}
        /\ stream[s].emitAt = "ended" /\ ~ cancelled =>
              \/ stream[s].over /\ n = stream[s].sent
              \/ n + 1 \in Huge

(* The lines before one that is too long are not all emitted. *)
Behind(s) ==
    /\ stream[s].is = "read" /\ ~ cancelled
    /\ \E n \in 1 .. stream[s].sent : Len(stream[s].heard) < n /\ Huge \cap 1 .. n = {}
=============================================================================
