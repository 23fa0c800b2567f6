------------------------------ MODULE Sources -------------------------------
(***************************************************************************)
(* The receivers that startReceivers (cmd/taplytix/main.go) starts for the *)
(* sources of a configuration, each in goroutines of its own.  They share  *)
(* the context they are started with and the channel they emit into; the   *)
(* channel is Pipeline.tla, OTLP and the remote link are OTLPReceiver.tla  *)
(* and RemoteLink.tla.  Since no receiver touches another's state, one     *)
(* source at a time is enough: `kind` is the receiver it has.              *)
(***************************************************************************)
EXTENDS LogTail

CONSTANTS
    Families, Interval, Timeout, Ceiling,     \* Prometheus
    PIDs, Word, MaxHost, MaxStarts,           \* OSSidecar
    Datagrams,                                \* StatsD
    Streams, StreamLines, Huge, LinesCap      \* StreamTail

ASSUME SourcesAssumption ==
    /\ Interval \in Nat /\ Timeout \in Nat /\ Ceiling \in Nat \ {0}
    /\ PIDs \subseteq Nat \ {0} /\ {Word, MaxHost, MaxStarts} \subseteq Nat /\ MaxHost < Word
    /\ \A d \in DOMAIN Datagrams : Datagrams[d] \in Seq(Range(Datagrams[d]))
    /\ StreamLines \in Nat /\ LinesCap \in Nat \ {0}

VARIABLES
    kind,        \* "file" | "stream" | "prometheus" | "statsd" | "sysstat"
    target, promAt, remaining, backoff, unsent, healthy, fresh,
    running, used, host, starts, life, pid, osAt, procTotal, lastTotal, lastProc, sampled,
    share, read, stored,
    conn, socket, udpAt, reading, line, unread, watchAt, taken, counted,
    listener, acceptAt, closerAt, stream

Prom == INSTANCE Prometheus
OS == INSTANCE OSSidecar
UDP == INSTANCE StatsD
Tails == INSTANCE StreamTail

fileVars == << diskVars, tailVars >>
promVars == << target, promAt, remaining, backoff, unsent, healthy, fresh >>
osVars == << running, used, host, starts, life, pid, osAt, procTotal, lastTotal, lastProc,
             sampled, share, read, stored >>
udpVars == << conn, socket, udpAt, reading, line, unread, watchAt, taken, counted >>
streamVars == << listener, acceptAt, closerAt, stream >>
sourceVars == << kind, cancelled, fileVars, promVars, osVars, udpVars, streamVars >>

(* The switch of startReceivers; the receivers a source has not rest in one *)
(* of their initial states.                                                 *)
SourcesInit ==
    /\ kind \in {"file", "stream", "prometheus", "statsd", "sysstat"}
    /\ Init /\ Prom!Init /\ OS!Init /\ UDP!Init /\ Tails!Init
    /\ kind # "file" => path = 0
    /\ kind # "prometheus" => target = "answers"
    /\ kind # "sysstat" => pid = 0
    /\ kind # "stream" => listener = "none"

OnlyFile == UNCHANGED << kind, promVars, osVars, udpVars, streamVars >>
OnlyStream == UNCHANGED << kind, fileVars, promVars, osVars, udpVars >>
OnlyPrometheus == UNCHANGED << kind, fileVars, osVars, udpVars, streamVars >>
OnlyStatsD == UNCHANGED << kind, fileVars, promVars, osVars, streamVars >>
OnlySysstat == UNCHANGED << kind, fileVars, promVars, udpVars, streamVars >>

SourcesNext ==
    \/ kind = "file" /\ Next /\ OnlyFile
    \/ kind = "stream" /\ Tails!Next /\ OnlyStream
    \/ kind = "prometheus" /\ Prom!Next /\ OnlyPrometheus
    \/ kind = "statsd" /\ UDP!Next /\ OnlyStatsD
    \/ kind = "sysstat" /\ OS!Next /\ OnlySysstat

(* The goroutine of each receiver. *)
RunStep ==
    \/ kind = "file" /\ TailStep /\ OnlyFile
    \/ kind = "stream" /\ (Tails!AcceptConn \/ (listener = "closed" /\ Tails!AcceptFails)) /\ OnlyStream
    \/ kind = "prometheus" /\ Prom!Run /\ OnlyPrometheus
    \/ kind = "statsd" /\ UDP!Run /\ OnlyStatsD
    \/ kind = "sysstat" /\ OS!Run /\ OnlySysstat

(* The goroutine that closes the socket, where there is one. *)
WatcherStep ==
    \/ kind = "stream" /\ Tails!CloseListener /\ OnlyStream
    \/ kind = "statsd" /\ UDP!Watch /\ OnlyStatsD

ScannerStep(s) == kind = "stream" /\ Tails!Scanner(s) /\ OnlyStream
ReaderStep(s) == kind = "stream" /\ Tails!Reader(s) /\ OnlyStream

(* The case of a select, the open of a file, that others may come before,  *)
(* but not for ever.                                                       *)
RareStep ==
    \/ kind = "file" /\ OpenFile /\ OnlyFile
    \/ kind = "sysstat" /\ OS!SeeCancel /\ OnlySysstat

(* Every goroutine is scheduled; nobody has to write, answer or stop, and  *)
(* nothing has to fail.  A select takes any of the cases that are ready,   *)
(* at random: in the long run each one.  A file that is there again and    *)
(* again does not refuse every open and every stat.                        *)
SourcesSpec ==
    /\ SourcesInit /\ [][SourcesNext]_sourceVars
    /\ WF_sourceVars(RunStep)
    /\ WF_sourceVars(WatcherStep)
    /\ SF_sourceVars(RareStep)
    /\ SF_sourceVars(kind = "file" /\ Stat /\ OnlyFile)
    /\ \A s \in Streams : WF_sourceVars(ScannerStep(s)) /\ WF_sourceVars(ReaderStep(s))

-----------------------------------------------------------------------------
(* Whatever is rotated, cut, overtaken, malformed or left behind: what is  *)
(* read of a file, and the good lines of a datagram among its bad ones,    *)
(* are emitted in their order, once, with none left out.  Of a stream that *)
(* is so up to its first line that is too long; that line costs all behind *)
(* it.                                                                     *)
EmittedInOrder == InWritingOrder /\ Tails!LinesInOrder /\ UDP!GoodLinesInOrder

(* A scraped program that is well again is seen again within a timeout and *)
(* the longest backoff, however long it was not.                           *)
RecoversInTime == Prom!RecoversInTime

(* No process is reported with more CPU time than the host had, but for    *)
(* the time between two reads; unless its ID was taken over.               *)
ShareIsBounded == OS!ShareIsBounded

(* What is appended to a file, or written to a stream before a line that   *)
(* is too long, is caught up with, unless the source is stopped.           *)
WrittenIsEmitted ==
    LET Behind == \/ kind = "file" /\ FileBehind
                  \/ kind = "stream" /\ \E s \in Streams : Tails!Behind(s)
    IN Behind ~> ~ Behind

(* What a done context leaves: of a stream the scanner may stay in its     *)
(* read, or at a full channel nobody takes from.                           *)
Ended ==
    CASE kind = "file"       -> at = "ended"
      [] kind = "prometheus" -> promAt = "ended"
      [] kind = "sysstat"    -> osAt = "ended"
      [] kind = "statsd"     -> udpAt = "ended" /\ watchAt = "ended"
      [] kind = "stream"     -> /\ acceptAt = "ended" /\ closerAt = "ended"
                                /\ \A s \in Streams : stream[s].is = "read" => stream[s].emitAt = "ended"

(* "respect ctx cancellation for shutdown": every receiver ends, whatever  *)
(* it waits for: a file that is not there, a lock, a socket, an answer, a  *)
(* pause or a full channel.                                                *)
EndsWhenCancelled == cancelled ~> Ended
=============================================================================
