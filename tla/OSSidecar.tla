------------------------------ MODULE OSSidecar -----------------------------
(***************************************************************************)
(* receiver.OSSidecarReceiver (internal/receiver/os.go) on Linux: run,     *)
(* which looks the process up once by its name, and sampleLinux, which     *)
(* reads the process's CPU counter, then the host's, and reports the       *)
(* quotient of their differences as the process's share.                   *)
(*                                                                         *)
(* Counters are unsigned words of Word values.  A process is external: it  *)
(* uses CPU time, of which the host's counter is the sum, ends, and leaves *)
(* its ID to another one.  /proc/<pid>/stat always has its fields, and     *)
(* /proc/stat may fail to be read.                                         *)
(***************************************************************************)
EXTENDS Naturals, FiniteSetsExt

CONSTANTS PIDs,        \* process IDs, not 0; ours is not among them
          Word,        \* the counters' modulus, 2^64
          MaxHost,     \* bound: the host's CPU time, below Word
          MaxStarts    \* bound: processes started

VARIABLES
    running,     \* under each ID: "none" | "named" (it matches the name) | "other"
    used,        \* the CPU time of the process under each ID
    host,        \* the CPU time of the host
    starts,      \* processes started so far
    life,        \* under each ID: the number of the process that has it now
    pid,         \* r.pid, 0 while only the name is known
    osAt,        \* run: "lookup" | "wait" | "tick" | "stat" | "host" | "rss" | "ended"
    procTotal,   \* sampleLinux: the process's counter, read
    lastTotal, lastProc,   \* r.lastTotal, r.lastProc
    sampled,     \* r.lastTime is set
    share,       \* history: the share this tick emitted, its two differences, and of the
                 \* sample before: was it the same process, what lay between its reads
    read,        \* history: the process and the host's time when procTotal was read
    stored,      \* history: the process of lastProc, and what lay between its two reads
    cancelled    \* the context is done

worldVars == << running, used, host, starts, life >>
tickVars == << procTotal, share, read >>
lastVars == << lastTotal, lastProc, sampled, stored >>
osVars == << worldVars, pid, osAt, tickVars, lastVars >>
vars == << osVars, cancelled >>

NoShare == [proc |-> 0, host |-> 0, same |-> TRUE, gap |-> 0]
Nothing == [life |-> 0, host |-> 0]

(* Processes that are there already have started before anything else. *)
Init ==
    /\ running = [p \in PIDs |-> "none"]
    /\ used = [p \in PIDs |-> 0]
    /\ host = 0
    /\ starts = 0
    /\ life = [p \in PIDs |-> 0]
    /\ pid \in PIDs \cup {0}
    /\ osAt = "lookup"
    /\ procTotal = 0
    /\ lastTotal = 0 /\ lastProc = 0 /\ sampled = FALSE
    /\ share = NoShare
    /\ read = Nothing
    /\ stored = [life |-> 0, gap |-> 0]
    /\ cancelled = FALSE

-----------------------------------------------------------------------------
(* A unit of the host's time goes to a process, or to none of these. *)
Work ==
    /\ host < MaxHost
    /\ host' = host + 1
    /\ \/ \E p \in PIDs : running[p] # "none" /\ used' = [used EXCEPT ![p] = @ + 1]
       \/ UNCHANGED used
    /\ UNCHANGED << running, starts, life, pid, osAt, tickVars, lastVars, cancelled >>

Exit ==
    /\ \E p \in PIDs : running[p] # "none" /\ running' = [running EXCEPT ![p] = "none"]
    /\ UNCHANGED << used, host, starts, life, pid, osAt, tickVars, lastVars, cancelled >>

StartProcess ==
    /\ starts < MaxStarts
    /\ starts' = starts + 1
    /\ \E p \in PIDs, k \in {"named", "other"} :
         /\ running[p] = "none"
         /\ running' = [running EXCEPT ![p] = k]
         /\ used' = [used EXCEPT ![p] = 0]
         /\ life' = [life EXCEPT ![p] = starts']
    /\ UNCHANGED << host, pid, osAt, tickVars, lastVars, cancelled >>

Cancel ==
    /\ ~ cancelled
    /\ cancelled' = TRUE
    /\ UNCHANGED osVars

-----------------------------------------------------------------------------
(* pgrep lists the processes of the name by their IDs; the first is taken. *)
Named == { p \in PIDs : running[p] = "named" }
findPID == IF Named = {} THEN 0 ELSE Min(Named)

(* run looks the process up before its first wait, and on a tick while it  *)
(* has not found it.  It never looks again.                                *)
Lookup ==
    /\ osAt \in {"lookup", "tick"}
    /\ pid' = IF pid = 0 THEN findPID ELSE pid
    /\ osAt' = IF osAt = "lookup" \/ pid' = 0 THEN "wait" ELSE "stat"
    /\ UNCHANGED << worldVars, tickVars, lastVars, cancelled >>

Ticked ==
    /\ osAt = "wait"
    /\ osAt' = "tick"
    /\ UNCHANGED << worldVars, pid, tickVars, lastVars, cancelled >>

SeeCancel ==
    /\ osAt = "wait"
    /\ cancelled
    /\ osAt' = "ended"
    /\ UNCHANGED << worldVars, pid, tickVars, lastVars, cancelled >>

(* Without the process the sample is given up. *)
ReadStat ==
    /\ osAt = "stat"
    /\ IF running[pid] = "none"
       THEN osAt' = "wait" /\ UNCHANGED << procTotal, read >>
       ELSE /\ osAt' = "host"
            /\ procTotal' = used[pid]
            /\ read' = [life |-> life[pid], host |-> host]
    /\ UNCHANGED << worldVars, pid, lastVars, share, cancelled >>

(* uint64 subtraction. *)
Minus(a, b) == (a + Word - b) % Word

(* A mutated form: the process's counter is stored by the first sample only. *)
FirstProc == IF sampled THEN lastProc ELSE procTotal

NextProc == procTotal

(* The quotient of the differences is emitted unless it is the first, the  *)
(* host's counter could not be read, or has not moved; the counters are    *)
(* stored in any case, the host's as 0 when it could not be read.          *)
Measure(hostTotal, ok) ==
    /\ osAt = "host"
    /\ share' = IF sampled /\ ok /\ Minus(hostTotal, lastTotal) > 0
                THEN [proc |-> Minus(procTotal, lastProc), host |-> Minus(hostTotal, lastTotal),
                      same |-> read.life = stored.life, gap |-> stored.gap]
                ELSE share
    /\ lastTotal' = hostTotal
    /\ lastProc' = NextProc
    /\ sampled' = TRUE
    /\ stored' = [life |-> read.life, gap |-> IF ok THEN host - read.host ELSE 0]
    /\ osAt' = "rss"
    /\ UNCHANGED << worldVars, pid, procTotal, read, cancelled >>

ReadHost == Measure(host, TRUE)
ReadHostFails == Measure(0, FALSE)

(* The memory is a sample of its own, and left out when the process is gone; *)
(* the tick's variables end with it.                                         *)
ReadRSS ==
    /\ osAt = "rss"
    /\ osAt' = "wait"
    /\ procTotal' = 0
    /\ read' = Nothing
    /\ share' = NoShare
    /\ UNCHANGED << worldVars, pid, lastVars, cancelled >>

Run == Lookup \/ SeeCancel \/ ReadStat \/ ReadHost \/ ReadHostFails \/ ReadRSS

Next == Run \/ Ticked \/ Work \/ Exit \/ StartProcess \/ Cancel

-----------------------------------------------------------------------------
TypeOK ==
    /\ running \in [PIDs -> {"none", "named", "other"}]
    /\ used \in [PIDs -> 0 .. MaxHost] /\ host \in 0 .. MaxHost
    /\ starts \in 0 .. MaxStarts /\ life \in [PIDs -> 0 .. MaxStarts]
    /\ cancelled \in BOOLEAN /\ sampled \in BOOLEAN
    /\ pid \in PIDs \cup {0} /\ (osAt \in {"stat", "host", "rss"} => pid # 0)
    /\ osAt \in {"lookup", "wait", "tick", "stat", "host", "rss", "ended"}
    /\ procTotal \in 0 .. MaxHost /\ lastTotal \in 0 .. MaxHost /\ lastProc \in 0 .. MaxHost
    /\ share.proc \in 0 .. Word - 1 /\ share.host \in 0 .. Word - 1
    /\ read \in [life : 0 .. MaxStarts, host : 0 .. MaxHost]
    /\ stored \in [life : 0 .. MaxStarts, gap : 0 .. MaxHost]

(* A process is never reported to have used more CPU time than the host    *)
(* had, but for what passed between the two reads of the sample before;    *)
(* also after a tick without the process or without the host's counter.    *)
(* Only another process under the same ID makes the difference underflow.  *)
ShareIsBounded == share.same => share.proc <= share.host + share.gap
=============================================================================
