------------------------------ MODULE Notifiers ------------------------------
(***************************************************************************)
(* What becomes of an alert's notifications: fanoutNotify of the engine    *)
(* (internal/alert/engine.go) and the three notifiers it calls, Webhook,   *)
(* LogFile and Bell (internal/alert/notifier).                             *)
(*                                                                         *)
(* One alert fires and resolves in turn: note 1 says it has fired, note 2  *)
(* that it is resolved, and so on (AlertEngine.tla shows that the engine   *)
(* speaks in turns).  Each notifier of the rule gets each note in a        *)
(* goroutine of its own, so several notes are under way at once.  Time is  *)
(* counted in seconds; what takes no time happens before the next tick.    *)
(* The endpoint of the webhook and the file system are external.           *)
(***************************************************************************)
EXTENDS Integers, Sequences

CONSTANTS
    MaxNotes,     \* bound: notes launched
    Lists,        \* the lists of notifiers a rule may have
    Attempts,     \* attempts of the webhook, 3 in the code
    Timeout,      \* of one attempt, 5 s in the code
    Pause,        \* between two attempts, 1 s in the code
    Deadline      \* of the context of a notification, 10 s in the code

Names == {"bell", "webhook", "logfile"}

NotifierBounds ==
    /\ MaxNotes \in Nat /\ Lists \subseteq SUBSET Names
    /\ {Attempts, Timeout, Pause} \subseteq Nat \ {0} /\ Deadline \in Nat

ASSUME NotifierAssumption == NotifierBounds

Notes == 1 .. MaxNotes

VARIABLES
    notify,      \* the rule's list
    launched,    \* notes launched so far
    ringing,     \* the notes whose bell has not rung yet
    hook,        \* the webhook's goroutine of each note
    endpoint,    \* "up": it accepts and answers in time | "refuses" | "hangs"
    posted,      \* history: how often the endpoint took each note
    lost,        \* history: how often it did and the webhook saw no 2xx
    steady,      \* history: for how long it has been up, while a hook is at work
    log,         \* the log file's goroutine of each note: "none" | "wait" |
                 \* "locked" | "open" | "written" | "error"
    mu,          \* the note whose goroutine holds the lock, 0 if none
    lines,       \* the notes the file tells of, in its order
    before       \* history: the notes written when this one was launched

hookVars == << hook, posted, lost, steady >>
logVars == << log, mu, lines >>
notifierVars == << notify, launched, ringing, hookVars, endpoint, logVars, before >>

(* A hook's goroutine: "none" before it is started | "post": a request is  *)
(* sent | "hung": it gets no answer | "pause" | "sent" | "failed".         *)
NoHook == [at |-> "none", attempt |-> 1, spent |-> 0, age |-> 0, taken |-> FALSE]

(* One that has returned, with nothing of its counts left. *)
Over(outcome) == [NoHook EXCEPT !.at = outcome]

Live(n) == hook[n].at \in {"post", "hung", "pause"}

NotifierInit ==
    /\ notify \in Lists
    /\ launched = 0
    /\ ringing = {}
    /\ hook = [n \in Notes |-> NoHook]
    /\ endpoint \in {"up", "refuses", "hangs"}
    /\ posted = [n \in Notes |-> 0]
    /\ lost = [n \in Notes |-> 0]
    /\ steady = [n \in Notes |-> 0]
    /\ log = [n \in Notes |-> "none"]
    /\ mu = 0
    /\ lines = << >>
    /\ before = [n \in Notes |-> {}]

-----------------------------------------------------------------------------
(* fanoutNotify: a goroutine for each notifier of the list, with a context *)
(* that ends after the deadline; the engine waits for none of them.        *)
Launch ==
    /\ launched < MaxNotes
    /\ launched' = launched + 1
    /\ LET n == launched + 1 IN
         /\ ringing' = IF "bell" \in notify THEN ringing \cup {n} ELSE ringing
         /\ hook' = IF "webhook" \in notify THEN [hook EXCEPT ![n].at = "post"] ELSE hook
         /\ log' = IF "logfile" \in notify THEN [log EXCEPT ![n] = "wait"] ELSE log
         /\ before' = [before EXCEPT ![n] = {m \in Notes : log[m] = "written"}]
    /\ UNCHANGED << notify, endpoint, posted, lost, steady, mu, lines >>

(* Bell.Notify writes one BEL, whether the alert fires or resolves. *)
Ring ==
    /\ \E n \in ringing : ringing' = ringing \ {n}
    /\ UNCHANGED << notify, launched, hookVars, endpoint, logVars, before >>

-----------------------------------------------------------------------------
(* The endpoint goes down, hangs or comes back. *)
Turn ==
    /\ "webhook" \in notify
    /\ endpoint' \in {"up", "refuses", "hangs"} \ {endpoint}
    /\ steady' = [n \in Notes |-> IF Live(n) /\ endpoint' # "up" THEN 0 ELSE steady[n]]
    /\ UNCHANGED << notify, launched, ringing, hook, posted, lost, logVars, before >>

CtxDone(n) == hook[n].age >= Deadline

(* The loop after an attempt that failed: the pause before the next one,   *)
(* or the last error.                                                      *)
AttemptFails(n) ==
    hook' = [hook EXCEPT ![n] = IF hook[n].attempt = Attempts THEN Over("failed")
                                ELSE [@ EXCEPT !.at = "pause", !.spent = 0, !.taken = FALSE]]

(* A mutated form: a 2xx does not end the loop. *)
AcceptAndRepeat(n) ==
    /\ hook[n].at \in {"post", "hung"}
    /\ endpoint = "up"
    /\ ~ CtxDone(n)
    /\ posted' = IF hook[n].taken THEN posted ELSE [posted EXCEPT ![n] = @ + 1]
    /\ AttemptFails(n)
    /\ UNCHANGED << notify, launched, ringing, endpoint, lost, steady, logVars, before >>

(* client.Do returns with a 2xx: from an endpoint that is up at once, from *)
(* one that has come back perhaps, also to a request it took before.       *)
Accept(n) ==
    /\ hook[n].at \in {"post", "hung"}
    /\ endpoint = "up"
    /\ ~ CtxDone(n)
    /\ posted' = IF hook[n].taken THEN posted ELSE [posted EXCEPT ![n] = @ + 1]
    /\ hook' = [hook EXCEPT ![n] = Over("sent")]
    /\ UNCHANGED << notify, launched, ringing, endpoint, lost, steady, logVars, before >>

(* It returns with an error or another status: a 500, a reset, an answer   *)
(* cut short.  The endpoint may have taken the note all the same.          *)
Refuse(n) ==
    /\ hook[n].at \in {"post", "hung"}
    /\ endpoint = "refuses"
    /\ \E taken \in BOOLEAN :
         /\ hook[n].taken => taken
         /\ posted' = IF taken /\ ~ hook[n].taken THEN [posted EXCEPT ![n] = @ + 1] ELSE posted
         /\ lost' = IF taken THEN [lost EXCEPT ![n] = @ + 1] ELSE lost
    /\ AttemptFails(n)
    /\ UNCHANGED << notify, launched, ringing, endpoint, steady, logVars, before >>

(* No URL, a value that JSON cannot hold (NaN, an infinity), or a URL no   *)
(* request can be made of: Notify returns before its first request.        *)
NotPosted(n) ==
    /\ hook[n].at = "post"
    /\ hook[n].attempt = 1
    /\ hook' = [hook EXCEPT ![n] = Over("failed")]
    /\ UNCHANGED << notify, launched, ringing, endpoint, posted, lost, steady, logVars, before >>

(* It does not return, and the endpoint may have taken the note. *)
Hang(n) ==
    /\ hook[n].at = "post"
    /\ endpoint = "hangs"
    /\ ~ CtxDone(n)
    /\ \E taken \in BOOLEAN :
         /\ hook' = [hook EXCEPT ![n].at = "hung", ![n].taken = taken]
         /\ posted' = IF taken THEN [posted EXCEPT ![n] = @ + 1] ELSE posted
    /\ UNCHANGED << notify, launched, ringing, endpoint, lost, steady, logVars, before >>

(* A mutated form: the client has no timeout of its own. *)
CutAtDeadline(n) == hook[n].at \in {"post", "hung"} /\ CtxDone(n)

(* When the client's timeout or the context ends a request. *)
IsCut(n) ==
    \/ hook[n].at = "hung" /\ hook[n].spent >= Timeout
    \/ hook[n].at \in {"post", "hung"} /\ CtxDone(n)

Cut(n) ==
    /\ IsCut(n)
    /\ AttemptFails(n)
    /\ lost' = IF hook[n].taken THEN [lost EXCEPT ![n] = @ + 1] ELSE lost
    /\ UNCHANGED << notify, launched, ringing, endpoint, posted, steady, logVars, before >>

(* The select before another attempt: the second is over, or the context   *)
(* is done.                                                                *)
PauseIsOver(n) == hook[n].at = "pause" /\ hook[n].spent >= Pause

TryAgain(n) ==
    /\ PauseIsOver(n)
    /\ hook' = [hook EXCEPT ![n].at = "post", ![n].spent = 0, ![n].attempt = @ + 1]
    /\ UNCHANGED << notify, launched, ringing, posted, lost, steady, endpoint, logVars, before >>

(* A mutated form: the pause does not look at the context. *)
NeverAbandons(n) == hook[n].at = "pause" /\ FALSE

Abandons(n) == hook[n].at = "pause" /\ CtxDone(n)

GiveUp(n) ==
    /\ Abandons(n)
    /\ hook' = [hook EXCEPT ![n] = Over("failed")]
    /\ UNCHANGED << notify, launched, ringing, posted, lost, steady, endpoint, logVars, before >>

(* A second passes for every hook that is waiting; a request that is not   *)
(* hanging, a timeout and the end of a pause are not kept waiting.         *)
NotifierTick ==
    /\ \E n \in Notes : Live(n)
    /\ \A n \in Notes : /\ hook[n].at # "post"
                        /\ ~ IsCut(n) /\ ~ PauseIsOver(n) /\ ~ Abandons(n)
    /\ hook' = [n \in Notes |-> IF Live(n)
                  THEN [hook[n] EXCEPT !.age = @ + 1, !.spent = @ + 1] ELSE hook[n]]
    /\ steady' = [n \in Notes |-> IF Live(n) /\ endpoint = "up" THEN steady[n] + 1 ELSE steady[n]]
    /\ UNCHANGED << notify, launched, ringing, endpoint, posted, lost, logVars, before >>

HookStep(n) ==
    \/ NotPosted(n) \/ Accept(n) \/ Refuse(n) \/ Hang(n) \/ Cut(n) \/ TryAgain(n) \/ GiveUp(n)

-----------------------------------------------------------------------------
(* LogFile.Notify, under its lock from the first call to the last. *)
LockLog(n) ==
    /\ log[n] = "wait"
    /\ mu = 0
    /\ mu' = n
    /\ log' = [log EXCEPT ![n] = "locked"]
    /\ UNCHANGED << notify, launched, ringing, hookVars, endpoint, lines, before >>

(* A mutated form: the file is opened afresh. *)
OpenLogAfresh(n) ==
    /\ log[n] = "locked"
    /\ log' = [log EXCEPT ![n] = "open"]
    /\ lines' = << >>
    /\ UNCHANGED << notify, launched, ringing, hookVars, endpoint, mu, before >>

(* MkdirAll, and OpenFile to append. *)
OpenLog(n) ==
    /\ log[n] = "locked"
    /\ log' = [log EXCEPT ![n] = "open"]
    /\ UNCHANGED << notify, launched, ringing, hookVars, endpoint, mu, lines, before >>

WriteLog(n) ==
    /\ log[n] = "open"
    /\ log' = [log EXCEPT ![n] = "written"]
    /\ lines' = Append(lines, n)
    /\ mu' = 0
    /\ UNCHANGED << notify, launched, ringing, hookVars, endpoint, before >>

(* Any of the three fails: its error is returned, and nobody reads it. *)
LogFails(n) ==
    /\ log[n] \in {"locked", "open"}
    /\ log' = [log EXCEPT ![n] = "error"]
    /\ mu' = 0
    /\ UNCHANGED << notify, launched, ringing, hookVars, endpoint, lines, before >>

LogStep(n) == LockLog(n) \/ OpenLog(n) \/ WriteLog(n) \/ LogFails(n)

NotifierNext == Launch \/ Ring \/ Turn \/ NotifierTick \/ \E n \in Notes : HookStep(n) \/ LogStep(n)

NotifierSpec == NotifierInit /\ [][NotifierNext]_notifierVars

-----------------------------------------------------------------------------
Hooks == [at : {"none", "post", "hung", "pause", "sent", "failed"}, attempt : 1 .. Attempts,
          spent : Nat, age : Nat, taken : BOOLEAN]

NotifierTypeOK ==
    /\ notify \in Lists
    /\ launched \in 0 .. MaxNotes
    /\ ringing \subseteq Notes
    /\ hook \in [Notes -> Hooks]
    /\ endpoint \in {"up", "refuses", "hangs"}
    /\ posted \in [Notes -> Nat] /\ lost \in [Notes -> Nat] /\ steady \in [Notes -> Nat]
    /\ log \in [Notes -> {"none", "wait", "locked", "open", "written", "error"}]
    /\ mu \in Notes \cup {0}
    /\ lines \in Seq(Notes)
    /\ before \in [Notes -> SUBSET Notes]

(* An endpoint that stays up for the time of a hanging request and a pause *)
(* has the note by then, unless the attempts were used up: "Three retry    *)
(* attempts with constant 1s backoff" (webhook.go:16) bridge its absence.  *)
RecoveredEndpointIsReached ==
    \A n \in Notes : Live(n) => steady[n] =< Timeout + Pause

(* No notification outlives its deadline, however its attempts fail: the   *)
(* goroutines of an alert that flaps do not pile up behind a dead endpoint.*)
DeadlineIsKept == \A n \in Notes : Live(n) => hook[n].age =< Deadline

(* The endpoint gets another copy of a note only after an attempt whose    *)
(* copy it took and whose 2xx the webhook never saw: a late answer,        *)
(* another status (the 500 of notifier_test.go:39-62) or a reset.  Notify  *)
(* reports success with the one copy that was answered, and an error when  *)
(* every copy the endpoint may hold is one of the unsure ones.             *)
RepeatedOnlyWhenUnsure ==
    \A n \in Notes : /\ posted[n] =< lost[n] + 1
                     /\ hook[n].at = "sent" => posted[n] = lost[n] + 1
                     /\ hook[n].at = "failed" => posted[n] = lost[n]

(* The file has exactly one line for each note written and keeps it, and a *)
(* note launched after another one was written stands below it; notes of   *)
(* goroutines that overlap may stand in any order, RESOLVED above FIRED.   *)
LogTellsSettledNotes ==
    /\ \A n \in Notes : log[n] = "written" <=> \E i \in DOMAIN lines : lines[i] = n
    /\ \A i, j \in DOMAIN lines : i < j => /\ lines[i] # lines[j]
                                           /\ lines[j] \notin before[lines[i]]
=============================================================================
