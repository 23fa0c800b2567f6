----------------------------- MODULE Prometheus -----------------------------
(***************************************************************************)
(* receiver.PrometheusReceiver (internal/receiver/prometheus.go): run, a   *)
(* loop of scrapes with a pause of the interval after a good one and of a  *)
(* growing backoff after a bad one, and convertFamily, which makes several *)
(* series of a histogram or a summary.                                     *)
(*                                                                         *)
(* Time is counted in seconds and passes only while the goroutine waits.   *)
(* The scraped program is external: it answers, answers with an error or   *)
(* with what does not parse, or keeps the connection without an answer.    *)
(***************************************************************************)
EXTENDS Naturals, FiniteSetsExt

CONSTANTS Families,    \* the families of the endpoint, each with its type
          Interval,    \* the configured interval
          Timeout,     \* the timeout of the HTTP client, 5 s
          Ceiling      \* a backoff below this is doubled, 30 s

VARIABLES
    target,      \* the scraped program: "answers" | "fails" | "hangs"
    promAt,      \* run: "scrape" | "asked" | "emit" | "backoff" | "interval" | "ended"
    remaining,   \* until the timeout or the end of the pause
    backoff,     \* the next pause after an error
    unsent,      \* the points of this scrape not yet given to emit
    healthy,     \* history: how long the target has answered, up to a cap
    fresh,       \* history: the series emitted since then
    cancelled    \* the context is done

promVars == << target, promAt, remaining, backoff, unsent, healthy, fresh >>
vars == << promVars, cancelled >>

(* Backoffs are doubled, from one second on; the longest is the first not  *)
(* below the ceiling.                                                      *)
Pauses[k \in 0 .. Ceiling] == IF k = 0 THEN 1 ELSE 2 * Pauses[k - 1]
LongestBackoff == Min({ n \in { Pauses[k] : k \in 0 .. Ceiling } : n >= Ceiling })

(* A scrape that waits out its timeout, and the pause after it. *)
Recovery == Timeout + Max({ LongestBackoff, Interval })

(* The points made of one sample of a family: buckets and quantiles are   *)
(* told apart by a label the store keys them by, here they are one child.  *)
Children ==
    [counter   |-> {""},
     gauge     |-> {""},
     untyped   |-> {""},
     histogram |-> {"_count", "_sum", "_bucket"},
     summary   |-> {"_count", "_sum", ""}]

convertFamily(f) == { << f.name, c >> : c \in Children[f.type] }

Series == UNION { convertFamily(f) : f \in Families }

Init ==
    /\ target \in {"answers", "fails", "hangs"}
    /\ promAt = "scrape"
    /\ remaining = 0
    /\ backoff = 1
    /\ unsent = {}
    /\ healthy = 0
    /\ fresh = {}
    /\ cancelled = FALSE

-----------------------------------------------------------------------------
(* The target changes at any time; it is healthy from when it answers. *)
Turn ==
    /\ target' \in {"answers", "fails", "hangs"} \ {target}
    /\ healthy' = 0
    /\ fresh' = {}
    /\ UNCHANGED << promAt, remaining, backoff, unsent, cancelled >>

(* A second passes; what is due at once is done first. *)
Tick ==
    /\ promAt \in {"asked", "backoff", "interval"}
    /\ remaining > 0
    /\ ~ cancelled
    /\ remaining' = remaining - 1
    /\ healthy' = IF target = "answers" THEN Min({ healthy + 1, Recovery + 1 }) ELSE 0
    /\ UNCHANGED << target, promAt, backoff, unsent, fresh, cancelled >>

-----------------------------------------------------------------------------
(* scrapeOnce, answered and parsed as a whole: its families come in any   *)
(* order.  A request that has waited may find the target well again.       *)
Answered ==
    /\ promAt \in {"scrape", "asked"}
    /\ target = "answers"
    /\ unsent' = Series
    /\ promAt' = "emit"
    /\ remaining' = 0
    /\ UNCHANGED << target, backoff, healthy, fresh, cancelled >>

Asked ==
    /\ promAt = "scrape"
    /\ target = "hangs"
    /\ promAt' = "asked"
    /\ remaining' = Timeout
    /\ UNCHANGED << target, backoff, unsent, healthy, fresh, cancelled >>

(* An error of the request, of the status or of the parser emits nothing; *)
(* the client's timeout and a done context end a request that hangs.       *)
ScrapeFails ==
    /\ \/ promAt = "scrape" /\ (target = "fails" \/ cancelled)
       \/ promAt = "asked" /\ (target = "fails" \/ remaining = 0 \/ cancelled)
    /\ promAt' = "backoff"
    /\ remaining' = backoff
    /\ UNCHANGED << target, backoff, unsent, healthy, fresh, cancelled >>

Emit ==
    /\ promAt = "emit"
    /\ \E s \in unsent :
         /\ unsent' = unsent \ {s}
         /\ fresh' = IF target = "answers" THEN fresh \cup {s} ELSE fresh
    /\ UNCHANGED << target, promAt, remaining, backoff, healthy, cancelled >>

(* A scrape without an error resets the backoff. *)
Scraped ==
    /\ promAt = "emit"
    /\ unsent = {}
    /\ backoff' = 1
    /\ promAt' = "interval"
    /\ remaining' = Interval
    /\ UNCHANGED << target, unsent, healthy, fresh, cancelled >>

(* A mutated form: the backoff is doubled without a ceiling. *)
BackoffEndsUncapped ==
    /\ promAt = "backoff"
    /\ remaining = 0
    /\ backoff' = 2 * backoff
    /\ promAt' = "scrape"
    /\ UNCHANGED << target, remaining, unsent, healthy, fresh, cancelled >>

(* "Exponential backoff up to 30s": 16 s are doubled, 32 s are not. *)
BackoffEnds ==
    /\ promAt = "backoff"
    /\ remaining = 0
    /\ backoff' = IF backoff < Ceiling THEN 2 * backoff ELSE backoff
    /\ promAt' = "scrape"
    /\ UNCHANGED << target, remaining, unsent, healthy, fresh, cancelled >>

IntervalEnds ==
    /\ promAt = "interval"
    /\ remaining = 0
    /\ promAt' = "scrape"
    /\ UNCHANGED << target, remaining, backoff, unsent, healthy, fresh, cancelled >>

SeeCancel ==
    /\ promAt \in {"backoff", "interval"}
    /\ cancelled
    /\ promAt' = "ended"
    /\ UNCHANGED << target, remaining, backoff, unsent, healthy, fresh, cancelled >>

(* Stop, or the context Start was given. *)
Cancel ==
    /\ ~ cancelled
    /\ cancelled' = TRUE
    /\ UNCHANGED promVars

Run ==
    \/ Answered \/ Asked \/ ScrapeFails \/ Emit \/ Scraped
    \/ BackoffEnds \/ IntervalEnds \/ SeeCancel

Next == Run \/ Turn \/ Tick \/ Cancel

-----------------------------------------------------------------------------
TypeOK ==
    /\ target \in {"answers", "fails", "hangs"}
    /\ promAt \in {"scrape", "asked", "emit", "backoff", "interval", "ended"}
    /\ remaining \in 0 .. Max({ LongestBackoff, Timeout, Interval })
    /\ backoff \in { Pauses[k] : k \in 0 .. Ceiling } /\ backoff <= LongestBackoff
    /\ unsent \subseteq Series /\ (promAt # "emit" => unsent = {})
    /\ healthy \in 0 .. Recovery + 1
    /\ fresh \subseteq Series
    /\ cancelled \in BOOLEAN

(* However long and in whatever way the target has failed, once it has     *)
(* answered for longer than the client's timeout and the longest pause all *)
(* its series have been emitted anew.                                      *)
RecoversInTime ==
    target = "answers" /\ healthy > Recovery /\ ~ cancelled => fresh = Series
=============================================================================
