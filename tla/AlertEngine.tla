----------------------------- MODULE AlertEngine ----------------------------
(***************************************************************************)
(* alert.Engine (internal/alert/engine.go) between the two goroutines it   *)
(* works with: the pump that pushes samples into the store's series        *)
(* (internal/store/timeseries.go) and the Bubble Tea loop that keeps the   *)
(* list of active alerts (internal/tui/app.go).                            *)
(*                                                                         *)
(* A series is pushed in two locked steps and evaluated in three, so the   *)
(* engine may look between any two of the pump's.  The engine's own lock   *)
(* only guards `firing` against Active, so a critical section is part of   *)
(* the step around it.  Time is counted in ticks of the engine: an entry's *)
(* age is `now - firingSince`, held at MaxAge, beyond every rule's For.    *)
(***************************************************************************)
EXTENDS Integers, Sequences, FiniteSets, FiniteSetsExt, Functions

CONSTANTS
    Rules,       \* the sequence of rules, records with fields name, metric,
                 \* pct, op, threshold, for, notify
    Services,    \* service names, in the order Services() sorts them
    Labels,      \* label sets of a metric
    NoLabels,    \* the empty label set, a member of Labels or not
    Values,      \* sample values
    SeriesCap,   \* seriesCap, the samples a series keeps
    Notifiers,   \* names of the configured notifiers
    MaxAge,      \* bound: ages are held at this many ticks
    HasProgram   \* whether SetProgram was called: runTUI does, runSSH not

(* Rule.Validate, which skips other rules; their names may repeat.         *)
ValidRule(r) ==
    /\ r.pct \in 0 .. 100
    /\ r.op \in {">", "<", ">=", "<=", "==", "!="}

ASSUME AlertAssumption ==
    /\ Values \subseteq Int /\ 0 \in Values
    /\ SeriesCap \in Nat \ {0}
    /\ MaxAge \in Nat
    /\ HasProgram \in BOOLEAN
    /\ Rules \in Seq(Range(Rules))
    /\ \A i \in DOMAIN Rules : Rules[i].for \in 0 .. MaxAge /\ ValidRule(Rules[i])
    /\ Services # << >> /\ Services \in Seq(Range(Services))

RuleIds == DOMAIN Rules
ServiceSet == Range(Services)
Metrics == {Rules[i].metric : i \in RuleIds}
SeriesIds == ServiceSet \X Metrics \X Labels
Keys == {Rules[i].name : i \in RuleIds} \X ServiceSet

(* The key of a rule and a service in `firing` and in the TUI's `alerts`.  *)
Key(i, svc) == << Rules[i].name, svc >>

VARIABLES
    known,      \* the store's map of services: who has sent anything
    series,     \* the store: present in the map, the ring's contents, the
                \* last value and whether a first push has set it
    pushing,    \* the sample the pump is pushing, if any, and the step it
                \* is before: << "ring" or "last", series, value >>
    ticked,     \* the ticker's channel holds a tick
    elapsed,    \* ticks since the `now` of the latest evaluation
    at,         \* where evaluateOnce is: "idle" | "pick" | "len" | "value" |
                \* "send" | "stale"
    listed,     \* the services Services() returned to this evaluation
    rule,       \* the rule and
    svcAt,      \* the service the evaluation's two loops are at
    picked,     \* the series findSeries returned
    seen,       \* the keys in breach in this evaluation
    stale,      \* the fired keys not seen, still to be resolved
    firing,     \* the entries: fired implies held
    outgoing,   \* the message being dispatched: << kind, key, notify, and
                \* where the evaluation goes on >>
    tuiHand,    \* the message the TUI's loop has taken and not yet applied
    alerts,     \* the keys in the TUI's list of active alerts
    notified,   \* history: the last message each notifier was started with
    streak      \* history: per rule and service, the age of its unbroken
                \* run of breaches, -1 outside one

engineVars == << at, listed, rule, svcAt, picked, seen, stale, firing, outgoing, notified, streak >>
storeVars == << known, series, pushing >>
tuiVars == << tuiHand, alerts >>
clockVars == << ticked, elapsed >>
vars == << engineVars, storeVars, tuiVars, clockVars >>

NoEntry == [held |-> FALSE, fired |-> FALSE, age |-> 0, rule |-> 0, value |-> 0]

Init ==
    /\ known = {}
    /\ series = [id \in SeriesIds |->
                   [present |-> FALSE, ring |-> << >>, last |-> 0, set |-> FALSE]]
    /\ pushing = << >>
    /\ ticked = TRUE      \* Run evaluates once before its first tick
    /\ elapsed = 0
    /\ at = "idle"
    /\ listed = {}
    /\ rule = 1
    /\ svcAt = 1
    /\ picked = << >>
    /\ seen = {}
    /\ stale = {}
    /\ firing = [k \in Keys |-> NoEntry]
    /\ outgoing = << >>
    /\ tuiHand = << >>
    /\ alerts = {}
    /\ notified = [x \in Notifiers \X Keys |-> "none"]
    /\ streak = [x \in RuleIds \X ServiceSet |-> -1]

-----------------------------------------------------------------------------
(* The operators of rule.go, timeseries.go and percentile.go. *)

Compare(value, threshold, op) ==
    \/ op = ">"  /\ value > threshold
    \/ op = "<"  /\ value < threshold
    \/ op = ">=" /\ value >= threshold
    \/ op = "<=" /\ value =< threshold
    \/ op = "==" /\ value = threshold
    \/ op = "!=" /\ value # threshold

Breaches(i, value) == Compare(value, Rules[i].threshold, Rules[i].op)

(* The nearest-rank percentile: entry ceil(p/100 * n), clamped, of the     *)
(* sorted values, which is the least value with that many up to it.  The   *)
(* rounding of the floating-point product is left out.                     *)
Rank(p, n) ==
    LET ceiling == (p * n + 99) \div 100
    IN IF ceiling < 1 THEN 1 ELSE IF ceiling > n THEN n ELSE ceiling

UpTo(values, v) == {i \in DOMAIN values : values[i] =< v}

Percentile(values, p) ==
    Min({v \in Range(values) : Rank(p, Len(values)) =< Cardinality(UpTo(values, v))})

(* computeValue on a series that is not empty. *)
ComputeValue(id, p) ==
    IF p = 0 THEN series[id].last ELSE Percentile(series[id].ring, p)

(* findSeries over the service's map: the series without labels if there   *)
(* is one, else whichever of the metric's the map's random order gives.    *)
Candidates(svc, metric) ==
    LET present == {id \in SeriesIds :
                      id[1] = svc /\ id[2] = metric /\ series[id].present}
        plain == {id \in present : id[3] = NoLabels}
    IN IF plain # {} THEN plain ELSE present

-----------------------------------------------------------------------------
(* The pump: PushMetric. *)

SampleRing(id) == INSTANCE Window
    WITH Cap <- SeriesCap, window <- series[id].ring

(* serviceFor: a log, a span or the metric about to be pushed makes its    *)
(* service known.                                                          *)
ServiceFor(svc) ==
    /\ known' = known \cup {svc}
    /\ UNCHANGED << series, pushing, engineVars, tuiVars, clockVars >>

(* The series is found in the service's map, or enters it, still empty.    *)
PushMetric(id, v) ==
    /\ pushing = << >>
    /\ id[1] \in known
    /\ pushing' = << "ring", id, v >>
    /\ series' = [series EXCEPT ![id].present = TRUE]
    /\ UNCHANGED << known, engineVars, tuiVars, clockVars >>

(* Series.Push, first half: the ring takes the sample. *)
PushRing ==
    /\ pushing # << >> /\ pushing[1] = "ring"
    /\ series' = [series EXCEPT ![pushing[2]].ring = SampleRing(pushing[2])!Slide(@, pushing[3])]
    /\ pushing' = << "last", pushing[2], pushing[3] >>
    /\ UNCHANGED << known, engineVars, tuiVars, clockVars >>

(* Second half: last follows (lastTime is not looked at by the engine). *)
PushLast ==
    /\ pushing # << >> /\ pushing[1] = "last"
    /\ series' = [series EXCEPT ![pushing[2]].last = pushing[3],
                                ![pushing[2]].set = TRUE]
    /\ pushing' = << >>
    /\ UNCHANGED << known, engineVars, tuiVars, clockVars >>

Push == PushRing \/ PushLast

Pump ==
    \/ \E svc \in ServiceSet : ServiceFor(svc)
    \/ \E id \in SeriesIds, v \in Values : PushMetric(id, v)
    \/ Push

-----------------------------------------------------------------------------
(* The ticker: its channel holds one tick, later ones are dropped. *)
AtMostMaxAge(n) == IF n > MaxAge THEN MaxAge ELSE n

Tick ==
    /\ elapsed' = AtMostMaxAge(elapsed + 1)
    /\ ticked' = TRUE
    /\ UNCHANGED << engineVars, storeVars, tuiVars >>

(* A mutated form: an age does not grow. *)
SameAge(age) == age

Older(age) == IF age < 0 THEN age ELSE AtMostMaxAge(age + elapsed)

(* evaluateOnce: `now` is read and the services are listed; every entry is *)
(* as much older as `now` is later.                                        *)
Begin ==
    /\ at = "idle"
    /\ ticked
    /\ ticked' = FALSE
    /\ elapsed' = 0
    /\ firing' = [k \in Keys |-> IF firing[k].held
                                 THEN [firing[k] EXCEPT !.age = Older(@)]
                                 ELSE firing[k]]
    /\ streak' = [x \in RuleIds \X ServiceSet |-> Older(streak[x])]
    /\ listed' = known
    /\ rule' = 1
    /\ svcAt' = 1
    /\ seen' = {}
    /\ at' = "pick"
    /\ UNCHANGED << picked, stale, outgoing, notified, storeVars, tuiVars >>

(* The loops over the rules and, for each, the services, in order. *)
AllVisited == rule > Len(Rules)
Here == Services[svcAt]

NextPair ==
    IF svcAt < Len(Services)
    THEN svcAt' = svcAt + 1 /\ rule' = rule
    ELSE svcAt' = 1 /\ rule' = rule + 1

(* A service not listed, or without the metric: the pair is left. *)
PickNone ==
    /\ at = "pick"
    /\ ~ AllVisited
    /\ Here \notin listed \/ Candidates(Here, Rules[rule].metric) = {}
    /\ NextPair
    /\ UNCHANGED << at, listed, picked, seen, stale, firing, outgoing, notified,
                    streak, storeVars, tuiVars, clockVars >>

Pick ==
    /\ at = "pick"
    /\ ~ AllVisited
    /\ Here \in listed
    /\ \E id \in Candidates(Here, Rules[rule].metric) : picked' = id
    /\ at' = "len"
    /\ UNCHANGED << listed, rule, svcAt, seen, stale, firing, outgoing, notified,
                    streak, storeVars, tuiVars, clockVars >>

(* computeValue's Len: an empty series has no value and the pair is left.  *)
CheckLen ==
    /\ at = "len"
    /\ IF series[picked].ring = << >>
       THEN at' = "pick" /\ NextPair
       ELSE at' = "value" /\ UNCHANGED << rule, svcAt >>
    /\ UNCHANGED << listed, picked, seen, stale, firing, outgoing, notified, streak,
                    storeVars, tuiVars, clockVars >>

-----------------------------------------------------------------------------
(* onBreach under the lock. *)

Message(kind, k, i, back) == << kind, k, Rules[i].notify \cap Notifiers, back >>

(* A mutated form: an entry's age is not looked at. *)
BreachAtOnce(i, k, value) ==
    LET old == firing[k]
        entry == IF old.held THEN old
                 ELSE [NoEntry EXCEPT !.held = TRUE, !.rule = i]
        fires == ~ entry.fired
    IN /\ firing' = [firing EXCEPT ![k] =
                       IF fires THEN [entry EXCEPT !.fired = TRUE, !.rule = i, !.value = value]
                                ELSE entry]
       /\ outgoing' = IF fires THEN Message("fired", k, i, "pick") ELSE << >>
       /\ at' = IF fires THEN "send" ELSE "pick"

Breach(i, k, value) ==
    LET old == firing[k]
        entry == IF old.held THEN old
                 ELSE [NoEntry EXCEPT !.held = TRUE, !.rule = i]
        fires == ~ entry.fired /\ entry.age >= Rules[i].for
    IN /\ firing' = [firing EXCEPT ![k] =
                       IF fires THEN [entry EXCEPT !.fired = TRUE, !.rule = i, !.value = value]
                                ELSE entry]
       /\ outgoing' = IF fires THEN Message("fired", k, i, "pick") ELSE << >>
       /\ at' = IF fires THEN "send" ELSE "pick"

(* A mutated form: a resolved alert is not announced. *)
ClearSilently(k, back) ==
    /\ firing' = [firing EXCEPT ![k] = NoEntry]
    /\ outgoing' = << >>
    /\ at' = back

(* onClear under the lock; `back` is where the caller continues when there *)
(* is nothing to announce.                                                 *)
Clear(k, back) ==
    /\ firing' = [firing EXCEPT ![k] = NoEntry]
    /\ outgoing' = IF firing[k].fired THEN Message("resolved", k, firing[k].rule, back)
                                      ELSE << >>
    /\ at' = IF firing[k].fired THEN "send" ELSE back

(* The rest of a pair: the value is read and compared, and the entry       *)
(* follows.                                                                *)
Evaluate ==
    /\ at = "value"
    /\ LET k == Key(rule, Here)
           value == ComputeValue(picked, Rules[rule].pct)
           run == streak[<< rule, Here >>]
       IN IF Breaches(rule, value)
          THEN /\ Breach(rule, k, value)
               /\ seen' = seen \cup {k}
               /\ streak' = [streak EXCEPT ![<< rule, Here >>] = IF run < 0 THEN 0 ELSE run]
          ELSE /\ Clear(k, "pick")
               /\ streak' = [streak EXCEPT ![<< rule, Here >>] = -1]
               /\ UNCHANGED seen
    /\ NextPair
    /\ UNCHANGED << listed, picked, stale, notified, storeVars, tuiVars, clockVars >>

(* A mutated form: every fired alert is taken for stale. *)
ScanStaleAll ==
    /\ at = "pick"
    /\ AllVisited
    /\ stale' = {k \in Keys : firing[k].fired}
    /\ at' = "stale"
    /\ UNCHANGED << listed, rule, svcAt, picked, seen, firing, outgoing, notified, streak,
                    storeVars, tuiVars, clockVars >>

(* After the pairs: the fired entries no pair has seen in breach. *)
ScanStale ==
    /\ at = "pick"
    /\ AllVisited
    /\ stale' = {k \in Keys : firing[k].fired /\ k \notin seen}
    /\ at' = "stale"
    /\ UNCHANGED << listed, rule, svcAt, picked, seen, firing, outgoing, notified, streak,
                    storeVars, tuiVars, clockVars >>

ResolveStale ==
    /\ at = "stale"
    /\ \E k \in stale : Clear(k, "stale") /\ stale' = stale \ {k}
    /\ UNCHANGED << listed, rule, svcAt, picked, seen, notified, streak, storeVars, tuiVars, clockVars >>

End ==
    /\ at = "stale"
    /\ stale = {}
    /\ at' = "idle"
    /\ UNCHANGED << listed, rule, svcAt, picked, seen, stale, firing, outgoing, notified, streak,
                    storeVars, tuiVars, clockVars >>

(* bus.Dispatch hands a message to the program, waiting until its loop     *)
(* takes it, or does nothing without a program.                            *)
Dispatch(message) ==
    IF HasProgram
    THEN tuiHand = << >> /\ tuiHand' = message
    ELSE UNCHANGED tuiHand

(* A mutated form: notifiers hear of alerts that fire only. *)
SendFiredOnly ==
    /\ at = "send"
    /\ Dispatch(<< outgoing[1], outgoing[2] >>)
    /\ notified' = [x \in Notifiers \X Keys |->
                      IF outgoing[1] = "fired" /\ x[1] \in outgoing[3] /\ x[2] = outgoing[2]
                      THEN outgoing[1] ELSE notified[x]]
    /\ outgoing' = << >>
    /\ at' = outgoing[4]
    /\ UNCHANGED << listed, rule, svcAt, picked, seen, stale, firing, streak, alerts,
                    storeVars, clockVars >>

(* dispatch gives the message to the bus; fanoutNotify then starts a       *)
(* goroutine for each of the rule's notifiers that is configured.          *)
Send ==
    /\ at = "send"
    /\ Dispatch(<< outgoing[1], outgoing[2] >>)
    /\ notified' = [x \in Notifiers \X Keys |->
                      IF x[1] \in outgoing[3] /\ x[2] = outgoing[2]
                      THEN outgoing[1] ELSE notified[x]]
    /\ outgoing' = << >>
    /\ at' = outgoing[4]
    /\ UNCHANGED << listed, rule, svcAt, picked, seen, stale, firing, streak, alerts,
                    storeVars, clockVars >>

EngineStep ==
    \/ Begin \/ PickNone \/ Pick \/ CheckLen \/ Evaluate
    \/ Send \/ ScanStale \/ ResolveStale \/ End

-----------------------------------------------------------------------------
(* AppModel.Update on a FiredMsg or a ResolvedMsg. *)
Applied(message, shown) ==
    IF message = << >> THEN shown
    ELSE IF message[1] = "fired" THEN shown \cup {message[2]}
    ELSE shown \ {message[2]}

TuiUpdate ==
    /\ tuiHand # << >>
    /\ alerts' = Applied(tuiHand, alerts)
    /\ tuiHand' = << >>
    /\ UNCHANGED << engineVars, storeVars, clockVars >>

Next == Pump \/ Tick \/ EngineStep \/ TuiUpdate

Spec == Init /\ [][Next]_vars

(* Each goroutine is scheduled and the ticker keeps ticking.  The pump     *)
(* finishes a push it has begun; no sample ever has to arrive.             *)
FairSpec ==
    /\ Spec
    /\ WF_vars(Tick)
    /\ WF_vars(EngineStep)
    /\ WF_vars(TuiUpdate)
    /\ WF_vars(Push)

-----------------------------------------------------------------------------
Entries ==
    [held : BOOLEAN, fired : BOOLEAN, age : 0 .. MaxAge, rule : {0} \cup RuleIds,
     value : Values]

Messages == {"fired", "resolved"} \X Keys
Dispatches == {"fired", "resolved"} \X Keys \X (SUBSET Notifiers) \X {"pick", "stale"}

TypeOK ==
    /\ known \subseteq ServiceSet
    /\ series \in [SeriesIds -> [present : BOOLEAN, ring : Seq(Values),
                                 last : Values, set : BOOLEAN]]
    /\ \A id \in SeriesIds : Len(series[id].ring) <= SeriesCap
    /\ pushing \in {<< >>} \cup ({"ring", "last"} \X SeriesIds \X Values)
    /\ ticked \in BOOLEAN
    /\ elapsed \in 0 .. MaxAge
    /\ at \in {"idle", "pick", "len", "value", "send", "stale"}
    /\ listed \subseteq ServiceSet
    /\ rule \in 1 .. Len(Rules) + 1
    /\ svcAt \in 1 .. Len(Services)
    /\ picked \in {<< >>} \cup SeriesIds
    /\ seen \subseteq Keys
    /\ stale \subseteq Keys
    /\ firing \in [Keys -> Entries]
    /\ outgoing \in {<< >>} \cup Dispatches
    /\ tuiHand \in {<< >>} \cup Messages
    /\ alerts \subseteq Keys
    /\ notified \in [Notifiers \X Keys -> {"none", "fired", "resolved"}]
    /\ streak \in [RuleIds \X ServiceSet -> -1 .. MaxAge]

(* The keys of Active(). *)
ActiveKeys == {k \in Keys : firing[k].fired}

(* The list the status bar counts is the engine's list of active alerts,   *)
(* as soon as the messages on their way have been applied: no alert is     *)
(* shown for ever, none is forgotten.                                      *)
TuiFollowsEngine == Applied(outgoing, Applied(tuiHand, alerts)) = ActiveKeys

(* A notifier of a rule has last been told of exactly the alerts that are  *)
(* active, apart from the one being announced.                             *)
NotifiersFollowEngine ==
    \A k \in Keys : outgoing = << >> \/ outgoing[2] # k =>
        \A n \in Notifiers :
            notified[<< n, k >>] = "fired" <=>
                firing[k].fired /\ n \in Rules[firing[k].rule].notify

(* "Fires only after For duration of continuous breach": when an alert     *)
(* fires, its rule was in breach at every evaluation for that long.        *)
FiresOnlyAfterFor ==
    [][\A k \in Keys : ~ firing[k].fired /\ firing'[k].fired =>
          LET i == firing'[k].rule IN streak'[<< i, k[2] >>] >= Rules[i].for]_vars

MetricSeries(i, svc) == {id \in SeriesIds : id[1] = svc /\ id[2] = Rules[i].metric}

InBreach(i, id) == series[id].set /\ Breaches(i, ComputeValue(id, Rules[i].pct))
IsClear(i, id) == series[id].ring # << >> /\ ~ Breaches(i, ComputeValue(id, Rules[i].pct))

PresentSeries(i, svc) == {id \in MetricSeries(i, svc) : series[id].present}

(* "Auto-resolves when the condition clears": an alert is resolved only    *)
(* while some series of its rule's metric is not in breach, or, passed     *)
(* over because of a series that was still empty, while there are several. *)
ResolvesOnlyWhenClear ==
    [][\A k \in Keys : firing[k].fired /\ ~ firing'[k].fired =>
          LET i == firing[k].rule
          IN \/ \E id \in MetricSeries(i, k[2]) : IsClear(i, id)
             \/ at = "stale" /\ Cardinality(PresentSeries(i, k[2])) > 1]_vars

BreachIsShown ==
    \A i \in RuleIds, svc \in ServiceSet :
        <>[](/\ PresentSeries(i, svc) # {}
             /\ \A id \in PresentSeries(i, svc) : InBreach(i, id))
            => <>[](Key(i, svc) \in alerts)

ClearIsHidden ==
    \A i \in RuleIds, svc \in ServiceSet :
        <>[](\A id \in MetricSeries(i, svc) : ~ InBreach(i, id))
            => <>[](Key(i, svc) \notin alerts)

(* A condition that stays in breach ends up on the status bar, and one     *)
(* that stays clear off it, however the evaluations fall and whichever of  *)
(* a metric's series they look at.                                         *)
AlertsSettle == BreachIsShown /\ ClearIsHidden
=============================================================================
