----------------------------- MODULE AlertProofs ----------------------------
(***************************************************************************)
(* Proofs about alert.Engine, for all rules, services, labels and samples: *)
(* the types, that the TUI's list and the notifiers follow the engine, and *)
(* that a rule of its own name fires only after it held for its time and   *)
(* is resolved only with a clear series or beside an empty one.            *)
(***************************************************************************)
EXTENDS AlertEngine, Notifiers, FiniteSetTheorems, WellFoundedInduction, TLAPS

(* The subsets of 1 .. n have at most n elements, and a part is smaller.   *)
LEMMA CountBelow ==
  ASSUME NEW n \in Nat, NEW S \in SUBSET (1 .. n)
  PROVE  /\ IsFiniteSet(S)
         /\ Cardinality(S) \in 0 .. n
         /\ \A T \in SUBSET S : Cardinality(T) = Cardinality(S) => T = S
         /\ \A T \in SUBSET S : Cardinality(T) =< Cardinality(S)
<1>1. IsFiniteSet(1 .. n) /\ Cardinality(1 .. n) = n
  BY FS_Interval
<1>2. IsFiniteSet(S) /\ Cardinality(S) =< n
  BY <1>1, FS_Subset
<1>3. Cardinality(S) \in Nat
  BY <1>2, FS_CardinalityType
<1>4. ASSUME NEW T \in SUBSET S
      PROVE  Cardinality(T) =< Cardinality(S) /\ (Cardinality(T) = Cardinality(S) => T = S)
  BY <1>2, FS_Subset
<1> QED
  BY <1>2, <1>3, <1>4

(* Of finitely many integers one is the least. *)
LEMMA LeastEntry ==
  ASSUME NEW n \in Nat, NEW f \in [1 .. n -> Int], NEW S \in SUBSET (1 .. n), S # {}
  PROVE  \E i \in S : \A j \in S : f[i] =< f[j]
<1> DEFINE below(i) == {j \in 1 .. n : f[j] < f[i]}
           lower == {below(i) : i \in S}
<1>1. lower \subseteq FiniteSubsetsOf(1 .. n) /\ lower # {}
  <2>1. \A i \in S : below(i) \in SUBSET (1 .. n)
    OBVIOUS
  <2>2. \A T \in SUBSET (1 .. n) : T \in FiniteSubsetsOf(1 .. n)
    BY CountBelow DEF FiniteSubsetsOf
  <2>3. lower # {}
    OBVIOUS
  <2> HIDE DEF below
  <2> QED
    BY <2>1, <2>2, <2>3
<1>2. PICK c \in lower : \A d \in lower : ~ (<< d, c >> \in StrictSubsetOrdering(1 .. n))
  <2> HIDE DEF lower
  <2> QED
    BY <1>1, WFMin, FS_StrictSubsetOrderingWellFounded
<1>3. PICK i \in S : c = below(i)
  OBVIOUS
<1>4. ASSUME NEW j \in S, f[j] < f[i] PROVE FALSE
  <2>1. below(j) \subseteq below(i) /\ j \in below(i) /\ j \notin below(j)
    BY <1>4
  <2>2. below(j) \in lower /\ below(i) \in SUBSET (1 .. n)
    OBVIOUS
  <2> HIDE DEF below, lower
  <2> QED
    BY <1>2, <1>3, <2>1, <2>2 DEF StrictSubsetOrdering
<1> HIDE DEF below, lower
<1>5. ASSUME NEW j \in S PROVE f[i] =< f[j]
  <2>1. f[i] \in Int /\ f[j] \in Int
    OBVIOUS
  <2> QED
    BY <1>4, <2>1
<1> QED
  BY <1>5

(* The percentile of samples is one of the samples. *)
LEMMA PercentileIsASample ==
  ASSUME NEW S \in SUBSET Int, NEW values \in Seq(S), values # << >>, NEW p \in 0 .. 100
  PROVE  Percentile(values, p) \in Range(values)
<1> DEFINE n == Len(values)
           high == {i \in 1 .. n : Rank(p, n) =< Cardinality(UpTo(values, values[i]))}
           found == {v \in Range(values) : Rank(p, n) =< Cardinality(UpTo(values, v))}
<1>1. n \in Nat \ {0} /\ values \in [1 .. n -> Int] /\ DOMAIN values = 1 .. n
  <2>1. n \in Nat \ {0} /\ values \in [1 .. n -> S]
    OBVIOUS
  <2> HIDE DEF n
  <2> QED
    BY <2>1
<1>2. Rank(p, n) =< n
  BY <1>1 DEF Rank
<1>3. PICK top \in 1 .. n : \A i \in 1 .. n : values[i] =< values[top]
  <2> DEFINE minus == [i \in 1 .. n |-> - values[i]]
  <2>1. minus \in [1 .. n -> Int] /\ 1 \in 1 .. n /\ 1 .. n \in SUBSET (1 .. n)
    <3> HIDE DEF n
    <3> QED
      BY <1>1
  <2>2. \E i \in 1 .. n : \A j \in 1 .. n : minus[i] =< minus[j]
    <3> HIDE DEF minus, n
    <3> QED
      BY <1>1, <2>1, LeastEntry
  <2>3. \A i \in 1 .. n : values[i] \in Int /\ minus[i] = - values[i]
    BY <1>1
  <2>4. PICK top \in 1 .. n : \A j \in 1 .. n : minus[top] =< minus[j]
    BY <2>2
  <2>5. ASSUME NEW i \in 1 .. n PROVE values[i] =< values[top]
    <3>1. minus[top] =< minus[i]
      BY <2>4
    <3> HIDE DEF minus, n
    <3> QED
      BY <2>3, <3>1
  <2> QED
    BY <2>5
<1>4. high # {}
  <2>1. UpTo(values, values[top]) = 1 .. n
    BY <1>1, <1>3 DEF UpTo
  <2>2. Cardinality(1 .. n) = n
    <3> HIDE DEF n
    <3> QED
      BY <1>1, FS_Interval
  <2> QED
    BY <1>2, <2>1, <2>2
<1>5. PICK i \in high : \A j \in high : values[i] =< values[j]
  <2>1. high \in SUBSET (1 .. n)
    OBVIOUS
  <2> HIDE DEF high, n
  <2> QED
    BY <1>1, <1>4, <2>1, LeastEntry
<1>6. values[i] \in found /\ \A v \in found : values[i] =< v
  BY <1>1, <1>5 DEF Range
<1>7. Min(found) \in found
  <2> HIDE DEF found
  <2> QED
    BY <1>6 DEF Min
<1> QED
  BY <1>7 DEF Percentile

-----------------------------------------------------------------------------
(* Type correctness.  Evaluate computes a value only of a series that is   *)
(* there and not empty, and a message is in hand exactly while it is being *)
(* dispatched.                                                             *)
EngineShape ==
    /\ at \in {"len", "value"} => picked \in SeriesIds /\ ~ AllVisited
    /\ at = "value" => series[picked].ring # << >>
    /\ at = "send" <=> outgoing # << >>
    /\ at = "pick" \/ at = "stale" => outgoing = << >>
    /\ \A k \in Keys : firing[k].fired => firing[k].held

EngineTyped == TypeOK /\ EngineShape

(* The key of a rule and a service is a key. *)
LEMMA KeyTyped ==
  ASSUME NEW i \in RuleIds, NEW svc \in ServiceSet
  PROVE  Key(i, svc) \in Keys
  BY DEF Key, Keys

(* The service the loops are at is a service. *)
LEMMA HereTyped == TypeOK => Here \in ServiceSet
  BY AlertAssumption DEF TypeOK, Here, ServiceSet, Range

(* The rule the loops are at is a rule until all are visited. *)
LEMMA RuleTyped == TypeOK /\ ~ AllVisited => rule \in RuleIds
  BY AlertAssumption DEF TypeOK, AllVisited, RuleIds

(* The loops stay in range. *)
LEMMA NextPairTyped ==
  ASSUME TypeOK, ~ AllVisited, NextPair
  PROVE  rule' \in 1 .. Len(Rules) + 1 /\ svcAt' \in 1 .. Len(Services)
<1>1. Len(Rules) \in Nat /\ Len(Services) \in Nat \ {0}
  BY AlertAssumption
<1> QED
  BY <1>1 DEF TypeOK, AllVisited, NextPair

(* A push keeps a ring of samples within its capacity. *)
LEMMA SlideTyped ==
  ASSUME NEW id, NEW w \in Seq(Values), Len(w) =< SeriesCap, NEW v \in Values
  PROVE  /\ SampleRing(id)!Slide(w, v) \in Seq(Values)
         /\ Len(SampleRing(id)!Slide(w, v)) =< SeriesCap
         /\ SampleRing(id)!Slide(w, v) # << >>
<1>1. SeriesCap \in Nat \ {0}
  BY AlertAssumption
<1>2. CASE Len(w) < SeriesCap
  BY <1>1, <1>2 DEF SampleRing!Slide
<1>3. CASE ~ (Len(w) < SeriesCap)
  <2>1. w # << >> /\ Tail(w) \in Seq(Values) /\ Len(Tail(w)) = Len(w) - 1
    BY <1>1, <1>3
  <2> QED
    BY <1>1, <1>3, <2>1 DEF SampleRing!Slide
<1> QED
  BY <1>2, <1>3

(* computeValue returns a sample value. *)
LEMMA ValueTyped ==
  ASSUME TypeOK, NEW id \in SeriesIds, series[id].ring # << >>, NEW i \in RuleIds
  PROVE  ComputeValue(id, Rules[i].pct) \in Values
<1>1. series[id].last \in Values /\ series[id].ring \in Seq(Values)
  BY DEF TypeOK
<1>2. Values \subseteq Int
  BY AlertAssumption
<1>3. Rules[i].pct \in 0 .. 100
  BY AlertAssumption DEF RuleIds, ValidRule
<1>4. Range(series[id].ring) \subseteq Values
  BY <1>1 DEF Range
<1> QED
  BY <1>1, <1>2, <1>3, <1>4, PercentileIsASample DEF ComputeValue

(* The assumptions the types rest on. *)
LEMMA BoundsTyped ==
    /\ Len(Rules) \in Nat /\ RuleIds = 1 .. Len(Rules)
    /\ Len(Services) \in Nat \ {0}
    /\ MaxAge \in Nat /\ 0 \in Values /\ 0 \in 0 .. MaxAge /\ -1 \in -1 .. MaxAge
    /\ HasProgram \in BOOLEAN
  BY AlertAssumption DEF RuleIds

(* Ages stay in their range as time passes. *)
LEMMA AgeTyped ==
  ASSUME TypeOK, NEW age \in -1 .. MaxAge
  PROVE  Older(age) \in -1 .. MaxAge /\ (age >= 0 => Older(age) \in 0 .. MaxAge)
  BY BoundsTyped DEF TypeOK, Older, AtMostMaxAge

(* The absent entry is an entry. *)
LEMMA NoEntryTyped == NoEntry \in Entries
  BY BoundsTyped DEF NoEntry, Entries

(* What onBreach and onClear leave: the entries keep their type, and a     *)
(* message is in hand exactly when the evaluation goes on to send it.      *)
LEMMA BreachTyped ==
  ASSUME EngineTyped, NEW i \in RuleIds, NEW k \in Keys, NEW value \in Values,
         Breach(i, k, value)
  PROVE  /\ firing' \in [Keys -> Entries]
         /\ outgoing' \in {<< >>} \cup Dispatches
         /\ at' \in {"send", "pick"}
         /\ at' = "send" <=> outgoing' # << >>
         /\ \A l \in Keys : firing'[l].fired => firing'[l].held
<1> DEFINE entry == IF firing[k].held THEN firing[k]
                    ELSE [NoEntry EXCEPT !.held = TRUE, !.rule = i]
           marked == [entry EXCEPT !.fired = TRUE, !.rule = i, !.value = value]
           fires == ~ entry.fired /\ entry.age >= Rules[i].for
<1>1. firing \in [Keys -> Entries] /\ NoEntry \in Entries
  BY NoEntryTyped DEF EngineTyped, TypeOK
<1>2. entry \in Entries /\ entry.held
  BY <1>1 DEF Entries, NoEntry
<1>3. marked \in Entries /\ marked.held /\ marked.fired
  BY <1>2 DEF Entries
<1>4. firing' = [firing EXCEPT ![k] = IF fires THEN marked ELSE entry]
  BY DEF Breach
<1>5. outgoing' = (IF fires THEN Message("fired", k, i, "pick") ELSE << >>)
      /\ at' = IF fires THEN "send" ELSE "pick"
  BY DEF Breach
<1>6. Message("fired", k, i, "pick") \in Dispatches /\ Message("fired", k, i, "pick") # << >>
  BY DEF Message, Dispatches
<1> HIDE DEF entry, marked, fires
<1>7. \A l \in Keys : firing'[l] = IF l = k THEN (IF fires THEN marked ELSE entry)
                                            ELSE firing[l]
  BY <1>1, <1>4
<1> QED
  BY <1>1, <1>2, <1>3, <1>4, <1>5, <1>6, <1>7 DEF EngineTyped, EngineShape

(* What onClear leaves keeps its type. *)
LEMMA ClearTyped ==
  ASSUME EngineTyped, NEW k \in Keys, NEW back \in {"pick", "stale"}, Clear(k, back)
  PROVE  /\ firing' \in [Keys -> Entries]
         /\ outgoing' \in {<< >>} \cup Dispatches
         /\ at' \in {"send", back}
         /\ at' = "send" <=> outgoing' # << >>
         /\ \A l \in Keys : firing'[l].fired => firing'[l].held
<1> DEFINE message == Message("resolved", k, firing[k].rule, back)
<1>1. firing \in [Keys -> Entries] /\ NoEntry \in Entries /\ ~ NoEntry.fired
  BY NoEntryTyped DEF EngineTyped, TypeOK, NoEntry
<1>2. message \in Dispatches /\ message # << >>
  BY DEF Message, Dispatches
<1>3. /\ firing' = [firing EXCEPT ![k] = NoEntry]
      /\ outgoing' = IF firing[k].fired THEN message ELSE << >>
      /\ at' = IF firing[k].fired THEN "send" ELSE back
  BY DEF Clear
<1> HIDE DEF message
<1> QED
  BY <1>1, <1>2, <1>3 DEF EngineTyped, EngineShape

(* The types hold initially. *)
LEMMA EngineTypedInit == Init => EngineTyped
<1> SUFFICES ASSUME Init PROVE EngineTyped
  OBVIOUS
<1>1. series \in [SeriesIds -> [present : BOOLEAN, ring : Seq(Values), last : Values, set : BOOLEAN]]
      /\ \A id \in SeriesIds : Len(series[id].ring) <= SeriesCap
  BY AlertAssumption DEF Init
<1>2. rule \in 1 .. Len(Rules) + 1 /\ svcAt \in 1 .. Len(Services)
  BY BoundsTyped DEF Init
<1>3. firing \in [Keys -> Entries] /\ \A k \in Keys : ~ firing[k].fired
  BY NoEntryTyped DEF Init, NoEntry
<1>4. notified \in [Notifiers \X Keys -> {"none", "fired", "resolved"}]
      /\ streak \in [RuleIds \X ServiceSet -> -1 .. MaxAge]
  BY BoundsTyped DEF Init
<1>5. TypeOK
  BY <1>1, <1>2, <1>3, <1>4, BoundsTyped DEF Init, TypeOK
<1>6. EngineShape
  BY <1>3 DEF Init, EngineShape
<1> QED
  BY <1>5, <1>6 DEF EngineTyped

(* The steps of the pump, the ticker and the TUI leave the engine's state  *)
(* alone; a ring only ever gains samples.                                  *)
LEMMA PushMetricTyped ==
  ASSUME EngineTyped, NEW id \in SeriesIds, NEW v \in Values, PushMetric(id, v)
  PROVE  EngineTyped'
<1>1. pushing' \in {<< >>} \cup ({"ring", "last"} \X SeriesIds \X Values)
  BY DEF PushMetric
<1>2. series' = [series EXCEPT ![id].present = TRUE]
  BY DEF PushMetric
<1>3. /\ series' \in [SeriesIds -> [present : BOOLEAN, ring : Seq(Values),
                                    last : Values, set : BOOLEAN]]
      /\ \A x \in SeriesIds : series'[x].ring = series[x].ring
  <2>1. series \in [SeriesIds -> [present : BOOLEAN, ring : Seq(Values),
                                  last : Values, set : BOOLEAN]]
    BY DEF EngineTyped, TypeOK
  <2> QED
    BY <1>2, <2>1
<1>4. UNCHANGED << known, engineVars, tuiVars, clockVars >>
  BY DEF PushMetric
<1>5. TypeOK'
  BY <1>1, <1>3, <1>4 DEF EngineTyped, TypeOK, engineVars, tuiVars, clockVars
<1>6. EngineShape'
  BY <1>3, <1>4 DEF EngineTyped, EngineShape, AllVisited, engineVars
<1> QED
  BY <1>5, <1>6 DEF EngineTyped

(* Series.Push keeps the types. *)
LEMMA PushTyped == EngineTyped /\ Push => EngineTyped'
<1> SUFFICES ASSUME EngineTyped, Push PROVE EngineTyped'
  OBVIOUS
<1> DEFINE id == pushing[2]
           v == pushing[3]
           Samples == [present : BOOLEAN, ring : Seq(Values), last : Values, set : BOOLEAN]
<1>1. pushing # << >> /\ UNCHANGED << known, engineVars, tuiVars, clockVars >>
  BY DEF Push, PushRing, PushLast
<1>2. id \in SeriesIds /\ v \in Values
  BY <1>1 DEF EngineTyped, TypeOK
<1>3. series \in [SeriesIds -> Samples] /\ \A x \in SeriesIds : Len(series[x].ring) <= SeriesCap
  BY DEF EngineTyped, TypeOK
<1>4. /\ series' \in [SeriesIds -> Samples]
      /\ pushing' \in {<< >>} \cup ({"ring", "last"} \X SeriesIds \X Values)
      /\ \A x \in SeriesIds : /\ Len(series'[x].ring) <= SeriesCap
                              /\ series[x].ring # << >> => series'[x].ring # << >>
  <2>1. CASE PushRing
    <3> DEFINE new == SampleRing(id)!Slide(series[id].ring, v)
    <3>1. new \in Seq(Values) /\ Len(new) =< SeriesCap /\ new # << >>
      BY <1>2, <1>3, SlideTyped
    <3>2. series' = [series EXCEPT ![id].ring = new]
      BY <2>1 DEF PushRing
    <3>3. pushing' \in {<< >>} \cup ({"ring", "last"} \X SeriesIds \X Values)
      BY <1>1, <2>1 DEF PushRing, EngineTyped, TypeOK
    <3> HIDE DEF new, id, v
    <3> QED
      BY <1>2, <1>3, <3>1, <3>2, <3>3
  <2>2. CASE PushLast
    <3>1. series' = [series EXCEPT ![id].last = v, ![id].set = TRUE]
      BY <2>2 DEF PushLast
    <3>2. pushing' = << >>
      BY <2>2 DEF PushLast
    <3> HIDE DEF id, v
    <3> QED
      BY <1>2, <1>3, <3>1, <3>2
  <2> QED
    BY <2>1, <2>2 DEF Push
<1>5. TypeOK'
  BY <1>1, <1>4 DEF EngineTyped, TypeOK, engineVars, tuiVars, clockVars
<1>6. EngineShape'
  BY <1>1, <1>4 DEF EngineTyped, EngineShape, AllVisited, engineVars
<1> QED
  BY <1>5, <1>6 DEF EngineTyped

(* The pump touches the store only. *)
LEMMA PumpLeaves == Pump => UNCHANGED << engineVars, tuiVars, clockVars >>
  BY DEF Pump, ServiceFor, PushMetric, Push, PushRing, PushLast

(* The pump keeps the types. *)
LEMMA PumpTyped == EngineTyped /\ Pump => EngineTyped'
<1> SUFFICES ASSUME EngineTyped, NEW svc \in ServiceSet, ServiceFor(svc) PROVE EngineTyped'
  BY PushMetricTyped, PushTyped DEF Pump
<1>1. TypeOK'
  BY DEF ServiceFor, EngineTyped, TypeOK, engineVars, tuiVars, clockVars
<1>2. EngineShape'
  BY DEF ServiceFor, EngineTyped, EngineShape, AllVisited, engineVars
<1> QED
  BY <1>1, <1>2 DEF EngineTyped

(* The ticker keeps the types. *)
LEMMA TickTyped == EngineTyped /\ Tick => EngineTyped'
<1> SUFFICES ASSUME EngineTyped, Tick PROVE EngineTyped'
  OBVIOUS
<1>1. elapsed' \in 0 .. MaxAge /\ ticked' \in BOOLEAN
  BY BoundsTyped DEF Tick, EngineTyped, TypeOK, AtMostMaxAge
<1>2. TypeOK'
  BY <1>1 DEF EngineTyped, TypeOK, Tick, engineVars, storeVars, tuiVars
<1>3. EngineShape'
  BY DEF EngineTyped, EngineShape, AllVisited, Tick, engineVars, storeVars
<1> QED
  BY <1>2, <1>3 DEF EngineTyped

(* The TUI keeps the types. *)
LEMMA TuiUpdateTyped == EngineTyped /\ TuiUpdate => EngineTyped'
<1> SUFFICES ASSUME EngineTyped, TuiUpdate PROVE EngineTyped'
  OBVIOUS
<1>1. alerts' \subseteq Keys /\ tuiHand' = << >>
  BY DEF TuiUpdate, EngineTyped, TypeOK, Applied, Messages
<1>2. TypeOK'
  BY <1>1 DEF EngineTyped, TypeOK, TuiUpdate, engineVars, storeVars, clockVars
<1>3. EngineShape'
  BY DEF EngineTyped, EngineShape, AllVisited, TuiUpdate, engineVars, storeVars
<1> QED
  BY <1>2, <1>3 DEF EngineTyped

(* The steps of the engine's goroutine. *)
LEMMA BeginTyped == EngineTyped /\ Begin => EngineTyped'
<1> SUFFICES ASSUME EngineTyped, Begin PROVE EngineTyped'
  OBVIOUS
<1>1. \A k \in Keys : /\ firing[k] \in Entries
                      /\ [firing[k] EXCEPT !.age = Older(@)] \in Entries
                      /\ [firing[k] EXCEPT !.age = Older(@)].fired = firing[k].fired
                      /\ [firing[k] EXCEPT !.age = Older(@)].held = firing[k].held
  <2> TAKE k \in Keys
  <2>1. firing[k] \in Entries
    BY DEF EngineTyped, TypeOK
  <2>2. firing[k].age \in 0 .. MaxAge
    BY <2>1 DEF Entries
  <2>3. firing[k].age \in -1 .. MaxAge /\ firing[k].age >= 0
    BY <2>2, BoundsTyped
  <2>4. Older(firing[k].age) \in 0 .. MaxAge
    BY <2>3, AgeTyped DEF EngineTyped
  <2> QED
    BY <2>1, <2>4 DEF Entries
<1>2. /\ firing' \in [Keys -> Entries]
      /\ \A k \in Keys : firing'[k].fired => firing'[k].held
  BY <1>1 DEF Begin, EngineTyped, EngineShape
<1>3. streak' \in [RuleIds \X ServiceSet -> -1 .. MaxAge]
  <2>1. \A x \in RuleIds \X ServiceSet : Older(streak[x]) \in -1 .. MaxAge
    BY AgeTyped DEF EngineTyped, TypeOK
  <2> QED
    BY <2>1 DEF Begin
<1>4. rule' \in 1 .. Len(Rules) + 1 /\ svcAt' \in 1 .. Len(Services) /\ elapsed' \in 0 .. MaxAge
  BY BoundsTyped DEF Begin
<1>5. TypeOK'
  BY <1>2, <1>3, <1>4 DEF EngineTyped, TypeOK, Begin, storeVars, tuiVars
<1>6. EngineShape'
  BY <1>2 DEF EngineTyped, EngineShape, Begin
<1> QED
  BY <1>5, <1>6 DEF EngineTyped

(* findSeries and the length check keep the types. *)
LEMMA LookTyped == EngineTyped /\ (PickNone \/ Pick \/ CheckLen) => EngineTyped'
<1>1. ASSUME EngineTyped, PickNone PROVE EngineTyped'
  <2>1. rule' \in 1 .. Len(Rules) + 1 /\ svcAt' \in 1 .. Len(Services)
    BY <1>1, NextPairTyped DEF PickNone, EngineTyped
  <2>2. TypeOK'
    BY <1>1, <2>1 DEF EngineTyped, TypeOK, PickNone, storeVars, tuiVars, clockVars
  <2>3. EngineShape'
    BY <1>1 DEF EngineTyped, EngineShape, PickNone
  <2> QED
    BY <2>2, <2>3 DEF EngineTyped
<1>2. ASSUME EngineTyped, Pick PROVE EngineTyped'
  <2>1. picked' \in SeriesIds
    BY <1>2 DEF Pick, Candidates
  <2>2. TypeOK'
    BY <1>2, <2>1 DEF EngineTyped, TypeOK, Pick, storeVars, tuiVars, clockVars
  <2>3. EngineShape'
    BY <1>2, <2>1 DEF EngineTyped, EngineShape, Pick, AllVisited, storeVars
  <2> QED
    BY <2>2, <2>3 DEF EngineTyped
<1>3. ASSUME EngineTyped, CheckLen PROVE EngineTyped'
  <2>1. rule' \in 1 .. Len(Rules) + 1 /\ svcAt' \in 1 .. Len(Services)
    BY <1>3, NextPairTyped DEF CheckLen, EngineTyped, EngineShape, TypeOK
  <2>2. TypeOK'
    BY <1>3, <2>1 DEF EngineTyped, TypeOK, CheckLen, storeVars, tuiVars, clockVars
  <2>3. EngineShape'
    BY <1>3 DEF EngineTyped, EngineShape, CheckLen, AllVisited, storeVars
  <2> QED
    BY <2>2, <2>3 DEF EngineTyped
<1> QED
  BY <1>1, <1>2, <1>3

(* Reading, comparing and updating the entry keep the types. *)
LEMMA EvaluateTyped == EngineTyped /\ Evaluate => EngineTyped'
<1> SUFFICES ASSUME EngineTyped, Evaluate PROVE EngineTyped'
  OBVIOUS
<1> DEFINE k == Key(rule, Here)
           value == ComputeValue(picked, Rules[rule].pct)
<1>1. rule \in RuleIds /\ Here \in ServiceSet /\ k \in Keys /\ ~ AllVisited
  BY RuleTyped, HereTyped, KeyTyped DEF EngineTyped, EngineShape, Evaluate
<1>2. value \in Values
  BY <1>1, ValueTyped DEF EngineTyped, EngineShape, Evaluate
<1>3. Breach(rule, k, value) \/ Clear(k, "pick")
  BY DEF Evaluate
<1>4. /\ firing' \in [Keys -> Entries]
      /\ outgoing' \in {<< >>} \cup Dispatches
      /\ at' \in {"send", "pick"}
      /\ at' = "send" <=> outgoing' # << >>
      /\ \A l \in Keys : firing'[l].fired => firing'[l].held
  <2> HIDE DEF k, value
  <2> QED
    BY <1>1, <1>2, <1>3, BreachTyped, ClearTyped
<1>5. rule' \in 1 .. Len(Rules) + 1 /\ svcAt' \in 1 .. Len(Services)
  BY <1>1, NextPairTyped DEF Evaluate, EngineTyped
<1>6. streak' \in [RuleIds \X ServiceSet -> -1 .. MaxAge]
  <2>1. streak \in [RuleIds \X ServiceSet -> -1 .. MaxAge]
    BY DEF EngineTyped, TypeOK
  <2> DEFINE run == streak[<< rule, Here >>]
  <2>2. run \in -1 .. MaxAge
    BY <1>1, <2>1
  <2>3. (IF run < 0 THEN 0 ELSE run) \in -1 .. MaxAge
    <3> HIDE DEF run
    <3> QED
      BY <2>2, BoundsTyped
  <2>4. \/ streak' = [streak EXCEPT ![<< rule, Here >>] = IF run < 0 THEN 0 ELSE run]
        \/ streak' = [streak EXCEPT ![<< rule, Here >>] = -1]
    BY DEF Evaluate
  <2> HIDE DEF run
  <2> QED
    BY <2>1, <2>3, <2>4, BoundsTyped
<1>7. seen' \subseteq Keys
  BY <1>1 DEF Evaluate, EngineTyped, TypeOK
<1>8. TypeOK'
  BY <1>4, <1>5, <1>6, <1>7 DEF EngineTyped, TypeOK, Evaluate, storeVars, tuiVars, clockVars
<1>9. EngineShape'
  BY <1>4 DEF EngineShape
<1> QED
  BY <1>8, <1>9 DEF EngineTyped

(* dispatch keeps the types. *)
LEMMA SendTyped == EngineTyped /\ Send => EngineTyped'
<1> SUFFICES ASSUME EngineTyped, Send PROVE EngineTyped'
  OBVIOUS
<1>1. outgoing \in Dispatches
  BY DEF EngineTyped, EngineShape, TypeOK, Send, Dispatch
<1>2. /\ outgoing[1] \in {"fired", "resolved"}
      /\ << outgoing[1], outgoing[2] >> \in Messages
      /\ outgoing[4] \in {"pick", "stale"}
  BY <1>1 DEF Dispatches, Messages
<1>3. tuiHand' \in {<< >>} \cup Messages
  BY <1>2 DEF Send, Dispatch, EngineTyped, TypeOK
<1>4. notified' \in [Notifiers \X Keys -> {"none", "fired", "resolved"}]
  BY <1>2 DEF Send, Dispatch, EngineTyped, TypeOK
<1>5. at' \in {"pick", "stale"} /\ outgoing' = << >>
  BY <1>2 DEF Send, Dispatch
<1>6. TypeOK'
  BY <1>3, <1>4, <1>5 DEF EngineTyped, TypeOK, Send, Dispatch, storeVars, clockVars
<1>7. EngineShape'
  BY <1>5 DEF EngineTyped, EngineShape, Send, Dispatch
<1> QED
  BY <1>6, <1>7 DEF EngineTyped

(* The pass over stale entries keeps the types. *)
LEMMA StaleTyped == EngineTyped /\ (ScanStale \/ ResolveStale \/ End) => EngineTyped'
<1>1. ASSUME EngineTyped, ScanStale PROVE EngineTyped'
  <2>1. TypeOK'
    BY <1>1 DEF EngineTyped, TypeOK, ScanStale, storeVars, tuiVars, clockVars
  <2>2. EngineShape'
    BY <1>1 DEF EngineTyped, EngineShape, ScanStale
  <2> QED
    BY <2>1, <2>2 DEF EngineTyped
<1>2. ASSUME EngineTyped, ResolveStale PROVE EngineTyped'
  <2>1. PICK k \in stale : Clear(k, "stale") /\ stale' = stale \ {k}
    BY <1>2 DEF ResolveStale
  <2>2. k \in Keys
    BY <1>2 DEF EngineTyped, TypeOK
  <2>3. /\ firing' \in [Keys -> Entries]
        /\ outgoing' \in {<< >>} \cup Dispatches
        /\ at' \in {"send", "stale"}
        /\ at' = "send" <=> outgoing' # << >>
        /\ \A l \in Keys : firing'[l].fired => firing'[l].held
    BY <1>2, <2>1, <2>2, ClearTyped
  <2>4. TypeOK'
    BY <1>2, <2>1, <2>3 DEF EngineTyped, TypeOK, ResolveStale, storeVars, tuiVars, clockVars
  <2>5. EngineShape'
    BY <2>3 DEF EngineShape
  <2> QED
    BY <2>4, <2>5 DEF EngineTyped
<1>3. ASSUME EngineTyped, End PROVE EngineTyped'
  <2>1. TypeOK'
    BY <1>3 DEF EngineTyped, TypeOK, End, storeVars, tuiVars, clockVars
  <2>2. EngineShape'
    BY <1>3 DEF EngineTyped, EngineShape, End
  <2> QED
    BY <2>1, <2>2 DEF EngineTyped
<1> QED
  BY <1>1, <1>2, <1>3

(* For all rules, services, labels and samples the engine, its store and   *)
(* the list it drives keep their types, and EngineShape holds.             *)
THEOREM AlertEngineTyped == Spec => [](TypeOK /\ EngineShape)
<1>1. EngineTyped /\ [Next]_vars => EngineTyped'
  <2> SUFFICES ASSUME EngineTyped, [Next]_vars PROVE EngineTyped'
    OBVIOUS
  <2>1. CASE UNCHANGED vars
    BY <2>1 DEF vars, engineVars, storeVars, tuiVars, clockVars, EngineTyped, TypeOK,
                EngineShape, AllVisited
  <2>2. CASE EngineStep
    BY <2>2, BeginTyped, LookTyped, EvaluateTyped, SendTyped, StaleTyped DEF EngineStep
  <2> QED
    BY <2>1, <2>2, PumpTyped, TickTyped, TuiUpdateTyped DEF Next
<1> QED
  BY <1>1, EngineTypedInit, PTL DEF Spec, EngineTyped

-----------------------------------------------------------------------------
(* What onBreach and onClear do to the active alerts is what the message   *)
(* they leave in hand will do to the TUI's list.                           *)
LEMMA BreachFollows ==
  ASSUME EngineTyped, NEW i \in RuleIds, NEW k \in Keys, NEW value,
         Breach(i, k, value)
  PROVE  ActiveKeys' = Applied(outgoing', ActiveKeys)
<1> DEFINE entry == IF firing[k].held THEN firing[k]
                    ELSE [NoEntry EXCEPT !.held = TRUE, !.rule = i]
           marked == [entry EXCEPT !.fired = TRUE, !.rule = i, !.value = value]
           fires == ~ entry.fired /\ entry.age >= Rules[i].for
           message == Message("fired", k, i, "pick")
<1>1. firing \in [Keys -> Entries] /\ \A l \in Keys : firing[l].fired => firing[l].held
  BY DEF EngineTyped, TypeOK, EngineShape
<1>2. entry.fired = firing[k].fired /\ marked.fired
  BY <1>1 DEF NoEntry, Entries
<1>3. /\ firing' = [firing EXCEPT ![k] = IF fires THEN marked ELSE entry]
      /\ outgoing' = IF fires THEN message ELSE << >>
  BY DEF Breach
<1>4. message # << >> /\ message[1] = "fired" /\ message[2] = k
  BY DEF Message
<1>5. fires => ~ entry.fired
  OBVIOUS
<1> HIDE DEF entry, marked, fires, message
<1>6. \A l \in Keys : firing'[l].fired <=> firing[l].fired \/ (l = k /\ fires)
  BY <1>1, <1>2, <1>3, <1>5
<1> QED
  BY <1>3, <1>4, <1>6 DEF ActiveKeys, Applied

(* onClear keeps the TUI in step: what it drops is announced. *)
LEMMA ClearFollows ==
  ASSUME EngineTyped, NEW k \in Keys, NEW back, Clear(k, back)
  PROVE  ActiveKeys' = Applied(outgoing', ActiveKeys)
<1> DEFINE message == Message("resolved", k, firing[k].rule, back)
<1>1. firing \in [Keys -> Entries] /\ ~ NoEntry.fired
  BY DEF EngineTyped, TypeOK, NoEntry
<1>2. /\ firing' = [firing EXCEPT ![k] = NoEntry]
      /\ outgoing' = IF firing[k].fired THEN message ELSE << >>
  BY DEF Clear
<1>3. message # << >> /\ message[1] = "resolved" /\ message[2] = k
  BY DEF Message
<1> HIDE DEF message
<1>4. \A l \in Keys : firing'[l].fired <=> firing[l].fired /\ l # k
  BY <1>1, <1>2
<1> QED
  BY <1>2, <1>3, <1>4 DEF ActiveKeys, Applied

(* Every step keeps the TUI in step with the engine. *)
LEMMA TuiFollowsStep ==
  ASSUME HasProgram, EngineTyped, TuiFollowsEngine, [Next]_vars
  PROVE  TuiFollowsEngine'
<1>1. ASSUME ActiveKeys' = Applied(outgoing', ActiveKeys), outgoing = << >>,
             UNCHANGED << tuiHand, alerts >>
      PROVE  TuiFollowsEngine'
  BY <1>1 DEF TuiFollowsEngine, Applied
<1>2. ASSUME UNCHANGED << tuiHand, alerts, outgoing >>, ActiveKeys' = ActiveKeys
      PROVE  TuiFollowsEngine'
  BY <1>2 DEF TuiFollowsEngine, Applied
<1>3. CASE Evaluate
  <2> DEFINE k == Key(rule, Here)
             value == ComputeValue(picked, Rules[rule].pct)
  <2>1. rule \in RuleIds /\ k \in Keys
    BY <1>3, RuleTyped, HereTyped, KeyTyped DEF EngineTyped, EngineShape, Evaluate
  <2>2. Breach(rule, k, value) \/ Clear(k, "pick")
    BY <1>3 DEF Evaluate
  <2>3. outgoing = << >> /\ UNCHANGED << tuiHand, alerts >>
    BY <1>3 DEF Evaluate, EngineTyped, EngineShape, tuiVars
  <2> HIDE DEF k, value
  <2> QED
    BY <1>1, <2>1, <2>2, <2>3, BreachFollows, ClearFollows
<1>4. CASE ResolveStale
  <2>1. PICK k \in stale : Clear(k, "stale")
    BY <1>4 DEF ResolveStale
  <2>2. k \in Keys /\ outgoing = << >> /\ UNCHANGED << tuiHand, alerts >>
    BY <1>4 DEF ResolveStale, EngineTyped, EngineShape, TypeOK, tuiVars
  <2> QED
    BY <1>1, <2>1, <2>2, ClearFollows
<1>5. CASE Send
  <2>1. /\ tuiHand = << >> /\ tuiHand' = << outgoing[1], outgoing[2] >>
        /\ outgoing # << >> /\ outgoing' = << >>
        /\ UNCHANGED << firing, alerts >>
    BY <1>5 DEF Send, Dispatch, EngineTyped, EngineShape
  <2>2. Applied(tuiHand', alerts) = Applied(outgoing, alerts)
    BY <2>1 DEF Applied
  <2> QED
    BY <2>1, <2>2 DEF TuiFollowsEngine, Applied, ActiveKeys
<1>6. CASE TuiUpdate
  BY <1>6 DEF TuiUpdate, TuiFollowsEngine, Applied, ActiveKeys, engineVars
<1>7. CASE Begin
  <2>1. \A k \in Keys : firing'[k].fired = firing[k].fired
    BY <1>7 DEF Begin, EngineTyped, TypeOK, Entries
  <2> QED
    BY <1>2, <1>7, <2>1 DEF Begin, ActiveKeys, tuiVars
<1>8. CASE PickNone \/ Pick \/ CheckLen \/ ScanStale \/ End
  BY <1>2, <1>8 DEF PickNone, Pick, CheckLen, ScanStale, End, ActiveKeys, tuiVars
<1>9. CASE Pump \/ Tick
  BY <1>2, <1>9, PumpLeaves DEF Tick, ActiveKeys, engineVars, tuiVars
<1>10. CASE UNCHANGED vars
  BY <1>2, <1>10 DEF vars, engineVars, tuiVars, ActiveKeys
<1> QED
  BY <1>3, <1>4, <1>5, <1>6, <1>7, <1>8, <1>9, <1>10 DEF Next, EngineStep

(* With a program attached, for all rules, services, labels and samples,   *)
(* the status bar's list is the engine's list of active alerts up to the   *)
(* messages on their way.                                                  *)
THEOREM TuiFollowsAlerts == HasProgram => (Spec => []TuiFollowsEngine)
<1> SUFFICES ASSUME HasProgram PROVE Spec => []TuiFollowsEngine
  OBVIOUS
<1>1. Init => TuiFollowsEngine
  <2>1. Init => \A k \in Keys : ~ firing[k].fired
    BY DEF Init, NoEntry
  <2> QED
    BY <2>1 DEF Init, TuiFollowsEngine, Applied, ActiveKeys
<1>2. HasProgram /\ EngineTyped /\ TuiFollowsEngine /\ [Next]_vars => TuiFollowsEngine'
  BY TuiFollowsStep
<1> QED
  BY <1>1, <1>2, AlertEngineTyped, PTL DEF Spec, EngineTyped

-----------------------------------------------------------------------------
(* The rules have names of their own, so that each has its own keys. *)
UniqueNames == \A i, j \in RuleIds : Rules[i].name = Rules[j].name => i = j

(* An entry is never older than the unbroken run of breaches behind it. *)
AgeIsEarned ==
    \A i \in RuleIds, svc \in ServiceSet :
        firing[Key(i, svc)].held => streak[<< i, svc >>] >= firing[Key(i, svc)].age

(* Rules of different names have different keys. *)
LEMMA KeysApart ==
  ASSUME UniqueNames, NEW i \in RuleIds, NEW s \in ServiceSet, NEW j \in RuleIds,
         NEW t \in ServiceSet, Key(i, s) = Key(j, t)
  PROVE  i = j /\ s = t
  BY DEF UniqueNames, Key

(* The fields of an entry have their types. *)
LEMMA EntryTyped ==
  ASSUME EngineTyped, NEW i \in RuleIds, NEW svc \in ServiceSet
  PROVE  /\ firing[Key(i, svc)] \in Entries
         /\ firing[Key(i, svc)].age \in 0 .. MaxAge
         /\ streak[<< i, svc >>] \in -1 .. MaxAge
<1>1. Key(i, svc) \in Keys /\ << i, svc >> \in RuleIds \X ServiceSet
  BY KeyTyped
<1>2. firing[Key(i, svc)] \in Entries /\ streak[<< i, svc >>] \in -1 .. MaxAge
  BY <1>1 DEF EngineTyped, TypeOK
<1> QED
  BY <1>2 DEF Entries

(* What an evaluation of one pair does to its entry and its run. *)
LEMMA EvaluatePair ==
  ASSUME EngineTyped, AgeIsEarned, Evaluate
  PROVE  LET k == Key(rule, Here) IN
         /\ rule \in RuleIds /\ Here \in ServiceSet /\ k \in Keys
         /\ \A l \in Keys : l # k => firing'[l] = firing[l]
         /\ \A x \in RuleIds \X ServiceSet : x # << rule, Here >> => streak'[x] = streak[x]
         /\ firing'[k].held => streak'[<< rule, Here >>] >= firing'[k].age
         /\ ~ firing[k].fired /\ firing'[k].fired =>
               /\ firing'[k].rule = rule
               /\ streak'[<< rule, Here >>] >= Rules[rule].for
<1> DEFINE k == Key(rule, Here)
           value == ComputeValue(picked, Rules[rule].pct)
           pair == << rule, Here >>
           run == streak[pair]
           entry == IF firing[k].held THEN firing[k]
                    ELSE [NoEntry EXCEPT !.held = TRUE, !.rule = rule]
           marked == [entry EXCEPT !.fired = TRUE, !.rule = rule, !.value = value]
           fires == ~ entry.fired /\ entry.age >= Rules[rule].for
<1>1. rule \in RuleIds /\ Here \in ServiceSet /\ k \in Keys
  BY RuleTyped, HereTyped, KeyTyped DEF EngineTyped, EngineShape, Evaluate
<1>2. /\ firing \in [Keys -> Entries] /\ streak \in [RuleIds \X ServiceSet -> -1 .. MaxAge]
      /\ firing[k].age \in 0 .. MaxAge /\ run \in -1 .. MaxAge
      /\ firing[k].fired => firing[k].held
      /\ firing[k].held => run >= firing[k].age
      /\ pair \in RuleIds \X ServiceSet
  BY <1>1, EntryTyped DEF EngineTyped, EngineShape, TypeOK, AgeIsEarned
<1>3. ASSUME Breach(rule, k, value),
             streak' = [streak EXCEPT ![pair] = IF run < 0 THEN 0 ELSE run]
      PROVE  /\ \A l \in Keys : l # k => firing'[l] = firing[l]
             /\ \A x \in RuleIds \X ServiceSet : x # pair => streak'[x] = streak[x]
             /\ streak'[pair] >= firing'[k].age
             /\ ~ firing[k].fired /\ firing'[k].fired =>
                   firing'[k].rule = rule /\ streak'[pair] >= Rules[rule].for
  <2>1. entry \in Entries /\ entry.fired = firing[k].fired
        /\ entry.age = IF firing[k].held THEN firing[k].age ELSE 0
    BY <1>1, <1>2, NoEntryTyped DEF NoEntry, Entries
  <2>2. marked.age = entry.age /\ marked.rule = rule
    BY <2>1 DEF Entries
  <2>3. firing' = [firing EXCEPT ![k] = IF fires THEN marked ELSE entry]
    BY <1>3 DEF Breach
  <2>4. fires => entry.age >= Rules[rule].for
    OBVIOUS
  <2>5. Rules[rule].for \in 0 .. MaxAge /\ MaxAge \in Nat
    BY <1>1, AlertAssumption DEF RuleIds
  <2>6. (IF run < 0 THEN 0 ELSE run) >= entry.age
    <3> HIDE DEF run, entry, k
    <3> QED
      BY <1>2, <2>1, <2>5
  <2> HIDE DEF entry, marked, fires, run, k, pair
  <2>7. firing'[k] = IF fires THEN marked ELSE entry
    BY <1>1, <1>2, <2>3
  <2>8. streak'[pair] >= entry.age
    BY <1>2, <1>3, <2>6
  <2>9. streak'[pair] \in Int /\ entry.age \in Int
    BY <1>2, <1>3, <2>1
  <2> QED
    BY <1>1, <1>2, <1>3, <2>1, <2>2, <2>3, <2>4, <2>5, <2>7, <2>8, <2>9
<1>4. ASSUME Clear(k, "pick"), streak' = [streak EXCEPT ![pair] = -1]
      PROVE  /\ \A l \in Keys : l # k => firing'[l] = firing[l]
             /\ \A x \in RuleIds \X ServiceSet : x # pair => streak'[x] = streak[x]
             /\ ~ firing'[k].held /\ ~ firing'[k].fired
  BY <1>1, <1>2, <1>4 DEF Clear, NoEntry
<1>5. \/ Breach(rule, k, value) /\ streak' = [streak EXCEPT ![pair] = IF run < 0 THEN 0 ELSE run]
      \/ Clear(k, "pick") /\ streak' = [streak EXCEPT ![pair] = -1]
  BY DEF Evaluate
<1> HIDE DEF value, run, pair, k
<1>6. /\ \A l \in Keys : l # k => firing'[l] = firing[l]
      /\ \A x \in RuleIds \X ServiceSet : x # pair => streak'[x] = streak[x]
      /\ firing'[k].held => streak'[pair] >= firing'[k].age
      /\ ~ firing[k].fired /\ firing'[k].fired =>
            firing'[k].rule = rule /\ streak'[pair] >= Rules[rule].for
  BY <1>3, <1>4, <1>5
<1> QED
  BY <1>1, <1>6 DEF k, pair

(* Time passing keeps the order of ages. *)
LEMMA OlderMonotone ==
  ASSUME TypeOK, NEW a \in 0 .. MaxAge, NEW b \in -1 .. MaxAge, b >= a
  PROVE  Older(b) >= Older(a)
  BY BoundsTyped DEF TypeOK, Older, AtMostMaxAge

(* Every step keeps ages earned. *)
LEMMA AgeIsEarnedStep ==
  ASSUME UniqueNames, EngineTyped, AgeIsEarned, [Next]_vars
  PROVE  AgeIsEarned'
<1>1. ASSUME UNCHANGED << firing, streak >> PROVE AgeIsEarned'
  BY <1>1 DEF AgeIsEarned
<1>2. CASE Evaluate
  <2> SUFFICES ASSUME NEW i \in RuleIds, NEW svc \in ServiceSet,
                      firing'[Key(i, svc)].held
               PROVE  streak'[<< i, svc >>] >= firing'[Key(i, svc)].age
    BY DEF AgeIsEarned, Key
  <2>1. CASE i = rule /\ svc = Here
    BY <1>2, <2>1, EvaluatePair
  <2>2. CASE ~ (i = rule /\ svc = Here)
    <3>1. rule \in RuleIds /\ Here \in ServiceSet
      BY <1>2, EvaluatePair
    <3>2. Key(i, svc) # Key(rule, Here) /\ Key(i, svc) \in Keys
      BY <2>2, <3>1, KeysApart, KeyTyped
    <3>3. << i, svc >> # << rule, Here >> /\ << i, svc >> \in RuleIds \X ServiceSet
      BY <2>2
    <3>4. firing'[Key(i, svc)] = firing[Key(i, svc)] /\ streak'[<< i, svc >>] = streak[<< i, svc >>]
      BY <1>2, <3>2, <3>3, EvaluatePair
    <3> QED
      BY <3>4 DEF AgeIsEarned
  <2> QED
    BY <2>1, <2>2
<1>3. CASE Begin
  <2> SUFFICES ASSUME NEW i \in RuleIds, NEW svc \in ServiceSet,
                      firing'[Key(i, svc)].held
               PROVE  streak'[<< i, svc >>] >= firing'[Key(i, svc)].age
    BY DEF AgeIsEarned, Key
  <2> DEFINE k == Key(i, svc)
             run == streak[<< i, svc >>]
  <2>1. /\ k \in Keys /\ << i, svc >> \in RuleIds \X ServiceSet
        /\ firing[k] \in Entries /\ firing[k].age \in 0 .. MaxAge /\ run \in -1 .. MaxAge
    BY KeyTyped, EntryTyped
  <2>2. firing'[k] = IF firing[k].held THEN [firing[k] EXCEPT !.age = Older(firing[k].age)]
                                       ELSE firing[k]
    BY <1>3, <2>1 DEF Begin
  <2>3. streak'[<< i, svc >>] = Older(run)
    BY <1>3, <2>1 DEF Begin
  <2>4. firing[k].held /\ firing'[k].age = Older(firing[k].age)
    BY <2>1, <2>2 DEF Entries
  <2>5. run >= firing[k].age
    BY <2>4 DEF AgeIsEarned
  <2>6. Older(run) >= Older(firing[k].age)
    <3> HIDE DEF run, k
    <3> QED
      BY <2>1, <2>5, OlderMonotone DEF EngineTyped
  <2> QED
    BY <2>3, <2>4, <2>6
<1>4. CASE ResolveStale
  <2>1. PICK k \in stale : Clear(k, "stale")
    BY <1>4 DEF ResolveStale
  <2>2. firing \in [Keys -> Entries] /\ firing' = [firing EXCEPT ![k] = NoEntry] /\ ~ NoEntry.held
    BY <2>1 DEF Clear, NoEntry, EngineTyped, TypeOK
  <2>3. streak' = streak
    BY <1>4 DEF ResolveStale
  <2>4. \A l \in Keys : firing'[l] = firing[l] \/ ~ firing'[l].held
    BY <2>2
  <2>5. \A i \in RuleIds, svc \in ServiceSet :
           firing'[Key(i, svc)].held => streak[<< i, svc >>] >= firing'[Key(i, svc)].age
    BY <2>4, KeyTyped DEF AgeIsEarned
  <2> QED
    BY <2>3, <2>5 DEF AgeIsEarned, Key
<1>5. CASE PickNone \/ Pick \/ CheckLen \/ ScanStale \/ End \/ Send
  BY <1>1, <1>5 DEF PickNone, Pick, CheckLen, ScanStale, End, Send, Dispatch
<1>6. CASE Pump \/ Tick \/ TuiUpdate
  BY <1>1, <1>6, PumpLeaves DEF Tick, TuiUpdate, engineVars
<1>7. CASE UNCHANGED vars
  BY <1>1, <1>7 DEF vars, engineVars
<1> QED
  BY <1>2, <1>3, <1>4, <1>5, <1>6, <1>7 DEF Next, EngineStep

(* No step fires an entry before its rule has held for its time. *)
LEMMA FiresStep ==
  ASSUME EngineTyped, AgeIsEarned, [Next]_vars, NEW k \in Keys,
         ~ firing[k].fired, firing'[k].fired
  PROVE  streak'[<< firing'[k].rule, k[2] >>] >= Rules[firing'[k].rule].for
<1>1. ASSUME firing'[k].fired = firing[k].fired PROVE FALSE
  BY <1>1
<1>2. CASE Evaluate
  <2>1. k = Key(rule, Here)
    BY <1>1, <1>2, EvaluatePair
  <2>2. k[2] = Here
    BY <2>1 DEF Key
  <2> QED
    BY <1>2, <2>1, <2>2, EvaluatePair
<1>3. CASE Begin
  BY <1>1, <1>3 DEF Begin, EngineTyped, TypeOK, Entries
<1>4. CASE ResolveStale
  <2>1. PICK l \in stale : Clear(l, "stale")
    BY <1>4 DEF ResolveStale
  <2>2. firing' = [firing EXCEPT ![l] = NoEntry] /\ ~ NoEntry.fired
    BY <2>1 DEF Clear, NoEntry
  <2> QED
    BY <1>1, <2>2 DEF EngineTyped, TypeOK
<1>5. CASE PickNone \/ Pick \/ CheckLen \/ ScanStale \/ End \/ Send
  BY <1>1, <1>5 DEF PickNone, Pick, CheckLen, ScanStale, End, Send, Dispatch
<1>6. CASE Pump \/ Tick \/ TuiUpdate
  BY <1>1, <1>6, PumpLeaves DEF Tick, TuiUpdate, engineVars
<1>7. CASE UNCHANGED vars
  BY <1>1, <1>7 DEF vars, engineVars
<1> QED
  BY <1>2, <1>3, <1>4, <1>5, <1>6, <1>7 DEF Next, EngineStep

(* "Fires only after For duration of continuous breach", for all rules     *)
(* whose names differ, all services, labels and samples, and however the   *)
(* evaluations fall between the pump's steps.                              *)
THEOREM AlertsFireOnlyAfterFor == UniqueNames => (Spec => FiresOnlyAfterFor)
<1> SUFFICES ASSUME UniqueNames PROVE Spec => FiresOnlyAfterFor
  OBVIOUS
<1> DEFINE A == \A k \in Keys : ~ firing[k].fired /\ firing'[k].fired =>
                   LET i == firing'[k].rule IN streak'[<< i, k[2] >>] >= Rules[i].for
<1>1. Init => AgeIsEarned
  <2>1. Init => \A k \in Keys : ~ firing[k].held
    BY DEF Init, NoEntry
  <2> QED
    BY <2>1, KeyTyped DEF AgeIsEarned
<1>2. UniqueNames /\ EngineTyped /\ AgeIsEarned /\ [Next]_vars => AgeIsEarned'
  BY AgeIsEarnedStep
<1>3. EngineTyped /\ AgeIsEarned /\ [Next]_vars => [A]_vars
  <2> SUFFICES ASSUME EngineTyped, AgeIsEarned, [Next]_vars, NEW k \in Keys,
                      ~ firing[k].fired, firing'[k].fired
               PROVE  streak'[<< firing'[k].rule, k[2] >>] >= Rules[firing'[k].rule].for
    OBVIOUS
  <2> QED
    BY FiresStep
<1> QED
  BY <1>1, <1>2, <1>3, AlertEngineTyped, PTL DEF Spec, EngineTyped, FiresOnlyAfterFor

-----------------------------------------------------------------------------
(* The message in hand is the last word on its key: it names the notifiers *)
(* of the rule behind the entry, and nobody else believes the alert fired. *)
MessageMatches ==
    outgoing # << >> =>
        LET k == outgoing[2] IN
        /\ outgoing[1] = "fired" =>
              firing[k].fired /\ outgoing[3] = Rules[firing[k].rule].notify \cap Notifiers
        /\ outgoing[1] = "resolved" => ~ firing[k].fired
        /\ \A n \in Notifiers \ outgoing[3] : notified[<< n, k >>] # "fired"

Told == NotifiersFollowEngine /\ MessageMatches

(* onBreach or onClear for one key, while nothing is in hand. *)
LEMMA ChangeTold ==
  ASSUME EngineTyped, Told, outgoing = << >>, UNCHANGED notified, NEW k \in Keys,
         \/ \E i \in RuleIds : \E value : Breach(i, k, value)
         \/ \E back : Clear(k, back)
  PROVE  Told'
<1>1. firing \in [Keys -> Entries] /\ \A l \in Keys : firing[l].fired => firing[l].held
  BY DEF EngineTyped, TypeOK, EngineShape
<1>2. \A l \in Keys, n \in Notifiers :
         notified[<< n, l >>] = "fired" <=> (firing[l].fired /\ n \in Rules[firing[l].rule].notify)
  BY DEF Told, NotifiersFollowEngine
<1>3. ASSUME \A l \in Keys : l # k => firing'[l] = firing[l],
             \/ outgoing' = << >> /\ (firing'[k].fired <=> firing[k].fired)
                /\ (firing[k].fired => firing'[k].rule = firing[k].rule)
             \/ outgoing' # << >> /\ outgoing'[2] = k
      PROVE  NotifiersFollowEngine'
  <2> SUFFICES ASSUME NEW l \in Keys, outgoing' = << >> \/ outgoing'[2] # l, NEW n \in Notifiers
               PROVE  notified[<< n, l >>] = "fired" <=>
                         (firing'[l].fired /\ n \in Rules[firing'[l].rule].notify)
    BY DEF NotifiersFollowEngine
  <2> QED
    BY <1>2, <1>3
<1>4. ASSUME NEW i \in RuleIds, NEW value, Breach(i, k, value) PROVE Told'
  <2> DEFINE entry == IF firing[k].held THEN firing[k]
                      ELSE [NoEntry EXCEPT !.held = TRUE, !.rule = i]
             marked == [entry EXCEPT !.fired = TRUE, !.rule = i, !.value = value]
             fires == ~ entry.fired /\ entry.age >= Rules[i].for
             message == Message("fired", k, i, "pick")
  <2>1. /\ entry.fired = firing[k].fired /\ marked.fired /\ marked.rule = i
        /\ firing[k].fired => entry.rule = firing[k].rule
    BY <1>1, NoEntryTyped DEF NoEntry, Entries
  <2>2. /\ firing' = [firing EXCEPT ![k] = IF fires THEN marked ELSE entry]
        /\ outgoing' = IF fires THEN message ELSE << >>
    BY <1>4 DEF Breach
  <2>3. message # << >> /\ message[1] = "fired" /\ message[2] = k
        /\ message[3] = Rules[i].notify \cap Notifiers
    BY DEF Message
  <2>4. fires => ~ entry.fired
    OBVIOUS
  <2> HIDE DEF entry, marked, fires, message
  <2>5. \A l \in Keys : firing'[l] = IF l # k THEN firing[l] ELSE IF fires THEN marked ELSE entry
    BY <1>1, <2>2
  <2>6. NotifiersFollowEngine'
    BY <1>3, <2>1, <2>2, <2>3, <2>5
  <2>7. CASE fires
    <3>1. ~ firing[k].fired /\ firing'[k].fired /\ firing'[k].rule = i
      BY <2>1, <2>4, <2>5, <2>7
    <3>2. \A n \in Notifiers : notified[<< n, k >>] # "fired"
      BY <1>2, <3>1
    <3>3. MessageMatches'
      BY <2>2, <2>3, <2>7, <3>1, <3>2 DEF MessageMatches
    <3> QED
      BY <2>6, <3>3 DEF Told
  <2>8. CASE ~ fires
    BY <2>2, <2>6, <2>8 DEF Told, MessageMatches
  <2> QED
    BY <2>7, <2>8
<1>5. ASSUME NEW back, Clear(k, back) PROVE Told'
  <2> DEFINE message == Message("resolved", k, firing[k].rule, back)
  <2>1. /\ firing' = [firing EXCEPT ![k] = NoEntry] /\ ~ NoEntry.fired
        /\ outgoing' = IF firing[k].fired THEN message ELSE << >>
    BY <1>5 DEF Clear, NoEntry
  <2>2. message # << >> /\ message[1] = "resolved" /\ message[2] = k
        /\ message[3] = Rules[firing[k].rule].notify \cap Notifiers
    BY DEF Message
  <2> HIDE DEF message
  <2>3. \A l \in Keys : firing'[l] = IF l # k THEN firing[l] ELSE NoEntry
    BY <1>1, <2>1
  <2>4. NotifiersFollowEngine'
    BY <1>3, <2>1, <2>2, <2>3
  <2>5. \A n \in Notifiers \ (Rules[firing[k].rule].notify \cap Notifiers) : notified[<< n, k >>] # "fired"
    BY <1>2
  <2>6. MessageMatches'
    BY <2>1, <2>2, <2>3, <2>5 DEF MessageMatches
  <2> QED
    BY <2>4, <2>6 DEF Told
<1> QED
  BY <1>4, <1>5

(* dispatch tells the notifiers what the message says. *)
LEMMA SendTold ==
  ASSUME EngineTyped, Told, Send
  PROVE  Told'
<1>1. outgoing \in Dispatches /\ firing' = firing /\ outgoing' = << >>
  BY DEF EngineTyped, EngineShape, TypeOK, Send, Dispatch
<1>2. /\ outgoing # << >> /\ outgoing[1] \in {"fired", "resolved"} /\ outgoing[2] \in Keys
      /\ outgoing[3] \in SUBSET Notifiers
  BY <1>1 DEF Dispatches, Send, Dispatch, EngineTyped, EngineShape
<1>3. \A n \in Notifiers, k \in Keys :
         notified'[<< n, k >>] = IF n \in outgoing[3] /\ k = outgoing[2] THEN outgoing[1]
                                                                       ELSE notified[<< n, k >>]
  BY DEF Send, Dispatch
<1>4. ASSUME NEW k \in Keys, NEW n \in Notifiers
      PROVE  notified'[<< n, k >>] = "fired" <=> (firing[k].fired /\ n \in Rules[firing[k].rule].notify)
  <2>1. CASE k # outgoing[2]
    BY <1>3, <2>1 DEF Told, NotifiersFollowEngine
  <2>2. CASE k = outgoing[2] /\ outgoing[1] = "fired"
    BY <1>2, <1>3, <2>2 DEF Told, MessageMatches
  <2>3. CASE k = outgoing[2] /\ outgoing[1] = "resolved"
    BY <1>2, <1>3, <2>3 DEF Told, MessageMatches
  <2> QED
    BY <1>2, <2>1, <2>2, <2>3
<1>5. NotifiersFollowEngine'
  BY <1>1, <1>4 DEF NotifiersFollowEngine
<1> QED
  BY <1>1, <1>5 DEF Told, MessageMatches

(* Every step keeps the notifiers told. *)
LEMMA ToldStep ==
  ASSUME EngineTyped, Told, [Next]_vars
  PROVE  Told'
<1>1. ASSUME UNCHANGED << firing, outgoing, notified >> PROVE Told'
  BY <1>1 DEF Told, NotifiersFollowEngine, MessageMatches
<1>2. CASE Evaluate
  <2>1. rule \in RuleIds /\ Key(rule, Here) \in Keys /\ outgoing = << >> /\ UNCHANGED notified
    BY <1>2, RuleTyped, HereTyped, KeyTyped DEF Evaluate, EngineTyped, EngineShape
  <2>2. \/ \E value : Breach(rule, Key(rule, Here), value)
        \/ Clear(Key(rule, Here), "pick")
    BY <1>2 DEF Evaluate
  <2> QED
    BY <2>1, <2>2, ChangeTold
<1>3. CASE ResolveStale
  <2>1. PICK k \in stale : Clear(k, "stale")
    BY <1>3 DEF ResolveStale
  <2>2. k \in Keys /\ outgoing = << >> /\ UNCHANGED notified
    BY <1>3 DEF ResolveStale, EngineTyped, EngineShape, TypeOK
  <2> QED
    BY <2>1, <2>2, ChangeTold
<1>4. CASE Begin
  <2>1. \A k \in Keys : (firing'[k].fired <=> firing[k].fired) /\ firing'[k].rule = firing[k].rule
    BY <1>4 DEF Begin, EngineTyped, TypeOK, Entries
  <2>2. outgoing = << >> \/ outgoing \in Dispatches
    BY DEF EngineTyped, TypeOK
  <2>3. outgoing # << >> => outgoing[2] \in Keys
    BY <2>2 DEF Dispatches
  <2> QED
    BY <1>4, <2>1, <2>3 DEF Begin, Told, NotifiersFollowEngine, MessageMatches
<1>5. CASE PickNone \/ Pick \/ CheckLen \/ ScanStale \/ End
  BY <1>1, <1>5 DEF PickNone, Pick, CheckLen, ScanStale, End
<1>6. CASE Pump \/ Tick \/ TuiUpdate
  BY <1>1, <1>6, PumpLeaves DEF Tick, TuiUpdate, engineVars
<1>7. CASE UNCHANGED vars
  BY <1>1, <1>7 DEF vars, engineVars
<1> QED
  BY <1>2, <1>3, <1>4, <1>5, <1>6, <1>7, SendTold DEF Next, EngineStep

(* A notifier of a rule has been started last with exactly the alerts that *)
(* are active, for all rules, two of one name included, and with or        *)
(* without a program.                                                      *)
THEOREM NotifiersFollowAlerts == Spec => []NotifiersFollowEngine
<1>1. Init => Told
  <2>1. Init => \A k \in Keys, n \in Notifiers :
                   ~ firing[k].fired /\ notified[<< n, k >>] # "fired"
    BY DEF Init, NoEntry
  <2> QED
    BY <2>1 DEF Init, Told, NotifiersFollowEngine, MessageMatches
<1>2. EngineTyped /\ Told /\ [Next]_vars => Told'
  BY ToldStep
<1> QED
  BY <1>1, <1>2, AlertEngineTyped, PTL DEF Spec, EngineTyped, Told
-----------------------------------------------------------------------------
(* Two series of the metric are there, so that the map's order decides     *)
(* which of them an evaluation looks at.                                   *)
Several(i, svc) == \E x, y \in PresentSeries(i, svc) : x # y

(* The series in the maps of the known services are finitely many; those   *)
(* with samples and the one being pushed are among them.                   *)
StoreSound ==
    /\ IsFiniteSet({id \in SeriesIds : series[id].present})
    /\ \A id \in SeriesIds : /\ series[id].ring # << >> => series[id].present
                             /\ series[id].present => id[1] \in known
    /\ pushing # << >> => series[pushing[2]].present

(* An active alert has a service and samples behind it, and is one of its  *)
(* rule's.                                                                 *)
FiredIsBacked ==
    \A i \in RuleIds, svc \in ServiceSet : firing[Key(i, svc)].fired =>
        /\ firing[Key(i, svc)].rule = i
        /\ svc \in known
        /\ at # "idle" => svc \in listed
        /\ \E id \in MetricSeries(i, svc) : series[id].ring # << >>

(* The series in hand is one findSeries may return for the pair. *)
PickedIsThere ==
    at \in {"len", "value"} => picked \in PresentSeries(rule, Here) /\ Here \in listed

Passed(i, n) == i < rule \/ (i = rule /\ n < svcAt)

(* A pair the loops have left without seeing its active alert in breach    *)
(* was left because of a series still empty, which has others beside it.   *)
UnseenAreSeveral ==
    at # "idle" =>
        \A i \in RuleIds, n \in 1 .. Len(Services) :
            LET k == Key(i, Services[n]) IN
            Passed(i, n) /\ firing[k].fired /\ k \notin seen => Several(i, Services[n])

(* So are the alerts found stale; there are none while pairs are visited. *)
StaleAreSeveral ==
    /\ \A i \in RuleIds, svc \in ServiceSet :
          Key(i, svc) \in stale => firing[Key(i, svc)].fired /\ Several(i, svc)
    /\ at \in {"idle", "pick", "len", "value"} => stale = {}
    /\ outgoing # << >> /\ outgoing[4] = "pick" => stale = {}

Supported ==
    /\ StoreSound
    /\ FiredIsBacked
    /\ PickedIsThere
    /\ UnseenAreSeveral
    /\ StaleAreSeveral

(* The services of the sequence. *)
LEMMA ServiceTyped ==
  ASSUME NEW n \in 1 .. Len(Services)
  PROVE  Services[n] \in ServiceSet
  BY AlertAssumption DEF ServiceSet, Range

(* The store only grows: services and series stay, and rings stay filled. *)
StoreGrows ==
    /\ known \subseteq known'
    /\ \A id \in SeriesIds : /\ series[id].present => series'[id].present
                             /\ series[id].ring # << >> => series'[id].ring # << >>

(* The pump makes the store grow and keeps it sound. *)
LEMMA PumpGrows ==
  ASSUME EngineTyped, StoreSound, Pump
  PROVE  StoreGrows /\ StoreSound'
<1>1. /\ series \in [SeriesIds -> [present : BOOLEAN, ring : Seq(Values), last : Values, set : BOOLEAN]]
      /\ \A id \in SeriesIds : Len(series[id].ring) =< SeriesCap
      /\ pushing \in {<< >>} \cup ({"ring", "last"} \X SeriesIds \X Values)
  BY DEF EngineTyped, TypeOK
<1>2. ASSUME NEW svc \in ServiceSet, ServiceFor(svc) PROVE StoreGrows /\ StoreSound'
  BY <1>2 DEF ServiceFor, StoreGrows, StoreSound
<1>3. ASSUME NEW id \in SeriesIds, NEW v \in Values, PushMetric(id, v)
      PROVE  StoreGrows /\ StoreSound'
  <2>1. /\ known' = known
        /\ \A x \in SeriesIds : /\ series'[x].ring = series[x].ring
                                /\ series'[x].present = (series[x].present \/ x = id)
    BY <1>1, <1>3 DEF PushMetric
  <2>2. {x \in SeriesIds : series'[x].present} = {x \in SeriesIds : series[x].present} \cup {id}
    BY <2>1
  <2>3. IsFiniteSet({x \in SeriesIds : series'[x].present})
    <3>1. IsFiniteSet({x \in SeriesIds : series[x].present})
      BY DEF StoreSound
    <3> QED
      BY <2>2, <3>1, FS_AddElement
  <2>4. series'[id].present /\ pushing'[2] = id /\ id[1] \in known
    BY <1>3, <2>1 DEF PushMetric
  <2> QED
    BY <2>1, <2>3, <2>4 DEF StoreGrows, StoreSound
<1>4. ASSUME Push PROVE StoreGrows /\ StoreSound'
  <2> DEFINE id == pushing[2]
  <2>1. id \in SeriesIds /\ pushing[3] \in Values /\ series[id].present
    BY <1>1, <1>4 DEF Push, PushRing, PushLast, StoreSound
  <2>2. /\ known' = known
        /\ \A x \in SeriesIds : /\ series'[x].present = series[x].present
                                /\ x # id => series'[x].ring = series[x].ring
                                /\ series[x].ring # << >> => series'[x].ring # << >>
        /\ pushing' # << >> => pushing'[2] = id
    <3>1. CASE PushRing
      <4> DEFINE new == SampleRing(id)!Slide(series[id].ring, pushing[3])
      <4>1. new # << >>
        BY <1>1, <2>1, SlideTyped
      <4>2. series' = [series EXCEPT ![id].ring = new] /\ known' = known
            /\ pushing' = << "last", id, pushing[3] >>
        BY <3>1 DEF PushRing
      <4> HIDE DEF new, id
      <4> QED
        BY <1>1, <2>1, <4>1, <4>2
    <3>2. CASE PushLast
      <4>1. series' = [series EXCEPT ![id].last = pushing[3], ![id].set = TRUE]
            /\ known' = known /\ pushing' = << >>
        BY <3>2 DEF PushLast
      <4> HIDE DEF id
      <4> QED
        BY <1>1, <2>1, <4>1
    <3> QED
      BY <1>4, <3>1, <3>2 DEF Push
  <2>3. {x \in SeriesIds : series'[x].present} = {x \in SeriesIds : series[x].present}
    BY <2>2
  <2> HIDE DEF id
  <2> QED
    BY <2>1, <2>2, <2>3 DEF StoreGrows, StoreSound
<1> QED
  BY <1>2, <1>3, <1>4 DEF Pump

(* While the store grows, series that are several stay several. *)
LEMMA SeveralGrows ==
  ASSUME StoreGrows, NEW i \in RuleIds, NEW svc \in ServiceSet, Several(i, svc)
  PROVE  Several(i, svc)'
<1>1. PresentSeries(i, svc) \subseteq PresentSeries(i, svc)'
  BY DEF StoreGrows, PresentSeries, MetricSeries
<1> QED
  BY <1>1 DEF Several

(* A step that leaves the engine alone keeps its alerts supported. *)
LEMMA SupportedWhileIdle ==
  ASSUME Supported, StoreGrows, StoreSound', UNCHANGED engineVars
  PROVE  Supported'
<1>1. ASSUME NEW i \in RuleIds, NEW svc \in ServiceSet
      PROVE  /\ MetricSeries(i, svc)' = MetricSeries(i, svc)
             /\ MetricSeries(i, svc) \subseteq SeriesIds
             /\ Key(i, svc)' = Key(i, svc)
  BY DEF MetricSeries, Key
<1>2. FiredIsBacked'
  BY <1>1 DEF Supported, FiredIsBacked, StoreGrows, engineVars
<1>3. PickedIsThere'
  BY DEF Supported, PickedIsThere, StoreGrows, PresentSeries, MetricSeries, Here, engineVars
<1>4. UnseenAreSeveral'
  <2> SUFFICES ASSUME at # "idle", NEW i \in RuleIds, NEW n \in 1 .. Len(Services),
                      Passed(i, n), firing[Key(i, Services[n])].fired,
                      Key(i, Services[n]) \notin seen
               PROVE  Several(i, Services[n])'
    BY <1>1 DEF UnseenAreSeveral, Passed, engineVars, Key
  <2> QED
    BY SeveralGrows, ServiceTyped DEF Supported, UnseenAreSeveral
<1>5. StaleAreSeveral'
  <2>1. \A i \in RuleIds, svc \in ServiceSet :
           Key(i, svc) \in stale => firing[Key(i, svc)].fired /\ Several(i, svc)'
    BY SeveralGrows DEF Supported, StaleAreSeveral
  <2> QED
    BY <2>1 DEF Supported, StaleAreSeveral, engineVars, Key
<1> QED
  BY <1>2, <1>3, <1>4, <1>5 DEF Supported

(* Leaving a pair adds that pair to those passed. *)
LEMMA NextPairPasses ==
  ASSUME TypeOK, ~ AllVisited, NextPair, NEW i \in RuleIds, NEW n \in 1 .. Len(Services),
         Passed(i, n)'
  PROVE  Passed(i, n) \/ (i = rule /\ n = svcAt)
<1>1. i \in Nat /\ n \in Nat /\ rule \in Nat /\ svcAt \in Nat /\ n =< Len(Services)
      /\ Len(Services) \in Nat
  BY BoundsTyped DEF TypeOK
<1> QED
  BY <1>1 DEF NextPair, Passed

(* The look at a pair's series. *)
LEMMA LookSupported ==
  ASSUME EngineTyped, Supported, PickNone \/ Pick \/ CheckLen
  PROVE  Supported'
<1>1. /\ UNCHANGED << listed, seen, stale, firing, outgoing, known, series, pushing >>
      /\ at # "idle" /\ at' # "idle" /\ stale = {} /\ outgoing = << >> /\ ~ AllVisited
  BY DEF PickNone, Pick, CheckLen, storeVars, Supported, StaleAreSeveral, EngineTyped, EngineShape
<1>2. rule \in RuleIds /\ Here \in ServiceSet /\ svcAt \in 1 .. Len(Services)
  BY <1>1, RuleTyped, HereTyped DEF EngineTyped, TypeOK
<1>3. StoreSound'
  BY <1>1 DEF Supported, StoreSound
<1>4. FiredIsBacked'
  BY <1>1 DEF Supported, FiredIsBacked, MetricSeries, Key
<1>5. PickedIsThere'
  <2>1. CASE PickNone
    BY <2>1 DEF PickNone, PickedIsThere
  <2>2. CASE Pick
    BY <1>1, <2>2 DEF Pick, PickedIsThere, PresentSeries, MetricSeries, Candidates, Here
  <2>3. CASE CheckLen
    BY <1>1, <2>3 DEF CheckLen, Supported, PickedIsThere, PresentSeries, MetricSeries, Here
  <2> QED
    BY <2>1, <2>2, <2>3
<1>6. StaleAreSeveral'
  BY <1>1 DEF StaleAreSeveral
<1>7. ASSUME NextPair, firing[Key(rule, Here)].fired => Several(rule, Here)
      PROVE  UnseenAreSeveral'
  <2> SUFFICES ASSUME NEW i \in RuleIds, NEW n \in 1 .. Len(Services),
                      Passed(i, n)', firing[Key(i, Services[n])].fired,
                      Key(i, Services[n]) \notin seen
               PROVE  Several(i, Services[n])
    BY <1>1 DEF UnseenAreSeveral, Several, PresentSeries, MetricSeries, Key
  <2>1. Passed(i, n) \/ (i = rule /\ n = svcAt)
    BY <1>1, <1>7, NextPairPasses DEF EngineTyped
  <2> QED
    BY <1>1, <1>7, <2>1 DEF Supported, UnseenAreSeveral, Here
<1>8. ASSUME UNCHANGED << rule, svcAt >> PROVE UnseenAreSeveral'
  BY <1>1, <1>8 DEF Supported, UnseenAreSeveral, Passed, Several, PresentSeries, MetricSeries, Key
<1>9. UnseenAreSeveral'
  <2>1. firing[Key(rule, Here)].fired =>
           /\ Here \in listed
           /\ \E id \in PresentSeries(rule, Here) : series[id].ring # << >>
    BY <1>1, <1>2 DEF Supported, FiredIsBacked, StoreSound, PresentSeries, MetricSeries
  <2>2. CASE PickNone
    <3>1. ~ firing[Key(rule, Here)].fired
      BY <2>1, <2>2 DEF PickNone, Candidates, PresentSeries, MetricSeries
    <3> QED
      BY <1>7, <2>2, <3>1 DEF PickNone
  <2>3. CASE Pick
    BY <1>8, <2>3 DEF Pick
  <2>4. CASE CheckLen
    <3>1. CASE series[picked].ring = << >>
      <4>1. picked \in PresentSeries(rule, Here)
        BY <2>4 DEF CheckLen, Supported, PickedIsThere
      <4>2. firing[Key(rule, Here)].fired => Several(rule, Here)
        BY <2>1, <3>1, <4>1 DEF Several
      <4> QED
        BY <1>7, <2>4, <3>1, <4>2 DEF CheckLen
    <3>2. CASE series[picked].ring # << >>
      BY <1>8, <2>4, <3>2 DEF CheckLen
    <3> QED
      BY <3>1, <3>2
  <2> QED
    BY <2>2, <2>3, <2>4
<1> QED
  BY <1>3, <1>4, <1>5, <1>6, <1>9 DEF Supported

(* The evaluation of a pair: a breach marks its key as seen, anything else *)
(* leaves it not fired; other rules' keys are left alone.                  *)
LEMMA EvaluateSupported ==
  ASSUME UniqueNames, EngineTyped, Supported, Evaluate
  PROVE  Supported'
<1> DEFINE k == Key(rule, Here)
           value == ComputeValue(picked, Rules[rule].pct)
<1>1. /\ rule \in RuleIds /\ Here \in ServiceSet /\ k \in Keys /\ ~ AllVisited
      /\ firing \in [Keys -> Entries] /\ \A l \in Keys : firing[l].fired => firing[l].held
  BY RuleTyped, HereTyped, KeyTyped DEF EngineTyped, EngineShape, TypeOK, Evaluate
<1>2. /\ UNCHANGED << listed, picked, stale, known, series, pushing >> /\ NextPair
      /\ at = "value" /\ stale = {} /\ at' \in {"send", "pick"}
  BY DEF Evaluate, storeVars, Supported, StaleAreSeveral, Breach, Clear
<1>3. /\ \A l \in Keys : l # k => firing'[l] = firing[l]
      /\ firing'[k].fired => firing'[k].rule = rule /\ k \in seen'
      /\ seen \subseteq seen'
  <2>1. CASE Breach(rule, k, value) /\ seen' = seen \cup {k}
    <3> DEFINE entry == IF firing[k].held THEN firing[k]
                        ELSE [NoEntry EXCEPT !.held = TRUE, !.rule = rule]
               marked == [entry EXCEPT !.fired = TRUE, !.rule = rule, !.value = value]
               fires == ~ entry.fired /\ entry.age >= Rules[rule].for
    <3>1. firing' = [firing EXCEPT ![k] = IF fires THEN marked ELSE entry]
      BY <2>1 DEF Breach
    <3>2. marked.rule = rule /\ (entry.fired => entry.rule = rule)
      <4>1. firing[k].fired => firing[k].rule = rule
        BY <1>1 DEF Supported, FiredIsBacked
      <4> QED
        BY <1>1, <4>1, NoEntryTyped DEF Entries, NoEntry
    <3> HIDE DEF k, value, entry, marked, fires
    <3> QED
      BY <1>1, <2>1, <3>1, <3>2
  <2>2. CASE Clear(k, "pick") /\ seen' = seen
    <3>1. firing' = [firing EXCEPT ![k] = NoEntry] /\ ~ NoEntry.fired
      BY <2>2 DEF Clear, NoEntry
    <3> HIDE DEF k
    <3> QED
      BY <1>1, <2>2, <3>1
  <2> QED
    BY <2>1, <2>2 DEF Evaluate
<1>4. \A i \in RuleIds, svc \in ServiceSet :
         \/ i = rule /\ svc = Here /\ Key(i, svc) = k
         \/ Key(i, svc) \in Keys /\ Key(i, svc) # k
  BY <1>1, KeysApart, KeyTyped
<1> HIDE DEF k, value
<1>5. StoreSound'
  BY <1>2 DEF Supported, StoreSound
<1>6. FiredIsBacked'
  <2> SUFFICES ASSUME NEW i \in RuleIds, NEW svc \in ServiceSet, firing'[Key(i, svc)].fired
               PROVE  /\ firing'[Key(i, svc)].rule = i
                      /\ svc \in known /\ svc \in listed
                      /\ \E id \in MetricSeries(i, svc) : series[id].ring # << >>
    BY <1>2 DEF FiredIsBacked, MetricSeries, Key
  <2>1. CASE Key(i, svc) # k
    BY <1>2, <1>3, <1>4, <2>1 DEF Supported, FiredIsBacked
  <2>2. CASE i = rule /\ svc = Here /\ Key(i, svc) = k
    <3>1. picked \in MetricSeries(rule, Here) /\ series[picked].ring # << >>
      BY <1>2 DEF Supported, PickedIsThere, PresentSeries, EngineTyped, EngineShape
    <3>2. Here \in known /\ Here \in listed
      BY <1>2 DEF Supported, PickedIsThere, StoreSound, PresentSeries, MetricSeries
    <3> QED
      BY <1>3, <2>2, <3>1, <3>2
  <2> QED
    BY <1>4, <2>1, <2>2
<1>7. PickedIsThere'
  BY <1>2 DEF PickedIsThere
<1>8. UnseenAreSeveral'
  <2> SUFFICES ASSUME NEW i \in RuleIds, NEW n \in 1 .. Len(Services),
                      Passed(i, n)', firing'[Key(i, Services[n])].fired,
                      Key(i, Services[n]) \notin seen'
               PROVE  Several(i, Services[n])
    BY <1>2 DEF UnseenAreSeveral, Several, PresentSeries, MetricSeries, Key
  <2>1. Key(i, Services[n]) # k /\ ~ (i = rule /\ n = svcAt)
    BY <1>3 DEF k, Here
  <2>2. Passed(i, n)
    BY <1>1, <1>2, <2>1, NextPairPasses DEF EngineTyped
  <2>3. firing[Key(i, Services[n])].fired /\ Key(i, Services[n]) \notin seen
    BY <1>3, <2>1, ServiceTyped, KeyTyped
  <2> QED
    BY <1>2, <2>2, <2>3 DEF Supported, UnseenAreSeveral
<1>9. StaleAreSeveral'
  BY <1>2 DEF StaleAreSeveral
<1> QED
  BY <1>5, <1>6, <1>7, <1>8, <1>9 DEF Supported
(* onClear for a stale alert leaves the others as they are. *)
LEMMA ResolveStaleSupported ==
  ASSUME EngineTyped, Supported, ResolveStale
  PROVE  Supported'
<1>1. PICK k \in stale : Clear(k, "stale") /\ stale' = stale \ {k}
  BY DEF ResolveStale
<1>2. /\ firing' = [firing EXCEPT ![k] = NoEntry] /\ ~ NoEntry.fired
      /\ at' \in {"send", "stale"} /\ at = "stale"
      /\ UNCHANGED << listed, rule, svcAt, picked, seen, known, series, pushing >>
  BY <1>1 DEF ResolveStale, Clear, NoEntry, storeVars
<1>3. \A l \in Keys : firing'[l].fired => l # k /\ firing[l].fired /\ firing'[l] = firing[l]
  BY <1>2 DEF EngineTyped, TypeOK
<1>4. \A l \in Keys : l # k => firing'[l] = firing[l]
  BY <1>2 DEF EngineTyped, TypeOK
<1>5. StoreSound'
  BY <1>2 DEF Supported, StoreSound
<1>6. FiredIsBacked'
  BY <1>2, <1>3, KeyTyped DEF Supported, FiredIsBacked, MetricSeries, Key
<1>7. PickedIsThere'
  BY <1>2 DEF PickedIsThere
<1>8. UnseenAreSeveral'
  <2> SUFFICES ASSUME NEW i \in RuleIds, NEW n \in 1 .. Len(Services),
                      Passed(i, n), firing'[Key(i, Services[n])].fired,
                      Key(i, Services[n]) \notin seen
               PROVE  Several(i, Services[n])
    BY <1>2 DEF UnseenAreSeveral, Passed, Several, PresentSeries, MetricSeries, Key
  <2>1. firing[Key(i, Services[n])].fired
    BY <1>3, ServiceTyped, KeyTyped
  <2> QED
    BY <1>2, <2>1 DEF Supported, UnseenAreSeveral
<1>9. StaleAreSeveral'
  <2>1. ASSUME NEW i \in RuleIds, NEW svc \in ServiceSet, Key(i, svc) \in stale'
        PROVE  firing'[Key(i, svc)].fired /\ Several(i, svc)'
    <3>1. Key(i, svc) \in stale /\ Key(i, svc) # k
      BY <1>1, <2>1
    <3>2. firing[Key(i, svc)].fired /\ Several(i, svc)
      BY <3>1 DEF Supported, StaleAreSeveral
    <3> QED
      BY <1>2, <1>4, <3>1, <3>2, KeyTyped DEF Several, PresentSeries, MetricSeries
  <2>2. outgoing' # << >> => outgoing'[4] = "stale"
    BY <1>1 DEF Clear, Message
  <2> QED
    BY <1>2, <2>1, <2>2 DEF StaleAreSeveral, Key
<1> QED
  BY <1>5, <1>6, <1>7, <1>8, <1>9 DEF Supported

(* The other steps of the engine. *)
LEMMA EngineSupported ==
  ASSUME EngineTyped, Supported, Begin \/ ScanStale \/ End \/ Send
  PROVE  Supported'
<1>1. StoreSound' /\ UNCHANGED << known, series >>
  BY DEF Supported, StoreSound, Begin, ScanStale, End, Send, Dispatch, storeVars
<1>2. ASSUME NEW i \in RuleIds, NEW svc \in ServiceSet
      PROVE  /\ Several(i, svc)' = Several(i, svc)
             /\ MetricSeries(i, svc)' = MetricSeries(i, svc)
             /\ Key(i, svc)' = Key(i, svc) /\ Key(i, svc) \in Keys
  BY <1>1, KeyTyped DEF Several, PresentSeries, MetricSeries, Key
<1>3. PickedIsThere'
  <2>1. at' \in {"idle", "pick", "stale"}
    BY DEF Begin, ScanStale, End, Send, Dispatch, EngineTyped, EngineShape, TypeOK, Dispatches
  <2> QED
    BY <2>1 DEF PickedIsThere
<1>4. CASE Begin
  <2>1. \A k \in Keys : firing'[k].fired = firing[k].fired /\ firing'[k].rule = firing[k].rule
    BY <1>4 DEF Begin, EngineTyped, TypeOK, Entries
  <2>2. /\ at = "idle" /\ at' = "pick" /\ listed' = known /\ stale' = {} /\ rule' = 1 /\ svcAt' = 1
        /\ outgoing' = outgoing
    BY <1>4 DEF Begin, Supported, StaleAreSeveral
  <2>3. FiredIsBacked'
    BY <1>1, <1>2, <2>1, <2>2 DEF Supported, FiredIsBacked
  <2>4. UnseenAreSeveral'
    <3>1. \A i \in RuleIds, n \in 1 .. Len(Services) : ~ Passed(i, n)'
      BY <2>2, BoundsTyped DEF Passed
    <3> QED
      BY <3>1 DEF UnseenAreSeveral, Passed
  <2>5. StaleAreSeveral'
    BY <2>2 DEF StaleAreSeveral
  <2> QED
    BY <1>1, <1>3, <2>3, <2>4, <2>5 DEF Supported
<1>5. CASE ScanStale
  <2>1. /\ UNCHANGED << firing, listed, rule, svcAt, seen, outgoing >>
        /\ at = "pick" /\ at' = "stale" /\ AllVisited /\ outgoing = << >>
        /\ stale' = {k \in Keys : firing[k].fired /\ k \notin seen}
    BY <1>5 DEF ScanStale, EngineTyped, EngineShape
  <2>2. FiredIsBacked'
    BY <1>1, <1>2, <2>1 DEF Supported, FiredIsBacked
  <2>3. UnseenAreSeveral'
    BY <1>2, <2>1, ServiceTyped DEF Supported, UnseenAreSeveral, Passed
  <2>4. ASSUME NEW i \in RuleIds, NEW svc \in ServiceSet, Key(i, svc) \in stale'
        PROVE  Several(i, svc)
    <3>1. PICK n \in 1 .. Len(Services) : svc = Services[n]
      BY AlertAssumption DEF ServiceSet, Range
    <3>2. Passed(i, n)
      BY <2>1, BoundsTyped DEF Passed, AllVisited, EngineTyped, TypeOK
    <3> QED
      BY <2>1, <2>4, <3>1, <3>2 DEF Supported, UnseenAreSeveral
  <2>5. StaleAreSeveral'
    BY <1>2, <2>1, <2>4 DEF StaleAreSeveral
  <2> QED
    BY <1>1, <1>3, <2>2, <2>3, <2>5 DEF Supported
<1>6. CASE End \/ Send
  <2>1. /\ UNCHANGED << firing, listed, rule, svcAt, seen, stale >>
        /\ at # "idle" /\ outgoing' = << >>
        /\ at' = "stale" \/ stale = {}
    BY <1>6 DEF End, Send, Dispatch, EngineTyped, EngineShape, TypeOK, Dispatches,
                Supported, StaleAreSeveral
  <2>2. FiredIsBacked'
    BY <1>1, <1>2, <2>1 DEF Supported, FiredIsBacked
  <2>3. UnseenAreSeveral'
    BY <1>2, <2>1, ServiceTyped DEF Supported, UnseenAreSeveral, Passed
  <2>4. StaleAreSeveral'
    BY <1>2, <2>1 DEF Supported, StaleAreSeveral
  <2> QED
    BY <1>1, <1>3, <2>2, <2>3, <2>4 DEF Supported
<1> QED
  BY <1>4, <1>5, <1>6

(* Every step keeps the alerts supported. *)
LEMMA SupportedStep ==
  ASSUME UniqueNames, EngineTyped, Supported, [Next]_vars
  PROVE  Supported'
<1>1. CASE Pump
  BY <1>1, PumpGrows, PumpLeaves, SupportedWhileIdle DEF Supported
<1>2. CASE Tick \/ TuiUpdate \/ UNCHANGED vars
  <2>1. UNCHANGED << engineVars, storeVars >>
    BY <1>2 DEF Tick, TuiUpdate, vars
  <2>2. StoreGrows /\ StoreSound'
    BY <2>1 DEF storeVars, StoreGrows, Supported, StoreSound
  <2> QED
    BY <2>1, <2>2, SupportedWhileIdle
<1> QED
  BY <1>1, <1>2, LookSupported, EvaluateSupported, ResolveStaleSupported, EngineSupported
  DEF Next, EngineStep

(* Several series are more than one. *)
LEMMA SeveralCounted ==
  ASSUME StoreSound, NEW i \in RuleIds, NEW svc \in ServiceSet, Several(i, svc)
  PROVE  Cardinality(PresentSeries(i, svc)) > 1
<1>1. PICK x, y \in PresentSeries(i, svc) : x # y
  BY DEF Several
<1>2. IsFiniteSet(PresentSeries(i, svc))
  <2>1. PresentSeries(i, svc) \subseteq {id \in SeriesIds : series[id].present}
    BY DEF PresentSeries, MetricSeries
  <2> QED
    BY <2>1, FS_Subset DEF StoreSound
<1>3. Cardinality({x, y}) = 2
  <2>1. Cardinality({x}) = 1 /\ IsFiniteSet({x})
    BY FS_Singleton
  <2>2. Cardinality({x} \cup {y}) = Cardinality({x}) + 1
    BY <1>1, <2>1, FS_AddElement
  <2>3. {x} \cup {y} = {x, y}
    OBVIOUS
  <2> QED
    BY <2>1, <2>2, <2>3
<1>4. Cardinality({x, y}) =< Cardinality(PresentSeries(i, svc))
  <2>1. {x, y} \subseteq PresentSeries(i, svc)
    OBVIOUS
  <2> QED
    BY <1>2, <2>1, FS_Subset
<1>5. Cardinality(PresentSeries(i, svc)) \in Nat
  BY <1>2, FS_CardinalityType
<1> QED
  BY <1>3, <1>4, <1>5

(* No step resolves an alert without a reason. *)
LEMMA ResolvesStep ==
  ASSUME UniqueNames, EngineTyped, Supported, [Next]_vars, NEW k \in Keys,
         firing[k].fired, ~ firing'[k].fired
  PROVE  LET i == firing[k].rule
         IN \/ \E id \in MetricSeries(i, k[2]) : IsClear(i, id)
            \/ at = "stale" /\ Cardinality(PresentSeries(i, k[2])) > 1
<1>1. ASSUME firing'[k].fired = firing[k].fired PROVE FALSE
  BY <1>1
<1>2. firing \in [Keys -> Entries]
  BY DEF EngineTyped, TypeOK
<1>3. CASE Evaluate
  <2> DEFINE value == ComputeValue(picked, Rules[rule].pct)
  <2>1. rule \in RuleIds /\ Here \in ServiceSet
    BY <1>3, RuleTyped, HereTyped DEF EngineTyped, EngineShape, Evaluate
  <2>2. picked \in MetricSeries(rule, Here) /\ series[picked].ring # << >>
    BY <1>3 DEF Evaluate, Supported, PickedIsThere, PresentSeries, EngineTyped, EngineShape
  <2>3. CASE Breach(rule, Key(rule, Here), value)
    <3> DEFINE l == Key(rule, Here)
               entry == IF firing[l].held THEN firing[l]
                        ELSE [NoEntry EXCEPT !.held = TRUE, !.rule = rule]
               marked == [entry EXCEPT !.fired = TRUE, !.rule = rule, !.value = value]
               fires == ~ entry.fired /\ entry.age >= Rules[rule].for
    <3>1. firing' = [firing EXCEPT ![l] = IF fires THEN marked ELSE entry]
      BY <2>3 DEF Breach
    <3>2. marked.fired /\ (firing[l].fired => entry.fired)
      BY <1>2, <2>1, KeyTyped, NoEntryTyped DEF Entries, EngineTyped, EngineShape
    <3> HIDE DEF l, entry, marked, fires, value
    <3> QED
      BY <1>1, <1>2, <3>1, <3>2
  <2>4. CASE Clear(Key(rule, Here), "pick") /\ ~ Breaches(rule, value)
    <3>1. k = Key(rule, Here)
      BY <1>1, <1>2, <2>4 DEF Clear
    <3>2. firing[k].rule = rule /\ k[2] = Here
      BY <2>1, <3>1 DEF Supported, FiredIsBacked, Key
    <3>3. IsClear(rule, picked)
      BY <2>2, <2>4 DEF IsClear
    <3> QED
      BY <2>2, <3>2, <3>3
  <2> QED
    BY <1>3, <2>3, <2>4 DEF Evaluate
<1>4. CASE ResolveStale
  <2>1. PICK l \in stale : Clear(l, "stale")
    BY <1>4 DEF ResolveStale
  <2>2. k = l
    BY <1>1, <1>2, <2>1 DEF Clear
  <2>3. PICK i \in RuleIds, svc \in ServiceSet : k = Key(i, svc)
    BY DEF Keys, Key
  <2>4. firing[k].rule = i /\ k[2] = svc /\ Several(i, svc)
    BY <2>1, <2>2, <2>3 DEF Supported, FiredIsBacked, StaleAreSeveral, Key
  <2>5. Cardinality(PresentSeries(i, svc)) > 1
    BY <2>3, <2>4, SeveralCounted DEF Supported
  <2> QED
    BY <1>4, <2>4, <2>5 DEF ResolveStale
<1>5. CASE Begin
  BY <1>1, <1>5 DEF Begin, EngineTyped, TypeOK, Entries
<1>6. CASE PickNone \/ Pick \/ CheckLen \/ ScanStale \/ End \/ Send
  BY <1>1, <1>6 DEF PickNone, Pick, CheckLen, ScanStale, End, Send, Dispatch
<1>7. CASE Pump \/ Tick \/ TuiUpdate
  BY <1>1, <1>7, PumpLeaves DEF Tick, TuiUpdate, engineVars
<1>8. CASE UNCHANGED vars
  BY <1>1, <1>8 DEF vars, engineVars
<1> QED
  BY <1>3, <1>4, <1>5, <1>6, <1>7, <1>8 DEF Next, EngineStep

(* "Auto-resolves when the condition clears", for all rules whose names    *)
(* differ, all services, labels and samples: an active alert goes only     *)
(* when the series looked at is clear, or by the pass over stale alerts    *)
(* when the metric has several series and the one drawn was still empty.   *)
THEOREM AlertsResolveOnlyWhenClear == UniqueNames => (Spec => ResolvesOnlyWhenClear)
<1> SUFFICES ASSUME UniqueNames PROVE Spec => ResolvesOnlyWhenClear
  OBVIOUS
<1> DEFINE A == \A k \in Keys : firing[k].fired /\ ~ firing'[k].fired =>
                   LET i == firing[k].rule
                   IN \/ \E id \in MetricSeries(i, k[2]) : IsClear(i, id)
                      \/ at = "stale" /\ Cardinality(PresentSeries(i, k[2])) > 1
<1>1. Init => Supported
  <2> SUFFICES ASSUME Init PROVE Supported
    OBVIOUS
  <2>1. /\ \A id \in SeriesIds : ~ series[id].present /\ series[id].ring = << >>
        /\ \A k \in Keys : ~ firing[k].fired
        /\ pushing = << >> /\ at = "idle" /\ stale = {} /\ outgoing = << >>
    BY DEF Init, NoEntry
  <2>2. {id \in SeriesIds : series[id].present} = {}
    BY <2>1
  <2>3. StoreSound
    BY <2>1, <2>2, FS_EmptySet DEF StoreSound
  <2> QED
    BY <2>1, <2>3, KeyTyped DEF Supported, FiredIsBacked, PickedIsThere, UnseenAreSeveral,
                                StaleAreSeveral
<1>2. UniqueNames /\ EngineTyped /\ Supported /\ [Next]_vars => Supported'
  BY SupportedStep
<1>3. UniqueNames /\ EngineTyped /\ Supported /\ [Next]_vars => [A]_vars
  <2> SUFFICES ASSUME UniqueNames, EngineTyped, Supported, [Next]_vars PROVE A
    OBVIOUS
  <2> HIDE DEF A
  <2>1. \A k \in Keys : firing[k].fired /\ ~ firing'[k].fired =>
           LET i == firing[k].rule
           IN \/ \E id \in MetricSeries(i, k[2]) : IsClear(i, id)
              \/ at = "stale" /\ Cardinality(PresentSeries(i, k[2])) > 1
    BY ResolvesStep
  <2> QED
    BY <2>1 DEF A
<1> QED
  BY <1>1, <1>2, <1>3, AlertEngineTyped, PTL DEF Spec, EngineTyped, ResolvesOnlyWhenClear
-----------------------------------------------------------------------------
(* The notifiers (Notifiers.tla), for any lists, any number of notes under *)
(* way at once and any durations.                                          *)

(* What is known of one note's goroutines at every moment.  A hook that    *)
(* hangs has been hanging since the endpoint came back; one that pauses    *)
(* waited at most a timeout before it, unless its context is done and it   *)
(* will not wait again; its note was taken once more than a 2xx failed to  *)
(* come if it is sent, or is hanging at an endpoint that took it.          *)
NoteInv(n) ==
    /\ n > launched => hook[n].at = "none" /\ log[n] = "none"
    /\ hook[n].at = "none" => hook[n] = NoHook /\ steady[n] = 0
    /\ hook[n].at = "post" =>
          ~ hook[n].taken /\ hook[n].spent = 0 /\ steady[n] =< Timeout + Pause
    /\ hook[n].at = "hung" => steady[n] =< hook[n].spent /\ hook[n].spent =< Timeout
    /\ hook[n].at = "pause" =>
          /\ hook[n].attempt < Attempts
          /\ ~ hook[n].taken
          /\ hook[n].spent =< Pause
          /\ \/ steady[n] =< Timeout + hook[n].spent
             \/ CtxDone(n) /\ steady[n] =< Timeout + Pause
    /\ Live(n) => hook[n].age =< Deadline /\ (endpoint # "up" => steady[n] = 0)
    /\ posted[n] = lost[n] + (IF hook[n].at = "sent" \/ (hook[n].at = "hung" /\ hook[n].taken)
                              THEN 1 ELSE 0)

HookInv == NotifierTypeOK /\ \A n \in Notes : NoteInv(n)

LEMMA Durations ==
  ASSUME NotifierBounds
  PROVE  /\ Attempts \in Nat /\ Attempts >= 1
         /\ Timeout \in Nat /\ Pause \in Nat /\ Deadline \in Nat /\ MaxNotes \in Nat
  BY DEF NotifierBounds

HookAts == {"none", "post", "hung", "pause", "sent", "failed"}

(* The records that the steps of a hook make of one. *)
LEMMA HookMoves ==
  ASSUME NEW h \in Hooks, NEW next \in HookAts
  PROVE  LET g == [h EXCEPT !.at = next] IN
           /\ g \in Hooks /\ g.at = next /\ g.spent = h.spent /\ g.age = h.age
           /\ g.attempt = h.attempt /\ g.taken = h.taken
  BY DEF Hooks, HookAts

LEMMA HookFails ==
  ASSUME NEW h \in Hooks
  PROVE  LET g == [h EXCEPT !.at = "pause", !.spent = 0, !.taken = FALSE] IN
           /\ g \in Hooks /\ g.at = "pause" /\ g.spent = 0 /\ g.age = h.age
           /\ g.attempt = h.attempt /\ ~ g.taken
  BY DEF Hooks

LEMMA HookReturns ==
  ASSUME NotifierBounds, NEW outcome \in HookAts
  PROVE  Over(outcome) \in Hooks /\ Over(outcome).at = outcome
<1>1. NoHook \in Hooks
  BY Durations DEF NoHook, Hooks
<1> QED
  BY <1>1, HookMoves DEF Over

LEMMA HookRetries ==
  ASSUME NEW h \in Hooks, h.attempt + 1 \in 1 .. Attempts
  PROVE  LET g == [h EXCEPT !.at = "post", !.spent = 0, !.attempt = @ + 1] IN
           /\ g \in Hooks /\ g.at = "post" /\ g.spent = 0 /\ g.age = h.age
           /\ g.attempt = h.attempt + 1 /\ g.taken = h.taken
  BY DEF Hooks

LEMMA HookAges ==
  ASSUME NEW h \in Hooks
  PROVE  LET g == [h EXCEPT !.age = @ + 1, !.spent = @ + 1] IN
           /\ g \in Hooks /\ g.at = h.at /\ g.spent = h.spent + 1 /\ g.age = h.age + 1
           /\ g.attempt = h.attempt /\ g.taken = h.taken
<1>1. PICK a \in Nat, s \in Nat : a = h.age + 1 /\ s = h.spent + 1
  BY DEF Hooks
<1>2. [h EXCEPT !.age = a, !.spent = s] \in Hooks
  BY DEF Hooks
<1>3. [h EXCEPT !.age = @ + 1, !.spent = @ + 1] \in Hooks
  BY <1>1, <1>2
<1>4. LET g == [h EXCEPT !.age = @ + 1, !.spent = @ + 1] IN
        /\ g.at = h.at /\ g.spent = h.spent + 1 /\ g.age = h.age + 1
        /\ g.attempt = h.attempt /\ g.taken = h.taken
  BY DEF Hooks
<1> QED
  BY <1>3, <1>4

LEMMA HookInit == NotifierBounds /\ NotifierInit => HookInv
<1> SUFFICES ASSUME NotifierBounds, NotifierInit PROVE HookInv
  OBVIOUS
<1> USE Durations
<1>1. NotifierTypeOK
  BY DEF NotifierInit, NotifierTypeOK, Hooks, NoHook, Notes
<1>2. ASSUME NEW n \in Notes PROVE NoteInv(n)
  BY DEF NotifierInit, NoteInv, NoHook, Notes, Live
<1> QED
  BY <1>1, <1>2 DEF HookInv

(* A step that leaves the hooks, the endpoint and what is launched alone.  *)
LEMMA HookKept ==
  ASSUME NotifierBounds, HookInv, NotifierTypeOK',
         UNCHANGED << launched, hookVars, endpoint >>,
         \A n \in Notes : log[n] = "none" => log'[n] = "none" \/ n =< launched
  PROVE  HookInv'
<1>1. ASSUME NEW n \in Notes PROVE NoteInv(n)'
  BY DEF HookInv, NoteInv, hookVars, Live, CtxDone, NotifierTypeOK,
         Notes
<1> QED
  BY <1>1 DEF HookInv

(* A step of one note's hook, in which another note has no part.           *)
LEMMA OtherNote ==
  ASSUME NotifierBounds, HookInv, NEW n \in Notes,
         hook'[n] = hook[n], posted'[n] = posted[n], lost'[n] = lost[n],
         steady'[n] = steady[n], log'[n] = log[n],
         endpoint' = endpoint, launched' \in Nat, launched' >= launched
  PROVE  NoteInv(n)'
  BY DEF HookInv, NotifierTypeOK, NoteInv, Live, CtxDone, Notes

LEMMA LaunchKeeps == NotifierBounds /\ HookInv /\ Launch => HookInv'
<1> SUFFICES ASSUME NotifierBounds, HookInv, Launch PROVE HookInv'
  OBVIOUS
<1> USE Durations
<1>1. PICK new \in Notes : new = launched + 1
  <2>1. launched \in 0 .. MaxNotes /\ launched < MaxNotes
    BY DEF HookInv, NotifierTypeOK, Launch
  <2>2. launched + 1 \in Notes
    BY <2>1 DEF Notes
  <2> QED
    BY <2>2
<1>2. launched' = new /\ launched \in Nat
  BY <1>1 DEF HookInv, NotifierTypeOK, Launch
<1>3. /\ hook[new] = NoHook /\ steady[new] = 0 /\ log[new] = "none"
      /\ posted[new] = lost[new] /\ lost[new] \in Nat /\ NoHook \in Hooks
  <2>1. new > launched /\ NoteInv(new)
    BY <1>1, <1>2 DEF HookInv
  <2>2. hook[new].at = "none" /\ log[new] = "none"
    BY <2>1 DEF NoteInv
  <2>3. hook[new] = NoHook /\ steady[new] = 0
    BY <2>1, <2>2 DEF NoteInv
  <2>4. lost[new] \in Nat /\ posted[new] = lost[new] + 0
    BY <2>1, <2>2 DEF NoteInv, HookInv, NotifierTypeOK
  <2>5. NoHook \in Hooks
    BY DEF NoHook, Hooks
  <2> QED
    BY <2>2, <2>3, <2>4, <2>5
<1>4. PICK g \in Hooks : /\ hook' = [hook EXCEPT ![new] = g]
                         /\ g = IF "webhook" \in notify THEN [NoHook EXCEPT !.at = "post"]
                                ELSE NoHook
  <2>1. [NoHook EXCEPT !.at = "post"] \in Hooks
    BY <1>3, HookMoves DEF HookAts
  <2>2. CASE "webhook" \in notify
    <3>1. hook' = [hook EXCEPT ![new] = [NoHook EXCEPT !.at = "post"]]
      BY <1>1, <1>3, <2>2 DEF Launch, HookInv, NotifierTypeOK
    <3> QED
      BY <2>1, <2>2, <3>1
  <2>3. CASE "webhook" \notin notify
    <3>1. hook' = [hook EXCEPT ![new] = NoHook]
      BY <1>1, <1>3, <2>3 DEF Launch, HookInv, NotifierTypeOK
    <3> QED
      BY <1>3, <2>3, <3>1
  <2> QED
    BY <2>2, <2>3
<1>5. NotifierTypeOK'
  <2>1. hook' \in [Notes -> Hooks]
    BY <1>1, <1>4 DEF HookInv, NotifierTypeOK
  <2>2. log' \in [Notes -> {"none", "wait", "locked", "open", "written", "error"}]
    BY <1>1 DEF HookInv, NotifierTypeOK, Launch
  <2>3. before' \in [Notes -> SUBSET Notes] /\ ringing' \subseteq Notes
    BY <1>1 DEF HookInv, NotifierTypeOK, Launch
  <2>4. launched' \in 0 .. MaxNotes
    BY <1>1, <1>2 DEF Notes
  <2> QED
    BY <2>1, <2>2, <2>3, <2>4 DEF HookInv, NotifierTypeOK, Launch
<1>6. NoteInv(new)'
  <2>1. hook'[new] = g /\ UNCHANGED << steady, posted, lost, endpoint >>
    BY <1>1, <1>4 DEF HookInv, NotifierTypeOK, Launch
  <2>2. CASE "webhook" \in notify
    <3>1. g.at = "post" /\ g.spent = 0 /\ ~ g.taken /\ g.age = 0
      BY <1>3, <1>4, <2>2, HookMoves DEF HookAts, NoHook
    <3> QED
      BY <1>1, <1>2, <1>3, <2>1, <3>1 DEF NoteInv, Live, Notes
  <2>3. CASE "webhook" \notin notify
    BY <1>1, <1>2, <1>3, <1>4, <2>1, <2>3 DEF NoteInv, Live, Notes, NoHook
  <2> QED
    BY <2>2, <2>3
<1>7. ASSUME NEW n \in Notes, n # new PROVE NoteInv(n)'
  <2>1. hook'[n] = hook[n]
    BY <1>4, <1>7 DEF HookInv, NotifierTypeOK
  <2>2. log'[n] = log[n] /\ UNCHANGED << steady, posted, lost, endpoint >>
    BY <1>1, <1>7 DEF HookInv, NotifierTypeOK, Launch
  <2> QED
    BY <1>1, <1>2, <2>1, <2>2, OtherNote
<1> QED
  BY <1>5, <1>6, <1>7 DEF HookInv

LEMMA TurnKeeps == NotifierBounds /\ HookInv /\ Turn => HookInv'
<1> SUFFICES ASSUME NotifierBounds, HookInv, Turn PROVE HookInv'
  OBVIOUS
<1> USE Durations
<1>1. ASSUME NEW n \in Notes
      PROVE  /\ steady'[n] = IF Live(n) /\ endpoint' # "up" THEN 0 ELSE steady[n]
             /\ hook[n] \in Hooks /\ steady[n] \in Nat /\ NoteInv(n)
  BY DEF Turn, HookInv, NotifierTypeOK
<1>2. NotifierTypeOK'
  <2>1. steady' \in [Notes -> Nat]
    BY <1>1 DEF Turn
  <2> QED
    BY <2>1 DEF HookInv, NotifierTypeOK, Turn, logVars
<1>3. ASSUME NEW n \in Notes PROVE NoteInv(n)'
  <2>1. UNCHANGED << hook, posted, lost, log, launched >>
    BY DEF Turn, logVars
  <2>2. steady'[n] =< steady[n] /\ steady'[n] \in Nat
    BY <1>1
  <2>3. Live(n) /\ endpoint' # "up" => steady'[n] = 0
    BY <1>1
  <2>4. ~ Live(n) => steady'[n] = steady[n]
    BY <1>1
  <2> QED
    BY <1>1, <2>1, <2>2, <2>3, <2>4 DEF NoteInv, Live, CtxDone, Hooks
<1> QED
  BY <1>2, <1>3 DEF HookInv

LEMMA TickKeeps == NotifierBounds /\ HookInv /\ NotifierTick => HookInv'
<1> SUFFICES ASSUME NotifierBounds, HookInv, NotifierTick PROVE HookInv'
  OBVIOUS
<1> USE Durations
<1>1. ASSUME NEW n \in Notes
      PROVE  /\ hook[n] \in Hooks /\ steady[n] \in Nat /\ posted[n] \in Nat /\ lost[n] \in Nat
             /\ NoteInv(n) /\ hook[n].spent \in Nat /\ hook[n].age \in Nat
  BY DEF HookInv, NotifierTypeOK, Hooks
<1>2. ASSUME NEW n \in Notes
      PROVE  /\ hook'[n] = IF Live(n)
                  THEN [hook[n] EXCEPT !.age = @ + 1, !.spent = @ + 1] ELSE hook[n]
             /\ steady'[n] = IF Live(n) /\ endpoint = "up" THEN steady[n] + 1 ELSE steady[n]
  BY DEF NotifierTick
<1>3. ASSUME NEW n \in Notes
      PROVE  /\ steady'[n] \in Nat /\ steady'[n] =< steady[n] + 1
             /\ (Live(n) /\ endpoint = "up") \/ steady'[n] = steady[n]
  <2>1. steady[n] \in Nat /\ (steady'[n] = steady[n] + 1 \/ steady'[n] = steady[n])
    BY <1>1, <1>2
  <2>2. (Live(n) /\ endpoint = "up") \/ steady'[n] = steady[n]
    BY <1>2
  <2> QED
    BY <2>1, <2>2
<1>4. ASSUME NEW n \in Notes, Live(n)
      PROVE  /\ hook'[n] \in Hooks
             /\ hook'[n].at = hook[n].at /\ hook'[n].attempt = hook[n].attempt
             /\ hook'[n].taken = hook[n].taken
             /\ hook'[n].age = hook[n].age + 1 /\ hook'[n].spent = hook[n].spent + 1
  <2>1. hook[n] \in Hooks /\ hook'[n] = [hook[n] EXCEPT !.age = @ + 1, !.spent = @ + 1]
    BY <1>1, <1>2, <1>4
  <2> QED
    BY <2>1, HookAges
<1>5. NotifierTypeOK'
  <2>1. ASSUME NEW n \in Notes PROVE hook'[n] \in Hooks
    <3>1. CASE Live(n)
      BY <1>4, <3>1
    <3>2. CASE ~ Live(n)
      BY <1>1, <1>2, <3>2
    <3> QED
      BY <3>1, <3>2
  <2>2. hook' = [n \in Notes |-> hook'[n]] /\ steady' = [n \in Notes |-> steady'[n]]
    BY DEF NotifierTick
  <2>3. hook' \in [Notes -> Hooks] /\ steady' \in [Notes -> Nat]
    BY <1>3, <2>1, <2>2
  <2> QED
    BY <2>3 DEF HookInv, NotifierTypeOK, NotifierTick, logVars
<1>6. ASSUME NEW n \in Notes PROVE NoteInv(n)'
  <2>1. UNCHANGED << posted, lost, log, launched, endpoint >>
    BY DEF NotifierTick, logVars
  <2>2. CASE Live(n)
    <3>1. /\ hook[n].at \in {"hung", "pause"}
          /\ ~ IsCut(n) /\ ~ PauseIsOver(n) /\ ~ Abandons(n)
      BY <2>2 DEF NotifierTick, Live
    <3>2. ~ CtxDone(n)
      BY <3>1 DEF IsCut, Abandons
    <3>3. /\ hook[n].age < Deadline
          /\ hook[n].at = "hung" => hook[n].spent < Timeout
          /\ hook[n].at = "pause" => hook[n].spent < Pause
      BY <1>1, <3>1, <3>2 DEF IsCut, PauseIsOver, CtxDone
    <3>4. hook'[n].at = hook[n].at /\ Live(n)'
      BY <1>4, <2>2 DEF Live
    <3>5. CASE hook[n].at = "hung"
      BY <1>1, <1>3, <1>4, <2>1, <2>2, <3>3, <3>4, <3>5 DEF NoteInv
    <3>6. CASE hook[n].at = "pause"
      BY <1>1, <1>3, <1>4, <2>1, <2>2, <3>2, <3>3, <3>4, <3>6 DEF NoteInv
    <3> QED
      BY <3>1, <3>5, <3>6
  <2>3. CASE ~ Live(n)
    BY <1>1, <1>2, <2>1, <2>3 DEF NoteInv, Live
  <2> QED
    BY <2>2, <2>3
<1> QED
  BY <1>5, <1>6 DEF HookInv

(* A step that changes one note's hook and its counters.                   *)
LEMMA OneHook ==
  ASSUME NotifierBounds, HookInv,
         NEW m \in Notes, NEW g \in Hooks, NEW p \in Nat, NEW l \in Nat,
         hook' = [hook EXCEPT ![m] = g], posted' = [posted EXCEPT ![m] = p],
         lost' = [lost EXCEPT ![m] = l], NoteInv(m)',
         UNCHANGED << notify, launched, ringing, endpoint, steady, logVars, before >>
  PROVE  HookInv'
<1>1. NotifierTypeOK'
  <2>1. /\ hook' \in [Notes -> Hooks]
        /\ posted' \in [Notes -> Nat] /\ lost' \in [Notes -> Nat]
    BY DEF HookInv, NotifierTypeOK
  <2> QED
    BY <2>1 DEF HookInv, NotifierTypeOK, logVars
<1>2. ASSUME NEW n \in Notes, n # m PROVE NoteInv(n)'
  <2>1. hook'[n] = hook[n] /\ posted'[n] = posted[n] /\ lost'[n] = lost[n]
    BY <1>2 DEF HookInv, NotifierTypeOK
  <2>2. launched' \in Nat /\ launched' >= launched
    BY Durations DEF HookInv, NotifierTypeOK
  <2> QED
    BY <2>1, <2>2, OtherNote DEF logVars
<1> QED
  BY <1>1, <1>2 DEF HookInv

LEMMA AcceptKeeps ==
  ASSUME NotifierBounds, HookInv, NEW n \in Notes, Accept(n)
  PROVE  HookInv'
<1> USE Durations
<1>1. /\ hook[n] \in Hooks /\ posted[n] \in Nat /\ lost[n] \in Nat /\ steady[n] \in Nat
      /\ hook \in [Notes -> Hooks] /\ NoteInv(n)
  BY DEF HookInv, NotifierTypeOK
<1> DEFINE g == Over("sent")
           p == IF hook[n].taken THEN posted[n] ELSE posted[n] + 1
<1>2. g \in Hooks /\ g.at = "sent"
  BY HookReturns DEF HookAts
<1>3. /\ hook' = [hook EXCEPT ![n] = g] /\ hook'[n] = g
      /\ UNCHANGED << notify, launched, ringing, endpoint, lost, steady, logVars, before >>
  BY <1>1 DEF Accept
<1>4. posted' = [posted EXCEPT ![n] = p] /\ posted'[n] = p
  BY DEF Accept, HookInv, NotifierTypeOK
<1>5. p = lost[n] + 1
  <2>1. hook[n].at = "post" => ~ hook[n].taken
    BY <1>1 DEF NoteInv
  <2> QED
    BY <1>1, <2>1 DEF NoteInv, Accept
<1>6. lost' = [lost EXCEPT ![n] = lost[n]] /\ p \in Nat
  BY <1>1, <1>3 DEF HookInv, NotifierTypeOK
<1> HIDE DEF g, p
<1>7. NoteInv(n)'
  <2>1. n =< launched
    BY <1>1 DEF NoteInv, Accept, HookInv, NotifierTypeOK, Notes
  <2> QED
    BY <1>1, <1>2, <1>3, <1>4, <1>5, <2>1 DEF NoteInv, Live, HookInv, NotifierTypeOK,
           Notes
<1> QED
  BY <1>1, <1>2, <1>3, <1>4, <1>6, <1>7, OneHook

LEMMA HangKeeps ==
  ASSUME NotifierBounds, HookInv, NEW n \in Notes, Hang(n)
  PROVE  HookInv'
<1> USE Durations
<1>1. /\ hook[n] \in Hooks /\ posted[n] \in Nat /\ lost[n] \in Nat /\ steady[n] \in Nat
      /\ hook \in [Notes -> Hooks] /\ NoteInv(n)
  BY DEF HookInv, NotifierTypeOK
<1>2. PICK taken \in BOOLEAN :
        /\ hook' = [hook EXCEPT ![n].at = "hung", ![n].taken = taken]
        /\ posted' = IF taken THEN [posted EXCEPT ![n] = @ + 1] ELSE posted
  BY DEF Hang
<1> DEFINE g == [hook[n] EXCEPT !.at = "hung", !.taken = taken]
           p == IF taken THEN posted[n] + 1 ELSE posted[n]
<1>3. /\ g \in Hooks /\ g.at = "hung" /\ g.taken = taken /\ g.spent = hook[n].spent
      /\ g.age = hook[n].age /\ g.attempt = hook[n].attempt
  BY <1>1, <1>2 DEF Hooks
<1>4. /\ hook' = [hook EXCEPT ![n] = g] /\ hook'[n] = g
      /\ UNCHANGED << notify, launched, ringing, endpoint, lost, steady, logVars, before >>
  BY <1>1, <1>2 DEF Hang
<1>5. posted' = [posted EXCEPT ![n] = p] /\ posted'[n] = p /\ p \in Nat
  <2>1. posted \in [Notes -> Nat]
    BY DEF HookInv, NotifierTypeOK
  <2>2. CASE taken
    BY <1>1, <1>2, <2>1, <2>2
  <2>3. CASE ~ taken
    BY <1>1, <1>2, <2>1, <2>3
  <2> QED
    BY <2>2, <2>3
<1>6. lost' = [lost EXCEPT ![n] = lost[n]]
  BY <1>4 DEF HookInv, NotifierTypeOK
<1>7. /\ hook[n].spent = 0 /\ steady[n] = 0 /\ hook[n].age =< Deadline /\ posted[n] = lost[n]
      /\ n =< launched
  BY <1>1 DEF NoteInv, Hang, Live, HookInv, NotifierTypeOK, Notes
<1>8. p = lost[n] + (IF taken THEN 1 ELSE 0)
  BY <1>1, <1>7
<1> HIDE DEF g, p
<1>9. NoteInv(n)'
  <2>1. launched' \in Nat /\ n \in Nat
    BY <1>4 DEF HookInv, NotifierTypeOK, Notes
  <2>2. \/ hook'[n].taken /\ posted'[n] = lost[n] + 1
        \/ ~ hook'[n].taken /\ posted'[n] = lost[n]
    <3>1. CASE taken
      BY <1>3, <1>4, <1>5, <1>8, <3>1
    <3>2. CASE ~ taken
      <4>1. p = lost[n] + 0 /\ ~ hook'[n].taken
        BY <1>3, <1>4, <1>8, <3>2
      <4> QED
        BY <1>1, <1>5, <4>1
    <3> QED
      BY <3>1, <3>2
  <2>3. /\ hook'[n].at = "hung" /\ hook'[n].spent = 0 /\ hook'[n].age =< Deadline
        /\ steady'[n] = 0 /\ lost'[n] = lost[n] /\ n =< launched'
    BY <1>3, <1>4, <1>7
  <2> HIDE <1>3, <1>4
  <2> QED
    BY <1>1, <2>1, <2>2, <2>3 DEF NoteInv, Live
<1> QED
  BY <1>1, <1>3, <1>4, <1>5, <1>6, <1>9, OneHook

(* An attempt fails, refused or cut: a pause begins with nothing spent, or *)
(* the attempts are used up.  Every copy the endpoint took so far is then  *)
(* an unsure one.                                                          *)
LEMMA FailedAttempt ==
  ASSUME NotifierBounds, HookInv, NEW n \in Notes,
         AttemptFails(n), hook[n].at \in {"post", "hung"},
         steady[n] =< Timeout \/ (CtxDone(n) /\ steady[n] =< Timeout + Pause),
         NEW p \in Nat, posted' = [posted EXCEPT ![n] = p],
         lost' = [lost EXCEPT ![n] = p],
         UNCHANGED << notify, launched, ringing, endpoint, steady, logVars, before >>
  PROVE  HookInv'
<1> USE Durations
<1>1. /\ hook[n] \in Hooks /\ steady[n] \in Nat
      /\ hook \in [Notes -> Hooks] /\ NoteInv(n) /\ hook[n].attempt \in 1 .. Attempts
  BY DEF HookInv, NotifierTypeOK, Hooks
<1>2. posted'[n] = p /\ lost'[n] = p
  BY DEF HookInv, NotifierTypeOK
<1>3. Live(n) /\ hook[n].age =< Deadline /\ (endpoint # "up" => steady[n] = 0) /\ n =< launched
  BY <1>1 DEF NoteInv, Live, HookInv, NotifierTypeOK, Notes
<1>4. launched' \in Nat /\ n \in Nat /\ n =< launched' /\ UNCHANGED << steady, endpoint >>
  BY <1>3 DEF HookInv, NotifierTypeOK, Notes
<1>5. CASE hook[n].attempt = Attempts
  <2>1. Over("failed") \in Hooks /\ Over("failed").at = "failed"
    BY HookReturns DEF HookAts
  <2>2. hook' = [hook EXCEPT ![n] = Over("failed")] /\ hook'[n].at = "failed"
    BY <1>1, <1>5, <2>1 DEF AttemptFails
  <2>3. NoteInv(n)'
    BY <1>2, <1>4, <2>2 DEF NoteInv, Live
  <2> QED
    BY <2>1, <2>2, <2>3, OneHook
<1>6. CASE hook[n].attempt # Attempts
  <2> DEFINE g == [hook[n] EXCEPT !.at = "pause", !.spent = 0, !.taken = FALSE]
  <2>1. /\ g \in Hooks /\ g.at = "pause" /\ g.spent = 0 /\ g.age = hook[n].age
        /\ g.attempt = hook[n].attempt /\ ~ g.taken
    BY <1>1, HookFails
  <2>2. hook' = [hook EXCEPT ![n] = g] /\ hook'[n] = g
    BY <1>1, <1>6 DEF AttemptFails
  <2>3. g.attempt < Attempts
    BY <1>1, <1>6, <2>1
  <2> HIDE DEF g
  <2>4. CtxDone(n)' <=> CtxDone(n)
    BY <2>1, <2>2 DEF CtxDone
  <2>5. NoteInv(n)'
    BY <1>1, <1>2, <1>3, <1>4, <2>1, <2>2, <2>3, <2>4 DEF NoteInv, Live
  <2> QED
    BY <2>1, <2>2, <2>5, OneHook
<1> QED
  BY <1>5, <1>6

LEMMA RefuseKeeps ==
  ASSUME NotifierBounds, HookInv, NEW n \in Notes, Refuse(n)
  PROVE  HookInv'
<1> USE Durations
<1>1. /\ NoteInv(n) /\ hook[n].at \in {"post", "hung"} /\ endpoint = "refuses"
      /\ posted \in [Notes -> Nat] /\ lost \in [Notes -> Nat] /\ steady[n] \in Nat
      /\ posted[n] \in Nat /\ lost[n] \in Nat /\ hook[n].taken \in BOOLEAN
  BY DEF HookInv, NotifierTypeOK, Refuse, Hooks
<1>2. /\ steady[n] = 0
      /\ hook[n].at = "post" => ~ hook[n].taken
      /\ posted[n] = lost[n] + (IF hook[n].taken THEN 1 ELSE 0)
  BY <1>1 DEF NoteInv, Live
<1>3. PICK taken \in BOOLEAN :
        /\ hook[n].taken => taken
        /\ posted' = IF taken /\ ~ hook[n].taken THEN [posted EXCEPT ![n] = @ + 1] ELSE posted
        /\ lost' = IF taken THEN [lost EXCEPT ![n] = @ + 1] ELSE lost
  BY DEF Refuse
<1>4. CASE taken
  <2>1. lost' = [lost EXCEPT ![n] = lost[n] + 1]
    BY <1>3, <1>4
  <2>2. posted' = [posted EXCEPT ![n] = lost[n] + 1]
    <3>1. CASE hook[n].taken
      BY <1>1, <1>2, <1>3, <3>1
    <3>2. CASE ~ hook[n].taken
      <4>1. posted[n] = lost[n]
        BY <1>1, <1>2, <3>2
      <4>2. posted' = [posted EXCEPT ![n] = posted[n] + 1]
        BY <1>3, <1>4, <3>2
      <4> QED
        BY <4>1, <4>2
    <3> QED
      BY <3>1, <3>2
  <2>3. PICK p \in Nat : p = lost[n] + 1
    BY <1>1
  <2>4. posted' = [posted EXCEPT ![n] = p] /\ lost' = [lost EXCEPT ![n] = p]
    BY <2>1, <2>2, <2>3
  <2>5. steady[n] =< Timeout
    BY <1>2
  <2>6. /\ AttemptFails(n)
        /\ UNCHANGED << notify, launched, ringing, endpoint, steady, logVars, before >>
    BY DEF Refuse
  <2> QED
    BY <1>1, <2>4, <2>5, <2>6, FailedAttempt
<1>5. CASE ~ taken
  <2>1. lost' = [lost EXCEPT ![n] = lost[n]] /\ posted' = [posted EXCEPT ![n] = lost[n]]
    BY <1>1, <1>2, <1>3, <1>5
  <2> QED
    BY <1>1, <1>2, <2>1, FailedAttempt DEF Refuse
<1> QED
  BY <1>4, <1>5

LEMMA NotPostedKeeps ==
  ASSUME NotifierBounds, HookInv, NEW n \in Notes, NotPosted(n)
  PROVE  HookInv'
<1> USE Durations
<1>1. /\ posted[n] \in Nat /\ lost[n] \in Nat /\ hook \in [Notes -> Hooks] /\ NoteInv(n)
      /\ hook[n].at = "post"
  BY DEF HookInv, NotifierTypeOK, NotPosted
<1>2. Over("failed") \in Hooks /\ Over("failed").at = "failed"
  BY HookReturns DEF HookAts
<1>3. hook' = [hook EXCEPT ![n] = Over("failed")] /\ hook'[n].at = "failed"
  BY <1>1, <1>2 DEF NotPosted
<1>4. /\ UNCHANGED << notify, launched, ringing, endpoint, steady, logVars, before >>
      /\ posted' = [posted EXCEPT ![n] = posted[n]] /\ lost' = [lost EXCEPT ![n] = lost[n]]
      /\ posted'[n] = lost'[n] /\ n =< launched' /\ launched' \in Nat /\ n \in Nat
  BY <1>1 DEF NotPosted, NoteInv, HookInv, NotifierTypeOK, Notes
<1>5. NoteInv(n)'
  BY <1>3, <1>4, <1>1 DEF NoteInv, Live
<1> QED
  BY <1>1, <1>2, <1>3, <1>4, <1>5, OneHook

LEMMA CutKeeps ==
  ASSUME NotifierBounds, HookInv, NEW n \in Notes, Cut(n)
  PROVE  HookInv'
<1> USE Durations
<1>1. /\ NoteInv(n) /\ hook[n].spent \in Nat /\ steady[n] \in Nat
      /\ posted \in [Notes -> Nat] /\ lost \in [Notes -> Nat]
      /\ posted[n] \in Nat /\ lost[n] \in Nat
  BY DEF HookInv, NotifierTypeOK, Hooks
<1>2. hook[n].at \in {"post", "hung"} /\ (hook[n].at = "hung" \/ CtxDone(n))
  BY DEF Cut, IsCut
<1>3. steady[n] =< Timeout \/ (CtxDone(n) /\ steady[n] =< Timeout + Pause)
  BY <1>1, <1>2 DEF NoteInv
<1>4. posted[n] = lost[n] + (IF hook[n].taken THEN 1 ELSE 0)
  BY <1>1, <1>2 DEF NoteInv
<1>5. posted' = [posted EXCEPT ![n] = posted[n]] /\ lost' = [lost EXCEPT ![n] = posted[n]]
  <2>1. CASE hook[n].taken
    BY <1>1, <1>4, <2>1 DEF Cut
  <2>2. CASE ~ hook[n].taken
    BY <1>1, <1>4, <2>2 DEF Cut
  <2> QED
    BY <2>1, <2>2
<1> QED
  BY <1>1, <1>2, <1>3, <1>5, FailedAttempt DEF Cut

LEMMA TryAgainKeeps ==
  ASSUME NotifierBounds, HookInv, NEW n \in Notes, TryAgain(n)
  PROVE  HookInv'
<1> USE Durations
<1>1. /\ hook[n] \in Hooks /\ posted[n] \in Nat /\ lost[n] \in Nat /\ steady[n] \in Nat
      /\ hook \in [Notes -> Hooks] /\ NoteInv(n) /\ hook[n].attempt \in 1 .. Attempts
      /\ hook[n].spent \in Nat
  BY DEF HookInv, NotifierTypeOK, Hooks
<1>2. hook[n].at = "pause" /\ hook[n].spent >= Pause
  BY DEF TryAgain, PauseIsOver
<1>3. /\ hook[n].attempt < Attempts /\ steady[n] =< Timeout + Pause /\ posted[n] = lost[n]
      /\ ~ hook[n].taken
      /\ hook[n].age =< Deadline /\ (endpoint # "up" => steady[n] = 0) /\ n =< launched
  BY <1>1, <1>2 DEF NoteInv, Live, HookInv, NotifierTypeOK, Notes
<1> DEFINE g == [hook[n] EXCEPT !.at = "post", !.spent = 0, !.attempt = @ + 1]
<1>4. g \in Hooks /\ g.at = "post" /\ g.spent = 0 /\ g.age = hook[n].age /\ ~ g.taken
  <2>1. hook[n].attempt + 1 \in 1 .. Attempts
    BY <1>1, <1>3
  <2> QED
    BY <1>1, <1>3, <2>1, HookRetries
<1>5. hook' = [hook EXCEPT ![n] = g] /\ hook'[n] = g
  BY <1>1 DEF TryAgain
<1>6. /\ UNCHANGED << notify, launched, ringing, endpoint, steady, logVars, before >>
      /\ posted' = [posted EXCEPT ![n] = posted[n]] /\ lost' = [lost EXCEPT ![n] = lost[n]]
      /\ posted'[n] = posted[n] /\ lost'[n] = lost[n]
  BY DEF TryAgain, HookInv, NotifierTypeOK
<1> HIDE DEF g
<1>7. NoteInv(n)'
  <2>1. /\ hook'[n].at = "post" /\ hook'[n].spent = 0 /\ hook'[n].age =< Deadline
        /\ ~ hook'[n].taken
    BY <1>3, <1>4, <1>5
  <2>2. /\ launched' \in Nat /\ n \in Nat /\ n =< launched'
        /\ endpoint' = endpoint /\ steady'[n] = steady[n] /\ posted'[n] = lost'[n]
    BY <1>3, <1>6 DEF HookInv, NotifierTypeOK, Notes
  <2> QED
    BY <1>1, <1>3, <1>6, <2>1, <2>2 DEF NoteInv, Live
<1> QED
  BY <1>1, <1>4, <1>5, <1>6, <1>7, OneHook

LEMMA GiveUpKeeps ==
  ASSUME NotifierBounds, HookInv, NEW n \in Notes, GiveUp(n)
  PROVE  HookInv'
<1> USE Durations
<1>1. /\ hook[n] \in Hooks /\ posted[n] \in Nat /\ lost[n] \in Nat
      /\ hook \in [Notes -> Hooks] /\ NoteInv(n) /\ hook[n].at = "pause"
  BY DEF HookInv, NotifierTypeOK, GiveUp, Abandons
<1> DEFINE g == Over("failed")
<1>2. g \in Hooks /\ g.at = "failed"
  BY HookReturns DEF HookAts
<1>3. hook' = [hook EXCEPT ![n] = g] /\ hook'[n] = g
  BY <1>1 DEF GiveUp
<1>4. /\ UNCHANGED << notify, launched, ringing, endpoint, steady, logVars, before >>
      /\ posted' = [posted EXCEPT ![n] = posted[n]] /\ lost' = [lost EXCEPT ![n] = lost[n]]
      /\ posted'[n] = posted[n] /\ lost'[n] = lost[n]
  BY DEF GiveUp, HookInv, NotifierTypeOK
<1>5. posted[n] = lost[n] /\ n =< launched
  BY <1>1 DEF NoteInv, HookInv, NotifierTypeOK, Notes
<1> HIDE DEF g
<1>6. NoteInv(n)'
  <2>1. launched' \in Nat /\ n \in Nat
    BY <1>4 DEF HookInv, NotifierTypeOK, Notes
  <2> QED
    BY <1>1, <1>2, <1>3, <1>4, <1>5, <2>1 DEF NoteInv, Live
<1> QED
  BY <1>1, <1>2, <1>3, <1>4, <1>6, OneHook

(* A step of the log file's goroutine of one note.                         *)
LEMMA LogStepKeeps ==
  ASSUME NotifierBounds, HookInv, NEW n \in Notes, LogStep(n)
  PROVE  HookInv'
<1> USE Durations
<1>1. /\ UNCHANGED << notify, launched, ringing, hookVars, endpoint, before >> /\ log[n] # "none"
      /\ \E to \in {"locked", "open", "written", "error"} : log' = [log EXCEPT ![n] = to]
      /\ mu' \in {mu, n, 0} /\ lines' \in {lines, Append(lines, n)}
  BY DEF LogStep, LockLog, OpenLog, WriteLog, LogFails
<1>2. NotifierTypeOK'
  <2>1. log' \in [Notes -> {"none", "wait", "locked", "open", "written", "error"}]
    BY <1>1 DEF HookInv, NotifierTypeOK
  <2>2. mu' \in Notes \cup {0}
    BY <1>1 DEF HookInv, NotifierTypeOK
  <2>3. lines' \in Seq(Notes)
    <3>1. lines \in Seq(Notes) /\ (lines' = lines \/ lines' = Append(lines, n))
      BY <1>1 DEF HookInv, NotifierTypeOK
    <3>2. Append(lines, n) \in Seq(Notes)
      BY <3>1
    <3> QED
      BY <3>1, <3>2
  <2> QED
    BY <1>1, <2>1, <2>2, <2>3 DEF HookInv, NotifierTypeOK, hookVars
<1>3. ASSUME NEW m \in Notes, log[m] = "none" PROVE log'[m] = "none"
  BY <1>1, <1>3 DEF HookInv, NotifierTypeOK
<1> QED
  BY <1>1, <1>2, <1>3, HookKept

LEMMA HookNext == NotifierBounds /\ HookInv /\ [NotifierNext]_notifierVars => HookInv'
<1> SUFFICES ASSUME NotifierBounds, HookInv, [NotifierNext]_notifierVars PROVE HookInv'
  OBVIOUS
<1>1. CASE Launch
  BY <1>1, LaunchKeeps
<1>2. CASE Ring
  <2>1. NotifierTypeOK' /\ UNCHANGED << launched, hookVars, endpoint >> /\ log' = log
    BY <1>2 DEF HookInv, NotifierTypeOK, Ring, hookVars, logVars
  <2> QED
    BY <2>1, HookKept
<1>3. CASE Turn
  BY <1>3, TurnKeeps
<1>4. CASE NotifierTick
  BY <1>4, TickKeeps
<1>5. CASE \E n \in Notes : HookStep(n)
  BY <1>5, NotPostedKeeps, AcceptKeeps, RefuseKeeps, HangKeeps, CutKeeps, TryAgainKeeps, GiveUpKeeps
     DEF HookStep
<1>6. CASE \E n \in Notes : LogStep(n)
  BY <1>6, LogStepKeeps
<1>7. CASE UNCHANGED notifierVars
  <2>1. NotifierTypeOK' /\ UNCHANGED << launched, hookVars, endpoint >> /\ log' = log
    BY <1>7 DEF HookInv, NotifierTypeOK, notifierVars, hookVars, logVars
  <2> QED
    BY <2>1, HookKept
<1> QED
  BY <1>1, <1>2, <1>3, <1>4, <1>5, <1>6, <1>7 DEF NotifierNext

LEMMA HookAlways == NotifierSpec => []HookInv
<1> USE NotifierAssumption
<1>1. NotifierInit => HookInv
  BY HookInit
<1>2. HookInv /\ [NotifierNext]_notifierVars => HookInv'
  BY HookNext
<1> QED
  BY <1>1, <1>2, PTL DEF NotifierSpec

(* The webhook's and the log file's goroutines keep their types, at every  *)
(* moment and for every number of notes under way.                         *)
THEOREM NotifiersTyped == NotifierSpec => []NotifierTypeOK
<1> USE NotifierAssumption
<1>1. HookInv => NotifierTypeOK
  BY DEF HookInv
<1> QED
  BY <1>1, HookAlways, PTL

(* An endpoint that stays up for a timeout and a pause has every note that *)
(* is not settled yet, at whatever attempt it came back.                   *)
THEOREM EndpointReached == NotifierSpec => []RecoveredEndpointIsReached
<1> USE NotifierAssumption
<1>1. HookInv => RecoveredEndpointIsReached
  <2> SUFFICES ASSUME HookInv, NEW n \in Notes, Live(n) PROVE steady[n] =< Timeout + Pause
    BY DEF RecoveredEndpointIsReached
  <2>1. NoteInv(n) /\ steady[n] \in Nat /\ hook[n].spent \in Nat
    BY DEF HookInv, NotifierTypeOK, Hooks
  <2> QED
    BY <2>1, Durations DEF NoteInv, Live
<1> QED
  BY <1>1, HookAlways, PTL

(* No notification outlives the deadline of its context.                   *)
THEOREM DeadlineKept == NotifierSpec => []DeadlineIsKept
<1> USE NotifierAssumption
<1>1. HookInv => DeadlineIsKept
  BY DEF HookInv, NoteInv, DeadlineIsKept
<1> QED
  BY <1>1, HookAlways, PTL

(* For any number of notes and any durations: the endpoint holds at most   *)
(* one copy of a note more than attempts it took and that ended without a  *)
(* 2xx the webhook saw (late, another status, a reset); Notify reports     *)
(* success with exactly that one more, and an error with none.             *)
THEOREM RepeatedWhenUnsure == NotifierSpec => []RepeatedOnlyWhenUnsure
<1> USE NotifierAssumption
<1>1. HookInv => RepeatedOnlyWhenUnsure
  <2> SUFFICES ASSUME HookInv, NEW n \in Notes
               PROVE  /\ posted[n] =< lost[n] + 1
                      /\ hook[n].at = "sent" => posted[n] = lost[n] + 1
                      /\ hook[n].at = "failed" => posted[n] = lost[n]
    BY DEF RepeatedOnlyWhenUnsure
  <2>1. NoteInv(n) /\ lost[n] \in Nat
    BY DEF HookInv, NotifierTypeOK
  <2> QED
    BY <2>1 DEF NoteInv
<1> QED
  BY <1>1, HookAlways, PTL

-----------------------------------------------------------------------------
(* What was written when a note was launched is still written, and only    *)
(* what is launched is in the file.                                        *)
LogInv ==
    /\ LogTellsSettledNotes
    /\ \A n \in Notes : before[n] \subseteq {m \in Notes : log[m] = "written"}

LEMMA LogInit == NotifierInit => LogInv
  BY DEF NotifierInit, LogInv, LogTellsSettledNotes

(* A step that writes no line and launches nothing.                        *)
LEMMA LogUnwritten ==
  ASSUME LogInv, UNCHANGED << lines, before >>,
         \A n \in Notes : log'[n] = "written" <=> log[n] = "written"
  PROVE  LogInv'
  BY DEF LogInv, LogTellsSettledNotes

LEMMA LogLaunch == ASSUME NotifierBounds, HookInv, LogInv, Launch PROVE LogInv'
<1>1. PICK new \in Notes : new = launched + 1
  <2>1. launched \in 0 .. MaxNotes /\ launched < MaxNotes
    BY DEF HookInv, NotifierTypeOK, Launch
  <2>2. launched + 1 \in Notes
    BY <2>1, Durations DEF Notes
  <2> QED
    BY <2>2
<1>2. log[new] = "none"
  <2>1. NoteInv(new) /\ new > launched
    BY <1>1 DEF HookInv, NotifierTypeOK
  <2> QED
    BY <2>1 DEF NoteInv
<1>3. /\ \A n \in Notes : log'[n] = "written" <=> log[n] = "written"
      /\ before' = [before EXCEPT ![new] = {m \in Notes : log[m] = "written"}]
      /\ lines' = lines
  BY <1>1, <1>2 DEF Launch, HookInv, NotifierTypeOK
<1>4. \A i \in DOMAIN lines : lines[i] # new /\ lines[i] \in Notes
  <2>1. lines \in Seq(Notes)
    BY DEF HookInv, NotifierTypeOK
  <2>2. \A i \in DOMAIN lines : lines[i] \in Notes
    BY <2>1
  <2> QED
    BY <1>2, <2>2 DEF LogInv, LogTellsSettledNotes
<1>5. \A n \in Notes : n # new => before'[n] = before[n]
  BY <1>3 DEF HookInv, NotifierTypeOK
<1>6. before'[new] = {m \in Notes : log[m] = "written"}
  BY <1>3 DEF HookInv, NotifierTypeOK
<1> QED
  BY <1>3, <1>4, <1>5, <1>6 DEF LogInv, LogTellsSettledNotes

LEMMA LogWrite ==
  ASSUME NotifierBounds, HookInv, LogInv, NEW n \in Notes, WriteLog(n)
  PROVE  LogInv'
<1> DEFINE k == Len(lines)
<1>1. lines \in Seq(Notes) /\ k \in Nat /\ log[n] = "open" /\ before' = before
  BY DEF HookInv, NotifierTypeOK, WriteLog
<1>2. /\ DOMAIN lines = 1 .. k /\ DOMAIN lines' = 1 .. (k + 1) /\ lines'[k + 1] = n
      /\ \A i \in 1 .. k : lines'[i] = lines[i] /\ lines[i] \in Notes
  BY <1>1 DEF WriteLog
<1>3. /\ log'[n] = "written"
      /\ \A m \in Notes : m # n => log'[m] = log[m]
  BY DEF WriteLog, HookInv, NotifierTypeOK
<1>4. \A i \in 1 .. k : lines[i] # n
  BY <1>1, <1>2 DEF LogInv, LogTellsSettledNotes
<1>5. \A m \in Notes : n \notin before[m]
  BY <1>1 DEF LogInv
<1>6. ASSUME NEW m \in Notes
      PROVE  log'[m] = "written" <=> \E i \in DOMAIN lines' : lines'[i] = m
  <2>1. CASE m = n
    BY <1>1, <1>2, <1>3, <2>1
  <2>2. CASE m # n
    <3>1. (\E i \in DOMAIN lines' : lines'[i] = m) <=> \E i \in DOMAIN lines : lines[i] = m
      BY <1>1, <1>2, <2>2
    <3> QED
      BY <1>3, <2>2, <3>1 DEF LogInv, LogTellsSettledNotes
  <2> QED
    BY <2>1, <2>2
<1>7. ASSUME NEW i \in DOMAIN lines', NEW j \in DOMAIN lines', i < j
      PROVE  lines'[i] # lines'[j] /\ lines'[j] \notin before'[lines'[i]]
  <2>1. i \in 1 .. k /\ lines'[i] = lines[i] /\ lines[i] \in Notes
    BY <1>1, <1>2, <1>7
  <2>2. CASE j = k + 1
    BY <1>1, <1>2, <1>4, <1>5, <2>1, <2>2
  <2>3. CASE j \in 1 .. k
    BY <1>1, <1>2, <1>7, <2>1, <2>3 DEF LogInv, LogTellsSettledNotes
  <2> QED
    BY <1>1, <1>2, <2>2, <2>3
<1>8. ASSUME NEW m \in Notes PROVE before'[m] \subseteq {o \in Notes : log'[o] = "written"}
  BY <1>1, <1>3 DEF LogInv
<1> QED
  BY <1>6, <1>7, <1>8 DEF LogInv, LogTellsSettledNotes

LEMMA LogNext ==
    NotifierBounds /\ HookInv /\ LogInv /\ [NotifierNext]_notifierVars => LogInv'
<1> SUFFICES ASSUME NotifierBounds, HookInv, LogInv, [NotifierNext]_notifierVars PROVE LogInv'
  OBVIOUS
<1>1. CASE Launch
  BY <1>1, LogLaunch
<1>2. CASE Ring \/ Turn \/ NotifierTick \/ \E n \in Notes : HookStep(n)
  <2>1. UNCHANGED << logVars, before >>
    BY <1>2 DEF Ring, Turn, NotifierTick, HookStep, NotPosted, Accept,
           Refuse, Hang, Cut, TryAgain, GiveUp
  <2> QED
    BY <2>1, LogUnwritten DEF logVars
<1>3. ASSUME NEW n \in Notes, LogStep(n) PROVE LogInv'
  <2>1. CASE WriteLog(n)
    BY <2>1, LogWrite
  <2>2. CASE LockLog(n) \/ OpenLog(n) \/ LogFails(n)
    <3>1. /\ UNCHANGED << lines, before >> /\ log[n] # "written"
          /\ \E to \in {"locked", "open", "error"} : log' = [log EXCEPT ![n] = to]
      BY <2>2 DEF LockLog, OpenLog, LogFails
    <3>2. \A m \in Notes : log'[m] = "written" <=> log[m] = "written"
      BY <3>1 DEF HookInv, NotifierTypeOK
    <3> QED
      BY <3>1, <3>2, LogUnwritten
  <2> QED
    BY <1>3, <2>1, <2>2 DEF LogStep
<1>4. CASE UNCHANGED notifierVars
  BY <1>4, LogUnwritten DEF notifierVars, logVars
<1> QED
  BY <1>1, <1>2, <1>3, <1>4 DEF NotifierNext

(* The log file keeps one line for each note written, and none of those    *)
(* that were settled when another was launched stands below it.            *)
THEOREM LogTells == NotifierSpec => []LogTellsSettledNotes
<1> USE NotifierAssumption
<1>1. LogInv => LogTellsSettledNotes
  BY DEF LogInv
<1>2. HookInv /\ LogInv /\ [NotifierNext]_notifierVars => LogInv'
  BY LogNext
<1> QED
  BY <1>1, <1>2, HookAlways, LogInit, PTL DEF NotifierSpec
=============================================================================
