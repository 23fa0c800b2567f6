----------------------------- MODULE ListProofs -----------------------------
(***************************************************************************)
(* What the lists of the other modules are made with: filtering a sequence *)
(* and joining sequences commute with Append.  Both are defined by         *)
(* recursion; the facts about them follow from induction on a set of       *)
(* numbers, which the well-foundedness of < gives.                         *)
(***************************************************************************)
EXTENDS Lists, SequencesExt, WellFoundedInduction, TLAPS

(* A set with zero that is closed under successor has every number. *)
LEMMA SetInduction ==
  ASSUME NEW S \in SUBSET Nat, 0 \in S, \A n \in S : n + 1 \in S
  PROVE  S = Nat
<1> DEFINE out == Nat \ S
<1>1. SUFFICES ASSUME out # {} PROVE FALSE
  OBVIOUS
<1>2. PICK c \in out : \A d \in out : ~ (<< d, c >> \in OpToRel(<, Nat))
  <2>1. out \subseteq Nat
    OBVIOUS
  <2> HIDE DEF out
  <2> QED
    BY <1>1, <2>1, WFMin, NatLessThanWellFounded
<1>3. c # 0 /\ c - 1 \in Nat /\ c - 1 < c
  OBVIOUS
<1>4. c - 1 \in out
  OBVIOUS
<1> QED
  BY <1>2, <1>3, <1>4 DEF OpToRel

(* The same, up to a bound and from any first number. *)
LEMMA SetInductionUpTo ==
  ASSUME NEW m \in Nat, NEW n \in Nat, NEW S,
         m =< n => m \in S, \A i \in m .. n - 1 : i \in S => i + 1 \in S
  PROVE  m .. n \subseteq S
<1> DEFINE T == {i \in Nat : m + i =< n => m + i \in S}
<1>1. 0 \in T
  OBVIOUS
<1>2. ASSUME NEW i \in T PROVE i + 1 \in T
  <2>1. CASE m + i + 1 =< n
    <3>1. m + i \in m .. n - 1 /\ m + i \in S
      BY <2>1
    <3> QED
      BY <3>1
  <2> QED
    BY <2>1
<1>3. T = Nat
  <2> HIDE DEF T
  <2>1. T \in SUBSET Nat
    BY DEF T
  <2> QED
    BY <1>1, <1>2, <2>1, SetInduction
<1>4. ASSUME NEW j \in m .. n PROVE j \in S
  <2>1. j - m \in Nat /\ m + (j - m) = j /\ j =< n
    OBVIOUS
  <2>2. j - m \in T
    BY <1>3, <2>1
  <2> QED
    BY <2>1, <2>2
<1> QED
  BY <1>4

(* A set of numbers with an element has a least one. *)
LEMMA LeastIsIn ==
  ASSUME NEW S \in SUBSET Nat, S # {}
  PROVE  Min(S) \in S /\ \A n \in S : Min(S) =< n
<1>1. PICK c \in S : \A d \in S : ~ (<< d, c >> \in OpToRel(<, Nat))
  <2>1. S \subseteq Nat
    OBVIOUS
  <2> QED
    BY <2>1, WFMin, NatLessThanWellFounded
<1>2. ASSUME NEW d \in S PROVE c =< d
  <2>1. d \in Nat /\ c \in Nat
    OBVIOUS
  <2>2. SUFFICES ASSUME d < c PROVE FALSE
    BY <2>1
  <2> QED
    BY <1>1, <2>1, <2>2 DEF OpToRel
<1> QED
  BY <1>2 DEF Min

-----------------------------------------------------------------------------
(* The recursion of Kept, as a property of a function. *)
IsKept(f, s, S) ==
    /\ f[0] = << >>
    /\ \A n \in 1 .. Len(s) :
          f[n] = IF s[n] \in S THEN Append(f[n - 1], s[n]) ELSE f[n - 1]

(* There is such a function, and Kept is where it ends. *)
LEMMA KeptByRecursion ==
  ASSUME NEW X, NEW s \in Seq(X), NEW S
  PROVE  \E f \in [0 .. Len(s) -> Seq(X)] : IsKept(f, s, S) /\ Kept(s, S) = f[Len(s)]
<1> DEFINE N == Len(s)
           Step(f, n) == IF n = 0 THEN << >>
                         ELSE IF s[n] \in S THEN Append(f[n - 1], s[n]) ELSE f[n - 1]
           Upto(m) == {f \in [0 .. m -> Seq(X)] : \A n \in 0 .. m : f[n] = Step(f, n)}
           T == {m \in 0 .. N : Upto(m) # {}}
<1>1. 0 \in T
  <2> DEFINE g == [i \in 0 .. 0 |-> << >>]
  <2>1. g \in [0 .. 0 -> Seq(X)]
    OBVIOUS
  <2>2. \A n \in 0 .. 0 : g[n] = Step(g, n)
    OBVIOUS
  <2>3. g \in Upto(0)
    BY <2>1, <2>2
  <2>4. 0 \in 0 .. N
    OBVIOUS
  <2> QED
    BY <2>3, <2>4
<1>2. ASSUME NEW m \in 0 .. N - 1, m \in T PROVE m + 1 \in T
  <2>1. PICK f \in [0 .. m -> Seq(X)] : \A n \in 0 .. m : f[n] = Step(f, n)
    BY <1>2
  <2> DEFINE g == [n \in 0 .. m + 1 |-> IF n = m + 1 THEN Step(f, n) ELSE f[n]]
  <2>2. s[m + 1] \in X /\ f[m] \in Seq(X)
    OBVIOUS
  <2>3. g \in [0 .. m + 1 -> Seq(X)]
    BY <2>2
  <2>4. ASSUME NEW n \in 0 .. m + 1 PROVE g[n] = Step(g, n)
    <3>1. n = 0 \/ n - 1 \in 0 .. m
      OBVIOUS
    <3>2. CASE n = m + 1
      <4>1. g[n] = Step(f, n) /\ g[n - 1] = f[n - 1]
        BY <3>2
      <4> QED
        BY <3>2, <4>1
    <3>3. CASE n # m + 1
      <4>1. n \in 0 .. m /\ g[n] = f[n] /\ (n # 0 => g[n - 1] = f[n - 1])
        BY <3>3
      <4> QED
        BY <4>1, <2>1
    <3> QED
      BY <3>2, <3>3
  <2>5. g \in Upto(m + 1)
    <3> HIDE DEF g
    <3> QED
      BY <2>3, <2>4
  <2>6. m + 1 \in 0 .. N
    OBVIOUS
  <2> QED
    BY <2>5, <2>6
<1>3. N \in T
  <2>1. N \in Nat
    OBVIOUS
  <2> HIDE DEF T, N
  <2>2. 0 .. N \subseteq T
    BY <1>1, <1>2, <2>1, SetInductionUpTo
  <2> QED
    BY <2>1, <2>2
<1>4. PICK f \in [0 .. N -> Seq(X)] : \A n \in 0 .. N : f[n] = Step(f, n)
  BY <1>3
<1>5. f = [n \in 0 .. N |-> IF n = 0 THEN << >>
                            ELSE IF s[n] \in S THEN Append(f[n - 1], s[n]) ELSE f[n - 1]]
  BY <1>4
<1> DEFINE kept == CHOOSE k : k = [n \in 0 .. N |-> IF n = 0 THEN << >>
                            ELSE IF s[n] \in S THEN Append(k[n - 1], s[n]) ELSE k[n - 1]]
<1>6. kept = [n \in 0 .. N |-> IF n = 0 THEN << >>
                       ELSE IF s[n] \in S THEN Append(kept[n - 1], s[n]) ELSE kept[n - 1]]
  BY <1>5
<1>7. Kept(s, S) = kept[N]
  BY DEF Kept
<1>8. f[N] = kept[N]
  <2> HIDE DEF kept
  <2> DEFINE U == {n \in 0 .. N : f[n] = kept[n]}
  <2>0. N \in Nat
    OBVIOUS
  <2>1. f[0] = kept[0]
    <3>1. f[0] = << >>
      BY <1>4, <2>0
    <3>2. kept[0] = << >>
      <4> HIDE DEF N
      <4> QED
        BY <1>6, <2>0
    <3> QED
      BY <3>1, <3>2
  <2>2. ASSUME NEW n \in 0 .. N - 1, f[n] = kept[n] PROVE f[n + 1] = kept[n + 1]
    <3> HIDE DEF N
    <3>1. n + 1 \in 0 .. N /\ n + 1 # 0 /\ (n + 1) - 1 = n
      BY <2>0
    <3>2. f[n + 1] = IF s[n + 1] \in S THEN Append(f[n], s[n + 1]) ELSE f[n]
      BY <1>4, <3>1
    <3>3. kept[n + 1] = IF s[n + 1] \in S THEN Append(kept[n], s[n + 1]) ELSE kept[n]
      BY <1>6, <3>1
    <3> QED
      BY <2>2, <3>2, <3>3
  <2> HIDE DEF N
  <2>3. 0 \in U /\ \A n \in 0 .. N - 1 : n \in U => n + 1 \in U
    BY <2>0, <2>1, <2>2
  <2> HIDE DEF U
  <2>4. 0 .. N \subseteq U
    BY <2>0, <2>3, SetInductionUpTo
  <2> QED
    BY <2>0, <2>4 DEF U
<1>9. IsKept(f, s, S)
  <2>1. f[0] = << >>
    BY <1>4
  <2>2. ASSUME NEW n \in 1 .. Len(s)
        PROVE  f[n] = IF s[n] \in S THEN Append(f[n - 1], s[n]) ELSE f[n - 1]
    <3>1. n \in 0 .. N /\ n # 0
      OBVIOUS
    <3> QED
      BY <1>4, <3>1
  <2> QED
    BY <2>1, <2>2 DEF IsKept
<1> QED
  BY <1>7, <1>8, <1>9

(* What is kept of a sequence is a sequence of its elements. *)
LEMMA KeptTyped ==
  ASSUME NEW X, NEW s \in Seq(X), NEW S
  PROVE  Kept(s, S) \in Seq(X)
  BY KeptByRecursion

(* Of nothing, nothing is kept. *)
LEMMA KeptEmpty ==
  ASSUME NEW S
  PROVE  Kept(<< >>, S) = << >>
<1>1. << >> \in Seq({}) /\ Len(<< >>) = 0
  OBVIOUS
<1>2. PICK f \in [0 .. Len(<< >>) -> Seq({})] : IsKept(f, << >>, S) /\ Kept(<< >>, S) = f[Len(<< >>)]
  BY <1>1, KeptByRecursion
<1> QED
  BY <1>1, <1>2 DEF IsKept

(* An element more is kept at the end, or is not. *)
LEMMA KeptAppend ==
  ASSUME NEW X, NEW s \in Seq(X), NEW x \in X, NEW S
  PROVE  Kept(Append(s, x), S) = IF x \in S THEN Append(Kept(s, S), x) ELSE Kept(s, S)
<1> DEFINE N == Len(s)
           sx == Append(s, x)
<1>1. N \in Nat /\ sx \in Seq(X) /\ Len(sx) = N + 1 /\ sx[N + 1] = x
      /\ \A n \in 1 .. N : sx[n] = s[n]
  OBVIOUS
<1>2. PICK f \in [0 .. N -> Seq(X)] : IsKept(f, s, S) /\ Kept(s, S) = f[N]
  BY KeptByRecursion
<1> HIDE DEF sx
<1>0. N \in Nat
  OBVIOUS
<1> HIDE DEF N
<1>3. PICK g \in [0 .. Len(sx) -> Seq(X)] : IsKept(g, sx, S) /\ Kept(sx, S) = g[Len(sx)]
  BY <1>1, KeptByRecursion
<1>4. f[N] = g[N]
  <2> DEFINE U == {n \in 0 .. N : f[n] = g[n]}
  <2>1. f[0] = g[0]
    BY <1>2, <1>3 DEF IsKept
  <2>2. ASSUME NEW n \in 0 .. N - 1, f[n] = g[n] PROVE f[n + 1] = g[n + 1]
    <3>1. n + 1 \in 1 .. N /\ n + 1 \in 1 .. N + 1 /\ (n + 1) - 1 = n
      BY <1>0
    <3>2. f[n + 1] = IF s[n + 1] \in S THEN Append(f[n], s[n + 1]) ELSE f[n]
      BY <1>2, <3>1 DEF IsKept, N
    <3>3. g[n + 1] = IF s[n + 1] \in S THEN Append(g[n], s[n + 1]) ELSE g[n]
      BY <1>1, <1>3, <3>1 DEF IsKept
    <3> QED
      BY <2>2, <3>2, <3>3
  <2>3. 0 \in U /\ \A n \in 0 .. N - 1 : n \in U => n + 1 \in U
    BY <1>0, <2>1, <2>2
  <2> HIDE DEF U
  <2>4. 0 .. N \subseteq U
    BY <1>0, <2>3, SetInductionUpTo
  <2> QED
    BY <1>0, <2>4 DEF U
<1>5. g[N + 1] = IF x \in S THEN Append(g[N], x) ELSE g[N]
  <2>1. N + 1 \in 1 .. N + 1 /\ (N + 1) - 1 = N
    BY <1>1
  <2> QED
    BY <1>1, <1>3, <2>1 DEF IsKept
<1> QED
  BY <1>1, <1>2, <1>3, <1>4, <1>5 DEF sx

-----------------------------------------------------------------------------
(* The recursion of FlattenSeq, as a property of a function. *)
IsFlat(f, ss) ==
    \A n \in 1 .. Len(ss) : f[n] = IF n = 1 THEN ss[n] ELSE f[n - 1] \o ss[n]

(* There is such a function, and FlattenSeq is where it ends. *)
LEMMA FlattenByRecursion ==
  ASSUME NEW X, NEW ss \in Seq(Seq(X)), ss # << >>
  PROVE  \E f \in [1 .. Len(ss) -> Seq(X)] : IsFlat(f, ss) /\ FlattenSeq(ss) = f[Len(ss)]
<1> DEFINE N == Len(ss)
           Step(f, n) == IF n = 1 THEN ss[n] ELSE f[n - 1] \o ss[n]
           Upto(m) == {f \in [1 .. m -> Seq(X)] : \A n \in 1 .. m : f[n] = Step(f, n)}
           T == {m \in 1 .. N : Upto(m) # {}}
<1>0. N \in Nat \ {0}
  OBVIOUS
<1>1. 1 \in T
  <2> DEFINE g == [i \in 1 .. 1 |-> ss[1]]
  <2>1. g \in [1 .. 1 -> Seq(X)]
    BY <1>0
  <2>2. \A n \in 1 .. 1 : g[n] = Step(g, n)
    OBVIOUS
  <2>3. g \in Upto(1)
    BY <2>1, <2>2
  <2>4. 1 \in 1 .. N
    BY <1>0
  <2> QED
    BY <2>3, <2>4
<1>2. ASSUME NEW m \in 1 .. N - 1, m \in T PROVE m + 1 \in T
  <2>1. PICK f \in [1 .. m -> Seq(X)] : \A n \in 1 .. m : f[n] = Step(f, n)
    BY <1>2
  <2> DEFINE g == [n \in 1 .. m + 1 |-> IF n = m + 1 THEN Step(f, n) ELSE f[n]]
  <2>2. ss[m + 1] \in Seq(X) /\ f[m] \in Seq(X) /\ m # 0 /\ (m + 1) - 1 = m
    BY <1>0
  <2>3. g \in [1 .. m + 1 -> Seq(X)]
    BY <2>2
  <2>4. ASSUME NEW n \in 1 .. m + 1 PROVE g[n] = Step(g, n)
    <3>1. n = 1 \/ n - 1 \in 1 .. m
      OBVIOUS
    <3>2. CASE n = m + 1
      <4>1. n # 1 /\ n - 1 = m /\ m \in 1 .. m + 1 /\ m # m + 1
        BY <1>0, <3>2
      <4>2. g[n] = Step(f, n) /\ g[m] = f[m]
        BY <3>2, <4>1
      <4> QED
        BY <3>2, <4>1, <4>2
    <3>3. CASE n # m + 1
      <4>1. n \in 1 .. m /\ g[n] = f[n] /\ (n # 1 => g[n - 1] = f[n - 1])
        BY <3>3
      <4> QED
        BY <4>1, <2>1
    <3> QED
      BY <3>2, <3>3
  <2>5. g \in Upto(m + 1)
    <3> HIDE DEF g
    <3> QED
      BY <2>3, <2>4
  <2>6. m + 1 \in 1 .. N
    BY <1>0
  <2> QED
    BY <2>5, <2>6
<1>3. N \in T
  <2> HIDE DEF T, N
  <2>1. 1 .. N \subseteq T
    BY <1>0, <1>1, <1>2, SetInductionUpTo
  <2> QED
    BY <1>0, <2>1
<1>4. PICK f \in [1 .. N -> Seq(X)] : \A n \in 1 .. N : f[n] = Step(f, n)
  BY <1>3
<1>5. f = [n \in 1 .. N |-> IF n = 1 THEN ss[n] ELSE f[n - 1] \o ss[n]]
  BY <1>4
<1> DEFINE flat == CHOOSE k : k = [n \in 1 .. N |-> IF n = 1 THEN ss[n] ELSE k[n - 1] \o ss[n]]
<1>6. flat = [n \in 1 .. N |-> IF n = 1 THEN ss[n] ELSE flat[n - 1] \o ss[n]]
  BY <1>5
<1>7. FlattenSeq(ss) = flat[N]
  BY <1>0 DEF FlattenSeq
<1>8. f[N] = flat[N]
  <2> HIDE DEF flat, N
  <2> DEFINE U == {n \in 1 .. N : f[n] = flat[n]}
  <2>1. f[1] = flat[1]
    <3>1. 1 \in 1 .. N
      BY <1>0
    <3>2. f[1] = ss[1]
      BY <1>4, <3>1
    <3>3. flat[1] = ss[1]
      BY <1>6, <3>1
    <3> QED
      BY <3>2, <3>3
  <2>2. ASSUME NEW n \in 1 .. N - 1, f[n] = flat[n] PROVE f[n + 1] = flat[n + 1]
    <3>1. n + 1 \in 1 .. N /\ n + 1 # 1 /\ (n + 1) - 1 = n
      BY <1>0
    <3>2. f[n + 1] = f[n] \o ss[n + 1]
      BY <1>4, <3>1
    <3>3. flat[n + 1] = flat[n] \o ss[n + 1]
      BY <1>6, <3>1
    <3> QED
      BY <2>2, <3>2, <3>3
  <2>3. 1 \in U /\ \A n \in 1 .. N - 1 : n \in U => n + 1 \in U
    BY <1>0, <2>1, <2>2
  <2> HIDE DEF U
  <2>4. 1 .. N \subseteq U
    BY <1>0, <2>3, SetInductionUpTo
  <2> QED
    BY <1>0, <2>4 DEF U
<1>9. IsFlat(f, ss)
  BY <1>4 DEF IsFlat
<1> QED
  BY <1>7, <1>8, <1>9

(* Sequences joined are a sequence of the same elements. *)
LEMMA FlattenTyped ==
  ASSUME NEW X, NEW ss \in Seq(Seq(X))
  PROVE  FlattenSeq(ss) \in Seq(X)
<1>1. CASE ss = << >>
  <2>1. FlattenSeq(ss) = << >>
    BY <1>1 DEF FlattenSeq
  <2> QED
    BY <2>1
<1>2. CASE ss # << >>
  <2>1. PICK f \in [1 .. Len(ss) -> Seq(X)] : FlattenSeq(ss) = f[Len(ss)]
    BY <1>2, FlattenByRecursion
  <2>2. Len(ss) \in 1 .. Len(ss)
    BY <1>2
  <2> QED
    BY <2>1, <2>2
<1> QED
  BY <1>1, <1>2

(* Nothing joined is nothing. *)
LEMMA FlattenEmpty == FlattenSeq(<< >>) = << >>
  BY DEF FlattenSeq

(* A sequence more is joined at the end. *)
LEMMA FlattenAppend ==
  ASSUME NEW X, NEW ss \in Seq(Seq(X)), NEW x \in Seq(X)
  PROVE  FlattenSeq(Append(ss, x)) = FlattenSeq(ss) \o x
<1> DEFINE N == Len(ss)
           sx == Append(ss, x)
<1>1. N \in Nat /\ sx \in Seq(Seq(X)) /\ Len(sx) = N + 1 /\ sx[N + 1] = x
      /\ sx # << >> /\ \A n \in 1 .. N : sx[n] = ss[n]
  OBVIOUS
<1>0. N \in Nat
  OBVIOUS
<1> HIDE DEF sx
<1>2. PICK g \in [1 .. N + 1 -> Seq(X)] : IsFlat(g, sx) /\ FlattenSeq(sx) = g[N + 1]
  BY <1>1, FlattenByRecursion
<1>3. CASE ss = << >>
  <2>1. N = 0 /\ g[1] = x /\ FlattenSeq(sx) = g[1]
    BY <1>1, <1>2, <1>3 DEF IsFlat
  <2> QED
    BY <1>3, <2>1, FlattenEmpty DEF sx
<1>4. CASE ss # << >>
  <2>1. PICK f \in [1 .. N -> Seq(X)] : IsFlat(f, ss) /\ FlattenSeq(ss) = f[N]
    BY <1>4, FlattenByRecursion
  <2>0. N # 0
    BY <1>4
  <2>2. f[N] = g[N]
    <3> DEFINE U == {n \in 1 .. N : f[n] = g[n]}
    <3>1. f[1] = g[1]
      <4>1. 1 \in 1 .. N /\ 1 \in 1 .. N + 1
        BY <1>0, <2>0
      <4>2. f[1] = ss[1]
        BY <2>1, <4>1 DEF IsFlat
      <4>3. g[1] = sx[1]
        BY <1>1, <1>2, <4>1 DEF IsFlat
      <4> QED
        BY <1>1, <4>1, <4>2, <4>3
    <3>2. ASSUME NEW n \in 1 .. N - 1, f[n] = g[n] PROVE f[n + 1] = g[n + 1]
      <4>1. n + 1 \in 1 .. N /\ n + 1 \in 1 .. N + 1 /\ n + 1 # 1 /\ (n + 1) - 1 = n
        BY <1>1
      <4>2. f[n + 1] = f[n] \o ss[n + 1]
        BY <2>1, <4>1 DEF IsFlat
      <4>3. g[n + 1] = g[n] \o ss[n + 1]
        BY <1>1, <1>2, <4>1 DEF IsFlat
      <4> QED
        BY <3>2, <4>2, <4>3
    <3> HIDE DEF N
    <3>3. 1 \in U
      BY <1>0, <2>0, <3>1
    <3>4. ASSUME NEW n \in 1 .. N - 1, n \in U PROVE n + 1 \in U
      <4>1. f[n] = g[n]
        BY <3>4
      <4>2. f[n + 1] = g[n + 1]
        BY <3>2, <4>1
      <4>3. n + 1 \in 1 .. N
        BY <1>0
      <4> QED
        BY <4>2, <4>3
    <3> HIDE DEF U
    <3>5. 1 .. N \subseteq U
      BY <1>0, <3>3, <3>4, SetInductionUpTo
    <3> QED
      BY <1>0, <2>0, <3>5 DEF U
  <2>3. g[N + 1] = g[N] \o x
    <3>1. N + 1 \in 1 .. N + 1 /\ N + 1 # 1 /\ (N + 1) - 1 = N
      BY <1>1, <2>0
    <3> QED
      BY <1>1, <1>2, <3>1 DEF IsFlat
  <2> QED
    BY <1>2, <2>1, <2>2, <2>3 DEF sx
<1> QED
  BY <1>3, <1>4

(* An element taken out of a sequence leaves a sequence. *)
LEMMA RemoveAtTyped ==
  ASSUME NEW X, NEW s \in Seq(X), NEW i \in DOMAIN s
  PROVE  RemoveAt(s, i) \in Seq(X)
<1>1. SubSeq(s, 1, i - 1) \in Seq(X) /\ SubSeq(s, i + 1, Len(s)) \in Seq(X)
  OBVIOUS
<1> QED
  BY <1>1 DEF RemoveAt

(* Where the elements of two sequences are when they are joined. *)
LEMMA ConcatIndexed ==
  ASSUME NEW X, NEW s \in Seq(X), NEW t \in Seq(X)
  PROVE  /\ s \o t \in Seq(X) /\ Len(s \o t) = Len(s) + Len(t)
         /\ DOMAIN (s \o t) = 1 .. Len(s) + Len(t)
         /\ \A i \in 1 .. Len(s) : (s \o t)[i] = s[i]
         /\ \A i \in Len(s) + 1 .. Len(s) + Len(t) : (s \o t)[i] = t[i - Len(s)]
  OBVIOUS

(* Nothing but their elements is in it. *)
LEMMA ConcatRange ==
  ASSUME NEW X, NEW s \in Seq(X), NEW t \in Seq(X)
  PROVE  Range(s \o t) = Range(s) \cup Range(t)
<1>1. ASSUME NEW i \in 1 .. Len(s) + Len(t)
      PROVE  (s \o t)[i] \in Range(s) \cup Range(t)
  <2>1. CASE i \in 1 .. Len(s)
    BY <2>1, ConcatIndexed DEF Range
  <2>2. CASE i \notin 1 .. Len(s)
    <3>1. i \in Len(s) + 1 .. Len(s) + Len(t) /\ i - Len(s) \in DOMAIN t
      BY <2>2
    <3> QED
      BY <3>1, ConcatIndexed DEF Range
  <2> QED
    BY <2>1, <2>2
<1>2. ASSUME NEW i \in 1 .. Len(s) PROVE s[i] \in Range(s \o t)
  <2>1. i \in DOMAIN (s \o t) /\ (s \o t)[i] = s[i]
    BY ConcatIndexed
  <2> QED
    BY <2>1 DEF Range
<1>3. ASSUME NEW i \in 1 .. Len(t) PROVE t[i] \in Range(s \o t)
  <2>1. Len(s) + i \in Len(s) + 1 .. Len(s) + Len(t) /\ (Len(s) + i) - Len(s) = i
        /\ Len(s) + i \in 1 .. Len(s) + Len(t)
    OBVIOUS
  <2>2. Len(s) + i \in DOMAIN (s \o t) /\ (s \o t)[Len(s) + i] = t[i]
    BY <2>1, ConcatIndexed
  <2> QED
    BY <2>2 DEF Range
<1>4. DOMAIN s = 1 .. Len(s) /\ DOMAIN t = 1 .. Len(t) /\ DOMAIN (s \o t) = 1 .. Len(s) + Len(t)
  BY ConcatIndexed
<1>5. Range(s \o t) \subseteq Range(s) \cup Range(t)
  BY <1>1, <1>4 DEF Range
<1>6. Range(s) \subseteq Range(s \o t) /\ Range(t) \subseteq Range(s \o t)
  BY <1>2, <1>3, <1>4 DEF Range
<1> QED
  BY <1>5, <1>6
=============================================================================
