---------------------------- MODULE SequenceLemmas ----------------------------
(***************************************************************************)
(* Facts about loops over sequences that the proofs of the components      *)
(* cite: induction over the naturals with a set for the property, the      *)
(* existence of what a loop computes, what Filter keeps, and that a finite *)
(* set can be put in order.                                                *)
(***************************************************************************)
EXTENDS Filters, Integers, FiniteSets, Functions, FiniteSetTheorems, FunctionTheorems, TLAPS

\* Induction, the property being a set: a set of naturals without a number
\* would have one less element than itself, counted down from that number.
LEMMA SetInduction ==
    ASSUME NEW S, 0 \in S, \A n \in Nat : n \in S => n + 1 \in S
    PROVE  Nat \subseteq S
<1> SUFFICES ASSUME NEW k \in Nat, k \notin S PROVE FALSE
    OBVIOUS
<1> DEFINE T == {n \in 0 .. k : n \notin S}
<1> DEFINE f == [n \in T |-> n - 1]
<1>1. IsFiniteSet(T)
  <2>1. IsFiniteSet(0 .. k) BY FS_Interval
  <2>2. T \in SUBSET (0 .. k) OBVIOUS
  <2> HIDE DEF T
  <2> QED BY <2>1, <2>2, FS_Subset
<1>2. k \in T OBVIOUS
<1>3. \A n \in T : n \in Nat /\ n # 0 /\ n - 1 \in T \ {k}
  <2>1. \A n \in T : n \in Nat /\ n # 0 /\ n <= k OBVIOUS
  <2>2. ASSUME NEW n \in T PROVE n - 1 \in T \ {k}
    <3>1. n - 1 \in Nat /\ n - 1 <= k /\ n - 1 # k BY <2>1
    <3>2. n - 1 \notin S BY <2>1, <3>1
    <3> QED BY <3>1, <3>2
  <2> QED BY <2>1, <2>2
<1> HIDE DEF T
<1>4. f \in Injection(T, T \ {k})
    BY <1>3 DEF Injection, IsInjective
<1>5. IsFiniteSet(T \ {k}) /\ Cardinality(T \ {k}) = Cardinality(T) - 1
    BY <1>1, <1>2, FS_RemoveElement
<1>6. Cardinality(T) <= Cardinality(T \ {k})
  <2> HIDE DEF f
  <2> QED BY <1>4, <1>5, FS_Injection
<1>7. Cardinality(T) \in Nat BY <1>1, FS_CardinalityType
<1> QED BY <1>5, <1>6, <1>7

\* A function on 1 .. n is a list.
LEMMA TableIsList ==
    ASSUME NEW A, NEW n \in Nat, NEW f, DOMAIN f = 1 .. n, f = [i \in 1 .. n |-> f[i]],
           \A i \in 1 .. n : f[i] \in A
    PROVE  f \in Seq(A) /\ Len(f) = n
OBVIOUS

\* A set that has one of 1 .. n has a least one of them.
LEMMA LeastOf ==
    ASSUME NEW n \in Nat, NEW T, \E q \in 1 .. n : q \in T
    PROVE  \E q \in 1 .. n : q \in T /\ \A r \in 1 .. q - 1 : r \notin T
<1> DEFINE Least(m) == \E q \in 1 .. m : q \in T /\ \A r \in 1 .. q - 1 : r \notin T
<1> DEFINE S == {m \in Nat : (\E q \in 1 .. m : q \in T) => Least(m)}
<1>1. 0 \in S OBVIOUS
<1>2. ASSUME NEW m \in Nat, m \in S PROVE m + 1 \in S
  <2> SUFFICES ASSUME \E q \in 1 .. m + 1 : q \in T PROVE Least(m + 1)
      OBVIOUS
  <2>1. CASE \E q \in 1 .. m : q \in T
    <3>1. Least(m) BY <1>2, <2>1
    <3>2. \A q \in 1 .. m : q \in 1 .. m + 1 OBVIOUS
    <3> QED BY <3>1, <3>2
  <2>2. CASE ~\E q \in 1 .. m : q \in T
    <3>1. m + 1 \in T
      <4>1. \A q \in 1 .. m + 1 : q \in 1 .. m \/ q = m + 1 OBVIOUS
      <4> QED BY <2>2, <4>1
    <3>2. m + 1 \in 1 .. m + 1 /\ (m + 1) - 1 = m OBVIOUS
    <3> QED BY <2>2, <3>1, <3>2
  <2> QED BY <2>1, <2>2
<1> HIDE DEF S
<1>3. Nat \subseteq S BY <1>1, <1>2, SetInduction
<1> QED BY <1>3 DEF S

\* The values of a loop of n turns: one of V before the first turn, and after turn
\* k what turn k makes of the value before it.
LoopValues(g, n, V, first, turn) ==
    /\ g \in [0 .. n -> V]
    /\ g[0] = first
    /\ \A k \in 1 .. n : g[k] = turn[k][g[k - 1]]

\* A loop has its values, whatever a turn does.
LEMMA LoopRuns ==
    ASSUME NEW n \in Nat, NEW V, NEW first \in V, NEW turn \in [1 .. n -> [V -> V]]
    PROVE  \E g : LoopValues(g, n, V, first, turn)
<1> DEFINE Runs(g, m) == g \in [0 .. m -> V] /\ g[0] = first
                         /\ \A k \in 1 .. m : g[k] = turn[k][g[k - 1]]
<1> DEFINE S == {m \in Nat : m <= n => \E g : Runs(g, m)}
<1>1. 0 \in S
  <2>1. Runs([i \in 0 .. 0 |-> first], 0) OBVIOUS
  <2> QED BY <2>1
<1>2. ASSUME NEW m \in Nat, m \in S PROVE m + 1 \in S
  <2>1. CASE m + 1 <= n
    <3>1. PICK g : Runs(g, m) BY <1>2, <2>1
    <3> DEFINE v == turn[m + 1][g[m]]
    <3> DEFINE h == [i \in 0 .. m + 1 |-> IF i = m + 1 THEN v ELSE g[i]]
    <3>2. g[m] \in V BY <3>1
    <3>3. v \in V BY <3>2, <2>1
    <3>4. h \in [0 .. m + 1 -> V] BY <3>1, <3>3
    <3>5. h[0] = first BY <3>1
    <3>6. ASSUME NEW k \in 1 .. m + 1 PROVE h[k] = turn[k][h[k - 1]]
      <4>1. CASE k = m + 1
        <5>1. k - 1 = m /\ m \in 0 .. m + 1 /\ m # m + 1 BY <4>1
        <5>2. h[k - 1] = g[m] BY <5>1
        <5>3. h[k] = v BY <4>1
        <5> QED BY <4>1, <5>2, <5>3
      <4>2. CASE k # m + 1
        <5>1. k \in 1 .. m /\ k - 1 \in 0 .. m /\ k - 1 \in 0 .. m + 1 /\ k - 1 # m + 1 BY <4>2
        <5>2. h[k] = g[k] /\ h[k - 1] = g[k - 1] BY <4>2, <5>1
        <5> QED BY <3>1, <5>1, <5>2
      <4> QED BY <4>1, <4>2
    <3> HIDE DEF h
    <3>7. Runs(h, m + 1) BY <3>4, <3>5, <3>6
    <3> HIDE DEF Runs
    <3> QED BY <3>7
  <2>2. CASE ~(m + 1 <= n) BY <2>2
  <2> QED BY <2>1, <2>2
<1> HIDE DEF S
<1>3. Nat \subseteq S BY <1>1, <1>2, SetInduction
<1>4. n \in S BY <1>3
<1>5. \E g : Runs(g, n) BY <1>4 DEF S
<1> QED BY <1>5 DEF LoopValues

\* f starts where the loop does, and makes its turns.
LoopTurns(f, n, V, first, turn) ==
    /\ f[0] = first
    /\ \A k \in 1 .. n : f[k - 1] \in V => f[k] = turn[k][f[k - 1]]

\* A recursive function that makes the same turns ends at the same value.
LEMMA LoopEnds ==
    ASSUME NEW n \in Nat, NEW V, NEW first, NEW turn, NEW g, LoopValues(g, n, V, first, turn),
           NEW f, LoopTurns(f, n, V, first, turn)
    PROVE  f[n] = g[n] /\ f[n] \in V
<1> DEFINE S == {k \in Nat : k <= n => f[k] = g[k]}
<1>1. 0 \in S BY DEF LoopValues, LoopTurns
<1>2. ASSUME NEW k \in Nat, k \in S PROVE k + 1 \in S
  <2>1. CASE k + 1 <= n
    <3>1. k + 1 \in 1 .. n /\ k \in 0 .. n /\ (k + 1) - 1 = k BY <2>1
    <3>2. f[k] = g[k] BY <1>2, <2>1
    <3>3. f[k] \in V BY <3>1, <3>2 DEF LoopValues
    <3>4. f[k + 1] = turn[k + 1][f[k]] BY <3>1, <3>3 DEF LoopTurns
    <3>5. g[k + 1] = turn[k + 1][g[k]] BY <3>1 DEF LoopValues
    <3> QED BY <3>2, <3>4, <3>5
  <2>2. CASE ~(k + 1 <= n) BY <2>2
  <2> QED BY <2>1, <2>2
<1> HIDE DEF S
<1>3. Nat \subseteq S BY <1>1, <1>2, SetInduction
<1>4. f[n] = g[n] BY <1>3 DEF S
<1>5. n \in 0 .. n OBVIOUS
<1> QED BY <1>4, <1>5 DEF LoopValues

\* The values of the loop of Filter.
FilterValues(g, A, s, T) ==
    /\ g \in [0 .. Len(s) -> Seq(A)]
    /\ g[0] = <<>>
    /\ \A k \in 1 .. Len(s) :
          g[k] = IF s[k] \in T THEN Append(g[k - 1], s[k]) ELSE g[k - 1]

\* Filter is the last of them.
LEMMA FilterRuns ==
    ASSUME NEW A, NEW s \in Seq(A), NEW T
    PROVE  \E g : FilterValues(g, A, s, T) /\ Filter(s, T) = g[Len(s)]
<1> DEFINE n == Len(s)
<1> DEFINE turn == [k \in 1 .. n |-> [v \in Seq(A) |-> IF s[k] \in T THEN Append(v, s[k]) ELSE v]]
<1> DEFINE Is(g) == g = [i \in 0 .. n |-> IF i = 0 THEN <<>>
                           ELSE IF s[i] \in T THEN Append(g[i - 1], s[i]) ELSE g[i - 1]]
<1>1. n \in Nat OBVIOUS
<1>2. turn \in [1 .. n -> [Seq(A) -> Seq(A)]] OBVIOUS
<1>3. PICK g \in [0 .. n -> Seq(A)] :
          g[0] = <<>> /\ \A k \in 1 .. n : g[k] = turn[k][g[k - 1]]
  <2>1. <<>> \in Seq(A) OBVIOUS
  <2> HIDE DEF n, turn
  <2>2. \E g : LoopValues(g, n, Seq(A), <<>>, turn) BY <1>1, <1>2, <2>1, LoopRuns
  <2> QED BY <2>2 DEF LoopValues
<1>4. ASSUME NEW k \in 1 .. n
      PROVE  g[k] = IF s[k] \in T THEN Append(g[k - 1], s[k]) ELSE g[k - 1]
  <2>1. g[k - 1] \in Seq(A) BY <1>1, <1>3
  <2>2. turn[k][g[k - 1]] = IF s[k] \in T THEN Append(g[k - 1], s[k]) ELSE g[k - 1] BY <2>1
  <2> QED BY <1>3, <2>2
<1>5. Is(g)
  <2>1. ASSUME NEW i \in 0 .. n
        PROVE  g[i] = IF i = 0 THEN <<>>
                      ELSE IF s[i] \in T THEN Append(g[i - 1], s[i]) ELSE g[i - 1]
    <3>1. CASE i = 0 BY <1>3, <3>1
    <3>2. CASE i # 0
      <4>1. i \in 1 .. n BY <1>1, <3>2
      <4> HIDE DEF n
      <4> QED BY <1>4, <3>2, <4>1
    <3> QED BY <3>1, <3>2
  <2>2. DOMAIN g = 0 .. n BY <1>3
  <2> QED BY <1>3, <2>1, <2>2
<1> DEFINE f == CHOOSE h : Is(h)
<1>6. Is(f)
  <2> HIDE DEF Is
  <2> QED BY <1>5
<1>7. Filter(s, T) = f[n] BY Zenon DEF Filter
<1> HIDE DEF f
<1>8. DOMAIN f = 0 .. n BY <1>6
<1> DEFINE S == {k \in Nat : k <= n => f[k] = g[k]}
<1>9. 0 \in S BY <1>3, <1>6
<1>10. ASSUME NEW k \in Nat, k \in S PROVE k + 1 \in S
  <2>1. CASE k + 1 <= n
    <3>1. k + 1 \in 1 .. n /\ k + 1 \in 0 .. n /\ k + 1 # 0 /\ (k + 1) - 1 = k BY <2>1
    <3>2. f[k + 1] = IF s[k + 1] \in T THEN Append(f[k], s[k + 1]) ELSE f[k]
        BY <1>6, <3>1
    <3>3. g[k + 1] = IF s[k + 1] \in T THEN Append(g[k], s[k + 1]) ELSE g[k]
        BY <1>4, <3>1
    <3> QED BY <1>10, <2>1, <3>2, <3>3
  <2>2. CASE ~(k + 1 <= n) BY <2>2
  <2> QED BY <2>1, <2>2
<1> HIDE DEF S
<1>11. Nat \subseteq S BY <1>9, <1>10, SetInduction
<1>12. f[n] = g[n] BY <1>1, <1>11 DEF S
<1>13. FilterValues(g, A, s, T)
  <2>1. \A k \in 1 .. n : g[k] = IF s[k] \in T THEN Append(g[k - 1], s[k]) ELSE g[k - 1]
      BY <1>4
  <2> QED BY <1>3, <2>1 DEF FilterValues
<1>14. Filter(s, T) = g[Len(s)] BY <1>7, <1>12
<1> QED BY <1>13, <1>14

\* What is kept is of the list.
LEMMA FilterType ==
    ASSUME NEW A, NEW s \in Seq(A), NEW T
    PROVE  Filter(s, T) \in Seq(A)
<1>1. PICK g : FilterValues(g, A, s, T) /\ Filter(s, T) = g[Len(s)] BY FilterRuns
<1>2. Len(s) \in 0 .. Len(s) OBVIOUS
<1> QED BY <1>1, <1>2 DEF FilterValues

\* x is in the list, and in its first m places.
Holds(s, x) == \E j \in 1 .. Len(s) : s[j] = x
HoldsBy(s, m, x) == \E j \in 1 .. m : s[j] = x

\* After m turns it holds what the first m places of the list have of T.
LEMMA FilterValuesKeep ==
    ASSUME NEW A, NEW s \in Seq(A), NEW T, NEW g, FilterValues(g, A, s, T), NEW x,
           NEW m \in 0 .. Len(s)
    PROVE  Holds(g[m], x) <=> x \in T /\ HoldsBy(s, m, x)
<1> DEFINE Has(k) == \E j \in 1 .. Len(g[k]) : g[k][j] = x
<1> DEFINE Due(k) == x \in T /\ \E j \in 1 .. k : s[j] = x
<1> DEFINE S == {k \in Nat : k <= Len(s) => (Has(k) <=> Due(k))}
<1>2. 0 \in S BY DEF FilterValues
<1>3. ASSUME NEW k \in Nat, k \in S PROVE k + 1 \in S
  <2> SUFFICES ASSUME k + 1 <= Len(s) PROVE Has(k + 1) <=> Due(k + 1)
      OBVIOUS
  <2>1. k + 1 \in 1 .. Len(s) /\ k \in 0 .. Len(s) /\ (k + 1) - 1 = k OBVIOUS
  <2>2. g[k] \in Seq(A) /\ s[k + 1] \in A BY <2>1 DEF FilterValues
  <2>3. g[k + 1] = IF s[k + 1] \in T THEN Append(g[k], s[k + 1]) ELSE g[k]
      BY <2>1 DEF FilterValues
  <2>4. Has(k) <=> Due(k) BY <1>3, <2>1
  <2>5. Due(k + 1) <=> Due(k) \/ (x \in T /\ s[k + 1] = x)
    <3>1. \A j : j \in 1 .. k + 1 <=> j \in 1 .. k \/ j = k + 1 OBVIOUS
    <3> QED BY <3>1
  <2>6. CASE s[k + 1] \in T
    <3>1. g[k + 1] = Append(g[k], s[k + 1]) BY <2>3, <2>6
    <3>2. Len(g[k + 1]) = Len(g[k]) + 1 /\ Len(g[k]) \in Nat BY <2>2, <3>1
    <3>3. \A j \in 1 .. Len(g[k]) : g[k + 1][j] = g[k][j] BY <2>2, <3>1
    <3>4. g[k + 1][Len(g[k]) + 1] = s[k + 1] BY <2>2, <3>1
    <3>5. Has(k + 1) <=> Has(k) \/ s[k + 1] = x
      <4>1. \A j : j \in 1 .. Len(g[k]) + 1 <=> j \in 1 .. Len(g[k]) \/ j = Len(g[k]) + 1
          BY <3>2
      <4> QED BY <3>2, <3>3, <3>4, <4>1
    <3> HIDE DEF Has, Due
    <3> QED BY <2>4, <2>5, <2>6, <3>5
  <2>7. CASE s[k + 1] \notin T
    <3>1. g[k + 1] = g[k] BY <2>3, <2>7
    <3>2. Has(k + 1) <=> Has(k) BY <3>1
    <3> HIDE DEF Has, Due
    <3> QED BY <2>4, <2>5, <2>7, <3>2
  <2> QED BY <2>6, <2>7
<1> HIDE DEF S
<1>4. Nat \subseteq S BY <1>2, <1>3, SetInduction
<1>5. Has(m) <=> Due(m) BY <1>4 DEF S
<1> QED BY <1>5 DEF Holds, HoldsBy

\* What is kept is what the list has of T.
LEMMA FilterKeeps ==
    ASSUME NEW A, NEW s \in Seq(A), NEW T, NEW x
    PROVE  Holds(Filter(s, T), x) <=> x \in T /\ Holds(s, x)
<1>1. PICK g : FilterValues(g, A, s, T) /\ Filter(s, T) = g[Len(s)] BY FilterRuns
<1>2. Len(s) \in 0 .. Len(s) OBVIOUS
<1>3. Holds(g[Len(s)], x) <=> x \in T /\ HoldsBy(s, Len(s), x)
    BY <1>1, <1>2, FilterValuesKeep
<1> QED BY <1>1, <1>3 DEF Holds, HoldsBy

\* A list that is in T already is kept whole.
LEMMA FilterAll ==
    ASSUME NEW A, NEW s \in Seq(A), NEW T, \A j \in 1 .. Len(s) : s[j] \in T
    PROVE  Filter(s, T) = s
<1>1. PICK g : FilterValues(g, A, s, T) /\ Filter(s, T) = g[Len(s)] BY FilterRuns
<1> DEFINE S == {k \in Nat : k <= Len(s) =>
                    Len(g[k]) = k /\ \A j \in 1 .. k : g[k][j] = s[j]}
<1>2. 0 \in S BY <1>1 DEF FilterValues
<1>3. ASSUME NEW k \in Nat, k \in S PROVE k + 1 \in S
  <2> SUFFICES ASSUME k + 1 <= Len(s)
               PROVE  Len(g[k + 1]) = k + 1 /\ \A j \in 1 .. k + 1 : g[k + 1][j] = s[j]
      OBVIOUS
  <2>1. k + 1 \in 1 .. Len(s) /\ k \in 0 .. Len(s) /\ (k + 1) - 1 = k OBVIOUS
  <2>2. g[k] \in Seq(A) /\ s[k + 1] \in A BY <1>1, <2>1 DEF FilterValues
  <2>3. g[k + 1] = Append(g[k], s[k + 1]) BY <1>1, <2>1 DEF FilterValues
  <2>4. Len(g[k]) = k /\ \A j \in 1 .. k : g[k][j] = s[j] BY <1>3, <2>1
  <2> QED BY <2>2, <2>3, <2>4
<1> HIDE DEF S
<1>4. Nat \subseteq S BY <1>2, <1>3, SetInduction
<1>5. Len(g[Len(s)]) = Len(s) /\ \A j \in 1 .. Len(s) : g[Len(s)][j] = s[j] BY <1>4 DEF S
<1>6. g[Len(s)] \in Seq(A) BY <1>1 DEF FilterValues
<1> QED BY <1>1, <1>5, <1>6

\* Two tests that agree on the list keep the same of it.
LEMMA FilterSame ==
    ASSUME NEW A, NEW s \in Seq(A), NEW T, NEW U,
           \A j \in 1 .. Len(s) : s[j] \in T <=> s[j] \in U
    PROVE  Filter(s, T) = Filter(s, U)
<1>1. PICK g : FilterValues(g, A, s, T) /\ Filter(s, T) = g[Len(s)] BY FilterRuns
<1>2. PICK h : FilterValues(h, A, s, U) /\ Filter(s, U) = h[Len(s)] BY FilterRuns
<1> DEFINE S == {k \in Nat : k <= Len(s) => g[k] = h[k]}
<1>3. 0 \in S BY <1>1, <1>2 DEF FilterValues
<1>4. ASSUME NEW k \in Nat, k \in S PROVE k + 1 \in S
  <2> SUFFICES ASSUME k + 1 <= Len(s) PROVE g[k + 1] = h[k + 1]
      OBVIOUS
  <2>1. k + 1 \in 1 .. Len(s) /\ (k + 1) - 1 = k OBVIOUS
  <2>2. g[k + 1] = IF s[k + 1] \in T THEN Append(g[k], s[k + 1]) ELSE g[k]
      BY <1>1, <2>1 DEF FilterValues
  <2>3. h[k + 1] = IF s[k + 1] \in U THEN Append(h[k], s[k + 1]) ELSE h[k]
      BY <1>2, <2>1 DEF FilterValues
  <2>4. g[k] = h[k] BY <1>4, <2>1
  <2>5. s[k + 1] \in T <=> s[k + 1] \in U BY <2>1
  <2> QED BY <2>2, <2>3, <2>4, <2>5
<1> HIDE DEF S
<1>5. Nat \subseteq S BY <1>3, <1>4, SetInduction
<1>6. g[Len(s)] = h[Len(s)] BY <1>5 DEF S
<1> QED BY <1>1, <1>2, <1>6

\* No two places of a list have the same key.
Apart(s, key) == \A i, j \in 1 .. Len(s) : key[s[i]] = key[s[j]] => i = j

\* What is kept of a list whose keys are apart has them apart.
LEMMA FilterApart ==
    ASSUME NEW A, NEW s \in Seq(A), NEW T, NEW key, Apart(s, key)
    PROVE  Apart(Filter(s, T), key)
<1>1. PICK g : FilterValues(g, A, s, T) /\ Filter(s, T) = g[Len(s)] BY FilterRuns
<1> DEFINE From(k) == \A i \in 1 .. Len(g[k]) : \E j \in 1 .. k : g[k][i] = s[j]
<1> DEFINE S == {k \in Nat : k <= Len(s) => Apart(g[k], key) /\ From(k)}
<1>2. 0 \in S BY <1>1 DEF FilterValues, Apart
<1>3. ASSUME NEW k \in Nat, k \in S PROVE k + 1 \in S
  <2> SUFFICES ASSUME k + 1 <= Len(s) PROVE Apart(g[k + 1], key) /\ From(k + 1)
      OBVIOUS
  <2>1. k + 1 \in 1 .. Len(s) /\ k \in 0 .. Len(s) /\ (k + 1) - 1 = k OBVIOUS
  <2>2. g[k] \in Seq(A) /\ s[k + 1] \in A BY <1>1, <2>1 DEF FilterValues
  <2>3. Apart(g[k], key) /\ From(k) BY <1>3, <2>1
  <2>4. CASE s[k + 1] \in T
    <3>1. g[k + 1] = Append(g[k], s[k + 1]) BY <1>1, <2>1, <2>4 DEF FilterValues
    <3>2. Len(g[k + 1]) = Len(g[k]) + 1 /\ Len(g[k]) \in Nat BY <2>2, <3>1
    <3>3. \A j \in 1 .. Len(g[k]) : g[k + 1][j] = g[k][j] BY <2>2, <3>1
    <3>4. g[k + 1][Len(g[k]) + 1] = s[k + 1] BY <2>2, <3>1
    <3>5. \A j : j \in 1 .. Len(g[k]) + 1 <=> j \in 1 .. Len(g[k]) \/ j = Len(g[k]) + 1
        BY <3>2
    <3>6. \A i \in 1 .. Len(g[k]) : key[g[k][i]] # key[s[k + 1]]
      <4>1. \A j \in 1 .. k : key[s[j]] # key[s[k + 1]]
        <5>1. \A j \in 1 .. k : j \in 1 .. Len(s) /\ j # k + 1 BY <2>1
        <5> QED BY <2>1, <5>1 DEF Apart
      <4> QED BY <2>3, <4>1
    <3>7. Apart(g[k + 1], key)
      <4> SUFFICES ASSUME NEW i \in 1 .. Len(g[k]) + 1, NEW j \in 1 .. Len(g[k]) + 1,
                          key[g[k + 1][i]] = key[g[k + 1][j]]
                   PROVE  i = j
          BY <3>2 DEF Apart
      <4>1. CASE i \in 1 .. Len(g[k]) /\ j \in 1 .. Len(g[k])
          BY <2>3, <3>3, <4>1 DEF Apart
      <4>2. CASE i \in 1 .. Len(g[k]) /\ j = Len(g[k]) + 1 BY <3>3, <3>4, <3>6, <4>2
      <4>3. CASE i = Len(g[k]) + 1 /\ j \in 1 .. Len(g[k]) BY <3>3, <3>4, <3>6, <4>3
      <4> QED BY <3>5, <4>1, <4>2, <4>3
    <3>8. From(k + 1)
      <4>1. \A j \in 1 .. k : j \in 1 .. k + 1 OBVIOUS
      <4>2. k + 1 \in 1 .. k + 1 OBVIOUS
      <4>3. ASSUME NEW i \in 1 .. Len(g[k + 1]) PROVE \E j \in 1 .. k + 1 : g[k + 1][i] = s[j]
        <5>1. i \in 1 .. Len(g[k]) \/ i = Len(g[k]) + 1 BY <3>2, <3>5
        <5>2. CASE i \in 1 .. Len(g[k])
          <6>1. PICK j \in 1 .. k : g[k][i] = s[j] BY <2>3, <5>2
          <6> QED BY <3>3, <4>1, <5>2, <6>1
        <5>3. CASE i = Len(g[k]) + 1 BY <3>4, <4>2, <5>3
        <5> QED BY <5>1, <5>2, <5>3
      <4> QED BY <4>3
    <3> QED BY <3>7, <3>8
  <2>5. CASE s[k + 1] \notin T
    <3>1. g[k + 1] = g[k] BY <1>1, <2>1, <2>5 DEF FilterValues
    <3>2. \A j \in 1 .. k : j \in 1 .. k + 1 OBVIOUS
    <3> QED BY <2>3, <3>1, <3>2
  <2> QED BY <2>4, <2>5
<1> HIDE DEF S
<1>4. Nat \subseteq S BY <1>2, <1>3, SetInduction
<1>5. Apart(g[Len(s)], key) BY <1>4 DEF S
<1> QED BY <1>1, <1>5

\* One list after another holds what either holds.
LEMMA JoinHolds ==
    ASSUME NEW A, NEW s \in Seq(A), NEW t \in Seq(A), NEW x
    PROVE  Holds(s \o t, x) <=> Holds(s, x) \/ Holds(t, x)
<1> DEFINE u == s \o t
<1>1. /\ u \in Seq(A) /\ Len(u) = Len(s) + Len(t) /\ Len(s) \in Nat /\ Len(t) \in Nat
      /\ \A i \in 1 .. Len(s) : u[i] = s[i]
      /\ \A i \in 1 .. Len(t) : u[Len(s) + i] = t[i]
  OBVIOUS
<1> HIDE DEF u
<1>2. ASSUME NEW i \in 1 .. Len(u), u[i] = x PROVE Holds(s, x) \/ Holds(t, x)
  <2>1. CASE i <= Len(s) BY <1>1, <1>2, <2>1 DEF Holds
  <2>2. CASE i > Len(s)
    <3>1. i - Len(s) \in 1 .. Len(t) /\ Len(s) + (i - Len(s)) = i BY <1>1, <2>2
    <3> QED BY <1>1, <1>2, <3>1 DEF Holds
  <2> QED BY <1>1, <2>1, <2>2
<1>3. ASSUME NEW i \in 1 .. Len(s), s[i] = x PROVE Holds(u, x)
  <2>1. i \in 1 .. Len(u) BY <1>1
  <2> QED BY <1>1, <1>3, <2>1 DEF Holds
<1>4. ASSUME NEW i \in 1 .. Len(t), t[i] = x PROVE Holds(u, x)
  <2>1. Len(s) + i \in 1 .. Len(u) BY <1>1
  <2> QED BY <1>1, <1>4, <2>1 DEF Holds
<1>5. Holds(u, x) <=> Holds(s, x) \/ Holds(t, x) BY <1>2, <1>3, <1>4 DEF Holds
<1> QED BY <1>5 DEF u

\* Two lists whose keys are apart, and from one another's, have them apart together.
LEMMA JoinApart ==
    ASSUME NEW A, NEW s \in Seq(A), NEW t \in Seq(A), NEW key, Apart(s, key), Apart(t, key),
           \A i \in 1 .. Len(s), j \in 1 .. Len(t) : key[s[i]] # key[t[j]]
    PROVE  Apart(s \o t, key)
<1> DEFINE u == s \o t
<1>1. /\ Len(u) = Len(s) + Len(t) /\ Len(s) \in Nat /\ Len(t) \in Nat
      /\ \A i \in 1 .. Len(s) : u[i] = s[i]
      /\ \A i \in 1 .. Len(t) : u[Len(s) + i] = t[i]
  OBVIOUS
<1> HIDE DEF u
<1>2. ASSUME NEW i \in 1 .. Len(u)
      PROVE  \/ i \in 1 .. Len(s) /\ u[i] = s[i]
             \/ i - Len(s) \in 1 .. Len(t) /\ u[i] = t[i - Len(s)]
  <2>1. CASE i <= Len(s) BY <1>1, <2>1
  <2>2. CASE i > Len(s)
    <3>1. i - Len(s) \in 1 .. Len(t) /\ Len(s) + (i - Len(s)) = i BY <1>1, <2>2
    <3> QED BY <1>1, <3>1
  <2> QED BY <1>1, <2>1, <2>2
<1>3. ASSUME NEW i \in 1 .. Len(u), NEW j \in 1 .. Len(u), key[u[i]] = key[u[j]]
      PROVE  i = j
  <2>1. CASE i \in 1 .. Len(s) /\ u[i] = s[i] /\ j \in 1 .. Len(s) /\ u[j] = s[j]
    BY <1>3, <2>1 DEF Apart
  <2>2. CASE /\ i - Len(s) \in 1 .. Len(t) /\ u[i] = t[i - Len(s)]
             /\ j - Len(s) \in 1 .. Len(t) /\ u[j] = t[j - Len(s)]
    <3>1. i - Len(s) = j - Len(s) BY <1>3, <2>2 DEF Apart
    <3> QED BY <1>1, <3>1
  <2> QED BY <1>2, <1>3, <2>1, <2>2, ZenonT(30)
<1>4. Apart(u, key) BY <1>3, SMTT(30) DEF Apart
<1> QED BY <1>4 DEF u

\* The elements of a list of finite length that differ by key: as many as places.
LEMMA ApartCount ==
    ASSUME NEW A, NEW s \in Seq(A), NEW key, Apart(s, key)
    PROVE  /\ IsFiniteSet({s[i] : i \in 1 .. Len(s)})
           /\ Cardinality({s[i] : i \in 1 .. Len(s)}) = Len(s)
<1> DEFINE n == Len(s)
<1> DEFINE f == [i \in 1 .. n |-> s[i]]
<1> DEFINE T == {s[i] : i \in 1 .. n}
<1>1. n \in Nat OBVIOUS
<1>2. f \in Bijection(1 .. n, T)
  <2>1. f \in [1 .. n -> T] OBVIOUS
  <2>2. \A i, j \in 1 .. n : f[i] = f[j] => i = j BY DEF Apart
  <2>3. \A x \in T : \E i \in 1 .. n : f[i] = x OBVIOUS
  <2> HIDE DEF f, T, n
  <2> QED BY <2>1, <2>2, <2>3 DEF Bijection, Injection, Surjection, IsInjective
<1>3. IsFiniteSet(1 .. n) BY <1>1, FS_Interval
<1> HIDE DEF f, T, n
<1>4. ExistsBijection(1 .. n, T) BY <1>2 DEF ExistsBijection
<1>5. IsFiniteSet(T) BY <1>3, <1>4, FS_Bijection
<1>6. Cardinality(T) = n BY <1>1, <1>4, FS_CountingElements
<1> QED BY <1>5, <1>6 DEF T, n

\* R puts the elements of A in one order.
Orders(R, A) ==
    /\ \A x, y, z \in A : <<x, y>> \in R /\ <<y, z>> \in R => <<x, z>> \in R
    /\ \A x, y \in A : x # y => <<x, y>> \in R \/ <<y, x>> \in R
    /\ \A x \in A : <<x, x>> \notin R

\* f goes through elements of S in that order.
Sorted(f, n, S, R) ==
    /\ f \in [1 .. n -> S]
    /\ \A j, k \in 1 .. n : j < k => <<f[j], f[k]>> \in R

\* Of so many elements one comes last.
LEMMA LastOf ==
    ASSUME NEW A, NEW R, Orders(R, A), NEW n \in Nat, NEW S \in SUBSET A, IsFiniteSet(S),
           Cardinality(S) = n + 1
    PROVE  \E m \in S : \A x \in S : x # m => <<x, m>> \in R
<1> DEFINE HasLast(U) == \E m \in U : \A x \in U : x # m => <<x, m>> \in R
<1> DEFINE N == {k \in Nat : \A U \in SUBSET A : IsFiniteSet(U) /\ Cardinality(U) = k + 1 => HasLast(U)}
<1>1. 0 \in N
  <2> SUFFICES ASSUME NEW U \in SUBSET A, IsFiniteSet(U), Cardinality(U) = 1 PROVE HasLast(U)
      OBVIOUS
  <2>1. PICK m : U = {m} BY FS_Singleton
  <2> QED BY <2>1
<1>2. ASSUME NEW k \in Nat, k \in N PROVE k + 1 \in N
  <2> SUFFICES ASSUME NEW U \in SUBSET A, IsFiniteSet(U), Cardinality(U) = k + 2 PROVE HasLast(U)
      OBVIOUS
  <2>1. U # {} BY FS_EmptySet
  <2>2. PICK e : e \in U BY <2>1
  <2>3. IsFiniteSet(U \ {e}) /\ Cardinality(U \ {e}) = k + 1 BY <2>2, FS_RemoveElement
  <2>4. PICK m \in U \ {e} : \A x \in U \ {e} : x # m => <<x, m>> \in R BY <1>2, <2>3
  <2>5. CASE <<e, m>> \in R BY <2>4, <2>5
  <2>6. CASE <<m, e>> \in R
    <3>1. ASSUME NEW x \in U, x # e PROVE <<x, e>> \in R
      <4>1. CASE x = m BY <2>6, <4>1
      <4>2. CASE x # m
        <5>1. <<x, m>> \in R BY <2>4, <3>1, <4>2
        <5> QED BY <2>2, <2>4, <2>6, <5>1 DEF Orders
      <4> QED BY <4>1, <4>2
    <3> QED BY <2>2, <3>1
  <2> QED BY <2>2, <2>4, <2>5, <2>6 DEF Orders
<1> HIDE DEF N
<1>3. Nat \subseteq N BY <1>1, <1>2, SetInduction
<1> QED BY <1>3 DEF N

\* A finite set can be put in order.
LEMMA OrderExists ==
    ASSUME NEW A, NEW R, Orders(R, A), NEW S \in SUBSET A, IsFiniteSet(S)
    PROVE  \E f : Sorted(f, Cardinality(S), S, R)
<1> DEFINE N == {k \in Nat : \A U \in SUBSET A : IsFiniteSet(U) /\ Cardinality(U) = k
                                                  => \E f : Sorted(f, k, U, R)}
<1>1. 0 \in N
  <2> SUFFICES ASSUME NEW U \in SUBSET A PROVE \E f : Sorted(f, 0, U, R)
      OBVIOUS
  <2>1. Sorted([j \in 1 .. 0 |-> j], 0, U, R)
    <3>1. \A j \in 1 .. 0 : FALSE OBVIOUS
    <3> QED BY <3>1 DEF Sorted
  <2> QED BY <2>1
<1>2. ASSUME NEW k \in Nat, k \in N PROVE k + 1 \in N
  <2> SUFFICES ASSUME NEW U \in SUBSET A, IsFiniteSet(U), Cardinality(U) = k + 1
               PROVE  \E f : Sorted(f, k + 1, U, R)
      OBVIOUS
  <2>1. PICK m \in U : \A x \in U : x # m => <<x, m>> \in R BY LastOf
  <2>2. IsFiniteSet(U \ {m}) /\ Cardinality(U \ {m}) = k
    <3>1. IsFiniteSet(U \ {m}) /\ Cardinality(U \ {m}) = Cardinality(U) - 1
        BY <2>1, FS_RemoveElement, Zenon
    <3> QED BY <3>1
  <2>3. PICK g : Sorted(g, k, U \ {m}, R)
    <3>1. U \ {m} \in SUBSET A OBVIOUS
    <3> QED BY <1>2, <2>2, <3>1
  <2> DEFINE f == [j \in 1 .. k + 1 |-> IF j = k + 1 THEN m ELSE g[j]]
  <2>4. \A j \in 1 .. k + 1 : j = k + 1 \/ j \in 1 .. k OBVIOUS
  <2>5. \A j \in 1 .. k : j \in 1 .. k + 1 /\ j # k + 1 /\ f[j] = g[j] /\ g[j] \in U \ {m}
      BY <2>3 DEF Sorted
  <2>6. f[k + 1] = m OBVIOUS
  <2>7. f \in [1 .. k + 1 -> U] BY <2>1, <2>4, <2>5
  <2> HIDE DEF f
  <2>8. ASSUME NEW j \in 1 .. k + 1, NEW l \in 1 .. k + 1, j < l PROVE <<f[j], f[l]>> \in R
    <3>1. j \in 1 .. k BY <2>8
    <3>2. CASE l = k + 1 BY <2>1, <2>5, <2>6, <3>1, <3>2
    <3>3. CASE l \in 1 .. k BY <2>3, <2>5, <2>8, <3>1, <3>3 DEF Sorted
    <3> QED BY <2>4, <3>2, <3>3
  <2>9. Sorted(f, k + 1, U, R) BY <2>7, <2>8 DEF Sorted
  <2> QED BY <2>9
<1> HIDE DEF N
<1>3. Nat \subseteq N BY <1>1, <1>2, SetInduction
<1>4. Cardinality(S) \in Nat BY FS_CardinalityType
<1> QED BY <1>3, <1>4 DEF N

\* What goes through as many elements as there are goes through each, once.
LEMMA SortedHasAll ==
    ASSUME NEW A, NEW R, Orders(R, A), NEW S \in SUBSET A, IsFiniteSet(S),
           NEW f, Sorted(f, Cardinality(S), S, R)
    PROVE  /\ \A j, k \in 1 .. Cardinality(S) : f[j] = f[k] => j = k
           /\ \A x \in S : \E j \in 1 .. Cardinality(S) : f[j] = x
<1> DEFINE n == Cardinality(S)
<1>1. n \in Nat BY FS_CardinalityType
<1> HIDE DEF n
<1>2. f \in [1 .. n -> S] BY DEF Sorted, n
<1>3. ASSUME NEW j \in 1 .. n, NEW k \in 1 .. n, f[j] = f[k], j # k PROVE FALSE
  <2>1. j < k \/ k < j BY <1>1, <1>3
  <2>2. <<f[j], f[k]>> \in R \/ <<f[k], f[j]>> \in R BY <2>1 DEF Sorted, n
  <2>3. <<f[j], f[j]>> \in R BY <1>3, <2>2
  <2>4. f[j] \in A BY <1>2
  <2> QED BY <2>3, <2>4 DEF Orders
<1>4. f \in Injection(1 .. n, S) BY <1>2, <1>3 DEF Injection, IsInjective
<1>5. Cardinality(1 .. n) = n BY <1>1, FS_Interval
<1>6. f \in Surjection(1 .. n, S) BY <1>4, <1>5, FS_Injection DEF n
<1> QED BY <1>3, <1>6 DEF Surjection, n

\* A list, of whatever it holds.
IsList(s) == s \in Seq(Range(s))

LEMMA ListIs ==
    ASSUME NEW s, IsList(s)
    PROVE  /\ Len(s) \in Nat /\ DOMAIN s = 1 .. Len(s)
           /\ \A i \in 1 .. Len(s) : s[i] \in Range(s)
           /\ \A x \in Range(s) : \E i \in 1 .. Len(s) : s[i] = x
<1>1. Len(s) \in Nat /\ DOMAIN s = 1 .. Len(s) BY DEF IsList
<1> QED BY <1>1 DEF Range

LEMMA ListOf == ASSUME NEW A, NEW s \in Seq(A) PROVE IsList(s)
<1>1. Len(s) \in Nat /\ DOMAIN s = 1 .. Len(s) OBVIOUS
<1>2. s = [i \in 1 .. Len(s) |-> s[i]] OBVIOUS
<1>3. \A i \in 1 .. Len(s) : s[i] \in Range(s) BY <1>1 DEF Range
<1> QED BY <1>1, <1>2, <1>3, TableIsList DEF IsList

\* What is tabulated over 1 .. n is a list.
LEMMA TableIs ==
    ASSUME NEW n \in Nat, NEW f, f = [i \in 1 .. n |-> f[i]]
    PROVE  IsList(f) /\ Len(f) = n /\ DOMAIN f = 1 .. n
<1>1. DOMAIN f = 1 .. n OBVIOUS
<1>2. \A i \in 1 .. n : f[i] \in Range(f) BY <1>1 DEF Range
<1> QED BY <1>1, <1>2, TableIsList DEF IsList

\* The places of t in the first m of s, in order: those in T.
PlacesOf(at, t, s, m, T) ==
    /\ at \in [1 .. Len(t) -> 1 .. m]
    /\ \A p \in 1 .. Len(t) : t[p] = s[at[p]]
    /\ \A p, q \in 1 .. Len(t) : p < q => at[p] < at[q]
    /\ \A j \in 1 .. m : s[j] \in T <=> \E p \in 1 .. Len(t) : at[p] = j

\* Each element that is kept comes from a place of its own, in the order of the list.
LEMMA FilterFrom ==
    ASSUME NEW A, NEW s \in Seq(A), NEW T
    PROVE  \E at : PlacesOf(at, Filter(s, T), s, Len(s), T)
<1>1. PICK g : FilterValues(g, A, s, T) /\ Filter(s, T) = g[Len(s)] BY FilterRuns
<1> DEFINE S == {k \in Nat : k <= Len(s) => \E at : PlacesOf(at, g[k], s, k, T)}
<1>2. 0 \in S
  <2>1. g[0] = <<>> BY <1>1 DEF FilterValues
  <2>2. PlacesOf([p \in 1 .. 0 |-> p], g[0], s, 0, T)
    <3>1. \A p \in 1 .. 0 : FALSE OBVIOUS
    <3>2. Len(g[0]) = 0 BY <2>1
    <3> QED BY <3>1, <3>2 DEF PlacesOf
  <2> QED BY <2>2
<1>3. ASSUME NEW k \in Nat, k \in S PROVE k + 1 \in S
  <2> SUFFICES ASSUME k + 1 <= Len(s) PROVE \E at : PlacesOf(at, g[k + 1], s, k + 1, T)
      OBVIOUS
  <2>1. k + 1 \in 1 .. Len(s) /\ k \in 0 .. Len(s) /\ (k + 1) - 1 = k OBVIOUS
  <2>2. g[k] \in Seq(A) /\ s[k + 1] \in A BY <1>1, <2>1 DEF FilterValues
  <2>3. PICK at : PlacesOf(at, g[k], s, k, T) BY <1>3, <2>1
  <2> DEFINE n == Len(g[k])
  <2>4. n \in Nat BY <2>2
  <2>5. \A j : j \in 1 .. k + 1 <=> j \in 1 .. k \/ j = k + 1 OBVIOUS
  <2>6. CASE s[k + 1] \in T
    <3>1. g[k + 1] = Append(g[k], s[k + 1]) BY <1>1, <2>1, <2>6 DEF FilterValues
    <3>2. /\ Len(g[k + 1]) = n + 1 /\ g[k + 1][n + 1] = s[k + 1]
          /\ \A p \in 1 .. n : g[k + 1][p] = g[k][p]
        BY <2>2, <3>1
    <3> DEFINE to == [p \in 1 .. n + 1 |-> IF p = n + 1 THEN k + 1 ELSE at[p]]
    <3> HIDE DEF n
    <3>3. \A p : p \in 1 .. n + 1 <=> p \in 1 .. n \/ p = n + 1 BY <2>4
    <3>4. to[n + 1] = k + 1 BY <2>4
    <3>5. \A p \in 1 .. n : to[p] = at[p] /\ at[p] \in 1 .. k
      <4>1. \A p \in 1 .. n : at[p] \in 1 .. k BY <2>3 DEF PlacesOf, n
      <4>2. \A p \in 1 .. n : p \in 1 .. n + 1 /\ p # n + 1 BY <2>4
      <4> QED BY <4>1, <4>2
    <3>6. to \in [1 .. n + 1 -> 1 .. k + 1] BY <2>5, <3>3, <3>4, <3>5
    <3> HIDE DEF to
    <3>7. \A p \in 1 .. n + 1 : g[k + 1][p] = s[to[p]]
        BY <2>3, <3>2, <3>3, <3>4, <3>5 DEF PlacesOf, n
    <3>8. ASSUME NEW p \in 1 .. n + 1, NEW q \in 1 .. n + 1, p < q PROVE to[p] < to[q]
      <4>1. p \in 1 .. n BY <2>4, <3>8
      <4>2. CASE q = n + 1 BY <3>4, <3>5, <4>1, <4>2
      <4>3. CASE q \in 1 .. n BY <2>3, <3>5, <3>8, <4>1, <4>3 DEF PlacesOf, n
      <4> QED BY <3>3, <4>2, <4>3
    <3>9. ASSUME NEW j \in 1 .. k + 1 PROVE s[j] \in T <=> \E p \in 1 .. n + 1 : to[p] = j
      <4>1. CASE j = k + 1 BY <2>4, <2>6, <3>3, <3>4, <4>1
      <4>2. CASE j \in 1 .. k
        <5>1. j # k + 1 BY <4>2
        <5>2. s[j] \in T <=> \E p \in 1 .. n : at[p] = j BY <2>3, <4>2 DEF PlacesOf, n
        <5> QED BY <3>3, <3>4, <3>5, <5>1, <5>2
      <4> QED BY <2>5, <4>1, <4>2
    <3>10. PlacesOf(to, g[k + 1], s, k + 1, T) BY <3>2, <3>6, <3>7, <3>8, <3>9 DEF PlacesOf
    <3> QED BY <3>10
  <2>7. CASE s[k + 1] \notin T
    <3>1. g[k + 1] = g[k] BY <1>1, <2>1, <2>7 DEF FilterValues
    <3>2. \A p \in 1 .. Len(g[k]) : at[p] \in 1 .. k /\ at[p] # k + 1
      <4>1. \A p \in 1 .. Len(g[k]) : at[p] \in 1 .. k BY <2>3 DEF PlacesOf
      <4>2. \A j \in 1 .. k : j # k + 1 OBVIOUS
      <4> QED BY <4>1, <4>2
    <3>3. at \in [1 .. Len(g[k]) -> 1 .. k + 1] BY <2>3, <2>5, <3>2 DEF PlacesOf
    <3>4. \A j \in 1 .. k + 1 : s[j] \in T <=> \E p \in 1 .. Len(g[k]) : at[p] = j
        BY <2>3, <2>5, <2>7, <3>2 DEF PlacesOf
    <3>5. PlacesOf(at, g[k], s, k + 1, T) BY <2>3, <3>3, <3>4 DEF PlacesOf
    <3> QED BY <3>1, <3>5
  <2> QED BY <2>6, <2>7
<1> HIDE DEF S
<1>4. Nat \subseteq S BY <1>2, <1>3, SetInduction
<1> QED BY <1>1, <1>4 DEF S

LEMMA PlaceIs == ASSUME NEW A, NEW s \in Seq(A), NEW j \in 1 .. Len(s) PROVE s[j] \in A
OBVIOUS

LEMMA ConcatIs ==
    ASSUME NEW A, NEW s \in Seq(A), NEW t \in Seq(A)
    PROVE  /\ Len(s) \in Nat /\ Len(t) \in Nat
           /\ s \o t \in Seq(A) /\ Len(s \o t) = Len(s) + Len(t)
           /\ \A i \in 1 .. Len(s) : (s \o t)[i] = s[i]
           /\ \A i \in 1 .. Len(t) : (s \o t)[Len(s) + i] = t[i]
OBVIOUS

\* The values of the loop of Joined.
JoinedValues(g, A, ss) ==
    /\ g \in [0 .. Len(ss) -> Seq(A)]
    /\ g[0] = <<>>
    /\ \A k \in 1 .. Len(ss) : g[k] = g[k - 1] \o ss[k]

LEMMA JoinedRuns ==
    ASSUME NEW A, NEW ss \in Seq(Seq(A))
    PROVE  \E g : JoinedValues(g, A, ss) /\ Joined(ss) = g[Len(ss)]
<1> DEFINE n == Len(ss)
<1> DEFINE turn == [k \in 1 .. n |-> [v \in Seq(A) |-> v \o ss[k]]]
<1>1. n \in Nat OBVIOUS
<1>2. turn \in [1 .. n -> [Seq(A) -> Seq(A)]] OBVIOUS
<1>3. PICK g : LoopValues(g, n, Seq(A), <<>>, turn)
  <2>1. <<>> \in Seq(A) OBVIOUS
  <2> HIDE DEF n, turn
  <2> QED BY <1>1, <1>2, <2>1, LoopRuns
<1>4. ASSUME NEW k \in 1 .. n PROVE g[k] = g[k - 1] \o ss[k]
  <2>1. g[k - 1] \in Seq(A)
    <3>1. g \in [0 .. n -> Seq(A)] BY <1>3 DEF LoopValues
    <3>2. k - 1 \in 0 .. n BY <1>1
    <3> HIDE DEF n, turn
    <3> QED BY <3>1, <3>2
  <2>2. turn[k][g[k - 1]] = g[k - 1] \o ss[k] BY <2>1
  <2> QED BY <1>3, <2>2 DEF LoopValues
<1>5. g \in [0 .. n -> Seq(A)] /\ g[0] = <<>> BY <1>3 DEF LoopValues
<1> HIDE DEF turn
<1> DEFINE Is(h) == h = [i \in 0 .. n |-> IF i = 0 THEN <<>> ELSE h[i - 1] \o ss[i]]
<1>6. Is(g)
  <2>1. ASSUME NEW i \in 0 .. n PROVE g[i] = IF i = 0 THEN <<>> ELSE g[i - 1] \o ss[i]
    <3>1. CASE i = 0 BY <1>5, <3>1
    <3>2. CASE i # 0
      <4>1. i \in 1 .. n BY <1>1, <3>2
      <4> HIDE DEF n
      <4> QED BY <1>4, <3>2, <4>1
    <3> QED BY <3>1, <3>2
  <2> QED BY <1>5, <2>1
<1> DEFINE f == CHOOSE h : Is(h)
<1>7. Is(f)
  <2> HIDE DEF Is
  <2> QED BY <1>6
<1>8. Joined(ss) = f[n] BY Zenon DEF Joined
<1> HIDE DEF f
<1> DEFINE S == {k \in Nat : k <= n => f[k] = g[k]}
<1>9. 0 \in S BY <1>1, <1>5, <1>7
<1>10. ASSUME NEW k \in Nat, k \in S PROVE k + 1 \in S
  <2>1. CASE k + 1 <= n
    <3>1. k + 1 \in 1 .. n /\ k + 1 \in 0 .. n /\ k + 1 # 0 /\ (k + 1) - 1 = k BY <2>1
    <3>2. f[k + 1] = f[k] \o ss[k + 1] BY <1>7, <3>1
    <3>3. g[k + 1] = g[k] \o ss[k + 1] BY <1>4, <3>1
    <3>4. f[k] = g[k] BY <1>10, <2>1
    <3>5. f[k + 1] = g[k + 1] BY <3>2, <3>3, <3>4
    <3> QED BY <3>5
  <2>2. CASE ~(k + 1 <= n) BY <2>2
  <2> QED BY <2>1, <2>2
<1> HIDE DEF S
<1>11. Nat \subseteq S BY <1>9, <1>10, SetInduction
<1>12. f[n] = g[n] BY <1>1, <1>11 DEF S
<1>13. JoinedValues(g, A, ss) BY <1>4, <1>5 DEF JoinedValues
<1> QED BY <1>8, <1>12, <1>13

\* Of each place of t, the list of ss it comes from and the place in that list.
CellsOf(at, t, ss, m) ==
    /\ DOMAIN at = 1 .. Len(t)
    /\ \A p \in 1 .. Len(t) : \E i \in 1 .. m : \E j \in 1 .. Len(ss[i]) :
          at[p] = <<i, j>> /\ t[p] = ss[i][j]
    /\ \A p, q \in 1 .. Len(t) : at[p] = at[q] => p = q
    /\ \A i \in 1 .. m : \A j \in 1 .. Len(ss[i]) : \E p \in 1 .. Len(t) : at[p] = <<i, j>>

LEMMA JoinedFrom ==
    ASSUME NEW A, NEW ss \in Seq(Seq(A))
    PROVE  Joined(ss) \in Seq(A) /\ \E at : CellsOf(at, Joined(ss), ss, Len(ss))
<1>1. PICK g : JoinedValues(g, A, ss) /\ Joined(ss) = g[Len(ss)] BY JoinedRuns
<1> DEFINE S == {k \in Nat : k <= Len(ss) => \E at : CellsOf(at, g[k], ss, k)}
<1>2. 0 \in S
  <2>1. Len(g[0]) = 0 BY <1>1 DEF JoinedValues
  <2>2. \A p \in 1 .. 0 : FALSE OBVIOUS
  <2>3. CellsOf([p \in 1 .. 0 |-> p], g[0], ss, 0) BY <2>1, <2>2 DEF CellsOf
  <2> QED BY <2>3
<1>3. ASSUME NEW k \in Nat, k \in S PROVE k + 1 \in S
  <2> SUFFICES ASSUME k + 1 <= Len(ss) PROVE \E at : CellsOf(at, g[k + 1], ss, k + 1)
      OBVIOUS
  <2>1. k + 1 \in 1 .. Len(ss) /\ k \in 0 .. Len(ss) /\ (k + 1) - 1 = k OBVIOUS
  <2>2. g[k] \in Seq(A) /\ ss[k + 1] \in Seq(A)
    <3> DEFINE B == Seq(A)
    <3>1. g \in [0 .. Len(ss) -> B] BY <1>1 DEF JoinedValues
    <3>2. ss \in Seq(B) OBVIOUS
    <3> HIDE DEF B
    <3>3. g[k] \in B BY <2>1, <3>1
    <3>4. ss[k + 1] \in B BY <2>1, <3>2, PlaceIs, Zenon
    <3> QED BY <3>3, <3>4 DEF B
  <2>3. PICK at : CellsOf(at, g[k], ss, k) BY <1>3, <2>1
  <2>4. g[k + 1] = g[k] \o ss[k + 1] BY <1>1, <2>1 DEF JoinedValues
  <2> DEFINE n == Len(g[k])
  <2> DEFINE m == Len(ss[k + 1])
  <2>5. /\ n \in Nat /\ m \in Nat /\ Len(g[k + 1]) = n + m
        /\ \A p \in 1 .. n : g[k + 1][p] = g[k][p]
        /\ \A j \in 1 .. m : g[k + 1][n + j] = ss[k + 1][j]
    <3> DEFINE x == g[k]
    <3> DEFINE y == ss[k + 1]
    <3>1. x \in Seq(A) /\ y \in Seq(A) /\ g[k + 1] = x \o y BY <2>2, <2>4
    <3> HIDE DEF x, y
    <3>2. /\ Len(x) \in Nat /\ Len(y) \in Nat /\ Len(g[k + 1]) = Len(x) + Len(y)
          /\ \A p \in 1 .. Len(x) : g[k + 1][p] = x[p]
          /\ \A j \in 1 .. Len(y) : g[k + 1][Len(x) + j] = y[j]
        BY <3>1, ConcatIs
    <3> QED BY <3>2 DEF x, y
  <2> DEFINE to == [p \in 1 .. n + m |-> IF p <= n THEN at[p] ELSE <<k + 1, p - n>>]
  <2> HIDE DEF n, m
  <2>6. \A p \in 1 .. n : p \in 1 .. n + m /\ to[p] = at[p] BY <2>5
  <2>7. \A j \in 1 .. m : n + j \in 1 .. n + m /\ to[n + j] = <<k + 1, j>>
    <3>1. \A j \in 1 .. m : n + j \in 1 .. n + m /\ ~(n + j <= n) /\ (n + j) - n = j BY <2>5
    <3> QED BY <3>1
  <2>8. ASSUME NEW p \in 1 .. n + m PROVE p \in 1 .. n \/ \E j \in 1 .. m : p = n + j
    <3>1. CASE p <= n BY <2>5, <3>1
    <3>2. CASE ~(p <= n)
      <4>1. p - n \in 1 .. m /\ p = n + (p - n) BY <2>5, <3>2
      <4> QED BY <4>1
    <3> QED BY <3>1, <3>2
  <2>9. DOMAIN to = 1 .. n + m OBVIOUS
  <2> HIDE DEF to
  <2>10. \A i : i \in 1 .. k + 1 <=> i \in 1 .. k \/ i = k + 1 OBVIOUS
  <2>11. \A p \in 1 .. n : \E i \in 1 .. k : \E j \in 1 .. Len(ss[i]) :
            at[p] = <<i, j>> /\ g[k][p] = ss[i][j]
      BY <2>3 DEF CellsOf, n
  <2>12. ASSUME NEW p \in 1 .. n + m
         PROVE  \E i \in 1 .. k + 1 : \E j \in 1 .. Len(ss[i]) :
                   to[p] = <<i, j>> /\ g[k + 1][p] = ss[i][j]
    <3>1. CASE p \in 1 .. n
      <4>1. PICK i \in 1 .. k : \E j \in 1 .. Len(ss[i]) : at[p] = <<i, j>> /\ g[k][p] = ss[i][j]
          BY <2>11, <3>1
      <4>2. PICK j \in 1 .. Len(ss[i]) : at[p] = <<i, j>> /\ g[k][p] = ss[i][j] BY <4>1
      <4>3. to[p] = <<i, j>> /\ g[k + 1][p] = ss[i][j] BY <2>5, <2>6, <3>1, <4>2
      <4> QED BY <2>10, <4>3
    <3>2. CASE \E j \in 1 .. m : p = n + j
      <4>1. PICK j \in 1 .. m : p = n + j BY <3>2
      <4> QED BY <2>5, <2>7, <2>10, <4>1 DEF m
    <3> QED BY <2>8, <3>1, <3>2
  <2>13. ASSUME NEW p \in 1 .. n + m, NEW q \in 1 .. n + m, to[p] = to[q] PROVE p = q
    <3>1. \A r \in 1 .. n : to[r][1] # k + 1
      <4>1. \A i \in 1 .. k : i # k + 1 OBVIOUS
      <4> SUFFICES ASSUME NEW r \in 1 .. n PROVE to[r][1] # k + 1
          OBVIOUS
      <4>2. PICK i \in 1 .. k : \E j \in 1 .. Len(ss[i]) : at[r] = <<i, j>> BY <2>11
      <4>3. to[r][1] = i BY <2>6, <4>2
      <4> QED BY <4>1, <4>3
    <3>2. \A j \in 1 .. m : to[n + j][1] = k + 1 /\ to[n + j][2] = j BY <2>7
    <3>3. CASE p \in 1 .. n /\ q \in 1 .. n BY <2>3, <2>6, <2>13, <3>3 DEF CellsOf, n
    <3>4. CASE p \notin 1 .. n /\ q \notin 1 .. n
      <4>1. PICK j \in 1 .. m : p = n + j BY <2>8, <3>4
      <4>2. PICK l \in 1 .. m : q = n + l BY <2>8, <3>4
      <4> QED BY <2>13, <3>2, <4>1, <4>2
    <3>5. CASE p \in 1 .. n /\ q \notin 1 .. n
      <4>1. PICK l \in 1 .. m : q = n + l BY <2>8, <3>5
      <4> QED BY <2>13, <3>1, <3>2, <3>5, <4>1
    <3>6. CASE p \notin 1 .. n /\ q \in 1 .. n
      <4>1. PICK j \in 1 .. m : p = n + j BY <2>8, <3>6
      <4> QED BY <2>13, <3>1, <3>2, <3>6, <4>1
    <3> QED BY <3>3, <3>4, <3>5, <3>6
  <2>14. ASSUME NEW i \in 1 .. k + 1, NEW j \in 1 .. Len(ss[i])
         PROVE  \E p \in 1 .. n + m : to[p] = <<i, j>>
    <3>1. CASE i = k + 1 BY <2>7, <3>1 DEF m
    <3>2. CASE i \in 1 .. k
      <4>1. PICK p \in 1 .. n : at[p] = <<i, j>> BY <2>3, <3>2 DEF CellsOf, n
      <4> QED BY <2>6, <4>1
    <3> QED BY <2>10, <3>1, <3>2
  <2>15. CellsOf(to, g[k + 1], ss, k + 1) BY <2>5, <2>9, <2>12, <2>13, <2>14 DEF CellsOf
  <2> QED BY <2>15
<1> HIDE DEF S
<1>4. Nat \subseteq S BY <1>2, <1>3, SetInduction
<1>5. Len(ss) \in Nat /\ Len(ss) \in 0 .. Len(ss) OBVIOUS
<1>6. \E at : CellsOf(at, g[Len(ss)], ss, Len(ss)) BY <1>4, <1>5 DEF S
<1> QED BY <1>1, <1>5, <1>6 DEF JoinedValues
=============================================================================
