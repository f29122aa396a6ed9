--------------------------- MODULE Sifting_proofs ---------------------------
(***************************************************************************)
(* Induction over the positions of a sequence, over its prefixes and over  *)
(* the turns of a loop; then what filtering, joining, grouping and sorting *)
(* do to the entries of a sequence and to their order.                     *)
(***************************************************************************)
EXTENDS Sifting, SequencesExt, WellFoundedInduction, TLAPS

LEMMA LeastNatural ==
  ASSUME NEW T, T \subseteq Nat, T # {}
  PROVE  \E m \in T : \A k \in T : m <= k
<1> DEFINE R == OpToRel(<, Nat)
<1>1. IsWellFoundedOn(R, Nat)
  BY NatLessThanWellFounded, Zenon
<1>2. \A i, j \in Nat : i < j => <<i, j>> \in R
  <2>1. R = {ss \in Nat \X Nat : ss[1] < ss[2]}
    BY Zenon DEF OpToRel
  <2> HIDE DEF R
  <2>2. QED BY <2>1
<1> HIDE DEF R
<1>3. PICK x \in T : \A y \in T : <<y, x>> \notin R
  BY <1>1, WFMin
<1>4. \A y \in T : ~(y < x)
  BY <1>2, <1>3
<1>5. QED BY <1>4

LEMMA FiniteInduction ==
  ASSUME NEW n \in Nat, NEW T, 0 \in T,
         \A i \in 1..n : i - 1 \in T => i \in T
  PROVE  n \in T
<1> DEFINE U == {i \in 0..n : i \notin T}
<1> SUFFICES ASSUME U # {} PROVE FALSE
  OBVIOUS
<1>1. PICK m \in U : \A k \in U : m <= k
  <2>1. U \subseteq Nat  OBVIOUS
  <2> HIDE DEF U
  <2>2. QED BY <2>1, LeastNatural
<1>2. m \in 1..n
  OBVIOUS
<1>3. m - 1 \in 0..n /\ m - 1 \notin U
  <2>1. m \in Nat /\ m - 1 \in Nat  BY <1>2
  <2>2. ~(m <= m - 1)  BY <2>1
  <2>3. QED BY <1>1, <1>2, <2>1, <2>2
<1>4. QED BY <1>2, <1>3

Follows(g, n, base, F) == g[0] = base /\ \A i \in 1..n : g[i] = F[i][g[i - 1]]

LEMMA Recursion ==
  ASSUME NEW n \in Nat, NEW V, NEW base \in V, NEW F \in [1..n -> [V -> V]]
  PROVE  \E g \in [0..n -> V] : Follows(g, n, base, F)
<1> DEFINE To(g, m) == g[0] = base /\ \A i \in 1..m : g[i] = F[i][g[i - 1]]
           T == {m \in 0..n : \E g \in [0..m -> V] : To(g, m)}
<1>1. 0 \in T
  <2> DEFINE g == [i \in 0..0 |-> base]
  <2>1. g \in [0..0 -> V] /\ g[0] = base
    OBVIOUS
  <2>2. \A i \in 1..0 : FALSE
    OBVIOUS
  <2>3. 0 \in 0..n /\ To(g, 0)
    BY <2>1, <2>2
  <2> HIDE DEF g, To
  <2>4. QED BY <2>1, <2>3
<1>2. ASSUME NEW m \in 1..n, m - 1 \in T PROVE m \in T
  <2>1. PICK g \in [0..(m - 1) -> V] : To(g, m - 1)
    BY <1>2
  <2>2. m \in Nat /\ m - 1 \in 0..(m - 1) /\ 0 \in 0..(m - 1) /\ m \in 0..n
    OBVIOUS
  <2> DEFINE last == F[m][g[m - 1]]
             h == [i \in 0..m |-> IF i = m THEN last ELSE g[i]]
  <2>3. last \in V
    BY <2>1, <2>2
  <2>4. \A i \in 0..m : i = m \/ i \in 0..(m - 1)
    BY <2>2
  <2>5. \A i \in 0..(m - 1) : i \in 0..m /\ i # m
    BY <2>2
  <2>6. h \in [0..m -> V]
    <3> HIDE DEF last
    <3> QED BY <2>1, <2>3, <2>4
  <2>7. h[m] = last /\ \A i \in 0..(m - 1) : h[i] = g[i]
    <3> HIDE DEF last
    <3> QED BY <2>2, <2>5
  <2>8. \A i \in 1..m : i = m \/ (i \in 1..(m - 1) /\ i \in 0..(m - 1) /\ i - 1 \in 0..(m - 1))
    BY <2>2
  <2> HIDE DEF h
  <2>9. h[0] = base
    BY <2>1, <2>2, <2>7
  <2>10. \A i \in 1..m : h[i] = F[i][h[i - 1]]
    BY <2>1, <2>2, <2>7, <2>8
  <2>11. QED BY <2>2, <2>6, <2>9, <2>10
<1>3. \A m \in 1..n : m - 1 \in T => m \in T
  BY <1>2
<1> HIDE DEF T
<1>4. n \in T
  BY <1>1, <1>3, FiniteInduction, Zenon
<1>5. QED BY <1>4 DEF T, Follows

\* What Kept computes from a sequence, entry by entry.
Sifts(f, s, S) ==
  /\ f[0] = <<>>
  /\ \A i \in 1..Len(s) :
       f[i] = IF s[i] \in S THEN Append(f[i - 1], s[i]) ELSE f[i - 1]

LEMMA KeptUnfolds ==
  ASSUME NEW E, NEW s \in Seq(E), NEW S
  PROVE  \E f \in [0..Len(s) -> Seq(E \cap S)] :
           Sifts(f, s, S) /\ Kept(s, S) = f[Len(s)]
<1> DEFINE V == Seq(E \cap S)
           Step(v, i) == IF s[i] \in S THEN Append(v, s[i]) ELSE v
           P(f) == f = [i \in 0..Len(s) |-> IF i = 0 THEN <<>> ELSE Step(f[i - 1], i)]
           kept == CHOOSE f : P(f)
<1>1. Len(s) \in Nat /\ <<>> \in V
  OBVIOUS
<1>2. \A i \in 1..Len(s) : i \in 0..Len(s) /\ i # 0 /\ i - 1 \in 0..Len(s)
  BY <1>1
<1>3. \A i \in 0..Len(s) : i = 0 \/ i \in 1..Len(s)
  BY <1>1
<1>4. \A i \in 1..Len(s), v \in V : Step(v, i) \in V
  OBVIOUS
<1>5. Kept(s, S) = kept[Len(s)]
  BY DEF Kept
<1> HIDE DEF V, Step
<1> DEFINE F == [i \in 1..Len(s) |-> [v \in V |-> Step(v, i)]]
<1>6. F \in [1..Len(s) -> [V -> V]]
  BY <1>4
<1>7. \A i \in 1..Len(s), v \in V : F[i][v] = Step(v, i)
  OBVIOUS
<1> HIDE DEF F
<1>8. PICK g \in [0..Len(s) -> V] : Follows(g, Len(s), <<>>, F)
  BY <1>1, <1>6, Recursion
<1>9. g[0] = <<>> /\ \A i \in 1..Len(s) : g[i] = Step(g[i - 1], i)
  BY <1>2, <1>7, <1>8 DEF Follows
<1>10. P(g)
  <2>1. \A i \in 0..Len(s) : g[i] = IF i = 0 THEN <<>> ELSE Step(g[i - 1], i)
    BY <1>2, <1>3, <1>9
  <2>2. g = [i \in 0..Len(s) |-> g[i]]
    OBVIOUS
  <2> QED BY <2>1, <2>2
<1>11. P(kept)
  <2> HIDE DEF P
  <2> QED BY <1>10
<1> HIDE DEF kept
<1>12. kept[0] = <<>> /\ \A i \in 1..Len(s) : kept[i] = Step(kept[i - 1], i)
  BY <1>1, <1>2, <1>11
<1>13. kept \in [0..Len(s) -> V]
  <2> DEFINE T == {i \in 0..Len(s) : kept[i] \in V}
  <2>1. 0 \in T
    BY <1>1, <1>12
  <2>2. \A i \in 1..Len(s) : i - 1 \in T => i \in T
    BY <1>2, <1>4, <1>12
  <2> ASSUME NEW n \in 0..Len(s) PROVE kept[n] \in V
    <3>1. n \in Nat /\ \A i \in 1..n : i \in 1..Len(s)
      BY <1>1
    <3> HIDE DEF T
    <3>2. n \in T
      BY <2>1, <2>2, <3>1, FiniteInduction, Zenon
    <3> QED BY <3>2 DEF T
  <2> QED BY <1>11
<1> QED BY <1>5, <1>12, <1>13 DEF V, Step, Sifts

LEMMA KeptType ==
  ASSUME NEW E, NEW s \in Seq(E), NEW S
  PROVE  /\ Kept(s, S) \in Seq(E \cap S)
         /\ Len(Kept(s, S)) <= Len(s)
         /\ (\E j \in DOMAIN s : s[j] \notin S) => Len(Kept(s, S)) < Len(s)
<1>a. PICK f \in [0..Len(s) -> Seq(E \cap S)] :
        Sifts(f, s, S) /\ Kept(s, S) = f[Len(s)]
  BY KeptUnfolds
<1>1. /\ Kept(s, S) = f[Len(s)] /\ f[0] = <<>>
      /\ \A i \in 1..Len(s) :
           f[i] = IF s[i] \in S THEN Append(f[i - 1], s[i]) ELSE f[i - 1]
  BY <1>a DEF Sifts
<1>2. Len(s) \in Nat /\ Len(s) \in 0..Len(s) /\ DOMAIN s = 1..Len(s)
  OBVIOUS
<1>3. \A i \in 1..Len(s) :
        /\ i \in 0..Len(s) /\ i - 1 \in 0..Len(s)
        /\ Len(f[i]) <= Len(f[i - 1]) + 1
        /\ s[i] \notin S => Len(f[i]) = Len(f[i - 1])
  <2> SUFFICES ASSUME NEW i \in 1..Len(s)
               PROVE  /\ i \in 0..Len(s) /\ i - 1 \in 0..Len(s)
                      /\ Len(f[i]) <= Len(f[i - 1]) + 1
                      /\ s[i] \notin S => Len(f[i]) = Len(f[i - 1])
    OBVIOUS
  <2>1. i \in 0..Len(s) /\ i - 1 \in 0..Len(s)
    BY <1>2
  <2>2. f[i - 1] \in Seq(E \cap S)
    BY <2>1
  <2>3. s[i] \in S => f[i] = Append(f[i - 1], s[i])
    BY <1>1
  <2>4. s[i] \notin S => f[i] = f[i - 1]
    BY <1>1
  <2>5. s[i] \in E
    BY <1>2
  <2> QED BY <2>1, <2>2, <2>3, <2>4, <2>5
<1>4. \A i \in 0..Len(s) : Len(f[i]) \in Nat
  OBVIOUS
<1>5. Len(f[0]) = 0
  BY <1>1
<1>6. \A n \in 0..Len(s) : Len(f[n]) <= n
  <2> DEFINE T == {i \in 0..Len(s) : Len(f[i]) <= i}
  <2>1. 0 \in T
    BY <1>2, <1>5
  <2>2. \A i \in 1..Len(s) : i - 1 \in T => i \in T
    BY <1>3, <1>4
  <2> SUFFICES ASSUME NEW n \in 0..Len(s) PROVE n \in T
    OBVIOUS
  <2>3. n \in Nat /\ \A i \in 1..n : i \in 1..Len(s)
    BY <1>2
  <2> HIDE DEF T
  <2> QED BY <2>1, <2>2, <2>3, FiniteInduction, Zenon
<1>7. ASSUME NEW j \in 1..Len(s), s[j] \notin S
      PROVE  Len(f[Len(s)]) < Len(s)
  <2> DEFINE T == {i \in 0..Len(s) : i >= j => Len(f[i]) < i}
  <2>1. 0 \in T
    BY <1>2
  <2>2. \A i \in 1..Len(s) : i - 1 \in T => i \in T
    <3> SUFFICES ASSUME NEW i \in 1..Len(s), i - 1 \in T, i >= j
                 PROVE  Len(f[i]) < i
      BY <1>3
    <3>1. CASE i = j
      BY <1>3, <1>4, <1>6, <1>7, <3>1
    <3>2. CASE i - 1 >= j
      BY <1>3, <1>4, <3>2
    <3> QED BY <3>1, <3>2
  <2> HIDE DEF T
  <2>3. Len(s) \in T
    BY <1>2, <2>1, <2>2, FiniteInduction, Zenon
  <2> QED BY <2>3 DEF T
<1> QED BY <1>1, <1>2, <1>6, <1>7

\* Nothing that belongs is lost.
LEMMA KeptMembers ==
  ASSUME NEW E, NEW s \in Seq(E), NEW S, NEW j \in DOMAIN s, s[j] \in S
  PROVE  \E k \in DOMAIN Kept(s, S) : Kept(s, S)[k] = s[j]
<1>a. PICK f \in [0..Len(s) -> Seq(E \cap S)] :
        Sifts(f, s, S) /\ Kept(s, S) = f[Len(s)]
  BY KeptUnfolds
<1>1. \A i \in 1..Len(s) :
        f[i] = IF s[i] \in S THEN Append(f[i - 1], s[i]) ELSE f[i - 1]
  BY <1>a DEF Sifts
<1>2. Len(s) \in Nat /\ Len(s) \in 0..Len(s) /\ j \in 1..Len(s)
  OBVIOUS
<1> DEFINE Has(q) == \E k \in DOMAIN q : q[k] = s[j]
           T == {i \in 0..Len(s) : i >= j => Has(f[i])}
<1>3. 0 \in T
  BY <1>2
<1>4. \A i \in 1..Len(s) : i - 1 \in T => i \in T
  <2> SUFFICES ASSUME NEW i \in 1..Len(s), i - 1 \in T, i >= j
               PROVE  Has(f[i])
    BY <1>2, SMTT(30)
  <2>1. f[i - 1] \in Seq(E \cap S) /\ i - 1 \in 0..Len(s)
    BY <1>2
  <2>2. CASE i = j
    <3>1. f[i] = Append(f[i - 1], s[j])
      BY <1>1, <2>2
    <3>2. Len(f[i - 1]) + 1 \in DOMAIN f[i] /\ f[i][Len(f[i - 1]) + 1] = s[j]
      BY <2>1, <3>1
    <3> QED BY <3>2
  <2>3. CASE i - 1 >= j
    <3>1. PICK k \in DOMAIN f[i - 1] : f[i - 1][k] = s[j]
      BY <2>1, <2>3
    <3>2. f[i] = f[i - 1] \/ f[i] = Append(f[i - 1], s[i])
      BY <1>1
    <3>3. k \in DOMAIN f[i] /\ f[i][k] = f[i - 1][k]
      <4>1. CASE f[i] = f[i - 1]
        BY <3>1, <4>1
      <4>2. CASE f[i] = Append(f[i - 1], s[i])
        BY <2>1, <3>1, <4>2
      <4> QED BY <3>2, <4>1, <4>2
    <3> QED BY <3>1, <3>3
  <2> QED BY <1>2, <2>2, <2>3
<1> HIDE DEF T
<1>5. Len(s) \in T
  BY <1>2, <1>3, <1>4, FiniteInduction, Zenon
<1> QED BY <1>a, <1>2, <1>5 DEF T

-----------------------------------------------------------------------------
\* Induction over sequences: a set that contains the empty sequence and every
\* extension of its members by one entry contains them all.
LEMMA SequenceInduction ==
  ASSUME NEW E, NEW T, <<>> \in T,
         \A s \in Seq(E), x \in E : s \in T => Append(s, x) \in T
  PROVE  Seq(E) \subseteq T
<1> SUFFICES ASSUME NEW s \in Seq(E) PROVE s \in T
  OBVIOUS
<1>1. Len(s) \in Nat /\ DOMAIN s = 1..Len(s)
  OBVIOUS
<1> DEFINE Prefix(i) == [k \in 1..i |-> s[k]]
           U == {i \in 0..Len(s) : Prefix(i) \in T}
<1>2. 0 \in U
  <2>1. Prefix(0) = <<>>
    OBVIOUS
  <2> HIDE DEF Prefix
  <2> QED BY <1>1, <2>1
<1>3. ASSUME NEW i \in 1..Len(s), i - 1 \in U PROVE i \in U
  <2>1. s[i] \in E /\ i \in 0..Len(s) /\ i \in Nat /\ i - 1 \in Nat
    BY <1>1
  <2>2. Prefix(i - 1) \in Seq(E) /\ Len(Prefix(i - 1)) = i - 1
    BY <1>1
  <2>3. Prefix(i) = Append(Prefix(i - 1), s[i])
    <3>1. Append(Prefix(i - 1), s[i]) \in Seq(E) /\ Prefix(i) \in Seq(E)
      BY <1>1, <2>1, <2>2
    <3>2. Len(Append(Prefix(i - 1), s[i])) = i /\ Len(Prefix(i)) = i
      BY <1>1, <2>1, <2>2
    <3>3. \A k \in 1..i : Append(Prefix(i - 1), s[i])[k] = Prefix(i)[k]
      BY <1>1, <2>1, <2>2
    <3> HIDE DEF Prefix
    <3> QED BY <3>1, <3>2, <3>3
  <2> HIDE DEF Prefix
  <2> QED BY <1>3, <2>1, <2>2, <2>3
<1>4. Len(s) \in U
  <2>1. \A i \in 1..Len(s) : i - 1 \in U => i \in U
    BY <1>3
  <2> HIDE DEF U
  <2> QED BY <1>1, <1>2, <2>1, FiniteInduction, Zenon
<1>5. Prefix(Len(s)) = s
  BY <1>1
<1> QED BY <1>4, <1>5

LEMMA ConcatAppend ==
  ASSUME NEW E, NEW s \in Seq(E), NEW t \in Seq(E), NEW x \in E
  PROVE  s \o Append(t, x) = Append(s \o t, x)
  OBVIOUS

LEMMA AppendEntries ==
  ASSUME NEW E, NEW s \in Seq(E), NEW x \in E
  PROVE  Append(s, x) = [i \in 1..(Len(s) + 1) |-> IF i = Len(s) + 1 THEN x ELSE s[i]]
<1> DEFINE t == Append(s, x)
<1>1. t \in Seq(E) /\ Len(t) = Len(s) + 1
  OBVIOUS
<1>2. t = [i \in 1..Len(t) |-> t[i]]
  <2> HIDE DEF t
  <2> QED BY <1>1
<1>3. \A i \in 1..(Len(s) + 1) : t[i] = IF i = Len(s) + 1 THEN x ELSE s[i]
  OBVIOUS
<1> HIDE DEF t
<1>4. t = [i \in 1..(Len(s) + 1) |-> IF i = Len(s) + 1 THEN x ELSE s[i]]
  BY <1>1, <1>2, <1>3
<1> QED BY <1>4 DEF t

\* Two functions that are computed by the same loop agree.
LEMMA SameCourse ==
  ASSUME NEW n \in Nat, NEW f, NEW g, f[0] = g[0],
         \A i \in 1..n : f[i - 1] = g[i - 1] => f[i] = g[i]
  PROVE  f[n] = g[n]
<1> DEFINE T == {i \in 0..n : f[i] = g[i]}
<1>1. 0 \in T
  OBVIOUS
<1>2. \A i \in 1..n : i - 1 \in T => i \in T
  OBVIOUS
<1> HIDE DEF T
<1>3. n \in T
  BY <1>1, <1>2, FiniteInduction, Zenon
<1> QED BY <1>3 DEF T

\* What Loop computes, turn by turn.
Turns(f, V, step, base, s) ==
  /\ f \in [0..Len(s) -> V] /\ Loop(step, base, s) = f[Len(s)]
  /\ f[0] = base /\ \A i \in 1..Len(s) : f[i] = step[f[i - 1]][s[i]]

LEMMA LoopUnfolds ==
  ASSUME NEW E, NEW V, NEW base \in V, NEW step \in [V -> [E -> V]], NEW s \in Seq(E)
  PROVE  \E f : Turns(f, V, step, base, s)
<1> DEFINE Step(v, i) == step[v][s[i]]
           P(f) == f = [i \in 0..Len(s) |-> IF i = 0 THEN base ELSE Step(f[i - 1], i)]
           turn == CHOOSE f : P(f)
<1>1. Len(s) \in Nat
  OBVIOUS
<1>2. \A i \in 1..Len(s) : i \in 0..Len(s) /\ i # 0 /\ i - 1 \in 0..Len(s)
  BY <1>1
<1>3. \A i \in 0..Len(s) : i = 0 \/ i \in 1..Len(s)
  BY <1>1
<1>4. \A i \in 1..Len(s), v \in V : Step(v, i) \in V
  OBVIOUS
<1>5. Loop(step, base, s) = turn[Len(s)]
  BY DEF Loop
<1> HIDE DEF Step
<1> DEFINE F == [i \in 1..Len(s) |-> [v \in V |-> Step(v, i)]]
<1>6. F \in [1..Len(s) -> [V -> V]]
  BY <1>4
<1>7. \A i \in 1..Len(s), v \in V : F[i][v] = Step(v, i)
  OBVIOUS
<1> HIDE DEF F
<1>8. PICK g \in [0..Len(s) -> V] : Follows(g, Len(s), base, F)
  BY <1>1, <1>6, Recursion
<1>9. g[0] = base /\ \A i \in 1..Len(s) : g[i] = Step(g[i - 1], i)
  BY <1>2, <1>7, <1>8 DEF Follows
<1>10. P(g)
  <2>1. \A i \in 0..Len(s) : g[i] = IF i = 0 THEN base ELSE Step(g[i - 1], i)
    BY <1>2, <1>3, <1>9
  <2>2. g = [i \in 0..Len(s) |-> g[i]]
    OBVIOUS
  <2> QED BY <2>1, <2>2
<1>11. P(turn)
  <2> HIDE DEF P
  <2> QED BY <1>10
<1> HIDE DEF turn
<1>12. turn[0] = base /\ \A i \in 1..Len(s) : turn[i] = Step(turn[i - 1], i)
  <2>1. 0 \in 0..Len(s)
    BY <1>1
  <2>2. \A i \in 0..Len(s) : turn[i] = IF i = 0 THEN base ELSE Step(turn[i - 1], i)
    BY <1>11
  <2> QED BY <1>2, <2>1, <2>2
<1>13. \A n \in 0..Len(s) : turn[n] = g[n]
  <2> SUFFICES ASSUME NEW n \in 0..Len(s) PROVE turn[n] = g[n]
    OBVIOUS
  <2>1. n \in Nat /\ \A i \in 1..n : i \in 1..Len(s)
    BY <1>1
  <2>2. turn[0] = g[0] /\ \A i \in 1..n : turn[i - 1] = g[i - 1] => turn[i] = g[i]
    BY <1>9, <1>12, <2>1
  <2> QED BY <2>1, <2>2, SameCourse
<1>14. turn[Len(s)] = g[Len(s)]
  BY <1>1, <1>13
<1> QED BY <1>5, <1>9, <1>14 DEF Step, Turns

LEMMA LoopEmpty ==
  ASSUME NEW E, NEW V, NEW base \in V, NEW step \in [V -> [E -> V]]
  PROVE  Loop(step, base, <<>>) = base
<1>1. <<>> \in Seq(E) /\ Len(<<>>) = 0
  OBVIOUS
<1>2. PICK f : Turns(f, V, step, base, <<>>)
  BY <1>1, LoopUnfolds
<1> QED BY <1>1, <1>2 DEF Turns

LEMMA LoopType ==
  ASSUME NEW E, NEW V, NEW base \in V, NEW step \in [V -> [E -> V]], NEW s \in Seq(E)
  PROVE  Loop(step, base, s) \in V
<1>1. PICK f : Turns(f, V, step, base, s)
  BY LoopUnfolds
<1>2. Len(s) \in 0..Len(s) /\ f \in [0..Len(s) -> V]
  BY <1>1 DEF Turns
<1> QED BY <1>1, <1>2 DEF Turns

\* The three facts together, for a step whose type is known.
Steps(step, base, V, E) == base \in V /\ step \in [V -> [E -> V]]

LEMMA LoopRuns ==
  ASSUME NEW E, NEW V, NEW base, NEW step, Steps(step, base, V, E)
  PROVE  /\ Loop(step, base, <<>>) = base
         /\ \A s \in Seq(E) : Loop(step, base, s) \in V
         /\ \A s \in Seq(E), x \in E : Loop(step, base, Append(s, x)) = step[Loop(step, base, s)][x]
<1>1. base \in V /\ step \in [V -> [E -> V]]
  BY DEF Steps
<1>2. Loop(step, base, <<>>) = base
  BY <1>1, LoopEmpty
<1>3. ASSUME NEW s \in Seq(E) PROVE Loop(step, base, s) \in V
  BY <1>1, LoopType
<1>4. ASSUME NEW s \in Seq(E), NEW x \in E
      PROVE  Loop(step, base, Append(s, x)) = step[Loop(step, base, s)][x]
  <2> DEFINE t == Append(s, x)
  <2>1. /\ t \in Seq(E) /\ Len(t) = Len(s) + 1 /\ Len(s) \in Nat
        /\ t[Len(s) + 1] = x /\ \A i \in 1..Len(s) : t[i] = s[i] /\ i \in 1..Len(t)
    OBVIOUS
  <2> HIDE DEF t
  <2>2. PICK f : Turns(f, V, step, base, s)
    BY <1>1, LoopUnfolds
  <2>3. PICK g : Turns(g, V, step, base, t)
    BY <1>1, <2>1, LoopUnfolds
  <2>4. f[Len(s)] = g[Len(s)]
    <3>1. f[0] = g[0]
      BY <2>2, <2>3 DEF Turns
    <3>2. ASSUME NEW i \in 1..Len(s), f[i - 1] = g[i - 1] PROVE f[i] = g[i]
      <4>1. f[i] = step[f[i - 1]][s[i]]
        BY <2>2 DEF Turns
      <4>2. i \in 1..Len(t) /\ t[i] = s[i]
        BY <2>1
      <4>3. g[i] = step[g[i - 1]][t[i]]
        BY <2>3, <4>2 DEF Turns
      <4> QED BY <3>2, <4>1, <4>2, <4>3
    <3> QED BY <2>1, <3>1, <3>2, SameCourse
  <2>5. g[Len(t)] = step[g[Len(s)]][x]
    <3>1. Len(t) \in 1..Len(t) /\ Len(t) - 1 = Len(s)
      BY <2>1
    <3> QED BY <2>1, <2>3, <3>1 DEF Turns
  <2> QED BY <2>2, <2>3, <2>4, <2>5 DEF t, Turns
<1> QED BY <1>2, <1>3, <1>4

LEMMA KeptEmpty ==
  ASSUME NEW S PROVE Kept(<<>>, S) = <<>>
<1>1. <<>> \in Seq({}) /\ Len(<<>>) = 0
  OBVIOUS
<1>2. PICK f \in [0..Len(<<>>) -> Seq({} \cap S)] :
        Sifts(f, <<>>, S) /\ Kept(<<>>, S) = f[Len(<<>>)]
  BY <1>1, KeptUnfolds
<1> QED BY <1>1, <1>2 DEF Sifts

LEMMA KeptAppend ==
  ASSUME NEW E, NEW s \in Seq(E), NEW x \in E, NEW S
  PROVE  Kept(Append(s, x), S) = IF x \in S THEN Append(Kept(s, S), x) ELSE Kept(s, S)
<1> DEFINE t == Append(s, x)
<1>1. /\ t \in Seq(E) /\ Len(t) = Len(s) + 1 /\ Len(s) \in Nat
      /\ t[Len(s) + 1] = x /\ \A i \in 1..Len(s) : t[i] = s[i] /\ i \in 1..Len(t)
  OBVIOUS
<1> HIDE DEF t
<1>2. PICK f \in [0..Len(s) -> Seq(E \cap S)] :
        Sifts(f, s, S) /\ Kept(s, S) = f[Len(s)]
  BY KeptUnfolds
<1>3. PICK g \in [0..Len(t) -> Seq(E \cap S)] :
        Sifts(g, t, S) /\ Kept(t, S) = g[Len(t)]
  BY <1>1, KeptUnfolds
<1>4. f[Len(s)] = g[Len(s)]
  <2>1. f[0] = g[0]
    BY <1>2, <1>3 DEF Sifts
  <2>2. \A i \in 1..Len(s) : f[i - 1] = g[i - 1] => f[i] = g[i]
    BY <1>1, <1>2, <1>3 DEF Sifts
  <2> QED BY <1>1, <2>1, <2>2, SameCourse
<1>5. g[Len(t)] = IF x \in S THEN Append(g[Len(s)], x) ELSE g[Len(s)]
  <2>1. Len(t) \in 1..Len(t) /\ Len(t) - 1 = Len(s) /\ t[Len(t)] = x
    BY <1>1
  <2> QED BY <1>3, <2>1 DEF Sifts
<1> QED BY <1>2, <1>3, <1>4, <1>5 DEF t

LEMMA KeptConcat ==
  ASSUME NEW E, NEW s \in Seq(E), NEW t \in Seq(E), NEW S
  PROVE  Kept(s \o t, S) = Kept(s, S) \o Kept(t, S)
<1> DEFINE T == {u \in Seq(E) : Kept(s \o u, S) = Kept(s, S) \o Kept(u, S)}
<1>0. Kept(s, S) \in Seq(E) /\ \A u \in Seq(E) : Kept(u, S) \in Seq(E)
  <2> ASSUME NEW u \in Seq(E) PROVE Kept(u, S) \in Seq(E)
    <3>1. Kept(u, S) \in Seq(E \cap S)
      BY KeptType
    <3> QED BY <3>1
  <2> QED OBVIOUS
<1>1. <<>> \in T
  <2> DEFINE none == <<>>
  <2>1. s \o none = s /\ Kept(s, S) \o none = Kept(s, S) /\ none \in Seq(E)
    BY <1>0
  <2>2. Kept(none, S) = none
    BY KeptEmpty
  <2> HIDE DEF none
  <2>3. none \in T
    BY <2>1, <2>2
  <2> QED BY <2>3 DEF none
<1>2. ASSUME NEW u \in Seq(E), NEW x \in E, u \in T PROVE Append(u, x) \in T
  <2>1. s \o Append(u, x) = Append(s \o u, x) /\ s \o u \in Seq(E) /\ Append(u, x) \in Seq(E)
    OBVIOUS
  <2>2. Kept(s \o Append(u, x), S)
          = IF x \in S THEN Append(Kept(s \o u, S), x) ELSE Kept(s \o u, S)
    BY <2>1, KeptAppend
  <2>3. Kept(Append(u, x), S) = IF x \in S THEN Append(Kept(u, S), x) ELSE Kept(u, S)
    BY KeptAppend
  <2>4. Kept(s, S) \o Append(Kept(u, S), x) = Append(Kept(s, S) \o Kept(u, S), x)
    BY <1>0
  <2>5. Kept(s \o u, S) = Kept(s, S) \o Kept(u, S)
    BY <1>2
  <2>6. Kept(s \o Append(u, x), S) = Kept(s, S) \o Kept(Append(u, x), S)
    BY <2>2, <2>3, <2>4, <2>5
  <2> QED BY <2>1, <2>6
<1> HIDE DEF T
<1>3. Seq(E) \subseteq T
  BY <1>1, <1>2, SequenceInduction
<1> QED BY <1>3 DEF T

LEMMA KeptKept ==
  ASSUME NEW E, NEW s \in Seq(E), NEW A, NEW B
  PROVE  Kept(Kept(s, A), B) = Kept(s, A \cap B)
<1> DEFINE T == {u \in Seq(E) : Kept(Kept(u, A), B) = Kept(u, A \cap B)}
<1>1. <<>> \in T
  BY KeptEmpty
<1>2. ASSUME NEW u \in Seq(E), NEW x \in E, u \in T PROVE Append(u, x) \in T
  <2>1. Kept(u, A) \in Seq(E)
    <3>1. Kept(u, A) \in Seq(E \cap A)
      BY KeptType
    <3> QED BY <3>1
  <2>2. Kept(Append(u, x), A) = IF x \in A THEN Append(Kept(u, A), x) ELSE Kept(u, A)
    BY KeptAppend
  <2>3. Kept(Append(Kept(u, A), x), B)
          = IF x \in B THEN Append(Kept(Kept(u, A), B), x) ELSE Kept(Kept(u, A), B)
    BY <2>1, KeptAppend
  <2>4. Kept(Append(u, x), A \cap B)
          = IF x \in A \cap B THEN Append(Kept(u, A \cap B), x) ELSE Kept(u, A \cap B)
    BY KeptAppend
  <2>5. Kept(Kept(u, A), B) = Kept(u, A \cap B)
    BY <1>2
  <2>6. Kept(Kept(Append(u, x), A), B) = Kept(Append(u, x), A \cap B)
    <3>1. CASE x \in A /\ x \in B
      <4>1. Kept(Append(u, x), A) = Append(Kept(u, A), x) /\ x \in A \cap B
        BY <2>2, <3>1
      <4> QED BY <2>3, <2>4, <2>5, <3>1, <4>1
    <3>3. CASE x \in A /\ x \notin B
      <4>1. Kept(Append(u, x), A) = Append(Kept(u, A), x) /\ x \notin A \cap B
        BY <2>2, <3>3
      <4> QED BY <2>3, <2>4, <2>5, <3>3, <4>1
    <3>2. CASE x \notin A
      BY <2>2, <2>4, <2>5, <3>2
    <3> QED BY <3>1, <3>2, <3>3
  <2> QED BY <2>6
<1> HIDE DEF T
<1>3. Seq(E) \subseteq T
  BY <1>1, <1>2, SequenceInduction
<1> QED BY <1>3 DEF T

\* The entries that are in a set are the same as those in another set that
\* differs from it outside E.
LEMMA KeptSame ==
  ASSUME NEW E, NEW s \in Seq(E), NEW A, NEW B, A \cap E = B \cap E
  PROVE  Kept(s, A) = Kept(s, B)
<1> DEFINE T == {u \in Seq(E) : Kept(u, A) = Kept(u, B)}
<1>1. <<>> \in T
  BY KeptEmpty
<1>2. ASSUME NEW u \in Seq(E), NEW x \in E, u \in T PROVE Append(u, x) \in T
  <2>1. Kept(Append(u, x), A) = IF x \in A THEN Append(Kept(u, A), x) ELSE Kept(u, A)
    BY KeptAppend
  <2>2. Kept(Append(u, x), B) = IF x \in B THEN Append(Kept(u, B), x) ELSE Kept(u, B)
    BY KeptAppend
  <2>3. x \in A <=> x \in B
    OBVIOUS
  <2> QED BY <1>2, <2>1, <2>2, <2>3
<1> HIDE DEF T
<1>3. Seq(E) \subseteq T
  BY <1>1, <1>2, SequenceInduction
<1> QED BY <1>3 DEF T

LEMMA KeptNone ==
  ASSUME NEW E, NEW s \in Seq(E), NEW A, A \cap E = {}
  PROVE  Kept(s, A) = <<>>
<1>1. Kept(s, A) \in Seq(E \cap A)
  BY KeptType
<1>2. \A q \in Seq(E \cap A) : q = <<>>
  <2> SUFFICES ASSUME NEW q \in Seq({}) PROVE q = <<>>
    OBVIOUS
  <2>1. Len(q) = 0
    <3> SUFFICES ASSUME Len(q) # 0 PROVE FALSE
      OBVIOUS
    <3>1. q[1] \in {}
      OBVIOUS
    <3> QED BY <3>1
  <2> QED BY <2>1
<1> QED BY <1>1, <1>2

\* What was kept was there.
LEMMA KeptFrom ==
  ASSUME NEW E, NEW s \in Seq(E), NEW A, NEW k \in DOMAIN Kept(s, A)
  PROVE  Kept(s, A)[k] \in A /\ \E j \in DOMAIN s : Kept(s, A)[k] = s[j]
<1> DEFINE R == {s[j] : j \in DOMAIN s}
<1>1. s \in Seq(R)
  <2>1. s = [j \in 1..Len(s) |-> s[j]] /\ DOMAIN s = 1..Len(s) /\ Len(s) \in Nat
    OBVIOUS
  <2> QED BY <2>1
<1>2. Kept(s, A) \in Seq(R \cap A)
  <2> HIDE DEF R
  <2> QED BY <1>1, KeptType
<1>3. Kept(s, A)[k] \in R \cap A
  <2> HIDE DEF R
  <2> QED BY <1>2
<1> QED BY <1>3

-----------------------------------------------------------------------------
\* FlattenSeq of the community modules, array by array.
Joins(f, E, ss) ==
  /\ f \in [0..Len(ss) -> Seq(E)] /\ FlattenSeq(ss) = f[Len(ss)]
  /\ f[0] = <<>> /\ \A i \in 1..Len(ss) : f[i] = f[i - 1] \o ss[i]

LEMMA FlattenUnfolds ==
  ASSUME NEW E, NEW ss \in Seq(Seq(E))
  PROVE  \E f : Joins(f, E, ss)
<1> DEFINE n == Len(ss)
<1>1. n \in Nat /\ \A i \in 1..n : ss[i] \in Seq(E)
  OBVIOUS
<1> DEFINE F == [i \in 1..n |-> [v \in Seq(E) |-> v \o ss[i]]]
<1>2. F \in [1..n -> [Seq(E) -> Seq(E)]]
  BY <1>1
<1>3. PICK g \in [0..n -> Seq(E)] : Follows(g, n, <<>>, F)
  <2>1. <<>> \in Seq(E)
    OBVIOUS
  <2> HIDE DEF F, n
  <2> QED BY <1>1, <1>2, <2>1, Recursion
<1>4. \A i \in 1..n : i \in 0..n /\ i - 1 \in 0..n
  BY <1>1
<1>5. g[0] = <<>> /\ \A i \in 1..n : g[i] = g[i - 1] \o ss[i]
  BY <1>3, <1>4 DEF Follows
<1>6. FlattenSeq(ss) = g[n]
  <2>1. CASE n = 0
    BY <1>5, <2>1 DEF FlattenSeq
  <2>2. CASE n # 0
    <3> DEFINE P(f) == f = [i \in 1..n |-> IF i = 1 THEN ss[i] ELSE f[i - 1] \o ss[i]]
               flatten == CHOOSE f : P(f)
               h == [i \in 1..n |-> g[i]]
    <3>1. FlattenSeq(ss) = flatten[n]
      BY <2>2 DEF FlattenSeq
    <3>2. \A i \in 1..n : i = 1 \/ i - 1 \in 1..n
      BY <1>1
    <3>3. \A i \in 1..n : g[i] = IF i = 1 THEN ss[i] ELSE g[i - 1] \o ss[i]
      <4> SUFFICES ASSUME NEW i \in 1..n, i = 1 PROVE g[i] = ss[i]
        BY <1>5
      <4>1. g[1] = g[1 - 1] \o ss[1]
        BY <1>5
      <4>2. 1 - 1 = 0 /\ <<>> \o ss[1] = ss[1]
        BY <1>1
      <4> QED BY <1>5, <4>1, <4>2
    <3> HIDE DEF n
    <3>4. P(h)
      <4>1. \A i \in 1..n : h[i] = IF i = 1 THEN ss[i] ELSE h[i - 1] \o ss[i]
        BY <3>2, <3>3
      <4>2. h = [i \in 1..n |-> h[i]]
        OBVIOUS
      <4> HIDE DEF h
      <4> QED BY <4>1, <4>2
    <3>5. P(flatten)
      <4> HIDE DEF P, h
      <4> QED BY <3>4
    <3> HIDE DEF flatten
    <3>6. \A i \in 1..n : flatten[i] = IF i = 1 THEN ss[i] ELSE flatten[i - 1] \o ss[i]
      BY <3>5
    <3> DEFINE T == {i \in 0..n : i # 0 => flatten[i] = g[i]}
    <3>7. 0 \in T
      BY <1>1
    <3>8. \A i \in 1..n : i - 1 \in T => i \in T
      BY <1>4, <3>2, <3>3, <3>6
    <3> HIDE DEF T
    <3>9. n \in T
      BY <1>1, <3>7, <3>8, FiniteInduction, Zenon
    <3> QED BY <2>2, <3>1, <3>9 DEF T
  <2> QED BY <2>1, <2>2
<1> QED BY <1>3, <1>5, <1>6 DEF Joins

LEMMA FlattenEmpty == FlattenSeq(<<>>) = <<>>
  BY DEF FlattenSeq

LEMMA FlattenType ==
  ASSUME NEW E, NEW ss \in Seq(Seq(E))
  PROVE  FlattenSeq(ss) \in Seq(E)
<1>1. PICK f : Joins(f, E, ss)
  BY FlattenUnfolds
<1>2. Len(ss) \in 0..Len(ss)
  OBVIOUS
<1> QED BY <1>1, <1>2 DEF Joins

LEMMA FlattenAppend ==
  ASSUME NEW E, NEW ss \in Seq(Seq(E)), NEW s \in Seq(E)
  PROVE  FlattenSeq(Append(ss, s)) = FlattenSeq(ss) \o s
<1> DEFINE t == Append(ss, s)
<1>1. /\ t \in Seq(Seq(E)) /\ Len(t) = Len(ss) + 1 /\ Len(ss) \in Nat
      /\ t[Len(ss) + 1] = s /\ \A i \in 1..Len(ss) : t[i] = ss[i] /\ i \in 1..Len(t)
  OBVIOUS
<1> HIDE DEF t
<1>2. PICK f : Joins(f, E, ss)
  BY FlattenUnfolds
<1>3. PICK g : Joins(g, E, t)
  BY <1>1, FlattenUnfolds
<1>4. f[Len(ss)] = g[Len(ss)]
  <2>1. f[0] = g[0]
    BY <1>2, <1>3 DEF Joins
  <2>2. \A i \in 1..Len(ss) : f[i - 1] = g[i - 1] => f[i] = g[i]
    BY <1>1, <1>2, <1>3 DEF Joins
  <2> QED BY <1>1, <2>1, <2>2, SameCourse
<1>5. g[Len(t)] = g[Len(ss)] \o s
  <2>1. Len(t) \in 1..Len(t) /\ Len(t) - 1 = Len(ss) /\ t[Len(t)] = s
    BY <1>1
  <2> QED BY <1>3, <2>1 DEF Joins
<1> QED BY <1>2, <1>3, <1>4, <1>5 DEF t, Joins

LEMMA FlattenConcat ==
  ASSUME NEW E, NEW a \in Seq(Seq(E)), NEW b \in Seq(Seq(E))
  PROVE  FlattenSeq(a \o b) = FlattenSeq(a) \o FlattenSeq(b)
<1> DEFINE T == {u \in Seq(Seq(E)) : FlattenSeq(a \o u) = FlattenSeq(a) \o FlattenSeq(u)}
<1>0. \A u \in Seq(Seq(E)) : FlattenSeq(u) \in Seq(E)
  BY FlattenType
<1>1. <<>> \in T
  <2> DEFINE none == <<>>
  <2>1. a \o none = a /\ FlattenSeq(a) \o none = FlattenSeq(a) /\ none \in Seq(Seq(E))
    BY <1>0
  <2>2. FlattenSeq(none) = none
    BY FlattenEmpty
  <2> HIDE DEF none
  <2>3. none \in T
    BY <2>1, <2>2
  <2> QED BY <2>3 DEF none
<1>2. ASSUME NEW u \in Seq(Seq(E)), NEW x \in Seq(E), u \in T PROVE Append(u, x) \in T
  <2>1. /\ a \o Append(u, x) = Append(a \o u, x) /\ a \o u \in Seq(Seq(E))
        /\ Append(u, x) \in Seq(Seq(E))
    OBVIOUS
  <2>2. FlattenSeq(a \o Append(u, x)) = FlattenSeq(a \o u) \o x
    BY <2>1, FlattenAppend
  <2>3. FlattenSeq(Append(u, x)) = FlattenSeq(u) \o x
    BY FlattenAppend
  <2>4. FlattenSeq(a) \o (FlattenSeq(u) \o x) = (FlattenSeq(a) \o FlattenSeq(u)) \o x
    BY <1>0, SMTT(30)
  <2> QED BY <1>2, <2>1, <2>2, <2>3, <2>4
<1> HIDE DEF T
<1>3. Seq(Seq(E)) \subseteq T
  BY <1>1, <1>2, SequenceInduction
<1> QED BY <1>3 DEF T

-----------------------------------------------------------------------------
\* Filtering an array once for each of some disjoint sets and joining the
\* results loses nothing that is in one of the sets.
Shares(s, sets) == [i \in DOMAIN sets |-> Kept(s, sets[i])]

LEMMA SharesType ==
  ASSUME NEW E, NEW s \in Seq(E), NEW D, NEW sets \in Seq(D)
  PROVE  /\ \A A : Kept(s, A) \in Seq(E)
         /\ Shares(s, sets) \in Seq(Seq(E)) /\ Len(Shares(s, sets)) = Len(sets)
<1>1. ASSUME NEW A PROVE Kept(s, A) \in Seq(E)
  <2>1. Kept(s, A) \in Seq(E \cap A)
    BY KeptType
  <2> QED BY <2>1
<1>2. DOMAIN sets = 1..Len(sets) /\ Len(sets) \in Nat
  OBVIOUS
<1>3. Shares(s, sets) = [i \in 1..Len(sets) |-> Kept(s, sets[i])]
  BY <1>2 DEF Shares
<1> QED BY <1>1, <1>2, <1>3

LEMMA SharesAppend ==
  ASSUME NEW E, NEW s \in Seq(E), NEW D, NEW sets \in Seq(D), NEW set \in D
  PROVE  /\ Shares(s, sets) \in Seq(Seq(E))
         /\ Shares(s, Append(sets, set)) = Append(Shares(s, sets), Kept(s, set))
         /\ Kept(s, set) \in Seq(E)
<1>1. \A A : Kept(s, A) \in Seq(E)
  BY SharesType
<1> DEFINE n == Len(sets)
           t == Append(sets, set)
<1>2. /\ n \in Nat /\ DOMAIN sets = 1..n /\ DOMAIN t = 1..(n + 1)
      /\ \A i \in 1..n : t[i] = sets[i] /\ sets[i] \in D
      /\ t[n + 1] = set /\ \A i \in 1..(n + 1) : i \in 1..n \/ i = n + 1
  OBVIOUS
<1> HIDE DEF n, t
<1>3. Shares(s, sets) = [i \in 1..n |-> Kept(s, sets[i])]
  BY <1>2 DEF Shares
<1>4. Shares(s, t) = [i \in 1..(n + 1) |-> IF i = n + 1 THEN Kept(s, set) ELSE Kept(s, sets[i])]
  BY <1>2 DEF Shares
<1>5. Shares(s, sets) \in Seq(Seq(E)) /\ Len(Shares(s, sets)) = n
  BY SharesType DEF n
<1>6. Shares(s, t) = Append(Shares(s, sets), Kept(s, set))
  <2> DEFINE q == Shares(s, sets)
             last == Kept(s, set)
  <2>1. q \in Seq(Seq(E)) /\ last \in Seq(E) /\ Len(q) = n /\ \A i \in 1..n : q[i] = Kept(s, sets[i])
    BY <1>1, <1>3, <1>5
  <2>2. Shares(s, t) = [i \in 1..(n + 1) |-> IF i = n + 1 THEN last ELSE Kept(s, sets[i])]
    BY <1>4
  <2> HIDE DEF q, last
  <2>3. Append(q, last) = [i \in 1..(n + 1) |-> IF i = n + 1 THEN last ELSE q[i]]
    BY <2>1, AppendEntries
  <2>4. Append(q, last) = Shares(s, t)
    BY <1>2, <2>1, <2>2, <2>3
  <2> QED BY <2>4 DEF q, last
<1> QED BY <1>1, <1>5, <1>6 DEF t

LEMMA SharesHold ==
  ASSUME NEW E, NEW s \in Seq(E), NEW D, NEW sets \in Seq(D), NEW S
  PROVE  /\ (\A i \in DOMAIN sets : S \cap sets[i] = {})
              => Kept(FlattenSeq(Shares(s, sets)), S) = <<>>
         /\ \A k \in DOMAIN sets :
              S \subseteq sets[k] /\ (\A i \in DOMAIN sets : i # k => S \cap sets[i] = {})
                => Kept(FlattenSeq(Shares(s, sets)), S) = Kept(s, S)
<1> DEFINE Apart(u) == \A i \in DOMAIN u : S \cap u[i] = {}
           Within(u, k) == S \subseteq u[k] /\ \A i \in DOMAIN u : i # k => S \cap u[i] = {}
           All(u) == Kept(FlattenSeq(Shares(s, u)), S)
           T == {u \in Seq(D) :
                  /\ Apart(u) => All(u) = <<>>
                  /\ \A k \in DOMAIN u : Within(u, k) => All(u) = Kept(s, S)}
<1>1. <<>> \in T
  <2>1. DOMAIN <<>> = {} /\ Shares(s, <<>>) = <<>>
    BY DEF Shares
  <2>2. All(<<>>) = <<>>
    BY <2>1, FlattenEmpty, KeptEmpty
  <2> HIDE DEF All
  <2> QED BY <2>1, <2>2
<1>2. ASSUME NEW u \in Seq(D), NEW x \in D, u \in T PROVE Append(u, x) \in T
  <2> DEFINE t == Append(u, x)
             n == Len(u)
  <2>1. /\ t \in Seq(D) /\ n \in Nat /\ DOMAIN u = 1..n /\ DOMAIN t = 1..(n + 1)
        /\ t[n + 1] = x /\ \A i \in 1..n : t[i] = u[i]
        /\ n + 1 \in 1..(n + 1) /\ \A i \in 1..n : i \in 1..(n + 1) /\ i # n + 1
        /\ \A i \in 1..(n + 1) : i = n + 1 \/ i \in 1..n
    OBVIOUS
  <2>2. /\ Shares(s, u) \in Seq(Seq(E)) /\ Kept(s, x) \in Seq(E)
        /\ Shares(s, t) = Append(Shares(s, u), Kept(s, x))
    BY SharesAppend
  <2>3. FlattenSeq(Shares(s, t)) = FlattenSeq(Shares(s, u)) \o Kept(s, x)
    BY <2>2, FlattenAppend
  <2>4. All(t) = All(u) \o Kept(Kept(s, x), S)
    <3>1. FlattenSeq(Shares(s, u)) \in Seq(E)
      BY <2>2, FlattenType
    <3> DEFINE a == FlattenSeq(Shares(s, u))
               b == Kept(s, x)
    <3>2. a \in Seq(E) /\ b \in Seq(E) /\ FlattenSeq(Shares(s, t)) = a \o b
      BY <2>2, <2>3, <3>1
    <3> HIDE DEF t, T, a, b
    <3>3. Kept(a \o b, S) = Kept(a, S) \o Kept(b, S)
      BY <3>2, KeptConcat
    <3> QED BY <3>2, <3>3 DEF a, b
  <2>5. Kept(Kept(s, x), S) = Kept(s, x \cap S)
    BY KeptKept
  <2>6. S \cap x = {} => Kept(s, x \cap S) = <<>>
    <3> SUFFICES ASSUME S \cap x = {} PROVE Kept(s, x \cap S) = <<>>
      OBVIOUS
    <3>1. (x \cap S) \cap E = {}
      OBVIOUS
    <3> QED BY <3>1, KeptNone
  <2>7. S \subseteq x => Kept(s, x \cap S) = Kept(s, S)
    <3> SUFFICES ASSUME S \subseteq x PROVE Kept(s, x \cap S) = Kept(s, S)
      OBVIOUS
    <3>1. x \cap S = S
      OBVIOUS
    <3> QED BY <3>1
  <2>8. Kept(s, S) \o <<>> = Kept(s, S) /\ <<>> \o Kept(s, S) = Kept(s, S) /\ <<>> \o <<>> = <<>>
    <3>1. Kept(s, S) \in Seq(E \cap S)
      BY KeptType
    <3> HIDE DEF T
    <3> QED BY <3>1
  <2>9. u \in T
    BY <1>2
  <2> HIDE DEF t, n, All
  <2>10. Apart(t) => All(t) = <<>>
    <3> SUFFICES ASSUME Apart(t) PROVE All(t) = <<>>
      OBVIOUS
    <3>1. Apart(u) /\ S \cap x = {}
      BY <2>1
    <3>2. All(u) = <<>>
      BY <2>9, <3>1
    <3> QED BY <2>4, <2>5, <2>6, <3>1, <3>2
  <2>11. ASSUME NEW k \in DOMAIN t, Within(t, k) PROVE All(t) = Kept(s, S)
    <3>1. CASE k = n + 1
      <4>1. Apart(u) /\ S \subseteq x
        BY <2>1, <2>11, <3>1
      <4>2. All(u) = <<>>
        BY <2>9, <4>1
      <4> QED BY <2>4, <2>5, <2>7, <2>8, <4>1, <4>2
    <3>2. CASE k \in 1..n
      <4>1. Within(u, k) /\ S \cap x = {}
        BY <2>1, <2>11, <3>2
      <4>2. All(u) = Kept(s, S)
        BY <2>1, <2>9, <3>2, <4>1
      <4> QED BY <2>4, <2>5, <2>6, <2>8, <4>1, <4>2
    <3> QED BY <2>1, <2>11, <3>1, <3>2
  <2> HIDE DEF Apart, Within
  <2>12. t \in T
    BY <2>1, <2>10, <2>11
  <2> QED BY <2>12 DEF t
<1> HIDE DEF T
<1>3. sets \in T
  BY <1>1, <1>2, SequenceInduction
<1> HIDE DEF Apart, Within, All
<1>4. QED BY <1>3 DEF T, Apart, Within, All

-----------------------------------------------------------------------------
\* What Mapped computes, entry by entry.
Maps(h, T, f, s) ==
  /\ h \in [0..Len(s) -> Seq(T)] /\ Mapped(f, s) = h[Len(s)]
  /\ h[0] = <<>> /\ \A i \in 1..Len(s) : h[i] = Append(h[i - 1], f[s[i]])

LEMMA MappedUnfolds ==
  ASSUME NEW E, NEW T, NEW f \in [E -> T], NEW s \in Seq(E)
  PROVE  \E h : Maps(h, T, f, s)
<1> DEFINE V == Seq(T)
           Step(v, i) == Append(v, f[s[i]])
           P(h) == h = [i \in 0..Len(s) |-> IF i = 0 THEN <<>> ELSE Step(h[i - 1], i)]
           mapped == CHOOSE h : P(h)
<1>1. Len(s) \in Nat /\ <<>> \in V
  OBVIOUS
<1>2. \A i \in 1..Len(s) : i \in 0..Len(s) /\ i # 0 /\ i - 1 \in 0..Len(s)
  BY <1>1
<1>3. \A i \in 0..Len(s) : i = 0 \/ i \in 1..Len(s)
  BY <1>1
<1>4. \A i \in 1..Len(s), v \in V : Step(v, i) \in V
  <2>1. \A i \in 1..Len(s) : f[s[i]] \in T
    OBVIOUS
  <2> QED BY <2>1
<1>5. Mapped(f, s) = mapped[Len(s)]
  BY DEF Mapped
<1> HIDE DEF V, Step
<1> DEFINE F == [i \in 1..Len(s) |-> [v \in V |-> Step(v, i)]]
<1>6. F \in [1..Len(s) -> [V -> V]]
  BY <1>4
<1>7. \A i \in 1..Len(s), v \in V : F[i][v] = Step(v, i)
  OBVIOUS
<1> HIDE DEF F
<1>8. PICK g \in [0..Len(s) -> V] : Follows(g, Len(s), <<>>, F)
  BY <1>1, <1>6, Recursion
<1>9. g[0] = <<>> /\ \A i \in 1..Len(s) : g[i] = Step(g[i - 1], i)
  BY <1>2, <1>7, <1>8 DEF Follows
<1>10. P(g)
  <2>1. \A i \in 0..Len(s) : g[i] = IF i = 0 THEN <<>> ELSE Step(g[i - 1], i)
    BY <1>2, <1>3, <1>9
  <2>2. g = [i \in 0..Len(s) |-> g[i]]
    OBVIOUS
  <2> QED BY <2>1, <2>2
<1>11. P(mapped)
  <2> HIDE DEF P
  <2> QED BY <1>10
<1> HIDE DEF mapped
<1>12. mapped[0] = <<>> /\ \A i \in 1..Len(s) : mapped[i] = Step(mapped[i - 1], i)
  <2>1. 0 \in 0..Len(s)
    BY <1>1
  <2>2. \A i \in 0..Len(s) : mapped[i] = IF i = 0 THEN <<>> ELSE Step(mapped[i - 1], i)
    BY <1>11
  <2> QED BY <1>2, <2>1, <2>2
<1>13. mapped[Len(s)] = g[Len(s)]
  <2>1. mapped[0] = g[0] /\ \A i \in 1..Len(s) : mapped[i - 1] = g[i - 1] => mapped[i] = g[i]
    BY <1>9, <1>12
  <2> QED BY <1>1, <2>1, SameCourse
<1>14. Mapped(f, s) = g[Len(s)]
  BY <1>5, <1>13
<1> QED BY <1>9, <1>14 DEF V, Step, Maps

MapsTo(f, E, T) == f \in [E -> T]

LEMMA MappedHolds ==
  ASSUME NEW E, NEW T, NEW f, MapsTo(f, E, T), NEW s \in Seq(E)
  PROVE  /\ Mapped(f, s) \in Seq(T) /\ Len(Mapped(f, s)) = Len(s)
         /\ DOMAIN Mapped(f, s) = DOMAIN s
         /\ \A i \in DOMAIN s : Mapped(f, s)[i] = f[s[i]]
<1> DEFINE n == Len(s)
<1>0. f \in [E -> T]
  BY DEF MapsTo
<1>1. n \in Nat /\ DOMAIN s = 1..n /\ \A i \in 1..n : f[s[i]] \in T
  BY <1>0
<1>2. PICK h : Maps(h, T, f, s)
  BY <1>0, MappedUnfolds
<1> DEFINE U == {i \in 0..n : /\ h[i] \in Seq(T) /\ Len(h[i]) = i
                             /\ \A k \in 1..i : h[i][k] = f[s[k]]}
<1>3. 0 \in U
  <2>1. h[0] = <<>> /\ 0 \in 0..n
    BY <1>1, <1>2 DEF Maps
  <2>2. <<>> \in Seq(T) /\ Len(<<>>) = 0 /\ 1..0 = {}
    OBVIOUS
  <2> QED BY <2>1, <2>2
<1>4. ASSUME NEW i \in 1..n, i - 1 \in U PROVE i \in U
  <2>1. h[i] = Append(h[i - 1], f[s[i]]) /\ f[s[i]] \in T /\ i \in 0..n /\ i - 1 \in Nat
    BY <1>1, <1>2 DEF Maps
  <2>2. h[i - 1] \in Seq(T) /\ Len(h[i - 1]) = i - 1 /\ \A k \in 1..(i - 1) : h[i - 1][k] = f[s[k]]
    BY <1>4
  <2> DEFINE q == h[i - 1]
             x == f[s[i]]
  <2>3. q \in Seq(T) /\ Len(q) = i - 1 /\ x \in T /\ h[i] = Append(q, x)
    BY <2>1, <2>2
  <2> HIDE DEF q, x, n
  <2>4. h[i] \in Seq(T) /\ Len(h[i]) = i /\ h[i][i] = x /\ \A k \in 1..(i - 1) : h[i][k] = q[k]
    BY <2>1, <2>3
  <2>5. \A k \in 1..i : k = i \/ k \in 1..(i - 1)
    BY <2>1
  <2> QED BY <2>1, <2>2, <2>4, <2>5 DEF q, x
<1>5. n \in U
  <2>1. \A i \in 1..n : i - 1 \in U => i \in U
    BY <1>4
  <2> HIDE DEF U, n
  <2> QED BY <1>1, <1>3, <2>1, FiniteInduction, Zenon
<1>6. Mapped(f, s) = h[n]
  BY <1>2 DEF Maps
<1>7. h[n] \in Seq(T) /\ Len(h[n]) = n /\ \A k \in 1..n : h[n][k] = f[s[k]]
  BY <1>5
<1> HIDE DEF U, n
<1>8. DOMAIN h[n] = 1..n
  BY <1>7
<1> QED BY <1>1, <1>6, <1>7, <1>8 DEF n

Distinct(q) == \A i, j \in DOMAIN q : q[i] = q[j] => i = j
Has(q, x) == \E i \in DOMAIN q : q[i] = x

LEMMA FirstsAreDistinct ==
  ASSUME NEW E, NEW s \in Seq(E)
  PROVE  /\ Firsts(E, s) \in Seq(E) /\ Distinct(Firsts(E, s))
         /\ \A x \in E : Has(Firsts(E, s), x) <=> Has(s, x)
<1> DEFINE Add(seen, x) == IF Has(seen, x) THEN seen ELSE Append(seen, x)
           step == [seen \in Seq(E) |-> [x \in E |-> Add(seen, x)]]
           F(u) == Loop(step, <<>>, u)
           T == {u \in Seq(E) : /\ F(u) \in Seq(E) /\ Distinct(F(u))
                               /\ \A x \in E : Has(F(u), x) <=> Has(u, x)}
<1>1. step \in [Seq(E) -> [E -> Seq(E)]] /\ <<>> \in Seq(E)
  OBVIOUS
<1>2. \A q \in Seq(E), x \in E : step[q][x] = Add(q, x)
  OBVIOUS
<1>3. Firsts(E, s) = F(s)
  BY DEF Firsts, Has
<1> HIDE DEF step
<1> DEFINE none == <<>>
           V == Seq(E)
<1>9. Steps(step, none, V, E)
  BY <1>1 DEF Steps
<1> HIDE DEF none, V
<1>10. /\ Loop(step, none, <<>>) = none
       /\ \A u \in Seq(E), x \in E :
            Loop(step, none, Append(u, x)) = step[Loop(step, none, u)][x]
  BY <1>9, LoopRuns
<1>4. F(<<>>) = <<>>
  BY <1>10 DEF none
<1>8. \A u \in Seq(E), x \in E : F(Append(u, x)) = step[F(u)][x]
  BY <1>10 DEF none
<1> HIDE DEF F
<1>5. <<>> \in T
  <2>1. Distinct(<<>>) /\ \A x \in E : ~Has(<<>>, x)
    BY DEF Distinct, Has
  <2>2. Distinct(F(<<>>)) /\ \A x \in E : Has(F(<<>>), x) <=> Has(<<>>, x)
    BY <1>4, <2>1, Zenon
  <2>3. <<>> \in Seq(E) /\ F(<<>>) \in Seq(E)
    BY <1>1, <1>4, Zenon
  <2> QED BY <2>2, <2>3
<1>6. ASSUME NEW u \in Seq(E), NEW x \in E, u \in T PROVE Append(u, x) \in T
  <2> DEFINE q == F(u)
             r == F(Append(u, x))
  <2>1. q \in Seq(E) /\ Distinct(q) /\ (\A y \in E : Has(q, y) <=> Has(u, y)) /\ r = Add(q, x)
    BY <1>2, <1>6, <1>8
  <2>2. \A w \in Seq(E), y \in E : Has(Append(w, x), y) <=> Has(w, y) \/ y = x
    <3> SUFFICES ASSUME NEW w \in Seq(E), NEW y \in E
                 PROVE  Has(Append(w, x), y) <=> Has(w, y) \/ y = x
      OBVIOUS
    <3>1. /\ DOMAIN Append(w, x) = 1..(Len(w) + 1) /\ DOMAIN w = 1..Len(w) /\ Len(w) \in Nat
          /\ Append(w, x)[Len(w) + 1] = x /\ \A i \in 1..Len(w) : Append(w, x)[i] = w[i]
          /\ \A i \in 1..(Len(w) + 1) : i \in 1..Len(w) \/ i = Len(w) + 1
          /\ \A i \in 1..Len(w) : i \in 1..(Len(w) + 1)
          /\ Len(w) + 1 \in 1..(Len(w) + 1)
      OBVIOUS
    <3> QED BY <3>1 DEF Has
  <2>3. r \in Seq(E) /\ Distinct(r) /\ \A y \in E : Has(r, y) <=> Has(q, y) \/ y = x
    <3>1. CASE Has(q, x)
      BY <2>1, <3>1
    <3>2. CASE ~Has(q, x)
      <4>1. r = Append(q, x)
        BY <2>1, <3>2
      <4>2. Distinct(r)
        <5>1. \A i \in DOMAIN q : q[i] # x
          BY <3>2 DEF Has
        <5> QED BY <2>1, <4>1, <5>1 DEF Distinct
      <4> QED BY <2>1, <2>2, <4>1, <4>2
    <3> QED BY <3>1, <3>2
  <2>4. Append(u, x) \in Seq(E) /\ \A y \in E : Has(r, y) <=> Has(Append(u, x), y)
    BY <2>1, <2>2, <2>3
  <2> QED BY <2>3, <2>4
<1> HIDE DEF T
<1>7. s \in T
  BY <1>5, <1>6, SequenceInduction
<1> QED BY <1>3, <1>7 DEF T

\* The groups of GroupedBy: their names, and that together they hold s.
Groups(groups, names, g, E, s) ==
  /\ Distinct(names) /\ DOMAIN names = DOMAIN groups
  /\ groups \in Seq(Seq(E))
  /\ \A i \in DOMAIN groups :
       groups[i] = Kept(s, {x \in E : g[x] = names[i]}) /\ groups[i] # <<>>
  /\ \A S \in SUBSET E : (\A x, y \in S : g[x] = g[y])
       => Kept(FlattenSeq(groups), S) = Kept(s, S)

LEMMA GroupsHold ==
  ASSUME NEW E, NEW N, NEW g \in [E -> N], NEW s \in Seq(E)
  PROVE  \E names : Groups(GroupedBy(g, s), names, g, E, s)
<1> DEFINE values == {g[x] : x \in DOMAIN g}
           labels == [i \in DOMAIN s |-> g[s[i]]]
           names  == Firsts(values, labels)
           sets   == [i \in DOMAIN names |-> {x \in E : g[x] = names[i]}]
           groups == GroupedBy(g, s)
<1>1. Len(s) \in Nat /\ DOMAIN s = 1..Len(s) /\ DOMAIN g = E /\ \A i \in DOMAIN s : s[i] \in E
  OBVIOUS
<1>2. labels \in Seq(values)
  BY <1>1
<1>3. /\ names \in Seq(values) /\ Distinct(names)
      /\ \A v \in values : Has(names, v) <=> Has(labels, v)
  <2> HIDE DEF values, labels
  <2> QED BY <1>2, FirstsAreDistinct
<1>4. groups = Shares(s, sets)
  <2> DEFINE share == [n \in values |-> Kept(s, {x \in DOMAIN g : g[x] = n})]
  <2>1. Mapped(g, s) = labels
    <3>1. /\ Mapped(g, s) \in Seq(N) /\ DOMAIN Mapped(g, s) = DOMAIN s
          /\ \A i \in DOMAIN s : Mapped(g, s)[i] = g[s[i]]
      <4>1. MapsTo(g, E, N)
        BY DEF MapsTo
      <4> QED BY <4>1, MappedHolds
    <3> QED BY <3>1
  <2>2. groups = Mapped(share, names)
    BY <2>1 DEF GroupedBy
  <2>3. share \in [values -> Seq(E)]
    <3>1. \A A : Kept(s, A) \in Seq(E)
      BY SharesType
    <3> QED BY <3>1
  <2>4. \A v \in values : share[v] = Kept(s, {x \in E : g[x] = v})
    BY <1>1
  <2> HIDE DEF values, labels, names, groups, share
  <2>5. groups = [i \in DOMAIN names |-> share[names[i]]]
    <3>1. names \in Seq(values) /\ MapsTo(share, values, Seq(E))
      BY <1>3, <2>3 DEF MapsTo
    <3>2. /\ Mapped(share, names) \in Seq(Seq(E)) /\ DOMAIN Mapped(share, names) = DOMAIN names
          /\ \A i \in DOMAIN names : Mapped(share, names)[i] = share[names[i]]
      BY <3>1, MappedHolds
    <3> QED BY <2>2, <3>2
  <2>6. \A i \in DOMAIN names : names[i] \in values
    BY <1>3
  <2>7. DOMAIN sets = DOMAIN names /\ \A i \in DOMAIN names : sets[i] = {x \in E : g[x] = names[i]}
    OBVIOUS
  <2> HIDE DEF sets
  <2> QED BY <2>4, <2>5, <2>6, <2>7 DEF Shares
<1> HIDE DEF names, groups
<1>5. sets \in Seq(SUBSET E) /\ DOMAIN sets = DOMAIN names
  <2>1. DOMAIN names = 1..Len(names) /\ Len(names) \in Nat
    BY <1>3
  <2> QED BY <2>1
<1>6. groups \in Seq(Seq(E)) /\ DOMAIN groups = DOMAIN names
  <2>1. DOMAIN groups = DOMAIN names
    BY <1>4, <1>5 DEF Shares
  <2> QED BY <1>4, <1>5, <2>1, SharesType
<1>7. ASSUME NEW i \in DOMAIN groups
      PROVE  groups[i] = Kept(s, {x \in E : g[x] = names[i]}) /\ groups[i] # <<>>
  <2>1. groups[i] = Kept(s, sets[i]) /\ sets[i] = {x \in E : g[x] = names[i]}
    BY <1>4, <1>6, <1>7 DEF Shares
  <2>2. Has(labels, names[i])
    <3>1. names[i] \in values /\ Has(names, names[i])
      BY <1>3, <1>6 DEF Has
    <3> QED BY <1>3, <3>1
  <2>3. PICK k \in DOMAIN s : g[s[k]] = names[i]
    BY <2>2 DEF Has
  <2>4. s[k] \in sets[i]
    BY <1>1, <2>1, <2>3
  <2>5. \E j \in DOMAIN Kept(s, sets[i]) : Kept(s, sets[i])[j] = s[k]
    <3> HIDE DEF sets
    <3> QED BY <2>4, KeptMembers
  <2>6. groups[i] # <<>>
    BY <2>1, <2>5
  <2> QED BY <2>1, <2>6
<1>8. ASSUME NEW S \in SUBSET E, \A x, y \in S : g[x] = g[y]
      PROVE  Kept(FlattenSeq(groups), S) = Kept(s, S)
  <2>1. CASE \E x \in S : Has(names, g[x])
    <3>1. PICK x \in S, k \in DOMAIN names : names[k] = g[x]
      BY <2>1 DEF Has
    <3>2. k \in DOMAIN sets /\ S \subseteq sets[k]
      BY <1>5, <1>8, <3>1
    <3>3. \A i \in DOMAIN sets : i # k => S \cap sets[i] = {}
      BY <1>3, <1>5, <1>8, <3>1 DEF Distinct
    <3> HIDE DEF sets
    <3> QED BY <1>4, <1>5, <3>2, <3>3, SharesHold
  <2>2. CASE \A x \in S : ~Has(names, g[x])
    <3>1. \A i \in DOMAIN sets : S \cap sets[i] = {}
      BY <1>5, <2>2 DEF Has
    <3>2. Kept(FlattenSeq(groups), S) = <<>>
      <4> HIDE DEF sets
      <4> QED BY <1>4, <1>5, <3>1, SharesHold
    <3>3. \A j \in DOMAIN s : s[j] \notin S
      <4> SUFFICES ASSUME NEW j \in DOMAIN s, s[j] \in S PROVE FALSE
        OBVIOUS
      <4>1. g[s[j]] \in values /\ Has(labels, g[s[j]])
        BY <1>1 DEF Has
      <4> QED BY <1>3, <2>2, <4>1
    <3>4. Kept(s, S) = <<>>
      <4>1. Kept(s, S) \in Seq(E \cap S)
        BY KeptType
      <4>2. DOMAIN Kept(s, S) = {}
        BY <3>3, KeptFrom, ZenonT(30)
      <4> QED BY <4>1, <4>2
    <3> QED BY <3>2, <3>4
  <2> QED BY <2>1, <2>2
<1> HIDE DEF sets
<1> QED BY <1>3, <1>6, <1>7, <1>8 DEF Groups, groups

-----------------------------------------------------------------------------
LEMMA HasConcat ==
  ASSUME NEW E, NEW a \in Seq(E), NEW b \in Seq(E), NEW x
  PROVE  Has(a \o b, x) <=> Has(a, x) \/ Has(b, x)
<1> DEFINE t == a \o b
<1>1. /\ DOMAIN t = 1..(Len(a) + Len(b)) /\ DOMAIN a = 1..Len(a) /\ DOMAIN b = 1..Len(b)
      /\ Len(a) \in Nat /\ Len(b) \in Nat
      /\ \A i \in 1..Len(a) : t[i] = a[i]
      /\ \A i \in 1..Len(b) : t[Len(a) + i] = b[i]
      /\ \A i \in 1..(Len(a) + Len(b)) : i \in 1..Len(a) \/ i - Len(a) \in 1..Len(b)
  OBVIOUS
<1>2. ASSUME NEW i \in DOMAIN t PROVE Has(a, t[i]) \/ Has(b, t[i])
  <2>1. CASE i \in 1..Len(a)
    BY <1>1, <2>1 DEF Has
  <2>2. CASE i - Len(a) \in 1..Len(b)
    <3>1. t[i] = b[i - Len(a)]
      BY <1>1, <2>2
    <3> QED BY <1>1, <2>2, <3>1 DEF Has
  <2> QED BY <1>1, <1>2, <2>1, <2>2
<1>3. ASSUME NEW i \in DOMAIN a PROVE Has(t, a[i])
  <2>1. i \in DOMAIN t /\ t[i] = a[i]
    BY <1>1
  <2> HIDE DEF t
  <2> QED BY <2>1 DEF Has
<1>4. ASSUME NEW i \in DOMAIN b PROVE Has(t, b[i])
  <2>1. Len(a) + i \in DOMAIN t /\ t[Len(a) + i] = b[i]
    BY <1>1
  <2> HIDE DEF t
  <2> QED BY <2>1 DEF Has
<1> HIDE DEF t
<1>5. Has(t, x) => Has(a, x) \/ Has(b, x)
  BY <1>2 DEF Has
<1>6. Has(a, x) \/ Has(b, x) => Has(t, x)
  BY <1>3, <1>4 DEF Has
<1> QED BY <1>5, <1>6 DEF t

LEMMA HasAppend ==
  ASSUME NEW E, NEW s \in Seq(E), NEW y \in E, NEW x
  PROVE  Has(Append(s, y), x) <=> Has(s, x) \/ x = y
<1>1. Append(s, y) = s \o <<y>> /\ <<y>> \in Seq(E)
  OBVIOUS
<1>2. Has(<<y>>, x) <=> x = y
  BY DEF Has
<1>3. Has(s \o <<y>>, x) <=> Has(s, x) \/ Has(<<y>>, x)
  BY <1>1, HasConcat
<1> QED BY <1>1, <1>2, <1>3

LEMMA FlattenHas ==
  ASSUME NEW E, NEW ss \in Seq(Seq(E)), NEW x
  PROVE  Has(FlattenSeq(ss), x) <=> \E i \in DOMAIN ss : Has(ss[i], x)
<1> DEFINE In(u) == \E i \in DOMAIN u : Has(u[i], x)
           T == {u \in Seq(Seq(E)) : Has(FlattenSeq(u), x) <=> In(u)}
<1>1. <<>> \in T
  <2>1. ~Has(<<>>, x) /\ ~In(<<>>)
    BY DEF Has
  <2>2. ~Has(FlattenSeq(<<>>), x)
    BY <2>1, FlattenEmpty
  <2> QED BY <2>1, <2>2
<1>2. ASSUME NEW u \in Seq(Seq(E)), NEW s \in Seq(E), u \in T PROVE Append(u, s) \in T
  <2> DEFINE t == Append(u, s)
             n == Len(u)
  <2>1. /\ t \in Seq(Seq(E)) /\ n \in Nat /\ DOMAIN u = 1..n /\ DOMAIN t = 1..(n + 1)
        /\ t[n + 1] = s /\ \A i \in 1..n : t[i] = u[i]
        /\ n + 1 \in 1..(n + 1) /\ \A i \in 1..n : i \in 1..(n + 1)
        /\ \A i \in 1..(n + 1) : i = n + 1 \/ i \in 1..n
    OBVIOUS
  <2>2. FlattenSeq(t) = FlattenSeq(u) \o s /\ FlattenSeq(u) \in Seq(E)
    BY FlattenAppend, FlattenType
  <2>3. Has(FlattenSeq(u) \o s, x) <=> Has(FlattenSeq(u), x) \/ Has(s, x)
    BY <2>2, HasConcat
  <2> HIDE DEF t, n
  <2>4. In(t) <=> In(u) \/ Has(s, x)
    BY <2>1
  <2>5. Has(FlattenSeq(u), x) <=> In(u)
    BY <1>2
  <2> HIDE DEF In
  <2>6. t \in T
    BY <2>1, <2>2, <2>3, <2>4, <2>5
  <2> QED BY <2>6 DEF t
<1> HIDE DEF T
<1>3. ss \in T
  BY <1>1, <1>2, SequenceInduction
<1> QED BY <1>3 DEF T

Sorted(rank, s) == \A i, j \in DOMAIN s : i < j => rank[s[i]] <= rank[s[j]]

LEMMA SortedConcat ==
  ASSUME NEW E, NEW rank, NEW a \in Seq(E), NEW b \in Seq(E)
  PROVE  Sorted(rank, a \o b) <=>
           /\ Sorted(rank, a) /\ Sorted(rank, b)
           /\ \A i \in DOMAIN a, j \in DOMAIN b : rank[a[i]] <= rank[b[j]]
<1> DEFINE t == a \o b
           m == Len(a)
           n == Len(b)
<1>1. /\ m \in Nat /\ n \in Nat /\ DOMAIN t = 1..(m + n) /\ DOMAIN a = 1..m /\ DOMAIN b = 1..n
      /\ \A i \in 1..m : t[i] = a[i]
      /\ \A i \in 1..n : t[m + i] = b[i]
  OBVIOUS
<1> HIDE DEF t, m, n
<1>2. ASSUME Sorted(rank, t)
      PROVE  /\ Sorted(rank, a) /\ Sorted(rank, b)
             /\ \A i \in DOMAIN a, j \in DOMAIN b : rank[a[i]] <= rank[b[j]]
  <2>1. Sorted(rank, a)
    BY <1>1, <1>2 DEF Sorted
  <2>2. ASSUME NEW i \in 1..n, NEW j \in 1..n, i < j PROVE rank[b[i]] <= rank[b[j]]
    <3>1. m + i \in 1..(m + n) /\ m + j \in 1..(m + n) /\ m + i < m + j
      BY <1>1, <2>2
    <3>2. rank[t[m + i]] <= rank[t[m + j]]
      BY <1>1, <1>2, <3>1 DEF Sorted
    <3> QED BY <1>1, <3>2
  <2>3. ASSUME NEW i \in 1..m, NEW j \in 1..n PROVE rank[a[i]] <= rank[b[j]]
    <3>1. i \in 1..(m + n) /\ m + j \in 1..(m + n) /\ i < m + j
      BY <1>1
    <3>2. rank[t[i]] <= rank[t[m + j]]
      BY <1>1, <1>2, <3>1 DEF Sorted
    <3> QED BY <1>1, <3>2
  <2> QED BY <1>1, <2>1, <2>2, <2>3 DEF Sorted
<1>3. ASSUME Sorted(rank, a), Sorted(rank, b),
             \A i \in DOMAIN a, j \in DOMAIN b : rank[a[i]] <= rank[b[j]]
      PROVE  Sorted(rank, t)
  <2> SUFFICES ASSUME NEW i \in 1..(m + n), NEW j \in 1..(m + n), i < j
               PROVE  rank[t[i]] <= rank[t[j]]
    BY <1>1 DEF Sorted
  <2>1. CASE j <= m
    <3>1. i \in 1..m /\ j \in 1..m
      BY <1>1, <2>1
    <3> QED BY <1>1, <1>3, <3>1 DEF Sorted
  <2>2. CASE i <= m /\ j > m
    <3>1. i \in 1..m /\ j - m \in 1..n /\ m + (j - m) = j
      BY <1>1, <2>2
    <3>2. rank[a[i]] <= rank[b[j - m]]
      BY <1>1, <1>3, <3>1
    <3>3. t[i] = a[i] /\ t[j] = b[j - m]
      BY <1>1, <3>1
    <3> QED BY <3>2, <3>3
  <2>3. CASE i > m
    <3>1. i - m \in 1..n /\ j - m \in 1..n /\ m + (i - m) = i /\ m + (j - m) = j /\ i - m < j - m
      BY <1>1, <2>3
    <3>2. rank[b[i - m]] <= rank[b[j - m]]
      BY <1>1, <1>3, <3>1 DEF Sorted
    <3>3. t[i] = b[i - m] /\ t[j] = b[j - m]
      BY <1>1, <3>1
    <3> QED BY <3>2, <3>3
  <2> QED BY <1>1, <2>1, <2>2, <2>3
<1> QED BY <1>2, <1>3 DEF t

\* What stands before in a sorted whole is of no higher rank.
LEMMA FlattenOrder ==
  ASSUME NEW E, NEW rank, NEW ss \in Seq(Seq(E)), Sorted(rank, FlattenSeq(ss))
  PROVE  \A i, j \in DOMAIN ss : i < j =>
           \A x, y : Has(ss[i], x) /\ Has(ss[j], y) => rank[x] <= rank[y]
<1> DEFINE Before(u) == \A i, j \in DOMAIN u : i < j =>
             \A x, y : Has(u[i], x) /\ Has(u[j], y) => rank[x] <= rank[y]
           T == {u \in Seq(Seq(E)) : Sorted(rank, FlattenSeq(u)) => Before(u)}
<1>1. <<>> \in T
  <2>1. Before(<<>>)
    OBVIOUS
  <2> HIDE DEF Before
  <2> QED BY <2>1
<1>2. ASSUME NEW u \in Seq(Seq(E)), NEW s \in Seq(E), u \in T PROVE Append(u, s) \in T
  <2> DEFINE t == Append(u, s)
             n == Len(u)
  <2>1. /\ t \in Seq(Seq(E)) /\ n \in Nat /\ DOMAIN u = 1..n /\ DOMAIN t = 1..(n + 1)
        /\ t[n + 1] = s /\ \A i \in 1..n : t[i] = u[i]
    OBVIOUS
  <2> HIDE DEF t, n, T
  <2>2. ASSUME Sorted(rank, FlattenSeq(t)) PROVE Before(t)
    <3>1. FlattenSeq(t) = FlattenSeq(u) \o s /\ FlattenSeq(u) \in Seq(E)
      BY FlattenAppend, FlattenType DEF t
    <3>2. /\ Sorted(rank, FlattenSeq(u))
          /\ \A i \in DOMAIN FlattenSeq(u), j \in DOMAIN s : rank[FlattenSeq(u)[i]] <= rank[s[j]]
      BY <2>2, <3>1, SortedConcat
    <3>3. Before(u)
      BY <1>2, <3>2 DEF T
    <3> SUFFICES ASSUME NEW i \in 1..(n + 1), NEW j \in 1..(n + 1), i < j, NEW x, NEW y,
                        Has(t[i], x), Has(t[j], y)
                 PROVE  rank[x] <= rank[y]
      BY <2>1
    <3>4. CASE j \in 1..n
      <4>1. i \in 1..n /\ t[i] = u[i] /\ t[j] = u[j]
        BY <2>1, <3>4
      <4> QED BY <2>1, <3>3, <3>4, <4>1
    <3>5. CASE j = n + 1
      <4>1. i \in DOMAIN u /\ t[i] = u[i] /\ t[j] = s
        BY <2>1, <3>5
      <4>2. Has(FlattenSeq(u), x)
        BY <4>1, FlattenHas
      <4> QED BY <3>2, <4>1, <4>2 DEF Has
    <3> QED BY <2>1, <3>4, <3>5
  <2> HIDE DEF Before
  <2>3. t \in T
    BY <2>1, <2>2 DEF T
  <2> QED BY <2>3 DEF t
<1> HIDE DEF T
<1>3. ss \in T
  BY <1>1, <1>2, SequenceInduction
<1> QED BY <1>3 DEF T

LEMMA KeptSorted ==
  ASSUME NEW E, NEW rank, NEW s \in Seq(E), NEW A, Sorted(rank, s)
  PROVE  Sorted(rank, Kept(s, A))
<1> DEFINE T == {u \in Seq(E) : Sorted(rank, u) => Sorted(rank, Kept(u, A))}
<1>1. <<>> \in T
  BY KeptEmpty
<1>2. ASSUME NEW u \in Seq(E), NEW x \in E, u \in T PROVE Append(u, x) \in T
  <2> SUFFICES ASSUME Sorted(rank, Append(u, x)) PROVE Sorted(rank, Kept(Append(u, x), A))
    OBVIOUS
  <2>1. Append(u, x) = u \o <<x>> /\ <<x>> \in Seq(E) /\ DOMAIN <<x>> = {1} /\ <<x>>[1] = x
    OBVIOUS
  <2> DEFINE one == <<x>>
  <2>7. /\ Append(u, x) = u \o one /\ one \in Seq(E) /\ 1 \in DOMAIN one /\ one[1] = x
    BY <2>1
  <2> HIDE DEF one, T
  <2>8. /\ Sorted(rank, u) /\ Sorted(rank, one)
        /\ \A i \in DOMAIN u, j \in DOMAIN one : rank[u[i]] <= rank[one[j]]
    BY <2>7, SortedConcat
  <2>2. Sorted(rank, u) /\ Sorted(rank, one) /\ \A i \in DOMAIN u : rank[u[i]] <= rank[x]
    BY <2>7, <2>8
  <2>3. Kept(Append(u, x), A) = IF x \in A THEN Append(Kept(u, A), x) ELSE Kept(u, A)
    BY KeptAppend
  <2>4. Sorted(rank, Kept(u, A))
    BY <1>2, <2>2 DEF T
  <2>5. CASE x \in A
    <3> DEFINE k == Kept(u, A)
    <3>1. \A i \in DOMAIN k : rank[k[i]] <= rank[x]
      BY <2>2, KeptFrom
    <3>2. k \in Seq(E)
      <4>1. k \in Seq(E \cap A)
        BY KeptType
      <4> HIDE DEF k
      <4> QED BY <4>1
    <3> HIDE DEF k
    <3>3. Append(k, x) = k \o one
      BY <3>2 DEF one
    <3>4. \A i \in DOMAIN k, j \in DOMAIN one : rank[k[i]] <= rank[one[j]]
      BY <3>1 DEF one
    <3>5. Sorted(rank, k)
      BY <2>4 DEF k
    <3>6. Sorted(rank, k \o one)
      BY <2>2, <2>7, <3>2, <3>4, <3>5, SortedConcat
    <3> QED BY <2>3, <2>5, <3>3, <3>6 DEF k
  <2>6. CASE x \notin A
    BY <2>3, <2>4, <2>6
  <2> QED BY <2>5, <2>6
<1> HIDE DEF T
<1>3. s \in T
  BY <1>1, <1>2, SequenceInduction
<1> QED BY <1>3 DEF T

LEMMA ToSetHas == \A s, x : x \in ToSet(s) <=> Has(s, x)
  BY DEF ToSet, Has

-----------------------------------------------------------------------------
(* Maps, joins of joins, and the sort that joins the classes of a filter.  *)

\* A map, entry by entry.
LEMMA MappedRuns ==
  ASSUME NEW E, NEW T, NEW f, MapsTo(f, E, T)
  PROVE  /\ Mapped(f, <<>>) = <<>>
         /\ \A s \in Seq(E) : Mapped(f, s) \in Seq(T)
         /\ \A s \in Seq(E), x \in E : Mapped(f, Append(s, x)) = Append(Mapped(f, s), f[x])
<1>1. \A s \in Seq(E) : Mapped(f, s) \in Seq(T)
  BY MappedHolds
<1>2. Mapped(f, <<>>) = <<>>
  <2> DEFINE none == <<>>
  <2>1. none \in Seq(E)
    OBVIOUS
  <2>2. Len(none) = 0
    OBVIOUS
  <2> HIDE DEF none
  <2>3. Mapped(f, none) \in Seq(T) /\ Len(Mapped(f, none)) = Len(none)
    BY <2>1, MappedHolds
  <2>4. \A q \in Seq(T) : Len(q) = 0 => q = <<>>
    OBVIOUS
  <2> QED BY <2>2, <2>3, <2>4 DEF none
<1>3. ASSUME NEW s \in Seq(E), NEW x \in E
      PROVE  Mapped(f, Append(s, x)) = Append(Mapped(f, s), f[x])
  <2> DEFINE t == Append(s, x)
             n == Len(s)
             q == Mapped(f, s)
  <2>1. /\ t \in Seq(E) /\ n \in Nat /\ DOMAIN s = 1..n /\ DOMAIN t = 1..(n + 1)
        /\ t[n + 1] = x /\ \A i \in 1..n : t[i] = s[i]
        /\ \A i \in 1..(n + 1) : i \in 1..n \/ i = n + 1
    OBVIOUS
  <2>2. q \in Seq(T) /\ Len(q) = n /\ \A i \in 1..n : q[i] = f[s[i]]
    BY <2>1, MappedHolds
  <2>0. f[x] \in T
    BY DEF MapsTo
  <2> HIDE DEF t, n
  <2>3. Mapped(f, t) = [i \in 1..(n + 1) |-> f[t[i]]]
    <3>1. /\ Mapped(f, t) \in Seq(T) /\ DOMAIN Mapped(f, t) = 1..(n + 1)
          /\ \A i \in 1..(n + 1) : Mapped(f, t)[i] = f[t[i]]
      BY <2>1, MappedHolds
    <3> QED BY <3>1
  <2>4. \A i \in 1..n : q[i] = f[s[i]]
    BY <2>2
  <2> DEFINE y == f[x]
  <2>5. Mapped(f, t) = [i \in 1..(n + 1) |-> IF i = n + 1 THEN y ELSE q[i]]
    BY <2>1, <2>3, <2>4
  <2> HIDE DEF q, y
  <2>6. Append(q, y) = [i \in 1..(n + 1) |-> IF i = n + 1 THEN y ELSE q[i]]
    BY <2>0, <2>2, AppendEntries DEF y
  <2> QED BY <2>5, <2>6 DEF t, q, y
<1> QED BY <1>1, <1>2, <1>3

\* Only one of the joined arrays has entries in S.
LEMMA FlattenOne ==
  ASSUME NEW E, NEW ss \in Seq(Seq(E)), NEW S
  PROVE  /\ (\A i \in DOMAIN ss : Kept(ss[i], S) = <<>>) => Kept(FlattenSeq(ss), S) = <<>>
         /\ \A k \in DOMAIN ss :
              (\A i \in DOMAIN ss : i # k => Kept(ss[i], S) = <<>>)
                => Kept(FlattenSeq(ss), S) = Kept(ss[k], S)
<1> DEFINE Apart(u) == \A i \in DOMAIN u : Kept(u[i], S) = <<>>
           Only(u, k) == \A i \in DOMAIN u : i # k => Kept(u[i], S) = <<>>
           All(u) == Kept(FlattenSeq(u), S)
           T == {u \in Seq(Seq(E)) :
                  /\ Apart(u) => All(u) = <<>>
                  /\ \A k \in DOMAIN u : Only(u, k) => All(u) = Kept(u[k], S)}
<1>1. <<>> \in T
  <2>1. DOMAIN <<>> = {} /\ All(<<>>) = <<>>
    BY FlattenEmpty, KeptEmpty
  <2> HIDE DEF All
  <2> QED BY <2>1
<1>2. ASSUME NEW u \in Seq(Seq(E)), NEW x \in Seq(E), u \in T PROVE Append(u, x) \in T
  <2> DEFINE t == Append(u, x)
             n == Len(u)
  <2>1. /\ t \in Seq(Seq(E)) /\ n \in Nat /\ DOMAIN u = 1..n /\ DOMAIN t = 1..(n + 1)
        /\ t[n + 1] = x /\ \A i \in 1..n : t[i] = u[i]
        /\ n + 1 \in 1..(n + 1) /\ \A i \in 1..n : i \in 1..(n + 1) /\ i # n + 1
        /\ \A i \in 1..(n + 1) : i = n + 1 \/ i \in 1..n
    OBVIOUS
  <2>2. FlattenSeq(t) = FlattenSeq(u) \o x /\ FlattenSeq(u) \in Seq(E)
    BY FlattenAppend, FlattenType
  <2>3. All(t) = All(u) \o Kept(x, S)
    <3> DEFINE a == FlattenSeq(u)
    <3>1. a \in Seq(E) /\ FlattenSeq(t) = a \o x
      BY <2>2
    <3> HIDE DEF a, t, T
    <3>2. Kept(a \o x, S) = Kept(a, S) \o Kept(x, S)
      BY <3>1, KeptConcat
    <3> QED BY <3>1, <3>2 DEF a
  <2>4. All(u) \o <<>> = All(u) /\ <<>> \o Kept(x, S) = Kept(x, S) /\ <<>> \o <<>> = <<>>
    <3>1. All(u) \in Seq(E \cap S) /\ Kept(x, S) \in Seq(E \cap S)
      BY <2>2, KeptType
    <3> HIDE DEF T, All
    <3> QED BY <3>1
  <2>5. u \in T
    BY <1>2
  <2> HIDE DEF t, n, All
  <2>6. Apart(t) => All(t) = <<>>
    <3> SUFFICES ASSUME Apart(t) PROVE All(t) = <<>>
      OBVIOUS
    <3>1. Apart(u) /\ Kept(x, S) = <<>>
      BY <2>1
    <3>2. All(u) = <<>>
      BY <2>5, <3>1
    <3> QED BY <2>3, <2>4, <3>1, <3>2
  <2>7. ASSUME NEW k \in DOMAIN t, Only(t, k) PROVE All(t) = Kept(t[k], S)
    <3>1. CASE k = n + 1
      <4>1. Apart(u)
        BY <2>1, <2>7, <3>1
      <4>2. All(u) = <<>>
        BY <2>5, <4>1
      <4> QED BY <2>1, <2>3, <2>4, <3>1, <4>2
    <3>2. CASE k \in 1..n
      <4>1. Only(u, k) /\ Kept(x, S) = <<>>
        BY <2>1, <2>7, <3>2
      <4>2. All(u) = Kept(u[k], S)
        BY <2>1, <2>5, <3>2, <4>1
      <4> QED BY <2>1, <2>3, <2>4, <3>2, <4>1, <4>2
    <3> QED BY <2>1, <2>7, <3>1, <3>2
  <2> HIDE DEF Apart, Only
  <2>8. t \in T
    BY <2>1, <2>6, <2>7
  <2> QED BY <2>8 DEF t
<1> HIDE DEF T
<1>3. ss \in T
  BY <1>1, <1>2, SequenceInduction
<1> HIDE DEF Apart, Only, All
<1> QED BY <1>3 DEF T, Apart, Only, All

\* Filtering what was joined is joining what was filtered.
LEMMA KeptFlatten ==
  ASSUME NEW E, NEW ss \in Seq(Seq(E)), NEW S
  PROVE  Kept(FlattenSeq(ss), S) = FlattenSeq(Mapped([q \in Seq(E) |-> Kept(q, S)], ss))
<1> DEFINE f == [q \in Seq(E) |-> Kept(q, S)]
<1>1. MapsTo(f, Seq(E), Seq(E)) /\ \A q \in Seq(E) : f[q] = Kept(q, S)
  <2>1. \A q \in Seq(E) : Kept(q, S) \in Seq(E)
    <3> SUFFICES ASSUME NEW q \in Seq(E) PROVE Kept(q, S) \in Seq(E)
      OBVIOUS
    <3>1. Kept(q, S) \in Seq(E \cap S)
      BY KeptType
    <3> QED BY <3>1
  <2> QED BY <2>1 DEF MapsTo
<1> HIDE DEF f
<1> DEFINE T == {u \in Seq(Seq(E)) : Kept(FlattenSeq(u), S) = FlattenSeq(Mapped(f, u))}
<1>2. <<>> \in T
  <2>1. Mapped(f, <<>>) = <<>>
    BY <1>1, MappedRuns
  <2> QED BY <2>1, FlattenEmpty, KeptEmpty
<1>3. ASSUME NEW u \in Seq(Seq(E)), NEW x \in Seq(E), u \in T PROVE Append(u, x) \in T
  <2>1. FlattenSeq(Append(u, x)) = FlattenSeq(u) \o x /\ FlattenSeq(u) \in Seq(E)
    BY FlattenAppend, FlattenType
  <2>2. Mapped(f, Append(u, x)) = Append(Mapped(f, u), f[x]) /\ Mapped(f, u) \in Seq(Seq(E))
    BY <1>1, MappedRuns
  <2>3. FlattenSeq(Append(Mapped(f, u), f[x])) = FlattenSeq(Mapped(f, u)) \o f[x]
    <3> DEFINE q == Mapped(f, u)
               y == f[x]
    <3>1. q \in Seq(Seq(E)) /\ y \in Seq(E)
      BY <1>1, <2>2 DEF MapsTo
    <3> HIDE DEF q, y, T
    <3>2. FlattenSeq(Append(q, y)) = FlattenSeq(q) \o y
      BY <3>1, FlattenAppend
    <3> QED BY <3>2 DEF q, y
  <2>4. Kept(FlattenSeq(u) \o x, S) = Kept(FlattenSeq(u), S) \o Kept(x, S)
    BY <2>1, KeptConcat
  <2>5. Append(u, x) \in Seq(Seq(E)) /\ f[x] = Kept(x, S) /\ Kept(FlattenSeq(u), S) = FlattenSeq(Mapped(f, u))
    BY <1>1, <1>3
  <2> HIDE DEF T
  <2>6. Kept(FlattenSeq(Append(u, x)), S) = FlattenSeq(Mapped(f, Append(u, x)))
    BY <2>1, <2>2, <2>3, <2>4, <2>5
  <2> QED BY <2>5, <2>6 DEF T
<1> HIDE DEF T
<1>4. ss \in T
  BY <1>2, <1>3, SequenceInduction
<1> QED BY <1>4 DEF T, f

\* Joining twice.
LEMMA FlattenFlatten ==
  ASSUME NEW E, NEW sss \in Seq(Seq(Seq(E)))
  PROVE  FlattenSeq(FlattenSeq(sss)) = FlattenSeq(Mapped([q \in Seq(Seq(E)) |-> FlattenSeq(q)], sss))
<1> DEFINE f == [q \in Seq(Seq(E)) |-> FlattenSeq(q)]
<1>1. MapsTo(f, Seq(Seq(E)), Seq(E)) /\ \A q \in Seq(Seq(E)) : f[q] = FlattenSeq(q)
  BY FlattenType DEF MapsTo
<1> HIDE DEF f
<1> DEFINE T == {u \in Seq(Seq(Seq(E))) : FlattenSeq(FlattenSeq(u)) = FlattenSeq(Mapped(f, u))}
<1>2. <<>> \in T
  <2>1. Mapped(f, <<>>) = <<>>
    BY <1>1, MappedRuns
  <2> QED BY <2>1, FlattenEmpty
<1>3. ASSUME NEW u \in Seq(Seq(Seq(E))), NEW x \in Seq(Seq(E)), u \in T PROVE Append(u, x) \in T
  <2>1. FlattenSeq(Append(u, x)) = FlattenSeq(u) \o x /\ FlattenSeq(u) \in Seq(Seq(E))
    BY FlattenAppend, FlattenType
  <2>2. Mapped(f, Append(u, x)) = Append(Mapped(f, u), f[x]) /\ Mapped(f, u) \in Seq(Seq(E))
    BY <1>1, MappedRuns
  <2>3. FlattenSeq(Append(Mapped(f, u), f[x])) = FlattenSeq(Mapped(f, u)) \o f[x]
    <3> DEFINE q == Mapped(f, u)
               y == f[x]
    <3>1. q \in Seq(Seq(E)) /\ y \in Seq(E)
      BY <1>1, <2>2 DEF MapsTo
    <3> HIDE DEF q, y, T
    <3>2. FlattenSeq(Append(q, y)) = FlattenSeq(q) \o y
      BY <3>1, FlattenAppend
    <3> QED BY <3>2 DEF q, y
  <2>4. FlattenSeq(FlattenSeq(u) \o x) = FlattenSeq(FlattenSeq(u)) \o FlattenSeq(x)
    BY <2>1, FlattenConcat
  <2>5. /\ Append(u, x) \in Seq(Seq(Seq(E))) /\ f[x] = FlattenSeq(x)
        /\ FlattenSeq(FlattenSeq(u)) = FlattenSeq(Mapped(f, u))
    BY <1>1, <1>3
  <2> HIDE DEF T
  <2>6. FlattenSeq(FlattenSeq(Append(u, x))) = FlattenSeq(Mapped(f, Append(u, x)))
    BY <2>1, <2>2, <2>3, <2>4, <2>5
  <2> QED BY <2>5, <2>6 DEF T
<1> HIDE DEF T
<1>4. sss \in T
  BY <1>2, <1>3, SequenceInduction
<1> QED BY <1>4 DEF T, f

\* What filtering keeps.
LEMMA KeptHas ==
  ASSUME NEW E, NEW s \in Seq(E), NEW S, NEW x
  PROVE  Has(Kept(s, S), x) <=> Has(s, x) /\ x \in S
<1>1. Has(Kept(s, S), x) => Has(s, x) /\ x \in S
  BY KeptFrom DEF Has
<1>2. Has(s, x) /\ x \in S => Has(Kept(s, S), x)
  BY KeptMembers DEF Has
<1> QED BY <1>1, <1>2

\* The array without entries.
LEMMA HasNone ==
  ASSUME NEW E, NEW s \in Seq(E)
  PROVE  (\A x \in E : ~Has(s, x)) <=> s = <<>>
<1>1. /\ Len(s) \in Nat /\ DOMAIN s = 1..Len(s) /\ \A i \in DOMAIN s : s[i] \in E
      /\ (Len(s) = 0 => s = <<>>)
  OBVIOUS
<1>2. ASSUME \A x \in E : ~Has(s, x) PROVE s = <<>>
  <2>1. DOMAIN s = {}
    BY <1>1, <1>2 DEF Has
  <2> QED BY <1>1, <2>1
<1>3. s = <<>> => \A x \in E : ~Has(s, x)
  BY DEF Has
<1> QED BY <1>2, <1>3

\* An array without repetition holds each entry once.
LEMMA DistinctOnce ==
  ASSUME NEW E, NEW s \in Seq(E)
  PROVE  Distinct(s) <=> \A x \in E : Len(Kept(s, {x})) <= 1
<1> DEFINE Once(u) == \A x \in E : Len(Kept(u, {x})) <= 1
           T == {u \in Seq(E) : Distinct(u) <=> Once(u)}
<1>1. <<>> \in T
  <2>1. Distinct(<<>>)
    BY DEF Distinct
  <2>2. \A x \in E : Len(Kept(<<>>, {x})) = 0
    <3>1. \A x \in E : Kept(<<>>, {x}) = <<>>
      BY KeptEmpty
    <3> QED BY <3>1
  <2> QED BY <2>1, <2>2
<1>2. ASSUME NEW u \in Seq(E), NEW y \in E, u \in T PROVE Append(u, y) \in T
  <2> DEFINE t == Append(u, y)
             n == Len(u)
  <2>1. /\ t \in Seq(E) /\ n \in Nat /\ DOMAIN u = 1..n /\ DOMAIN t = 1..(n + 1)
        /\ t[n + 1] = y /\ \A i \in 1..n : t[i] = u[i]
        /\ n + 1 \in 1..(n + 1) /\ \A i \in 1..n : i \in 1..(n + 1) /\ i # n + 1
        /\ \A i \in 1..(n + 1) : i = n + 1 \/ i \in 1..n
    OBVIOUS
  <2>2. \A x \in E : Kept(t, {x}) = IF x = y THEN Append(Kept(u, {x}), y) ELSE Kept(u, {x})
    <3> SUFFICES ASSUME NEW x \in E
                 PROVE  Kept(t, {x}) = IF x = y THEN Append(Kept(u, {x}), y) ELSE Kept(u, {x})
      OBVIOUS
    <3>1. Kept(t, {x}) = IF y \in {x} THEN Append(Kept(u, {x}), y) ELSE Kept(u, {x})
      BY KeptAppend
    <3> QED BY <3>1
  <2>3. \A x \in E : Kept(u, {x}) \in Seq(E)
    BY SharesType
  <2>4. Len(Kept(u, {y})) = 0 <=> ~Has(u, y)
    <3> DEFINE k == Kept(u, {y})
    <3>1. \A x : Has(k, x) <=> Has(u, x) /\ x = y
      <4>1. \A x : Has(k, x) <=> Has(u, x) /\ x \in {y}
        BY KeptHas
      <4> QED BY <4>1
    <3>2. k \in Seq(E)
      BY <2>3
    <3> HIDE DEF k
    <3>3. Len(k) = 0 <=> \A x \in E : ~Has(k, x)
      <4>1. Len(k) = 0 <=> k = <<>>
        BY <3>2
      <4> QED BY <3>2, <4>1, HasNone
    <3> QED BY <3>1, <3>3 DEF k
  <2> HIDE DEF t, n, T
  <2>5. Distinct(t) <=> Distinct(u) /\ ~Has(u, y)
    BY <2>1 DEF Distinct, Has
  <2>6. \A x \in E : Len(Kept(t, {x})) = IF x = y THEN Len(Kept(u, {x})) + 1 ELSE Len(Kept(u, {x}))
    <3> SUFFICES ASSUME NEW x \in E
                 PROVE  Len(Kept(t, {x})) = IF x = y THEN Len(Kept(u, {x})) + 1 ELSE Len(Kept(u, {x}))
      OBVIOUS
    <3>1. Kept(u, {x}) \in Seq(E)
      BY <2>3
    <3> QED BY <2>2, <3>1
  <2>7. \A x \in E : Len(Kept(u, {x})) \in Nat
    BY <2>3
  <2>8. Once(t) <=> Once(u) /\ Len(Kept(u, {y})) = 0
    <3> DEFINE L(v, x) == Len(Kept(v, {x}))
    <3>1. \A x \in E : L(u, x) \in Nat /\ L(t, x) = IF x = y THEN L(u, x) + 1 ELSE L(u, x)
      BY <2>6, <2>7
    <3>2. \A v : Once(v) <=> \A x \in E : L(v, x) <= 1
      OBVIOUS
    <3> HIDE DEF L, Once
    <3>3. (\A x \in E : L(t, x) <= 1) => (\A x \in E : L(u, x) <= 1) /\ L(u, y) = 0
      <4> SUFFICES ASSUME \A x \in E : L(t, x) <= 1
                   PROVE  (\A x \in E : L(u, x) <= 1) /\ L(u, y) = 0
        OBVIOUS
      <4>1. L(u, y) = 0
        <5>1. L(t, y) <= 1 /\ L(t, y) = L(u, y) + 1 /\ L(u, y) \in Nat
          BY <3>1
        <5> QED BY <5>1
      <4>2. \A x \in E : L(u, x) <= 1
        BY <3>1, <4>1
      <4> QED BY <4>1, <4>2
    <3>4. (\A x \in E : L(u, x) <= 1) /\ L(u, y) = 0 => \A x \in E : L(t, x) <= 1
      BY <3>1
    <3>5. Once(t) <=> Once(u) /\ L(u, y) = 0
      BY <3>2, <3>3, <3>4
    <3> QED BY <3>5 DEF L
  <2>9. Distinct(u) <=> Once(u)
    BY <1>2 DEF T
  <2> HIDE DEF Once
  <2> QED BY <2>1, <2>4, <2>5, <2>8, <2>9 DEF T, t
<1> HIDE DEF T
<1>3. s \in T
  BY <1>1, <1>2, SequenceInduction
<1> QED BY <1>3 DEF T

\* Arrays that are sorted and in order are sorted when joined.
LEMMA FlattenSorted ==
  ASSUME NEW E, NEW rank, NEW ss \in Seq(Seq(E)),
         \A i \in DOMAIN ss : Sorted(rank, ss[i]),
         \A i, j \in DOMAIN ss : i < j =>
           \A x, y : Has(ss[i], x) /\ Has(ss[j], y) => rank[x] <= rank[y]
  PROVE  Sorted(rank, FlattenSeq(ss))
<1> DEFINE Ordered(u) ==
             /\ \A i \in DOMAIN u : Sorted(rank, u[i])
             /\ \A i, j \in DOMAIN u : i < j =>
                  \A x, y : Has(u[i], x) /\ Has(u[j], y) => rank[x] <= rank[y]
           T == {u \in Seq(Seq(E)) : Ordered(u) => Sorted(rank, FlattenSeq(u))}
<1>1. <<>> \in T
  <2>1. Sorted(rank, <<>>)
    BY DEF Sorted
  <2>2. Sorted(rank, FlattenSeq(<<>>))
    BY <2>1, FlattenEmpty
  <2> HIDE DEF Ordered
  <2> QED BY <2>2
<1>2. ASSUME NEW u \in Seq(Seq(E)), NEW s \in Seq(E), u \in T PROVE Append(u, s) \in T
  <2> DEFINE t == Append(u, s)
             n == Len(u)
             a == FlattenSeq(u)
  <2>1. /\ t \in Seq(Seq(E)) /\ n \in Nat /\ DOMAIN u = 1..n /\ DOMAIN t = 1..(n + 1)
        /\ t[n + 1] = s /\ \A i \in 1..n : t[i] = u[i] /\ i < n + 1
        /\ n + 1 \in 1..(n + 1) /\ \A i \in 1..n : i \in 1..(n + 1)
    OBVIOUS
  <2>2. FlattenSeq(t) = a \o s /\ a \in Seq(E)
    BY FlattenAppend, FlattenType
  <2>3. \A x : Has(a, x) => \E i \in DOMAIN u : Has(u[i], x)
    BY FlattenHas
  <2>4. u \in T
    BY <1>2
  <2> HIDE DEF t, n, a
  <2> SUFFICES ASSUME Ordered(t) PROVE Sorted(rank, FlattenSeq(t))
    BY <2>1 DEF t
  <2>5. Ordered(u) /\ Sorted(rank, s)
        /\ \A i \in DOMAIN u : \A x, y : Has(u[i], x) /\ Has(s, y) => rank[x] <= rank[y]
    BY <2>1
  <2>6. Sorted(rank, a)
    BY <2>4, <2>5 DEF a
  <2> HIDE DEF Ordered, T
  <2>7. \A i \in DOMAIN a, j \in DOMAIN s : rank[a[i]] <= rank[s[j]]
    <3> SUFFICES ASSUME NEW i \in DOMAIN a, NEW j \in DOMAIN s PROVE rank[a[i]] <= rank[s[j]]
      OBVIOUS
    <3>1. Has(a, a[i]) /\ Has(s, s[j])
      BY DEF Has
    <3> QED BY <2>3, <2>5, <3>1
  <2>8. Sorted(rank, a \o s)
    BY <2>2, <2>5, <2>6, <2>7, SortedConcat
  <2> QED BY <2>2, <2>8
<1> HIDE DEF T
<1>3. ss \in T
  BY <1>1, <1>2, SequenceInduction
<1>4. Ordered(ss)
  OBVIOUS
<1> HIDE DEF Ordered
<1> QED BY <1>3, <1>4 DEF T

\* A sort that joins the entries of rank 0, 1, 2 and 3.
Ranked(rank, E) == [p \in 1..4 |-> {x \in E : rank[x] = p - 1}]

\* Such a sort is stable: sorted, and with the entries of every one value as
\* before.
LEMMA RankedSorts ==
  ASSUME NEW E, NEW rank \in [E -> 0..3], NEW s \in Seq(E)
  PROVE  LET r == FlattenSeq(Shares(s, Ranked(rank, E)))
         IN  /\ r \in Seq(E) /\ Sorted(rank, r)
             /\ \A S \in SUBSET E : (\A x, y \in S : rank[x] = rank[y])
                  => Kept(r, S) = Kept(s, S)
             /\ \A x : Has(r, x) <=> Has(s, x)
<1> DEFINE sets == Ranked(rank, E)
           q == Shares(s, sets)
           r == FlattenSeq(q)
<1>1. sets \in Seq(SUBSET E) /\ DOMAIN sets = 1..4 /\ \A p \in 1..4 : sets[p] = {x \in E : rank[x] = p - 1}
  BY DEF Ranked
<1> HIDE DEF sets
<1>2. q \in Seq(Seq(E)) /\ DOMAIN q = 1..4 /\ \A p \in 1..4 : q[p] = Kept(s, sets[p])
  <2>1. q \in Seq(Seq(E))
    BY <1>1, SharesType
  <2>2. q = [p \in 1..4 |-> Kept(s, sets[p])]
    BY <1>1 DEF Shares
  <2> QED BY <2>1, <2>2
<1>3. r \in Seq(E)
  BY <1>2, FlattenType
<1>4. \A p \in 1..4 : \A x : Has(q[p], x) <=> Has(s, x) /\ x \in E /\ rank[x] = p - 1
  BY <1>1, <1>2, KeptHas
<1>5. Sorted(rank, r)
  <2>1. ASSUME NEW p \in DOMAIN q PROVE Sorted(rank, q[p])
    <3> SUFFICES ASSUME NEW i \in DOMAIN q[p], NEW j \in DOMAIN q[p]
                 PROVE  rank[q[p][i]] <= rank[q[p][j]]
      BY DEF Sorted
    <3>1. rank[q[p][i]] = p - 1 /\ rank[q[p][j]] = p - 1
      BY <1>2, <1>4 DEF Has
    <3> QED BY <1>2, <3>1
  <2>2. \A i, j \in DOMAIN q : i < j =>
          \A x, y : Has(q[i], x) /\ Has(q[j], y) => rank[x] <= rank[y]
    BY <1>2, <1>4
  <2> HIDE DEF q
  <2> QED BY <1>2, <2>1, <2>2, FlattenSorted
<1>6. ASSUME NEW S \in SUBSET E, \A x, y \in S : rank[x] = rank[y]
      PROVE  Kept(r, S) = Kept(s, S)
  <2>1. CASE S = {}
    <3>1. S \cap E = {}
      BY <2>1
    <3> HIDE DEF r
    <3> QED BY <1>3, <3>1, KeptNone
  <2>2. CASE S # {}
    <3>1. PICK z : z \in S
      BY <2>2
    <3>2. rank[z] + 1 \in DOMAIN sets /\ S \subseteq sets[rank[z] + 1]
      BY <1>1, <1>6, <3>1
    <3>3. \A i \in DOMAIN sets : i # rank[z] + 1 => S \cap sets[i] = {}
      BY <1>1, <1>6, <3>1
    <3> QED BY <1>1, <3>2, <3>3, SharesHold, SMTT(30)
  <2> QED BY <2>1, <2>2
<1>7. ASSUME NEW x PROVE Has(r, x) <=> Has(s, x)
  <2>1. Has(r, x) <=> \E p \in 1..4 : Has(q[p], x)
    BY <1>2, FlattenHas
  <2>2. Has(s, x) => x \in E
    BY DEF Has
  <2>3. x \in E => rank[x] + 1 \in 1..4 /\ rank[x] = (rank[x] + 1) - 1
    OBVIOUS
  <2> QED BY <1>4, <2>1, <2>2, <2>3
<1> QED BY <1>3, <1>5, <1>6, <1>7 DEF q, sets

\* The length of what is joined.
LEMMA FlattenLonger ==
  ASSUME NEW E, NEW ss \in Seq(Seq(E)), NEW x \in Seq(E)
  PROVE  /\ Append(ss, x) \in Seq(Seq(E)) /\ Len(FlattenSeq(ss)) \in Nat
         /\ Len(FlattenSeq(Append(ss, x))) = Len(FlattenSeq(ss)) + Len(x)
<1> DEFINE a == FlattenSeq(ss)
<1>1. a \in Seq(E) /\ FlattenSeq(Append(ss, x)) = a \o x
  BY FlattenType, FlattenAppend
<1> HIDE DEF a
<1>2. Len(a \o x) = Len(a) + Len(x) /\ Len(a) \in Nat
  BY <1>1
<1>3. Append(ss, x) \in Seq(Seq(E))
  OBVIOUS
<1> QED BY <1>1, <1>2, <1>3 DEF a

\* A filter that everything passes.
LEMMA KeptAll ==
  ASSUME NEW E, NEW s \in Seq(E), NEW A, E \subseteq A
  PROVE  Kept(s, A) = s
<1> DEFINE T == {u \in Seq(E) : Kept(u, A) = u}
<1>1. <<>> \in T
  BY KeptEmpty
<1>2. ASSUME NEW u \in Seq(E), NEW x \in E, u \in T PROVE Append(u, x) \in T
  <2>1. Kept(Append(u, x), A) = Append(Kept(u, A), x)
    <3>1. x \in A
      OBVIOUS
    <3> QED BY <3>1, KeptAppend
  <2> QED BY <1>2, <2>1
<1> HIDE DEF T
<1>3. s \in T
  BY <1>1, <1>2, SequenceInduction
<1> QED BY <1>3 DEF T

\* Disjoint sets divide the entries of an array.
LEMMA KeptDivided ==
  ASSUME NEW E, NEW s \in Seq(E), NEW A, NEW B, A \cap B = {}
  PROVE  /\ Len(Kept(s, A)) \in Nat
         /\ Len(Kept(s, A \cup B)) = Len(Kept(s, A)) + Len(Kept(s, B))
<1> DEFINE L(u, C) == Len(Kept(u, C))
           T == {u \in Seq(E) : L(u, A \cup B) = L(u, A) + L(u, B)}
<1>1. \A u \in Seq(E) : \A C : Kept(u, C) \in Seq(E) /\ L(u, C) \in Nat
  <2> SUFFICES ASSUME NEW u \in Seq(E), NEW C PROVE Kept(u, C) \in Seq(E) /\ L(u, C) \in Nat
    OBVIOUS
  <2>1. Kept(u, C) \in Seq(E \cap C)
    BY KeptType
  <2> QED BY <2>1
<1>2. \A C : L(<<>>, C) = 0
  BY KeptEmpty
<1>3. ASSUME NEW u \in Seq(E), NEW x \in E, NEW C
      PROVE  L(Append(u, x), C) = IF x \in C THEN L(u, C) + 1 ELSE L(u, C)
  <2>1. Kept(Append(u, x), C) = IF x \in C THEN Append(Kept(u, C), x) ELSE Kept(u, C)
    BY KeptAppend
  <2>2. Len(Append(Kept(u, C), x)) = L(u, C) + 1
    BY <1>1
  <2> QED BY <2>1, <2>2
<1> HIDE DEF L
<1>4. <<>> \in T
  BY <1>2
<1>5. ASSUME NEW u \in Seq(E), NEW x \in E, u \in T PROVE Append(u, x) \in T
  <2>1. /\ L(u, A) \in Nat /\ L(u, B) \in Nat /\ L(u, A \cup B) = L(u, A) + L(u, B)
    BY <1>1, <1>5
  <2>2. /\ L(Append(u, x), A) = IF x \in A THEN L(u, A) + 1 ELSE L(u, A)
        /\ L(Append(u, x), B) = IF x \in B THEN L(u, B) + 1 ELSE L(u, B)
        /\ L(Append(u, x), A \cup B) = IF x \in A \cup B THEN L(u, A \cup B) + 1 ELSE L(u, A \cup B)
    BY <1>3
  <2>3. Append(u, x) \in Seq(E) /\ ~(x \in A /\ x \in B) /\ (x \in A \cup B <=> x \in A \/ x \in B)
    OBVIOUS
  <2> HIDE DEF T
  <2>4. L(Append(u, x), A \cup B) = L(Append(u, x), A) + L(Append(u, x), B)
    BY <2>1, <2>2, <2>3
  <2> QED BY <2>3, <2>4 DEF T
<1> HIDE DEF T
<1>6. s \in T
  BY <1>4, <1>5, SequenceInduction
<1> QED BY <1>1, <1>6 DEF T, L

\* The sort keeps the length.
LEMMA RankedLength ==
  ASSUME NEW E, NEW rank \in [E -> 0..3], NEW s \in Seq(E)
  PROVE  Len(FlattenSeq(Shares(s, Ranked(rank, E)))) = Len(s)
<1> DEFINE n == 4
           class(p) == {x \in E : rank[x] = p - 1}
           below(p) == {x \in E : rank[x] < p}
           Cut(p) == [i \in 1..p |-> Kept(s, class(i))]
           T == {p \in 0..n : Len(FlattenSeq(Cut(p))) = Len(Kept(s, below(p)))}
<1>1. Shares(s, Ranked(rank, E)) = Cut(n)
  BY DEF Shares, Ranked
<1>2. n \in Nat /\ \A x \in E : rank[x] \in Int /\ rank[x] >= 0 /\ rank[x] < n
  OBVIOUS
<1> HIDE DEF n
<1>3. \A A : Kept(s, A) \in Seq(E)
  BY SharesType
<1>4. ASSUME NEW p \in 0..n PROVE Cut(p) \in Seq(Seq(E)) /\ Len(Cut(p)) = p
  <2>1. p \in Nat
    BY <1>2
  <2> HIDE DEF class
  <2> QED BY <1>3, <2>1
<1>5. 0 \in T
  <2>1. Cut(0) = <<>> /\ below(0) \cap E = {} /\ 0 \in 0..n
    BY <1>2
  <2>2. Kept(s, below(0)) = <<>>
    <3> HIDE DEF below
    <3> QED BY <2>1, KeptNone
  <2> HIDE DEF Cut, below
  <2> QED BY <2>1, <2>2, FlattenEmpty
<1>6. ASSUME NEW p \in 1..n, p - 1 \in T PROVE p \in T
  <2>1. p \in 0..n /\ p - 1 \in 0..n /\ p \in Nat /\ p - 1 \in Nat
    BY <1>2
  <2> DEFINE q == Cut(p - 1)
             x == Kept(s, class(p))
  <2>2. q \in Seq(Seq(E)) /\ Len(q) = p - 1 /\ x \in Seq(E)
    BY <1>3, <1>4, <2>1
  <2>3. Cut(p) = [k \in 1..p |-> IF k = p THEN x ELSE q[k]]
    <3>1. \A k \in 1..p : k = p \/ k \in 1..(p - 1)
      BY <2>1
    <3> HIDE DEF class
    <3> QED BY <3>1
  <2>4. below(p) = below(p - 1) \cup class(p) /\ below(p - 1) \cap class(p) = {}
    BY <1>2, <2>1
  <2>5. Len(FlattenSeq(q)) = Len(Kept(s, below(p - 1)))
    BY <1>6
  <2> HIDE DEF q, x, Cut, below, class, T
  <2>6. Cut(p) = Append(q, x)
    <3>0. q \in Seq(Seq(E)) /\ x \in Seq(E)
      BY <2>2
    <3>1. Append(q, x) = [k \in 1..(Len(q) + 1) |-> IF k = Len(q) + 1 THEN x ELSE q[k]]
      BY <3>0, AppendEntries
    <3>2. Len(q) + 1 = p
      BY <2>1, <2>2
    <3> QED BY <2>3, <3>1, <3>2
  <2>7. Len(FlattenSeq(Append(q, x))) = Len(FlattenSeq(q)) + Len(x)
    BY <2>2, FlattenLonger
  <2>8. Len(Kept(s, below(p - 1) \cup class(p))) = Len(Kept(s, below(p - 1))) + Len(Kept(s, class(p)))
    BY <2>4, KeptDivided
  <2>9. Len(FlattenSeq(Cut(p))) = Len(Kept(s, below(p)))
    BY <2>4, <2>5, <2>6, <2>7, <2>8 DEF x
  <2> QED BY <2>1, <2>9 DEF T
<1>7. n \in T
  <2>1. \A p \in 1..n : p - 1 \in T => p \in T
    BY <1>6
  <2> HIDE DEF T
  <2> QED BY <1>2, <1>5, <2>1, FiniteInduction, Zenon
<1>8. Kept(s, below(n)) = s
  <2>1. E \subseteq below(n)
    BY <1>2
  <2> HIDE DEF below
  <2> QED BY <2>1, KeptAll
<1> QED BY <1>1, <1>7, <1>8
=============================================================================
