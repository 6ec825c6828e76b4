----------------------- MODULE ContextPackagingProofs -----------------------
(***************************************************************************)
(* What holds of the rows of a search, whatever the questions, scores,     *)
(* similarities, budgets and costs: protected prints outrank the others,   *)
(* the tiers stay within the budget, no word of the question is withheld   *)
(* that what is left of it could show, and a flat order loses no row.      *)
(***************************************************************************)
EXTENDS ContextPackaging, FiniteSetTheorems, SequenceTheorems,
        WellFoundedInduction, TLAPS

-----------------------------------------------------------------------------
(* Induction over the natural numbers, for a set of them.                  *)
LEMMA InSetInduction ==
  ASSUME NEW P, 0 \in P, \A n \in Nat : n \in P => n + 1 \in P
  PROVE  Nat \subseteq P
<1> DEFINE R == OpToRel(<, Nat)
           T == Nat \ P
<1>1. \A x, y \in Nat : <<y, x>> \in R <=> y < x
  BY DEF OpToRel
<1>2. IsWellFoundedOn(R, Nat)
  BY NatLessThanWellFounded
<1> HIDE DEF R
<1>3. SUFFICES ASSUME T # {} PROVE FALSE
  OBVIOUS
<1>4. PICK x \in T : \A y \in T : ~(<<y, x>> \in R)
  BY <1>2, <1>3, WFMin
<1>5. \A y \in T : ~(y < x)
  BY <1>1, <1>4
<1>6. x # 0 /\ x - 1 \in Nat
  BY <1>4
<1>7. x - 1 \in P
  BY <1>5, <1>6
<1>8. (x - 1) + 1 \in P
  BY <1>6, <1>7
<1> QED
  BY <1>4, <1>6, <1>8

(* A loop of n rounds over values in V comes to an end in V.               *)
Loop(h, n, b, round) ==
  h = [i \in 0..n |-> IF i = 0 THEN b ELSE round[<<i, h[i - 1]>>]]

LEMMA LoopExists ==
  ASSUME NEW n \in Nat, NEW V, NEW b \in V, NEW round \in [(1..n) \X V -> V]
  PROVE  \E h \in [0..n -> V] : Loop(h, n, b, round)
<1> DEFINE P == {m \in Nat : m <= n => \E h \in [0..m -> V] : Loop(h, m, b, round)}
<1>1. 0 \in P
  <2> DEFINE h == [i \in 0..0 |-> b]
  <2>1. \A i \in 0..0 : i = 0
    OBVIOUS
  <2>2. h \in [0..0 -> V] /\ Loop(h, 0, b, round)
    BY <2>1 DEF Loop
  <2> QED
    BY <2>2
<1>2. ASSUME NEW m \in Nat, m \in P
      PROVE  m + 1 \in P
  <2>1. SUFFICES ASSUME m + 1 <= n
                 PROVE  \E g \in [0..(m + 1) -> V] : Loop(g, m + 1, b, round)
    OBVIOUS
  <2>2. PICK h \in [0..m -> V] : Loop(h, m, b, round)
    BY <1>2, <2>1
  <2> DEFINE g == [i \in 0..(m + 1) |->
                     IF i = m + 1 THEN round[<<i, h[i - 1]>>] ELSE h[i]]
  <2>3. \A i \in 0..m : h[i] = IF i = 0 THEN b ELSE round[<<i, h[i - 1]>>]
    BY <2>2 DEF Loop
  <2>4. g \in [0..(m + 1) -> V]
    <3> SUFFICES ASSUME NEW i \in 0..(m + 1)
                 PROVE  (IF i = m + 1 THEN round[<<i, h[i - 1]>>] ELSE h[i]) \in V
      OBVIOUS
    <3>1. CASE i = m + 1
      <4>1. i \in 1..n /\ i - 1 \in 0..m
        BY <2>1, <3>1
      <4> QED
        BY <3>1, <4>1
    <3>2. CASE i # m + 1
      BY <3>2
    <3> QED
      BY <3>1, <3>2
  <2>5. ASSUME NEW i \in 0..(m + 1)
        PROVE  g[i] = IF i = 0 THEN b ELSE round[<<i, g[i - 1]>>]
    <3>1. CASE i = 0
      BY <2>3, <3>1
    <3>2. CASE i # 0
      <4>1. i - 1 \in 0..m
        BY <3>2
      <4>2. g[i - 1] = h[i - 1]
        BY <4>1
      <4> QED
        BY <2>3, <3>2, <4>2
    <3> QED
      BY <3>1, <3>2
  <2>6. g = [i \in 0..(m + 1) |-> g[i]]
    OBVIOUS
  <2> HIDE DEF g
  <2>7. Loop(g, m + 1, b, round)
    BY <2>5, <2>6 DEF Loop
  <2> QED
    BY <2>4, <2>7
<1> HIDE DEF P
<1>3. n \in P
  BY <1>1, <1>2, InSetInduction
<1> QED
  BY <1>3 DEF P

(* What every round of a loop keeps, the loop keeps.                       *)
LEMMA LoopStays ==
  ASSUME NEW n \in Nat, NEW V, NEW t, t[0] \in V,
         \A i \in 1..n : t[i - 1] \in V => t[i] \in V
  PROVE  t[n] \in V
<1> DEFINE P == {k \in Nat : k <= n => t[k] \in V}
<1>1. 0 \in P
  OBVIOUS
<1>2. ASSUME NEW k \in Nat, k \in P PROVE k + 1 \in P
  <2>1. SUFFICES ASSUME k + 1 <= n PROVE t[k + 1] \in V
    OBVIOUS
  <2>2. t[k] \in V /\ k + 1 \in 1..n /\ (k + 1) - 1 = k
    BY <1>2, <2>1
  <2> QED
    BY <2>2
<1> HIDE DEF P
<1>3. n \in P
  BY <1>1, <1>2, InSetInduction
<1> QED
  BY <1>3 DEF P

(* Of some places of a list, one has the greatest value, the first of      *)
(* those that share it.                                                    *)
LEMMA GreatestExists ==
  ASSUME NEW n \in Nat, NEW value, \A i \in 1..n : value[i] \in Int,
         NEW S \in SUBSET (1..n), S # {}
  PROVE  \E i \in S : \A j \in S :
           value[j] < value[i] \/ (value[j] = value[i] /\ i <= j)
<1> DEFINE Best(T, i) == \A j \in T :
             value[j] < value[i] \/ (value[j] = value[i] /\ i <= j)
           P == {m \in Nat : m <= n => \A T \in SUBSET (1..m) :
                               T # {} => \E i \in T : Best(T, i)}
<1>1. 0 \in P
  <2>1. 1..0 = {}
    OBVIOUS
  <2> QED
    BY <2>1
<1>2. ASSUME NEW m \in Nat, m \in P PROVE m + 1 \in P
  <2>1. SUFFICES ASSUME m + 1 <= n, NEW T \in SUBSET (1..(m + 1)), T # {}
                 PROVE  \E i \in T : Best(T, i)
    OBVIOUS
  <2>2. \A U \in SUBSET (1..m) : U # {} => \E i \in U : Best(U, i)
    BY <1>2, <2>1
  <2> DEFINE U == T \ {m + 1}
  <2>3. U \in SUBSET (1..m) /\ m + 1 \in 1..n
    BY <2>1
  <2>4. \A i \in T : i \in 1..n /\ value[i] \in Int
    BY <2>1
  <2>5. CASE U = {}
    <3>1. T = {m + 1} /\ value[m + 1] \in Int
      BY <2>1, <2>3, <2>5
    <3> QED
      BY <3>1
  <2>6. CASE U # {} /\ m + 1 \in T
    <3>1. PICK i \in U : Best(U, i)
      BY <2>2, <2>3, <2>6
    <3>2. i \in T /\ i <= m /\ value[i] \in Int /\ value[m + 1] \in Int
      BY <2>3, <2>4, <2>6
    <3>3. CASE value[i] >= value[m + 1]
      BY <3>1, <3>2, <3>3
    <3>4. CASE value[i] < value[m + 1]
      <4>1. \A j \in U : value[j] < value[m + 1]
        BY <2>4, <3>1, <3>2, <3>4
      <4> QED
        BY <2>6, <4>1
    <3> QED
      BY <3>2, <3>3, <3>4
  <2>7. CASE m + 1 \notin T
    <3>1. T = U
      BY <2>7
    <3> QED
      BY <2>1, <2>2, <2>3, <3>1
  <2> QED
    BY <2>5, <2>6, <2>7
<1> HIDE DEF P
<1>3. n \in P
  BY <1>1, <1>2, InSetInduction
<1> QED
  BY <1>3 DEF P

-----------------------------------------------------------------------------
(* Sorted permutes.                                                        *)

Before(n, weight, i) ==
  {j \in 1..n : weight[j] < weight[i] \/ (weight[j] = weight[i] /\ j <= i)}

LEMMA PlacesAreFinite ==
  ASSUME NEW n \in Nat
  PROVE  IsFiniteSet(1..n) /\ Cardinality(1..n) = n
BY FS_Interval

(* The places that the elements of a list take are the places it has.      *)
LEMMA PlaceFacts ==
  ASSUME NEW n \in Nat, NEW weight, \A i \in 1..n : weight[i] \in Int
  PROVE  /\ \A i \in 1..n : Cardinality(Before(n, weight, i)) \in 1..n
         /\ \A i, j \in 1..n : i # j =>
              Cardinality(Before(n, weight, i)) # Cardinality(Before(n, weight, j))
<1>1. \A i \in 1..n : /\ Before(n, weight, i) \in SUBSET (1..n)
                      /\ i \in Before(n, weight, i)
  BY DEF Before
<1>2. IsFiniteSet(1..n) /\ Cardinality(1..n) = n
  BY FS_Interval
<1>3. \A i \in 1..n : /\ IsFiniteSet(Before(n, weight, i))
                      /\ Cardinality(Before(n, weight, i)) \in 1..n
  <2> TAKE i \in 1..n
  <2>1. /\ IsFiniteSet(Before(n, weight, i))
        /\ Cardinality(Before(n, weight, i)) <= n
    BY <1>1, <1>2, FS_Subset
  <2>2. Cardinality(Before(n, weight, i)) \in Nat
    BY <2>1, FS_CardinalityType
  <2>3. Cardinality(Before(n, weight, i)) # 0
    BY <1>1, <2>1, FS_EmptySet
  <2> QED
    BY <2>1, <2>2, <2>3
<1>4. ASSUME NEW i \in 1..n, NEW j \in 1..n,
             weight[i] < weight[j] \/ (weight[i] = weight[j] /\ i < j)
      PROVE  Cardinality(Before(n, weight, i)) < Cardinality(Before(n, weight, j))
  <2> DEFINE S == Before(n, weight, i)
             T == Before(n, weight, j)
  <2>1. S \subseteq T \ {j} /\ j \in T
    BY <1>4 DEF Before
  <2>2. IsFiniteSet(T) /\ IsFiniteSet(S)
    BY <1>3
  <2> HIDE DEF S, T
  <2>3. IsFiniteSet(T \ {j}) /\ Cardinality(T \ {j}) = Cardinality(T) - 1
    BY <2>1, <2>2, FS_RemoveElement
  <2>4. Cardinality(S) <= Cardinality(T \ {j})
    BY <2>1, <2>3, FS_Subset
  <2>5. Cardinality(S) \in Nat /\ Cardinality(T) \in Nat
    BY <2>2, FS_CardinalityType
  <2>6. Cardinality(S) < Cardinality(T)
    BY <2>3, <2>4, <2>5
  <2> QED
    BY <2>6 DEF S, T
<1>5. \A i, j \in 1..n : i # j =>
        Cardinality(Before(n, weight, i)) # Cardinality(Before(n, weight, j))
  <2> TAKE i, j \in 1..n
  <2> HAVE i # j
  <2>1. \/ weight[i] < weight[j] \/ (weight[i] = weight[j] /\ i < j)
        \/ weight[j] < weight[i] \/ (weight[j] = weight[i] /\ j < i)
    OBVIOUS
  <2>2. \/ Cardinality(Before(n, weight, i)) < Cardinality(Before(n, weight, j))
        \/ Cardinality(Before(n, weight, j)) < Cardinality(Before(n, weight, i))
    BY <1>4, <2>1
  <2> QED
    BY <1>3, <2>2
<1> QED
  BY <1>3, <1>5

LEMMA EveryPlaceIsTaken ==
  ASSUME NEW n \in Nat, NEW weight, \A i \in 1..n : weight[i] \in Int,
         NEW k \in 1..n
  PROVE  \E i \in 1..n : Cardinality(Before(n, weight, i)) = k
<1> DEFINE S == 1..n
           T == S \ {k}
           f == [i \in S |-> Cardinality(Before(n, weight, i))]
<1> SUFFICES ASSUME \A i \in S : Cardinality(Before(n, weight, i)) # k
             PROVE  FALSE
  OBVIOUS
<1>1. f \in [S -> T]
  BY PlaceFacts
<1>2. IsFiniteSet(S) /\ Cardinality(S) = n /\ k \in S
  BY FS_Interval
<1>3. \A i, j \in S : i # j => f[i] # f[j]
  BY PlaceFacts
<1> HIDE DEF S, f
<1>4. IsFiniteSet(T) /\ Cardinality(T) = n - 1
  BY <1>2, FS_RemoveElement
<1> HIDE DEF T
<1>5. \E i, j \in S : i # j /\ f[i] = f[j]
  <2>1. Cardinality(T) < Cardinality(S)
    BY <1>2, <1>4
  <2> QED
    BY <1>1, <1>2, <1>4, <2>1, FS_PigeonHole
<1> QED
  BY <1>3, <1>5

(* Sorting leaves a list as long as it was, with the same elements.        *)
LEMMA SortedPermutes ==
  ASSUME NEW S, NEW s \in Seq(S), NEW weight,
         \A i \in DOMAIN s : weight[i] \in Int
  PROVE  /\ Sorted(s, weight) \in Seq(S)
         /\ Len(Sorted(s, weight)) = Len(s)
         /\ Range(Sorted(s, weight)) = Range(s)
<1> DEFINE n == Len(s)
           at(k) == CHOOSE i \in 1..n : Cardinality(Before(n, weight, i)) = k
<1>1. n \in Nat /\ DOMAIN s = 1..n /\ \A i \in 1..n : s[i] \in S
  OBVIOUS
<1>2. Sorted(s, weight) = [k \in 1..n |-> s[at(k)]]
  <2> HIDE DEF n
  <2> QED
    BY <1>1 DEF Sorted, Before
<1>3. \A k \in 1..n : /\ at(k) \in 1..n
                      /\ Cardinality(Before(n, weight, at(k))) = k
  BY <1>1, EveryPlaceIsTaken
<1>4. \A i \in 1..n : \E k \in 1..n : at(k) = i
  <2> TAKE i \in 1..n
  <2> DEFINE k == Cardinality(Before(n, weight, i))
  <2>1. k \in 1..n
    BY <1>1, PlaceFacts
  <2>2. at(k) = i
    BY <1>1, <1>3, <2>1, PlaceFacts
  <2> QED
    BY <2>1, <2>2
<1> HIDE DEF at, n
<1> DEFINE t == Sorted(s, weight)
           T(k) == s[at(k)]
<1>5. \A k \in 1..n : T(k) \in S
  BY <1>1, <1>3
<1>6. t = [k \in 1..n |-> T(k)]
  BY <1>2
<1> HIDE DEF t, T
<1>7. t \in Seq(S)
  BY <1>1, <1>5, <1>6, IsASeq
<1>8. Len(t) = n
  BY <1>1, <1>6, <1>7
<1>9. Range(t) = Range(s)
  <2>1. \A k \in 1..n : t[k] = s[at(k)]
    BY <1>6 DEF T
  <2>2. DOMAIN t = 1..n
    BY <1>6
  <2> QED
    BY <1>1, <1>3, <1>4, <2>1, <2>2 DEF Range
<1> QED
  BY <1>7, <1>8, <1>9 DEF t, n

-----------------------------------------------------------------------------
(* The rows at some places are the rows that are there.                    *)
LEMMA TakenIsThere ==
  ASSUME NEW S, NEW s \in Seq(S), NEW places
  PROVE  /\ Taken(s, places) \in Seq(S)
         /\ Range(Taken(s, places)) = {s[i] : i \in DOMAIN s \cap places}
<1> DEFINE n == Len(s)
           V == Seq(S)
           With(v, i) == IF i \in places THEN Append(v, s[i]) ELSE v
           round == [p \in (1..n) \X V |-> With(p[2], p[1])]
           F(f) == f = [i \in 0..n |-> IF i = 0 THEN <<>> ELSE With(f[i - 1], i)]
           t == CHOOSE f : F(f)
<1>1. n \in Nat /\ DOMAIN s = 1..n /\ \A i \in 1..n : s[i] \in S
  OBVIOUS
<1>2. Taken(s, places) = t[n]
  BY DEF Taken
<1>3. \A i \in 1..n, v \in V : With(v, i) \in V
  BY <1>1
<1>4. <<>> \in V
  OBVIOUS
<1> HIDE DEF n, V
<1>5. round \in [(1..n) \X V -> V]
  <2> HIDE DEF With
  <2> QED
    BY <1>3
<1>6. \A i \in 1..n, v \in V : round[<<i, v>>] = With(v, i)
  OBVIOUS
<1> HIDE DEF With, round
<1>7. PICK h \in [0..n -> V] : Loop(h, n, <<>>, round)
  BY <1>1, <1>4, <1>5, LoopExists
<1>8. F(h)
  <2>1. \A i \in 0..n : h[i] = IF i = 0 THEN <<>> ELSE With(h[i - 1], i)
    <3> SUFFICES ASSUME NEW i \in 0..n, i # 0
                 PROVE  round[<<i, h[i - 1]>>] = With(h[i - 1], i)
      BY <1>7 DEF Loop
    <3>1. i \in 1..n /\ h[i - 1] \in V
      BY <1>1
    <3> QED
      BY <1>6, <3>1
  <2> QED
    BY <2>1
<1>9. F(t)
  BY <1>8
<1> HIDE DEF t
<1>10. t[0] = <<>> /\ \A i \in 1..n : t[i] = With(t[i - 1], i)
  BY <1>1, <1>9
<1> DEFINE Good(m) == /\ t[m] \in V
                      /\ Range(t[m]) = {s[i] : i \in (1..m) \cap places}
           P == {m \in Nat : m <= n => Good(m)}
<1>11. 0 \in P
  <2>1. 1..0 = {} /\ Range(<<>>) = {}
    BY DEF Range
  <2>2. Good(0)
    BY <1>4, <1>10, <2>1
  <2> QED
    BY <2>2
<1>12. ASSUME NEW m \in Nat, m \in P PROVE m + 1 \in P
  <2> HIDE DEF Good
  <2> SUFFICES ASSUME m + 1 <= n PROVE Good(m + 1)
    OBVIOUS
  <2> USE DEF Good
  <2>1. t[m] \in V /\ Range(t[m]) = {s[i] : i \in (1..m) \cap places}
    <3> HIDE DEF Good
    <3>1. Good(m)
      BY <1>1, <1>12
    <3> QED
      BY <3>1 DEF Good
  <2>2. m + 1 \in 1..n /\ (m + 1) - 1 = m
    BY <1>1
  <2>3. t[m + 1] = With(t[m], m + 1)
    BY <1>10, <2>2
  <2>4. CASE m + 1 \in places
    <3>1. t[m + 1] = Append(t[m], s[m + 1]) /\ s[m + 1] \in S
      BY <1>1, <2>2, <2>3, <2>4 DEF With
    <3>2. Range(Append(t[m], s[m + 1])) = Range(t[m]) \cup {s[m + 1]}
      <4> DEFINE v == t[m]
                 e == s[m + 1]
      <4>1. v \in Seq(S) /\ e \in S
        BY <2>1, <3>1 DEF V
      <4> HIDE DEF v, e
      <4>2. /\ DOMAIN Append(v, e) = 1..(Len(v) + 1) /\ DOMAIN v = 1..Len(v)
            /\ Len(v) \in Nat
            /\ Append(v, e)[Len(v) + 1] = e
            /\ \A k \in 1..Len(v) : Append(v, e)[k] = v[k]
        BY <4>1
      <4>3. Range(Append(v, e)) = Range(v) \cup {e}
        BY <4>2 DEF Range
      <4> QED
        BY <4>3 DEF v, e
    <3>3. {s[i] : i \in (1..(m + 1)) \cap places}
            = {s[i] : i \in (1..m) \cap places} \cup {s[m + 1]}
      BY <2>2, <2>4
    <3> QED
      BY <1>3, <2>1, <2>2, <2>3, <3>1, <3>2, <3>3
  <2>5. CASE m + 1 \notin places
    <3>1. t[m + 1] = t[m]
      BY <2>3, <2>5 DEF With
    <3>2. (1..(m + 1)) \cap places = (1..m) \cap places
      BY <2>5
    <3> QED
      BY <2>1, <3>1, <3>2
  <2> QED
    BY <2>4, <2>5
<1> HIDE DEF P
<1>13. n \in P
  BY <1>1, <1>11, <1>12, InSetInduction
<1> HIDE DEF Good
<1>14. Good(n)
  BY <1>1, <1>13 DEF P
<1> QED
  BY <1>1, <1>2, <1>14 DEF Good, V

-----------------------------------------------------------------------------
(* Lists of rows with integer scores.                                      *)
Scored == [id : Ids, score : Int]
Lists == Seq(Scored)

LEMMA ListFacts ==
  ASSUME NEW s \in Lists
  PROVE  /\ Len(s) \in Nat /\ DOMAIN s = 1..Len(s)
         /\ \A i \in DOMAIN s : s[i] \in Scored /\ s[i].id \in Ids /\ s[i].score \in Int
         /\ Range(s) \subseteq Scored
         /\ IdsOf(s) = {c.id : c \in Range(s)}
         /\ IdsOf(s) \subseteq Ids
         /\ PrintsIn(s) = {PrintOf(id) : id \in IdsOf(s)}
<1>1. Len(s) \in Nat /\ DOMAIN s = 1..Len(s) /\ \A i \in DOMAIN s : s[i] \in Scored
  BY DEF Lists
<1>2. \A i \in DOMAIN s : s[i].id \in Ids /\ s[i].score \in Int
  BY <1>1 DEF Scored
<1>3. Range(s) \subseteq Scored
  BY <1>1 DEF Range
<1>4. IdsOf(s) = {c.id : c \in Range(s)}
  BY DEF Range, IdsOf
<1>5. PrintsIn(s) = {PrintOf(id) : id \in IdsOf(s)}
  BY DEF PrintsIn, IdsOf
<1> QED
  BY <1>1, <1>2, <1>3, <1>4, <1>5 DEF IdsOf

(* Rows that are kept are those that have the ids.                         *)
LEMMA KeepKeeps ==
  ASSUME NEW s \in Lists, NEW ids
  PROVE  /\ Keep(s, ids) \in Lists
         /\ IdsOf(Keep(s, ids)) = IdsOf(s) \cap ids
         /\ Range(Keep(s, ids)) = {c \in Range(s) : c.id \in ids}
<1> DEFINE places == {i \in DOMAIN s : s[i].id \in ids}
           t == Taken(s, places)
<1>1. Keep(s, ids) = t
  BY DEF Keep
<1>2. t \in Lists /\ Range(t) = {s[i] : i \in DOMAIN s \cap places}
  BY TakenIsThere DEF Lists
<1> HIDE DEF t
<1>3. Range(t) = {c \in Range(s) : c.id \in ids}
  BY <1>2 DEF Range
<1>4. IdsOf(t) = {c.id : c \in Range(t)} /\ IdsOf(s) = {c.id : c \in Range(s)}
  BY <1>2, ListFacts
<1> QED
  BY <1>1, <1>2, <1>3, <1>4

(* A list is sorted by integers.                                           *)
LEMMA SortedKeeps ==
  ASSUME NEW s \in Lists, NEW weight, \A i \in DOMAIN s : weight[i] \in Int
  PROVE  /\ Sorted(s, weight) \in Lists
         /\ Len(Sorted(s, weight)) = Len(s)
         /\ IdsOf(Sorted(s, weight)) = IdsOf(s)
<1> DEFINE t == Sorted(s, weight)
<1>1. t \in Lists /\ Len(t) = Len(s) /\ Range(t) = Range(s)
  BY SortedPermutes DEF Lists
<1> HIDE DEF t
<1>2. IdsOf(t) = IdsOf(s)
  BY <1>1, ListFacts
<1> QED
  BY <1>1, <1>2 DEF t

LEMMA ByScoreKeeps ==
  ASSUME NEW s \in Lists
  PROVE  /\ ByScore(s) \in Lists
         /\ Len(ByScore(s)) = Len(s)
         /\ IdsOf(ByScore(s)) = IdsOf(s)
<1> DEFINE weight == [i \in DOMAIN s |-> -s[i].score]
<1>1. \A i \in DOMAIN s : weight[i] \in Int
  BY ListFacts
<1> HIDE DEF weight
<1> QED
  BY <1>1, SortedKeeps DEF ByScore, weight

LEMMA RescoreKeeps ==
  ASSUME NEW s \in Lists, NEW score, \A i \in DOMAIN s : score[i] \in Int
  PROVE  /\ Rescore(s, score) \in Lists
         /\ Len(Rescore(s, score)) = Len(s)
         /\ IdsOf(Rescore(s, score)) = IdsOf(s)
<1> DEFINE T(i) == [id |-> s[i].id, score |-> score[i]]
           n == Len(s)
<1>1. n \in Nat /\ DOMAIN s = 1..n
  BY ListFacts
<1>2. \A i \in 1..n : T(i) \in Scored /\ T(i).id = s[i].id
  BY <1>1, ListFacts DEF Scored
<1> HIDE DEF n
<1>3. Rescore(s, score) = [i \in 1..n |-> T(i)]
  BY <1>1 DEF Rescore
<1> HIDE DEF T
<1>4. [i \in 1..n |-> T(i)] \in Lists
  BY <1>1, <1>2, IsASeq DEF Lists
<1> DEFINE t == Rescore(s, score)
<1>5. t \in Lists /\ DOMAIN t = 1..n /\ \A i \in 1..n : t[i].id = s[i].id
  BY <1>2, <1>3, <1>4
<1> HIDE DEF t
<1>6. Len(t) = n
  BY <1>1, <1>5, ListFacts
<1>7. IdsOf(t) = IdsOf(s)
  BY <1>1, <1>5 DEF IdsOf
<1> QED
  BY <1>5, <1>6, <1>7 DEF t, n

LEMMA CutCuts ==
  ASSUME NEW s \in Lists, NEW n \in Nat
  PROVE  /\ Cut(s, n) \in Lists
         /\ Len(Cut(s, n)) <= n
         /\ Range(Cut(s, n)) \subseteq Range(s)
         /\ IdsOf(Cut(s, n)) \subseteq IdsOf(s)
         /\ Len(s) <= n => Cut(s, n) = s
<1> DEFINE m == Lesser(n, Len(s))
           t == Cut(s, n)
<1>1. m \in Nat /\ m <= n /\ m <= Len(s) /\ (Len(s) <= n => m = Len(s))
  BY ListFacts DEF Lesser
<1>2. \A i \in 1..m : s[i] \in Scored /\ i \in DOMAIN s
  BY <1>1, ListFacts
<1>3. t = SubSeq(s, 1, m)
  BY DEF Cut
<1> HIDE DEF m, t
<1>4. /\ t \in Lists /\ Len(t) = m
      /\ \A i \in 1..m : t[i] = s[i]
  <2>1. /\ SubSeq(s, 1, m) \in Seq(Scored)
        /\ Len(SubSeq(s, 1, m)) = IF 1 <= m THEN m - 1 + 1 ELSE 0
        /\ \A i \in 1..(m - 1 + 1) : SubSeq(s, 1, m)[i] = s[1 + i - 1]
    BY <1>1, <1>2, SubSeqProperties
  <2>2. m - 1 + 1 = m /\ (~(1 <= m) => m = 0) /\ \A i \in 1..m : 1 + i - 1 = i
    BY <1>1
  <2> QED
    BY <1>3, <2>1, <2>2 DEF Lists
<1>5. DOMAIN t = 1..m
  BY <1>4, ListFacts
<1>6. Range(t) \subseteq Range(s)
  BY <1>2, <1>4, <1>5 DEF Range
<1>7. IdsOf(t) \subseteq IdsOf(s)
  BY <1>4, <1>6, ListFacts
<1>8. Len(s) <= n => t = s
  <2> HAVE Len(s) <= n
  <2>1. Len(t) = Len(s) /\ \A i \in 1..Len(t) : t[i] = s[i]
    BY <1>1, <1>4
  <2> QED
    BY <1>4, <2>1, SeqEqual DEF Lists
<1> QED
  BY <1>1, <1>4, <1>6, <1>7, <1>8 DEF t

-----------------------------------------------------------------------------
(* The tokens of a list at some tiers.                                     *)
Tierings(s) == [DOMAIN s -> Tiers]
Plain(s) == [i \in DOMAIN s |-> "L0"]

LEMMA CostsAreNat ==
  ASSUME NEW id \in Ids, NEW tier \in Tiers
  PROVE  TierCost(id, tier) \in Nat
BY PackagingAssumption DEF TierCost

(* The sum is the last of the sums of the first rows.                      *)
PartialSums(s, t, h) ==
  /\ h \in [0..Len(s) -> Nat]
  /\ h[0] = 0
  /\ \A i \in 1..Len(s) : h[i] = h[i - 1] + TierCost(s[i].id, t[i])

LEMMA SumIsPartial ==
  ASSUME NEW s \in Lists, NEW t \in Tierings(s)
  PROVE  \E h : PartialSums(s, t, h) /\ SumTokens(s, t) = h[Len(s)]
<1> DEFINE n == Len(s)
           cost(i) == TierCost(s[i].id, t[i])
           round == [p \in (1..n) \X Nat |-> p[2] + cost(p[1])]
           F(f) == f = [i \in 0..n |-> IF i = 0 THEN 0 ELSE f[i - 1] + cost(i)]
           sum == CHOOSE f : F(f)
<1>1. n \in Nat /\ DOMAIN s = 1..n
  BY ListFacts
<1>2. \A i \in 1..n : cost(i) \in Nat
  BY <1>1, ListFacts, CostsAreNat DEF Tierings
<1>3. SumTokens(s, t) = sum[n]
  BY DEF SumTokens
<1> HIDE DEF cost
<1>4. round \in [(1..n) \X Nat -> Nat]
  BY <1>2
<1>5. \A i \in 1..n, v \in Nat : round[<<i, v>>] = v + cost(i)
  OBVIOUS
<1> HIDE DEF round, n
<1>6. PICK h \in [0..n -> Nat] : Loop(h, n, 0, round)
  BY <1>1, <1>4, LoopExists
<1>7. \A i \in 0..n : h[i] = IF i = 0 THEN 0 ELSE h[i - 1] + cost(i)
  <2> SUFFICES ASSUME NEW i \in 0..n, i # 0
               PROVE  round[<<i, h[i - 1]>>] = h[i - 1] + cost(i)
    BY <1>6 DEF Loop
  <2>1. i \in 1..n /\ h[i - 1] \in Nat
    BY <1>1
  <2> QED
    BY <1>5, <2>1
<1>8. F(h)
  BY <1>7
<1>9. F(sum)
  BY <1>8
<1> HIDE DEF sum
<1>10. \A i \in 0..n : sum[i] = IF i = 0 THEN 0 ELSE sum[i - 1] + cost(i)
  BY <1>9
<1> DEFINE P == {m \in Nat : m <= n => sum[m] \in Nat}
<1>11. 0 \in P
  BY <1>1, <1>10
<1>12. ASSUME NEW m \in Nat, m \in P PROVE m + 1 \in P
  <2> SUFFICES ASSUME m + 1 <= n PROVE sum[m + 1] \in Nat
    OBVIOUS
  <2>1. sum[m] \in Nat /\ m + 1 \in 1..n /\ (m + 1) - 1 = m
    BY <1>1, <1>12
  <2> QED
    BY <1>2, <1>10, <2>1
<1>13. Nat \subseteq P
  <2> HIDE DEF P
  <2> QED
    BY <1>11, <1>12, InSetInduction
<1>14. sum \in [0..n -> Nat]
  <2>1. \A i \in 0..n : sum[i] \in Nat
    BY <1>1, <1>13
  <2>2. DOMAIN sum = 0..n /\ sum = [i \in 0..n |-> sum[i]]
    BY <1>9
  <2> QED
    BY <2>1, <2>2
<1>15. sum[0] = 0 /\ \A i \in 1..n : sum[i] = sum[i - 1] + cost(i)
  BY <1>1, <1>10
<1> QED
  BY <1>3, <1>14, <1>15 DEF PartialSums, cost, n

LEMMA SumIsNat ==
  ASSUME NEW s \in Lists, NEW t \in Tierings(s)
  PROVE  SumTokens(s, t) \in Nat
<1>1. Len(s) \in Nat
  BY ListFacts
<1> QED
  BY <1>1, SumIsPartial DEF PartialSums

(* A row at another tier changes the sum by what the tiers differ.         *)
LEMMA SumChanges ==
  ASSUME NEW s \in Lists, NEW t \in Tierings(s),
         NEW i \in DOMAIN s, NEW tier \in Tiers
  PROVE  /\ [t EXCEPT ![i] = tier] \in Tierings(s)
         /\ SumTokens(s, [t EXCEPT ![i] = tier])
              = SumTokens(s, t) + TierCost(s[i].id, tier) - TierCost(s[i].id, t[i])
<1> DEFINE u == [t EXCEPT ![i] = tier]
           n == Len(s)
           delta == TierCost(s[i].id, tier) - TierCost(s[i].id, t[i])
<1>1. n \in Nat /\ DOMAIN s = 1..n /\ \A j \in 1..n : s[j].id \in Ids
  BY ListFacts
<1>2. u \in Tierings(s)
  BY DEF Tierings
<1>3. /\ \A j \in 1..n : /\ TierCost(s[j].id, t[j]) \in Nat
                         /\ TierCost(s[j].id, u[j]) \in Nat
      /\ \A j \in 1..n : j # i => u[j] = t[j]
      /\ u[i] = tier
  BY <1>1, <1>2, CostsAreNat DEF Tierings
<1>4. delta = TierCost(s[i].id, u[i]) - TierCost(s[i].id, t[i]) /\ delta \in Int
  BY <1>1, <1>3
<1>5. PICK h : PartialSums(s, t, h) /\ SumTokens(s, t) = h[n]
  BY SumIsPartial
<1> HIDE DEF u
<1>6. PICK g : PartialSums(s, u, g) /\ SumTokens(s, u) = g[n]
  BY <1>2, SumIsPartial
<1>7. /\ \A j \in 0..n : h[j] \in Nat /\ g[j] \in Nat
      /\ h[0] = 0 /\ g[0] = 0
      /\ \A j \in 1..n : h[j] = h[j - 1] + TierCost(s[j].id, t[j])
      /\ \A j \in 1..n : g[j] = g[j - 1] + TierCost(s[j].id, u[j])
  BY <1>5, <1>6 DEF PartialSums
<1> HIDE DEF n, delta
<1> DEFINE P == {m \in Nat : m <= n =>
                   g[m] = h[m] + (IF i <= m THEN delta ELSE 0)}
<1>8. 0 \in P
  BY <1>1, <1>7
<1>9. ASSUME NEW m \in Nat, m \in P PROVE m + 1 \in P
  <2> SUFFICES ASSUME m + 1 <= n
               PROVE  g[m + 1] = h[m + 1] + (IF i <= m + 1 THEN delta ELSE 0)
    OBVIOUS
  <2>1. g[m] = h[m] + (IF i <= m THEN delta ELSE 0)
    BY <1>1, <1>9
  <2>2. m + 1 \in 1..n /\ (m + 1) - 1 = m /\ h[m] \in Nat /\ g[m] \in Nat
    BY <1>1, <1>7
  <2>3. /\ h[m + 1] = h[m] + TierCost(s[m + 1].id, t[m + 1])
        /\ g[m + 1] = g[m] + TierCost(s[m + 1].id, u[m + 1])
    BY <1>7, <2>2
  <2>4. CASE i = m + 1
    <3>1. TierCost(s[i].id, t[i]) \in Nat /\ TierCost(s[i].id, u[i]) \in Nat
      BY <1>1, <1>3
    <3>2. TierCost(s[i].id, u[i]) = TierCost(s[i].id, t[i]) + delta
      BY <1>4, <3>1
    <3> QED
      BY <1>4, <2>1, <2>2, <2>3, <2>4, <3>1, <3>2
  <2>5. CASE i # m + 1
    <3>1. u[m + 1] = t[m + 1] /\ (i <= m + 1 <=> i <= m)
      BY <1>1, <1>3, <2>2, <2>5
    <3>2. TierCost(s[m + 1].id, t[m + 1]) \in Nat
      BY <1>3, <2>2
    <3> QED
      BY <1>4, <2>1, <2>2, <2>3, <3>1, <3>2
  <2> QED
    BY <2>4, <2>5
<1>10. n \in P
  <2> HIDE DEF P
  <2> QED
    BY <1>1, <1>8, <1>9, InSetInduction
<1>11. g[n] = h[n] + delta
  BY <1>1, <1>10
<1> HIDE DEF P
<1>12. SumTokens(s, u) = SumTokens(s, t) + delta
  BY <1>5, <1>6, <1>11
<1>13. SumTokens(s, t) \in Nat
  BY SumIsNat
<1>14. SumTokens(s, t) + delta
         = SumTokens(s, t) + TierCost(s[i].id, tier) - TierCost(s[i].id, t[i])
  BY <1>1, <1>3, <1>13 DEF delta
<1> QED
  BY <1>2, <1>12, <1>14 DEF u

-----------------------------------------------------------------------------
(* Promotions stay within the limit, or within what the headlines cost.    *)
Fits(s, t, limit) ==
  /\ t \in Tierings(s)
  /\ SumTokens(s, t) <= Greater(limit, SumTokens(s, Plain(s)))

LEMMA PlainFits ==
  ASSUME NEW s \in Lists, NEW limit \in Nat
  PROVE  Fits(s, Plain(s), limit)
<1>1. Plain(s) \in Tierings(s)
  BY DEF Plain, Tierings, Tiers
<1>2. SumTokens(s, Plain(s)) \in Nat
  BY <1>1, SumIsNat
<1> QED
  BY <1>1, <1>2 DEF Fits, Greater

LEMMA PromotionFits ==
  ASSUME NEW s \in Lists, NEW limit \in Nat, NEW t, Fits(s, t, limit),
         NEW i \in DOMAIN s, NEW tier \in Tiers,
         TierCost(s[i].id, tier) - TierCost(s[i].id, t[i])
           <= limit - SumTokens(s, t)
  PROVE  /\ Fits(s, [t EXCEPT ![i] = tier], limit)
         /\ SumTokens(s, [t EXCEPT ![i] = tier])
              = SumTokens(s, t) + (TierCost(s[i].id, tier) - TierCost(s[i].id, t[i]))
<1>1. t \in Tierings(s) /\ Plain(s) \in Tierings(s)
  BY DEF Fits, Tierings, Plain, Tiers
<1> DEFINE u == [t EXCEPT ![i] = tier]
           a == TierCost(s[i].id, tier)
           b == TierCost(s[i].id, t[i])
<1>2. u \in Tierings(s) /\ SumTokens(s, u) = SumTokens(s, t) + a - b
  BY <1>1, SumChanges
<1>3. a \in Nat /\ b \in Nat
  BY <1>1, ListFacts, CostsAreNat DEF Tierings
<1>4. SumTokens(s, t) \in Nat /\ SumTokens(s, Plain(s)) \in Nat
  BY <1>1, SumIsNat
<1>5. a - b <= limit - SumTokens(s, t)
  OBVIOUS
<1> HIDE DEF u, a, b
<1>6. SumTokens(s, u) = SumTokens(s, t) + (a - b) /\ SumTokens(s, u) <= limit
  BY <1>2, <1>3, <1>4, <1>5
<1>7. SumTokens(s, u) <= Greater(limit, SumTokens(s, Plain(s)))
  BY <1>3, <1>4, <1>6 DEF Greater
<1> QED
  BY <1>2, <1>6, <1>7 DEF Fits, u, a, b

-----------------------------------------------------------------------------
(* Each of the loops that promote rows.                                    *)

LEMMA ForcedTopFits ==
  ASSUME NEW s \in Lists, NEW limit \in Nat, s # <<>>
  PROVE  Fits(s, [Plain(s) EXCEPT ![1] = ChooseRichTopHit(s[1].id,
                    limit - SumTokens(s, Plain(s)))], limit)
<1> DEFINE left == limit - SumTokens(s, Plain(s))
           cost(tier) == TierCost(s[1].id, tier)
           tier == ChooseRichTopHit(s[1].id, left)
<1>1. 1 \in DOMAIN s /\ s[1].id \in Ids
  BY ListFacts DEF Lists
<1>2. Plain(s) \in Tierings(s) /\ Plain(s)[1] = "L0"
  BY <1>1 DEF Plain, Tierings, Tiers
<1>3. cost("L0") \in Nat /\ cost("L1") \in Nat /\ cost("L2") \in Nat
  BY <1>1, CostsAreNat DEF Tiers
<1>4. \/ tier = "L2" /\ cost("L2") - cost("L0") <= left
      \/ tier = "L1" /\ cost("L1") - cost("L0") <= left
      \/ tier = "L0"
  BY DEF ChooseRichTopHit
<1>5. Fits(s, Plain(s), limit)
  BY PlainFits
<1>6. CASE tier = "L0"
  <2>1. [Plain(s) EXCEPT ![1] = tier] = Plain(s)
    BY <1>1, <1>6 DEF Plain
  <2> QED
    BY <1>5, <2>1
<1>7. CASE tier # "L0"
  <2>1. tier \in Tiers /\ cost(tier) - cost("L0") <= left
    BY <1>4, <1>7 DEF Tiers
  <2> HIDE DEF tier
  <2>2. Fits(s, [Plain(s) EXCEPT ![1] = tier], limit)
    BY <1>1, <1>2, <1>5, <2>1, PromotionFits
  <2> QED
    BY <2>2 DEF tier
<1> QED
  BY <1>6, <1>7

LEMMA TopSliceIsThere ==
  ASSUME NEW n \in Nat
  PROVE  GetTopSliceCount(n) \in Nat /\ GetTopSliceCount(n) <= n
<1>1. (2 * n + 5) \div 10 \in Int /\ (n = 1 => (2 * n + 5) \div 10 = 0)
  OBVIOUS
<1> QED
  BY <1>1 DEF GetTopSliceCount, Lesser, Greater

(* The budget that is counted down is what the tiers leave.                *)
LEMMA TopSliceFits ==
  ASSUME NEW s \in Lists, NEW limit \in Nat, NEW tt, Fits(s, tt, limit)
  PROVE  Fits(s, PromoteTopSliceToL2(s, tt, limit), limit)
<1> DEFINE n == GetTopSliceCount(Len(s))
           l2(i) == TierCost(s[i].id, "L2")
           extra(acc, i) == l2(i) - TierCost(s[i].id, acc.t[i])
           Promote(acc, i) ==
             IF extra(acc, i) > acc.remaining \/ extra(acc, i) > acc.share THEN acc
             ELSE [t |-> [acc.t EXCEPT ![i] = "L2"],
                   remaining |-> acc.remaining - extra(acc, i),
                   share |-> acc.share - extra(acc, i)]
           base == [t |-> tt, remaining |-> limit - SumTokens(s, tt),
                    share |-> (6 * limit) \div 10]
           V == {acc \in [t : Tierings(s), remaining : Int, share : Int] :
                   /\ Fits(s, acc.t, limit)
                   /\ acc.remaining = limit - SumTokens(s, acc.t)}
           round == [p \in (1..n) \X V |-> Promote(p[2], p[1])]
           F(f) == f = [i \in 0..n |-> IF i = 0 THEN base ELSE Promote(f[i - 1], i)]
           t == CHOOSE f : F(f)
<1>1. n \in Nat /\ 1..n \subseteq DOMAIN s
  BY TopSliceIsThere, ListFacts
<1>2. PromoteTopSliceToL2(s, tt, limit) = t[n].t
  BY DEF PromoteTopSliceToL2
<1>3. base \in V
  <2>1. tt \in Tierings(s) /\ SumTokens(s, tt) \in Nat
    BY SumIsNat DEF Fits
  <2>2. (6 * limit) \div 10 \in Int
    OBVIOUS
  <2> QED
    BY <2>1, <2>2
<1>4. ASSUME NEW i \in 1..n, NEW acc \in V PROVE Promote(acc, i) \in V
  <2>1. /\ acc.t \in Tierings(s) /\ Fits(s, acc.t, limit)
        /\ acc.remaining = limit - SumTokens(s, acc.t)
        /\ acc.share \in Int /\ SumTokens(s, acc.t) \in Nat
    BY SumIsNat
  <2>2. i \in DOMAIN s /\ s[i].id \in Ids
    BY <1>1, ListFacts
  <2>3. l2(i) \in Nat /\ TierCost(s[i].id, acc.t[i]) \in Nat
    BY <2>1, <2>2, CostsAreNat DEF Tierings, Tiers
  <2>4. SUFFICES ASSUME ~(extra(acc, i) > acc.remaining \/ extra(acc, i) > acc.share)
                 PROVE  [t |-> [acc.t EXCEPT ![i] = "L2"],
                         remaining |-> acc.remaining - extra(acc, i),
                         share |-> acc.share - extra(acc, i)] \in V
    OBVIOUS
  <2>5. TierCost(s[i].id, "L2") - TierCost(s[i].id, acc.t[i])
          <= limit - SumTokens(s, acc.t)
    BY <2>1, <2>3, <2>4
  <2>6. /\ Fits(s, [acc.t EXCEPT ![i] = "L2"], limit)
        /\ SumTokens(s, [acc.t EXCEPT ![i] = "L2"])
             = SumTokens(s, acc.t) + extra(acc, i)
    BY <2>1, <2>2, <2>5, PromotionFits DEF Tiers
  <2>7. [acc.t EXCEPT ![i] = "L2"] \in Tierings(s)
    BY <2>6 DEF Fits
  <2>8. extra(acc, i) \in Int
    BY <2>3
  <2> HIDE DEF extra
  <2>9. acc.remaining - extra(acc, i)
          = limit - SumTokens(s, [acc.t EXCEPT ![i] = "L2"])
    BY <2>1, <2>6, <2>8
  <2> QED
    BY <2>1, <2>6, <2>7, <2>8, <2>9
<1> HIDE DEF n, V, base, Promote
<1>5. round \in [(1..n) \X V -> V]
  BY <1>4
<1>6. \A i \in 1..n, v \in V : round[<<i, v>>] = Promote(v, i)
  OBVIOUS
<1> HIDE DEF round
<1>7. PICK h \in [0..n -> V] : Loop(h, n, base, round)
  BY <1>1, <1>3, <1>5, LoopExists
<1>8. F(h)
  <2>1. \A i \in 0..n : h[i] = IF i = 0 THEN base ELSE Promote(h[i - 1], i)
    <3> SUFFICES ASSUME NEW i \in 0..n, i # 0
                 PROVE  round[<<i, h[i - 1]>>] = Promote(h[i - 1], i)
      BY <1>7 DEF Loop
    <3>1. i \in 1..n /\ h[i - 1] \in V
      BY <1>1
    <3> QED
      BY <1>6, <3>1
  <2> QED
    BY <2>1
<1>9. F(t)
  BY <1>8
<1> HIDE DEF t
<1>10. t[0] = base /\ \A i \in 1..n : t[i] = Promote(t[i - 1], i)
  BY <1>1, <1>9
<1>11. t[n] \in V
  <2>1. \A i \in 1..n : t[i - 1] \in V => t[i] \in V
    BY <1>4, <1>10
  <2>2. t[0] \in V
    BY <1>3, <1>10
  <2> QED
    BY <1>1, <2>1, <2>2, LoopStays
<1> QED
  BY <1>2, <1>11 DEF V

LEMMA SupportingSliceFits ==
  ASSUME NEW s \in Lists, NEW limit \in Nat, NEW tt, Fits(s, tt, limit)
  PROVE  Fits(s, PromoteSupportingSliceToL1(s, tt, limit), limit)
<1> DEFINE n == Len(s)
           top == GetTopSliceCount(Len(s))
           stop == Lesser(Len(s), top + GetL1Quota(Len(s), top))
           extra(acc, i) == TierCost(s[i].id, "L1") - TierCost(s[i].id, acc[i])
           Promote(acc, i) ==
             IF i <= top \/ i > stop \/ extra(acc, i) = 0
                \/ extra(acc, i) > limit - SumTokens(s, acc) THEN acc
             ELSE [acc EXCEPT ![i] = "L1"]
           V == {acc \in Tierings(s) : Fits(s, acc, limit)}
           round == [p \in (1..n) \X V |-> Promote(p[2], p[1])]
           F(f) == f = [i \in 0..n |-> IF i = 0 THEN tt ELSE Promote(f[i - 1], i)]
           t == CHOOSE f : F(f)
<1>1. n \in Nat /\ DOMAIN s = 1..n
  BY ListFacts
<1>2. PromoteSupportingSliceToL1(s, tt, limit) = t[n]
  BY DEF PromoteSupportingSliceToL1
<1>3. tt \in V
  BY DEF Fits
<1>4. ASSUME NEW i \in 1..n, NEW acc \in V PROVE Promote(acc, i) \in V
  <2>1. acc \in Tierings(s) /\ Fits(s, acc, limit) /\ SumTokens(s, acc) \in Nat
    BY SumIsNat
  <2>2. i \in DOMAIN s /\ s[i].id \in Ids
    BY <1>1, ListFacts
  <2>3. TierCost(s[i].id, "L1") \in Nat /\ TierCost(s[i].id, acc[i]) \in Nat
    BY <2>1, <2>2, CostsAreNat DEF Tierings, Tiers
  <2> HIDE DEF top, stop
  <2>4. SUFFICES ASSUME ~(extra(acc, i) > limit - SumTokens(s, acc))
                 PROVE  [acc EXCEPT ![i] = "L1"] \in V
    OBVIOUS
  <2>5. TierCost(s[i].id, "L1") - TierCost(s[i].id, acc[i])
          <= limit - SumTokens(s, acc)
    BY <2>1, <2>3, <2>4
  <2>6. Fits(s, [acc EXCEPT ![i] = "L1"], limit)
    BY <2>1, <2>2, <2>5, PromotionFits DEF Tiers
  <2> QED
    BY <2>6 DEF Fits
<1> HIDE DEF n, V, Promote
<1>5. round \in [(1..n) \X V -> V]
  BY <1>4
<1>6. \A i \in 1..n, v \in V : round[<<i, v>>] = Promote(v, i)
  OBVIOUS
<1> HIDE DEF round
<1>7. PICK h \in [0..n -> V] : Loop(h, n, tt, round)
  BY <1>1, <1>3, <1>5, LoopExists
<1>8. F(h)
  <2>1. \A i \in 0..n : h[i] = IF i = 0 THEN tt ELSE Promote(h[i - 1], i)
    <3> SUFFICES ASSUME NEW i \in 0..n, i # 0
                 PROVE  round[<<i, h[i - 1]>>] = Promote(h[i - 1], i)
      BY <1>7 DEF Loop
    <3>1. i \in 1..n /\ h[i - 1] \in V
      BY <1>1
    <3> QED
      BY <1>6, <3>1
  <2> QED
    BY <2>1
<1>9. F(t)
  BY <1>8
<1> HIDE DEF t
<1>10. t[0] = tt /\ \A i \in 1..n : t[i] = Promote(t[i - 1], i)
  BY <1>1, <1>9
<1>11. t[n] \in V
  <2>1. \A i \in 1..n : t[i - 1] \in V => t[i] \in V
    BY <1>4, <1>10
  <2>2. t[0] \in V
    BY <1>3, <1>10
  <2> QED
    BY <1>1, <2>1, <2>2, LoopStays
<1> QED
  BY <1>2, <1>11 DEF V

(* The first rows of a list hide nothing at their headlines that what is   *)
(* left could show, unless one of them gave tokens back.                   *)
Fuller(id, tier) == Shows(id, tier) \cap (Shows(id, "L2") \ Shows(id, "L0")) # {}
Cheaper(id, at) == \E tier \in {"L0", "L1"} : TierCost(id, at) < TierCost(id, tier)

Waits(s, t, limit, k) ==
  \A i \in 1..k, tier \in {"L1", "L2"} :
    /\ t[i] = "L0"
    /\ Fuller(s[i].id, tier)
    /\ \A j \in 1..k : j > i => ~Cheaper(s[j].id, t[j])
    => TierCost(s[i].id, tier) - TierCost(s[i].id, "L0") > limit - SumTokens(s, t)

LEMMA FullRowWaits ==
  ASSUME NEW s \in Lists, NEW limit \in Nat, NEW t, NEW k \in Nat,
         Waits(s, t, limit, k), t[k + 1] = "L2"
  PROVE  Waits(s, t, limit, k + 1)
<1> SUFFICES ASSUME NEW i \in 1..(k + 1), NEW tier \in {"L1", "L2"},
                    t[i] = "L0", Fuller(s[i].id, tier),
                    \A j \in 1..(k + 1) : j > i => ~Cheaper(s[j].id, t[j])
             PROVE  TierCost(s[i].id, tier) - TierCost(s[i].id, "L0")
                      > limit - SumTokens(s, t)
  BY DEF Waits
<1>1. i # k + 1
  OBVIOUS
<1>2. i \in 1..k /\ 1..k \subseteq 1..(k + 1)
  BY <1>1
<1>3. \A j \in 1..k : j > i => ~Cheaper(s[j].id, t[j])
  BY <1>2
<1> QED
  BY <1>2, <1>3 DEF Waits

(* What one row is given leaves the rows before it no richer, unless it    *)
(* gives tokens back, and it takes what it can pay for.                    *)
LEMMA UpgradeWaits ==
  ASSUME NEW s \in Lists, NEW limit \in Nat, NEW t \in Tierings(s),
         NEW k \in Nat, k + 1 \in DOMAIN s, Waits(s, t, limit, k),
         t[k + 1] # "L2", NEW new \in Tiers,
         new = ChooseVisibleTier(s[k + 1].id, t[k + 1], limit - SumTokens(s, t))
  PROVE  Waits(s, [t EXCEPT ![k + 1] = new], limit, k + 1)
<1> DEFINE m == k + 1
           id == s[m].id
           u == [t EXCEPT ![m] = new]
           left == limit - SumTokens(s, t)
<1>1. m \in DOMAIN s /\ id \in Ids /\ DOMAIN s = 1..Len(s) /\ Len(s) \in Nat
  BY ListFacts
<1>2. /\ u \in Tierings(s)
      /\ SumTokens(s, u) = SumTokens(s, t) + TierCost(id, new) - TierCost(id, t[m])
  BY <1>1, SumChanges
<1>3. SumTokens(s, t) \in Nat /\ SumTokens(s, u) \in Nat /\ t[m] \in {"L0", "L1"}
  BY <1>1, <1>2, SumIsNat DEF Tierings, Tiers
<1>4. \A at \in Tiers : TierCost(id, at) \in Nat
  BY <1>1, CostsAreNat
<1>5. u[m] = new /\ \A i \in DOMAIN s : i # m => u[i] = t[i]
  BY <1>1 DEF Tierings
<1>6. ASSUME NEW i \in 1..m, NEW tier \in {"L1", "L2"}, u[i] = "L0",
             Fuller(s[i].id, tier),
             \A j \in 1..m : j > i => ~Cheaper(s[j].id, u[j])
      PROVE  TierCost(s[i].id, tier) - TierCost(s[i].id, "L0") > limit - SumTokens(s, u)
  <2>1. CASE i = m
    <3>1. new = "L0" /\ Fuller(id, tier)
      BY <1>5, <1>6, <2>1
    <3>2. t[m] = "L0"
      BY <1>3, <3>1 DEF ChooseVisibleTier
    <3>3. SumTokens(s, u) = SumTokens(s, t)
      BY <1>2, <1>3, <1>4, <3>1, <3>2 DEF Tiers
    <3>4. ~(TierCost(id, tier) - TierCost(id, "L0") <= left)
      <4> HIDE DEF left, id
      <4>1. new = ChooseVisibleTier(id, "L0", left)
        BY <3>2 DEF left, id
      <4> QED
        BY <3>1, <4>1 DEF ChooseVisibleTier, Fuller
    <3> QED
      BY <1>3, <1>4, <2>1, <3>3, <3>4 DEF Tiers
  <2>2. CASE i # m
    <3>1. i \in 1..k /\ m \in 1..m /\ i < m
      BY <2>2
    <3>2. \A j \in 1..k : j \in 1..m /\ j \in DOMAIN s /\ j # m
      BY <1>1
    <3>3. t[i] = "L0" /\ \A j \in 1..k : j > i => ~Cheaper(s[j].id, t[j])
      BY <1>5, <1>6, <3>1, <3>2
    <3>4. TierCost(s[i].id, tier) - TierCost(s[i].id, "L0") > left
      BY <1>6, <3>1, <3>3 DEF Waits
    <3>5. ~Cheaper(id, new)
      BY <1>5, <1>6, <3>1
    <3>6. TierCost(id, new) >= TierCost(id, t[m])
      BY <1>3, <1>4, <3>5 DEF Cheaper, Tiers
    <3>7. SumTokens(s, u) >= SumTokens(s, t)
      <4> HIDE DEF u, id, m
      <4>1. TierCost(id, new) \in Nat /\ TierCost(id, t[m]) \in Nat
        BY <1>3, <1>4 DEF Tiers
      <4> QED
        BY <1>2, <1>3, <3>6, <4>1
    <3>8. s[i].id \in Ids
      BY <1>1, <3>1, ListFacts
    <3>9. TierCost(s[i].id, tier) \in Nat /\ TierCost(s[i].id, "L0") \in Nat
      BY <3>8, CostsAreNat DEF Tiers
    <3> QED
      BY <1>3, <3>4, <3>7, <3>9
  <2> QED
    BY <2>1, <2>2
<1> HIDE DEF u
<1>7. Waits(s, u, limit, m)
  BY <1>6 DEF Waits
<1> QED
  BY <1>7 DEF u

LEMMA VisibilityFits ==
  ASSUME NEW s \in Lists, NEW limit \in Nat, NEW tt, Fits(s, tt, limit)
  PROVE  /\ Fits(s, PreserveQueryTermVisibility(s, tt, limit), limit)
         /\ Waits(s, PreserveQueryTermVisibility(s, tt, limit), limit, Len(s))
<1> DEFINE n == Len(s)
           tier(acc, i) ==
             ChooseVisibleTier(s[i].id, acc[i], limit - SumTokens(s, acc))
           Upgrade(acc, i) ==
             IF acc[i] = "L2" THEN acc ELSE [acc EXCEPT ![i] = tier(acc, i)]
           V == {acc \in Tierings(s) : Fits(s, acc, limit)}
           round == [p \in (1..n) \X V |-> Upgrade(p[2], p[1])]
           F(f) == f = [i \in 0..n |-> IF i = 0 THEN tt ELSE Upgrade(f[i - 1], i)]
           t == CHOOSE f : F(f)
<1>1. n \in Nat /\ DOMAIN s = 1..n
  BY ListFacts
<1>2. PreserveQueryTermVisibility(s, tt, limit) = t[n]
  BY DEF PreserveQueryTermVisibility
<1>3. tt \in V
  BY DEF Fits
<1>4. ASSUME NEW i \in 1..n, NEW acc \in V PROVE Upgrade(acc, i) \in V
  <2>1. acc \in Tierings(s) /\ Fits(s, acc, limit) /\ SumTokens(s, acc) \in Nat
    BY SumIsNat
  <2>2. i \in DOMAIN s /\ s[i].id \in Ids
    BY <1>1, ListFacts
  <2>3. \/ tier(acc, i) = acc[i]
        \/ /\ tier(acc, i) \in {"L1", "L2"}
           /\ TierCost(s[i].id, tier(acc, i)) - TierCost(s[i].id, acc[i])
                <= limit - SumTokens(s, acc)
    BY DEF ChooseVisibleTier
  <2>4. SUFFICES [acc EXCEPT ![i] = tier(acc, i)] \in V
    OBVIOUS
  <2> HIDE DEF tier
  <2>5. CASE tier(acc, i) = acc[i]
    <3>1. [acc EXCEPT ![i] = tier(acc, i)] = acc
      BY <2>1, <2>5 DEF Tierings
    <3> QED
      BY <3>1
  <2>6. CASE tier(acc, i) # acc[i]
    <3>1. tier(acc, i) \in Tiers
      BY <2>3, <2>6 DEF Tiers
    <3>2. Fits(s, [acc EXCEPT ![i] = tier(acc, i)], limit)
      BY <2>1, <2>2, <2>3, <2>6, <3>1, PromotionFits
    <3> QED
      BY <3>2 DEF Fits
  <2> QED
    BY <2>5, <2>6
<1>12. ASSUME NEW k \in Nat, k + 1 \in 1..n, NEW acc \in V, Waits(s, acc, limit, k)
       PROVE  Waits(s, Upgrade(acc, k + 1), limit, k + 1)
  <2>1. CASE acc[k + 1] = "L2"
    BY <1>12, <2>1, FullRowWaits
  <2>2. CASE acc[k + 1] # "L2"
    <3>1. acc \in Tierings(s) /\ k + 1 \in DOMAIN s /\ acc[k + 1] \in Tiers
      BY <1>1, <1>12 DEF Tierings
    <3>2. tier(acc, k + 1) \in Tiers
      BY <3>1 DEF ChooseVisibleTier, Tiers
    <3> DEFINE new == tier(acc, k + 1)
    <3>3. new = ChooseVisibleTier(s[k + 1].id, acc[k + 1], limit - SumTokens(s, acc))
      OBVIOUS
    <3> HIDE DEF new
    <3>4. Waits(s, [acc EXCEPT ![k + 1] = new], limit, k + 1)
      BY <1>12, <2>2, <3>1, <3>2, <3>3, UpgradeWaits DEF new
    <3>5. Upgrade(acc, k + 1) = [acc EXCEPT ![k + 1] = new]
      BY <2>2 DEF new
    <3> QED
      BY <3>4, <3>5
  <2> QED
    BY <2>1, <2>2
<1> HIDE DEF n, V, Upgrade
<1>5. round \in [(1..n) \X V -> V]
  BY <1>4
<1>6. \A i \in 1..n, v \in V : round[<<i, v>>] = Upgrade(v, i)
  OBVIOUS
<1> HIDE DEF round
<1>7. PICK h \in [0..n -> V] : Loop(h, n, tt, round)
  BY <1>1, <1>3, <1>5, LoopExists
<1>8. F(h)
  <2>1. \A i \in 0..n : h[i] = IF i = 0 THEN tt ELSE Upgrade(h[i - 1], i)
    <3> SUFFICES ASSUME NEW i \in 0..n, i # 0
                 PROVE  round[<<i, h[i - 1]>>] = Upgrade(h[i - 1], i)
      BY <1>7 DEF Loop
    <3>1. i \in 1..n /\ h[i - 1] \in V
      BY <1>1
    <3> QED
      BY <1>6, <3>1
  <2> QED
    BY <2>1
<1>9. F(t)
  BY <1>8
<1> HIDE DEF t
<1>10. t[0] = tt /\ \A i \in 1..n : t[i] = Upgrade(t[i - 1], i)
  BY <1>1, <1>9
<1> DEFINE P == {k \in Nat : k <= n => t[k] \in V /\ Waits(s, t[k], limit, k)}
<1>13. 0 \in P
  <2>1. Waits(s, t[0], limit, 0)
    BY DEF Waits
  <2> QED
    BY <1>3, <1>10, <2>1
<1>14. ASSUME NEW k \in Nat, k \in P PROVE k + 1 \in P
  <2> SUFFICES ASSUME k + 1 <= n
               PROVE  t[k + 1] \in V /\ Waits(s, t[k + 1], limit, k + 1)
    OBVIOUS
  <2>1. /\ t[k] \in V /\ Waits(s, t[k], limit, k)
        /\ k + 1 \in 1..n /\ (k + 1) - 1 = k
    BY <1>1, <1>14
  <2>2. t[k + 1] = Upgrade(t[k], k + 1)
    BY <1>10, <2>1
  <2> QED
    BY <1>4, <1>12, <2>1, <2>2
<1>15. t[n] \in V /\ Waits(s, t[n], limit, n)
  <2>1. n \in P
    <3> HIDE DEF P
    <3> QED
      BY <1>1, <1>13, <1>14, InSetInduction
  <2> QED
    BY <1>1, <2>1
<1> QED
  BY <1>2, <1>15 DEF V, n

(* Whatever is forced, the tiers that a package gets fit and withhold      *)
(* nothing.                                                                *)
LEMMA TiersFit ==
  ASSUME NEW s \in Lists, NEW limit \in Nat, NEW force \in BOOLEAN
  PROVE  LET t == PreserveQueryTermVisibility(s, AssignTiers(s, limit, force), limit)
         IN Fits(s, t, limit) /\ Waits(s, t, limit, Len(s))
<1> DEFINE rich == IF force /\ s # <<>>
                     THEN [Plain(s) EXCEPT ![1] =
                            ChooseRichTopHit(s[1].id, limit - SumTokens(s, Plain(s)))]
                     ELSE Plain(s)
<1>1. Fits(s, rich, limit)
  BY PlainFits, ForcedTopFits
<1>2. AssignTiers(s, limit, force)
        = PromoteSupportingSliceToL1(s, PromoteTopSliceToL2(s, rich, limit), limit)
  BY DEF AssignTiers, Plain
<1> HIDE DEF rich
<1>3. Fits(s, AssignTiers(s, limit, force), limit)
  BY <1>1, <1>2, TopSliceFits, SupportingSliceFits
<1> QED
  BY <1>3, VisibilityFits

-----------------------------------------------------------------------------
(* Protection.                                                             *)

LEMMA LeastExists ==
  ASSUME NEW n \in Nat, NEW S \in SUBSET (1..n), S # {}
  PROVE  \E m \in S : \A j \in S : m <= j
<1> DEFINE zero == [j \in 1..n |-> 0]
<1>1. \A j \in 1..n : zero[j] \in Int
  OBVIOUS
<1>2. PICK m \in S : \A j \in S : zero[j] < zero[m] \/ (zero[j] = zero[m] /\ m <= j)
  <2> HIDE DEF zero
  <2> QED
    BY <1>1, GreatestExists
<1>3. \A j \in S : m <= j
  BY <1>2
<1> QED
  BY <1>3

(* One row for each print.                                                 *)
LEMMA DedupeKeepsPrints ==
  ASSUME NEW s \in Lists
  PROVE  /\ DedupeByFingerprint(s) \in Lists
         /\ PrintsIn(DedupeByFingerprint(s)) = PrintsIn(s)
<1> DEFINE n == Len(s)
           first == {i \in DOMAIN s :
                       \A j \in 1..(i - 1) : PrintOf(s[j].id) # PrintOf(s[i].id)}
           best(i) == CHOOSE j \in DOMAIN s :
                        /\ PrintOf(s[j].id) = PrintOf(s[i].id)
                        /\ \A k \in DOMAIN s : PrintOf(s[k].id) = PrintOf(s[i].id) =>
                             s[k].score < s[j].score
                               \/ (s[k].score = s[j].score /\ j <= k)
           r == [i \in DOMAIN s |-> s[best(i)]]
           t == Taken(r, first)
<1>1. /\ n \in Nat /\ DOMAIN s = 1..n
      /\ \A i \in 1..n : s[i] \in Scored /\ s[i].score \in Int
  BY ListFacts
<1>2. DedupeByFingerprint(s) = t
  BY DEF DedupeByFingerprint
<1>3. ASSUME NEW i \in 1..n
      PROVE  best(i) \in 1..n /\ PrintOf(s[best(i)].id) = PrintOf(s[i].id)
  <2> DEFINE S == {j \in 1..n : PrintOf(s[j].id) = PrintOf(s[i].id)}
             value == [j \in 1..n |-> s[j].score]
  <2>1. S \in SUBSET (1..n) /\ S # {} /\ \A j \in 1..n : value[j] \in Int
    BY <1>1
  <2>2. PICK j \in S : \A k \in S :
          value[k] < value[j] \/ (value[k] = value[j] /\ j <= k)
    <3> HIDE DEF S, value, n
    <3> QED
      BY <1>1, <2>1, GreatestExists
  <2>3. /\ j \in DOMAIN s
        /\ PrintOf(s[j].id) = PrintOf(s[i].id)
        /\ \A k \in DOMAIN s : PrintOf(s[k].id) = PrintOf(s[i].id) =>
             s[k].score < s[j].score \/ (s[k].score = s[j].score /\ j <= k)
    BY <1>1, <2>2
  <2> QED
    BY <1>1, <2>3
<1> HIDE DEF best, n
<1> DEFINE T(i) == s[best(i)]
<1>4. r = [i \in 1..n |-> T(i)] /\ \A i \in 1..n : T(i) \in Scored
  BY <1>1, <1>3
<1>5. r \in Lists
  <2> HIDE DEF T, r
  <2> QED
    BY <1>1, <1>4, IsASeq DEF Lists
<1>6. \A i \in 1..n : r[i].id = s[best(i)].id
  BY <1>4
<1>7. DOMAIN r = 1..n
  BY <1>4
<1> HIDE DEF r
<1>8. t \in Lists /\ Range(t) = {r[i] : i \in DOMAIN r \cap first}
  <2> HIDE DEF first
  <2> QED
    BY <1>5, TakenIsThere DEF Lists
<1> HIDE DEF t
<1>9. IdsOf(t) = {r[i].id : i \in first}
  <2>1. DOMAIN r \cap first = first
    BY <1>1, <1>7
  <2>2. IdsOf(t) = {c.id : c \in Range(t)}
    BY <1>8, ListFacts
  <2> HIDE DEF first
  <2> QED
    BY <1>8, <2>1, <2>2
<1>10. PrintsIn(t) = {PrintOf(r[i].id) : i \in first}
  <2> HIDE DEF first
  <2> QED
    BY <1>8, <1>9, ListFacts
<1>11. \A i \in 1..n : PrintOf(r[i].id) = PrintOf(s[i].id)
  BY <1>3, <1>6
<1>12. PrintsIn(t) \subseteq PrintsIn(s)
  BY <1>1, <1>10, <1>11 DEF PrintsIn
<1>13. ASSUME NEW i \in 1..n PROVE PrintOf(s[i].id) \in PrintsIn(t)
  <2> DEFINE S == {j \in 1..n : PrintOf(s[j].id) = PrintOf(s[i].id)}
  <2>1. PICK m \in S : \A j \in S : m <= j
    <3>1. S \in SUBSET (1..n) /\ S # {}
      OBVIOUS
    <3> HIDE DEF S
    <3> QED
      BY <1>1, <3>1, LeastExists
  <2>2. \A j \in 1..(m - 1) : j \in 1..n /\ j \notin S
    BY <1>1, <2>1
  <2>3. m \in first /\ PrintOf(s[m].id) = PrintOf(s[i].id)
    BY <1>1, <2>1, <2>2
  <2> QED
    BY <1>10, <1>11, <2>3
<1>14. PrintsIn(s) \subseteq PrintsIn(t)
  BY <1>1, <1>13 DEF PrintsIn
<1> QED
  BY <1>2, <1>8, <1>12, <1>14

(* As long as a list has rows nobody protects, one of them is the lowest.  *)
LEMMA ReplacementExists ==
  ASSUME NEW s \in Lists, NEW prints
  PROVE  /\ FindReplacementIndex(s, prints) \subseteq DOMAIN s
         /\ \A i \in FindReplacementIndex(s, prints) : PrintOf(s[i].id) \notin prints
         /\ FindReplacementIndex(s, prints) = {} => PrintsIn(s) \subseteq prints
<1> DEFINE n == Len(s)
           free == {i \in 1..n : PrintOf(s[i].id) \notin prints}
           value == [i \in 1..n |-> -s[i].score]
<1>1. n \in Nat /\ DOMAIN s = 1..n /\ \A i \in 1..n : s[i].score \in Int
  BY ListFacts
<1> HIDE DEF n
<1>2. FindReplacementIndex(s, prints) = {i \in free : \A j \in free : NotAbove(s, i, j)}
  BY <1>1 DEF FindReplacementIndex
<1>3. ASSUME free # {} PROVE FindReplacementIndex(s, prints) # {}
  <2>1. free \in SUBSET (1..n) /\ \A i \in 1..n : value[i] \in Int
    BY <1>1
  <2>2. PICK i \in free : \A j \in free :
          value[j] < value[i] \/ (value[j] = value[i] /\ i <= j)
    <3> HIDE DEF free, value
    <3> QED
      BY <1>1, <1>3, <2>1, GreatestExists
  <2>3. \A j \in free : NotAbove(s, i, j)
    <3> TAKE j \in free
    <3>1. s[i].score \in Int /\ s[j].score \in Int
      BY <1>1
    <3>2. -s[j].score < -s[i].score \/ (-s[j].score = -s[i].score /\ i <= j)
      BY <2>2
    <3> QED
      BY <3>1, <3>2 DEF NotAbove
  <2> QED
    BY <1>2, <2>2, <2>3
<1>4. free = {} => PrintsIn(s) \subseteq prints
  BY <1>1 DEF PrintsIn
<1> QED
  BY <1>1, <1>2, <1>3, <1>4


(* Rows that take the place of rows nobody protects bring their prints in, *)
(* and no protected print out.                                             *)
LEMMA ReplacedKeeps ==
  ASSUME NEW s \in Lists, NEW prints, NEW c \in Scored, PrintOf(c.id) \in prints,
         NEW at, at \in FindReplacementIndex(s, prints)
  PROVE  /\ [s EXCEPT ![at] = c] \in Lists
         /\ Len([s EXCEPT ![at] = c]) = Len(s)
         /\ prints \cap PrintsIn(s) \subseteq PrintsIn([s EXCEPT ![at] = c])
         /\ PrintOf(c.id) \in PrintsIn([s EXCEPT ![at] = c])
<1> DEFINE t == [s EXCEPT ![at] = c]
           n == Len(s)
<1>1. /\ n \in Nat /\ DOMAIN s = 1..n /\ \A i \in 1..n : s[i] \in Scored
      /\ at \in 1..n /\ PrintOf(s[at].id) \notin prints
  BY ListFacts, ReplacementExists
<1>2. /\ DOMAIN t = 1..n /\ t[at] = c
      /\ \A i \in 1..n : i # at => t[i] = s[i]
  BY <1>1
<1>3. t \in Lists /\ Len(t) = n
  <2>1. t \in Seq(Scored)
    BY <1>1 DEF Lists
  <2> HIDE DEF t, n
  <2>2. t \in Lists
    BY <2>1 DEF Lists
  <2> QED
    BY <1>1, <1>2, <2>2, ListFacts
<1> HIDE DEF t, n
<1>4. PrintsIn(t) = {PrintOf(t[i].id) : i \in 1..n}
  BY <1>2 DEF PrintsIn
<1>5. PrintOf(c.id) \in PrintsIn(t)
  BY <1>1, <1>2, <1>4
<1>6. ASSUME NEW p \in prints, p \in PrintsIn(s) PROVE p \in PrintsIn(t)
  <2>1. PICK i \in 1..n : p = PrintOf(s[i].id)
    BY <1>1, <1>6 DEF PrintsIn
  <2>2. i # at
    BY <1>1, <1>6, <2>1
  <2> QED
    BY <1>2, <1>4, <2>1, <2>2
<1> QED
  BY <1>3, <1>5, <1>6 DEF t, n

LEMMA ProtectionKeeps ==
  ASSUME NEW s \in Lists, NEW from \in Lists, NEW prints, NEW limit \in Nat,
         Len(s) <= limit
  PROVE  /\ PreserveProtectedResults(s, from, prints, limit) \in Lists
         /\ \/ prints \cap PrintsIn(from)
                 \subseteq PrintsIn(PreserveProtectedResults(s, from, prints, limit))
            \/ PrintsIn(PreserveProtectedResults(s, from, prints, limit))
                 \subseteq prints
<1> DEFINE kept    == Keep(from, {id \in Ids : PrintOf(id) \in prints})
           missing == Keep(DedupeByFingerprint(kept),
                           {id \in Ids : PrintOf(id) \notin PrintsIn(s)})
           Replace(acc, c) ==
             LET at == FindReplacementIndex(acc, prints)
             IN IF at = {} THEN acc ELSE [acc EXCEPT ![CHOOSE i \in at : TRUE] = c]
           n == Len(missing)
           V == {acc \in Lists : Len(acc) = Len(s)}
           round == [p \in (1..n) \X V |-> Replace(p[2], missing[p[1]])]
           F(f) == f = [k \in 0..n |-> IF k = 0 THEN s
                                       ELSE Replace(f[k - 1], missing[k])]
           t == CHOOSE f : F(f)
           result == PreserveProtectedResults(s, from, prints, limit)
<1>1. /\ kept \in Lists
      /\ \A id : id \in IdsOf(kept) <=> id \in IdsOf(from) /\ PrintOf(id) \in prints
  <2>1. IdsOf(from) \subseteq Ids
    BY ListFacts
  <2>2. /\ kept \in Lists
        /\ IdsOf(kept) = IdsOf(from) \cap {id \in Ids : PrintOf(id) \in prints}
    BY KeepKeeps
  <2> HIDE DEF kept
  <2> QED
    BY <2>1, <2>2
<1>2. PrintsIn(kept) = prints \cap PrintsIn(from)
  <2> HIDE DEF kept
  <2>1. /\ PrintsIn(kept) = {PrintOf(id) : id \in IdsOf(kept)}
        /\ PrintsIn(from) = {PrintOf(id) : id \in IdsOf(from)}
    BY <1>1, ListFacts
  <2> QED
    BY <1>1, <2>1
<1>3. \/ result = Cut(s, limit) /\ (prints = {} \/ s = <<>> \/ kept = <<>>)
      \/ result = Cut(ByScore(t[n]), limit)
  BY DEF PreserveProtectedResults
<1> HIDE DEF kept
<1>4. /\ missing \in Lists
      /\ PrintsIn(missing) \subseteq prints
      /\ prints \cap PrintsIn(from) \subseteq PrintsIn(s) \cup PrintsIn(missing)
  <2> DEFINE d == DedupeByFingerprint(kept)
  <2>1. d \in Lists /\ PrintsIn(d) = PrintsIn(kept)
    BY <1>1, DedupeKeepsPrints
  <2> HIDE DEF d
  <2>2. /\ missing \in Lists
        /\ IdsOf(missing) = IdsOf(d) \cap {id \in Ids : PrintOf(id) \notin PrintsIn(s)}
    BY <2>1, KeepKeeps DEF d
  <2> HIDE DEF missing
  <2>3. /\ PrintsIn(missing) = {PrintOf(id) : id \in IdsOf(missing)}
        /\ PrintsIn(d) = {PrintOf(id) : id \in IdsOf(d)}
        /\ IdsOf(d) \subseteq Ids
    BY <2>1, <2>2, ListFacts
  <2> QED
    BY <1>2, <2>1, <2>2, <2>3
<1> HIDE DEF missing, result
<1>5. n \in Nat /\ \A i \in 1..n : missing[i] \in Scored /\ PrintOf(missing[i].id) \in prints
  <2>1. n \in Nat /\ DOMAIN missing = 1..n /\ \A i \in 1..n : missing[i] \in Scored
    BY <1>4, ListFacts
  <2>2. \A i \in 1..n : PrintOf(missing[i].id) \in PrintsIn(missing)
    BY <2>1 DEF PrintsIn
  <2> QED
    BY <1>4, <2>1, <2>2
<1> HIDE DEF n
<1> DEFINE Holds(acc, before) ==
             /\ prints \cap PrintsIn(before) \subseteq PrintsIn(acc)
                  \/ PrintsIn(acc) \subseteq prints
           Brings(acc, c) == PrintOf(c.id) \in PrintsIn(acc) \/ PrintsIn(acc) \subseteq prints
<1>6. ASSUME NEW acc \in V, NEW i \in 1..n
      PROVE  LET new == Replace(acc, missing[i])
             IN /\ new \in V
                /\ Holds(new, acc)
                /\ Brings(new, missing[i])
                /\ PrintsIn(acc) \subseteq prints => new = acc
  <2> DEFINE at == FindReplacementIndex(acc, prints)
             place == CHOOSE j \in at : TRUE
             c == missing[i]
             new == Replace(acc, c)
  <2>1. acc \in Lists /\ Len(acc) = Len(s) /\ c \in Scored /\ PrintOf(c.id) \in prints
    BY <1>5
  <2>2. CASE at = {}
    <3>1. new = acc /\ PrintsIn(acc) \subseteq prints
      BY <2>1, <2>2, ReplacementExists
    <3> HIDE DEF new, c
    <3>2. new \in V /\ Holds(new, acc) /\ Brings(new, c)
      BY <3>1
    <3> QED
      BY <3>1, <3>2 DEF new, c
  <2>3. CASE at # {}
    <3>1. place \in at /\ new = [acc EXCEPT ![place] = c]
      BY <2>3
    <3> HIDE DEF place, new, c
    <3>2. /\ new \in Lists /\ Len(new) = Len(acc)
          /\ prints \cap PrintsIn(acc) \subseteq PrintsIn(new)
          /\ PrintOf(c.id) \in PrintsIn(new)
      BY <2>1, <3>1, ReplacedKeeps
    <3>3. ~(PrintsIn(acc) \subseteq prints)
      <4>1. place \in DOMAIN acc /\ PrintOf(acc[place].id) \notin prints
        BY <2>1, <3>1, ReplacementExists
      <4> QED
        BY <4>1 DEF PrintsIn
    <3>4. new \in V /\ Holds(new, acc) /\ Brings(new, c)
      BY <2>1, <3>2
    <3> QED
      BY <3>3, <3>4 DEF new, c
  <2> QED
    BY <2>2, <2>3
<1>7. s \in V
  OBVIOUS
<1> HIDE DEF V, Replace
<1>8. round \in [(1..n) \X V -> V]
  BY <1>6
<1>9. \A i \in 1..n, v \in V : round[<<i, v>>] = Replace(v, missing[i])
  OBVIOUS
<1> HIDE DEF round
<1>10. PICK h \in [0..n -> V] : Loop(h, n, s, round)
  BY <1>5, <1>7, <1>8, LoopExists
<1>11. F(h)
  <2>1. \A i \in 0..n : h[i] = IF i = 0 THEN s ELSE Replace(h[i - 1], missing[i])
    <3> SUFFICES ASSUME NEW i \in 0..n, i # 0
                 PROVE  round[<<i, h[i - 1]>>] = Replace(h[i - 1], missing[i])
      BY <1>10 DEF Loop
    <3>1. i \in 1..n /\ h[i - 1] \in V
      BY <1>5
    <3> QED
      BY <1>9, <3>1
  <2> QED
    BY <2>1
<1>12. F(t)
  BY <1>11
<1> HIDE DEF t
<1>13. t[0] = s /\ \A i \in 1..n : t[i] = Replace(t[i - 1], missing[i])
  BY <1>5, <1>12
<1> DEFINE Good(m) ==
             /\ t[m] \in V
             /\ \/ /\ prints \cap PrintsIn(s) \subseteq PrintsIn(t[m])
                   /\ \A i \in 1..m : PrintOf(missing[i].id) \in PrintsIn(t[m])
                \/ PrintsIn(t[m]) \subseteq prints
           P == {m \in Nat : m <= n => Good(m)}
<1>14. 0 \in P
  <2>1. 1..0 = {}
    OBVIOUS
  <2>2. Good(0)
    BY <1>7, <1>13, <2>1
  <2> QED
    BY <2>2
<1>15. ASSUME NEW m \in Nat, m \in P PROVE m + 1 \in P
  <2> HIDE DEF Good
  <2> SUFFICES ASSUME m + 1 <= n PROVE Good(m + 1)
    OBVIOUS
  <2>1. Good(m)
    BY <1>5, <1>15
  <2> USE DEF Good
  <2>2. m + 1 \in 1..n /\ (m + 1) - 1 = m
    BY <1>5
  <2>3. t[m + 1] = Replace(t[m], missing[m + 1])
    BY <1>13, <2>2
  <2> DEFINE acc == t[m]
             new == t[m + 1]
  <2>4. acc \in V
    BY <2>1
  <2>5. /\ new \in V /\ Holds(new, acc) /\ Brings(new, missing[m + 1])
        /\ PrintsIn(acc) \subseteq prints => new = acc
    BY <1>6, <2>2, <2>3, <2>4
  <2>6. CASE PrintsIn(acc) \subseteq prints
    BY <2>5, <2>6
  <2>7. CASE PrintsIn(new) \subseteq prints
    BY <2>5, <2>7
  <2>8. CASE ~(PrintsIn(acc) \subseteq prints) /\ ~(PrintsIn(new) \subseteq prints)
    <3>1. /\ prints \cap PrintsIn(s) \subseteq PrintsIn(acc)
          /\ \A i \in 1..m : PrintOf(missing[i].id) \in PrintsIn(acc)
      BY <2>1, <2>8
    <3>2. /\ prints \cap PrintsIn(acc) \subseteq PrintsIn(new)
          /\ PrintOf(missing[m + 1].id) \in PrintsIn(new)
      BY <2>5, <2>8
    <3>3. \A i \in 1..m : i \in 1..n
      BY <1>5, <2>2
    <3>4. \A i \in 1..(m + 1) : i \in 1..m \/ i = m + 1
      OBVIOUS
    <3> HIDE DEF acc, new
    <3>5. /\ prints \cap PrintsIn(s) \subseteq PrintsIn(new)
          /\ \A i \in 1..(m + 1) : PrintOf(missing[i].id) \in PrintsIn(new)
      BY <1>5, <3>1, <3>2, <3>3, <3>4
    <3> QED
      BY <2>5, <3>5 DEF new
  <2> QED
    BY <2>6, <2>7, <2>8
<1> HIDE DEF P
<1>16. n \in P
  BY <1>5, <1>14, <1>15, InSetInduction
<1> HIDE DEF Good
<1>17. Good(n)
  BY <1>5, <1>16 DEF P
<1>18. CASE result = Cut(ByScore(t[n]), limit)
  <2> DEFINE u == t[n]
  <2>1. u \in Lists /\ Len(u) = Len(s)
    BY <1>17 DEF Good, V
  <2>2. \/ /\ prints \cap PrintsIn(s) \subseteq PrintsIn(u)
           /\ \A i \in 1..n : PrintOf(missing[i].id) \in PrintsIn(u)
        \/ PrintsIn(u) \subseteq prints
    BY <1>17 DEF Good
  <2> HIDE DEF u
  <2>3. /\ ByScore(u) \in Lists /\ Len(ByScore(u)) = Len(s)
        /\ IdsOf(ByScore(u)) = IdsOf(u)
    BY <2>1, ByScoreKeeps
  <2>4. result = ByScore(u)
    BY <1>18, <2>3, CutCuts DEF u
  <2>5. PrintsIn(result) = PrintsIn(u)
    BY <2>1, <2>3, <2>4, ListFacts
  <2>6. PrintsIn(missing) = {PrintOf(missing[i].id) : i \in 1..n}
    <3>1. DOMAIN missing = 1..n
      BY <1>4, ListFacts DEF n
    <3> QED
      BY <3>1 DEF PrintsIn
  <2>7. \/ prints \cap PrintsIn(from) \subseteq PrintsIn(u)
        \/ PrintsIn(u) \subseteq prints
    BY <1>4, <2>2, <2>6
  <2> QED
    BY <2>3, <2>4, <2>5, <2>7 DEF result
<1>19. CASE result = Cut(s, limit) /\ (prints = {} \/ s = <<>> \/ kept = <<>>)
  <2>1. result = s
    BY <1>19, CutCuts
  <2>2. CASE prints = {}
    BY <2>1, <2>2 DEF result
  <2>3. CASE s = <<>>
    <3>1. PrintsIn(s) = {}
      BY <2>3 DEF PrintsIn
    <3> QED
      BY <2>1, <3>1 DEF result
  <2>4. CASE kept = <<>>
    <3>1. PrintsIn(kept) = {}
      BY <2>4 DEF PrintsIn
    <3> QED
      BY <1>2, <2>1, <3>1 DEF result
  <2> QED
    BY <1>19, <2>2, <2>3, <2>4
<1> QED
  BY <1>3, <1>18, <1>19

-----------------------------------------------------------------------------
(* What the stages of the ranking make of a list is a list.                *)

LEMMA DivIsInt ==
  ASSUME NEW a \in Int, NEW b \in Int, b > 0
  PROVE  a \div b \in Int
OBVIOUS

LEMMA MatchesAreNat ==
  ASSUME NEW S, IsFiniteSet(S), NEW T
  PROVE  Cardinality(S \cap T) \in Nat /\ Cardinality(T \cap S) \in Nat
<1>1. S \cap T \in SUBSET S /\ T \cap S \in SUBSET S
  OBVIOUS
<1>2. IsFiniteSet(S \cap T) /\ IsFiniteSet(T \cap S)
  BY <1>1, FS_Subset
<1> QED
  BY <1>2, FS_CardinalityType

LEMMA LimitIsNat ==
  ASSUME NEW q \in Questions
  PROVE  ResolveSearchLimit(q) \in Nat /\ ResolveRerankDepth(q) \in Nat
<1>1. /\ q.limit \in Nat /\ Settings.limits[q.label] \in Nat
      /\ Settings.maxSearchResults \in Nat /\ Settings.rerankDepth \in Nat
  BY QuestionsAssumption, SettingsAssumption
<1>2. \A k \in Nat : ClampLimit(k) \in Nat /\ ClampLimitWide(k) \in Nat
  BY <1>1 DEF ClampLimit, ClampLimitWide, Lesser, Greater
<1>3. ResolveSearchLimit(q) \in Nat
  BY <1>1, <1>2 DEF ResolveSearchLimit
<1> QED
  BY <1>1, <1>2, <1>3 DEF ResolveRerankDepth, Greater

LEMMA MergeIsList ==
  ASSUME NEW p \in Lists, NEW r \in Lists, NEW limit \in Nat,
         NEW wp \in Nat, NEW wr \in Nat
  PROVE  MergeStageResults(p, r, limit, wp, wr) \in Lists
<1> DEFINE Weigh(s, w) == Rescore(s, [i \in DOMAIN s |-> (s[i].score * w) \div 100])
           all  == Weigh(p, wp) \o Weigh(r, wr)
           best(id) == CHOOSE x \in {all[i].score : i \in DOMAIN all} :
                    /\ \E i \in DOMAIN all : all[i] = [id |-> id, score |-> x]
                    /\ \A i \in DOMAIN all : all[i].id = id => all[i].score <= x
           first == {i \in DOMAIN all : \A j \in 1..(i - 1) : all[j].id # all[i].id}
           T(i) == [id |-> all[i].id, score |-> best(all[i].id)]
           row == [i \in DOMAIN all |-> T(i)]
           once == Taken(row, first)
<1>1. ASSUME NEW s \in Lists, NEW w \in Nat PROVE Weigh(s, w) \in Lists
  <2> DEFINE score == [i \in DOMAIN s |-> (s[i].score * w) \div 100]
  <2>1. \A i \in DOMAIN s : score[i] \in Int
    <3> TAKE i \in DOMAIN s
    <3>1. s[i].score * w \in Int
      BY ListFacts
    <3> QED
      BY <3>1, DivIsInt
  <2> HIDE DEF score
  <2> QED
    BY <2>1, RescoreKeeps DEF score
<1>2. all \in Lists
  <2>1. Weigh(p, wp) \in Lists /\ Weigh(r, wr) \in Lists
    BY <1>1
  <2> HIDE DEF Weigh
  <2> QED
    BY <2>1, ConcatProperties DEF Lists
<1>3. MergeStageResults(p, r, limit, wp, wr) = Cut(ByScore(once), limit)
  BY DEF MergeStageResults
<1> HIDE DEF all
<1> DEFINE n == Len(all)
<1>4. /\ n \in Nat /\ DOMAIN all = 1..n
      /\ \A i \in 1..n : all[i] \in Scored /\ all[i].score \in Int /\ all[i].id \in Ids
  BY <1>2, ListFacts
<1> HIDE DEF n
<1>5. ASSUME NEW i \in 1..n PROVE best(all[i].id) \in Int
  <2> DEFINE S == {j \in 1..n : all[j].id = all[i].id}
             value == [j \in 1..n |-> all[j].score]
  <2>1. S \in SUBSET (1..n) /\ S # {} /\ \A j \in 1..n : value[j] \in Int
    BY <1>4
  <2>2. PICK m \in S : \A j \in S :
          value[j] < value[m] \/ (value[j] = value[m] /\ m <= j)
    <3> HIDE DEF S, value
    <3> QED
      BY <1>4, <2>1, GreatestExists
  <2>3. m \in 1..n /\ all[m].id = all[i].id
    OBVIOUS
  <2>4. all[m] = [id |-> all[i].id, score |-> all[m].score]
    <3>1. all[m] \in [id : Ids, score : Int]
      BY <1>4, <2>3 DEF Scored
    <3> QED
      BY <2>3, <3>1
  <2>5. \A j \in 1..n : all[j].id = all[i].id => all[j].score <= all[m].score
    <3> TAKE j \in 1..n
    <3> HAVE all[j].id = all[i].id
    <3>1. value[j] < value[m] \/ value[j] = value[m]
      BY <2>2
    <3> QED
      BY <1>4, <2>3, <3>1
  <2> DEFINE Y(x) == /\ \E k \in DOMAIN all : all[k] = [id |-> all[i].id, score |-> x]
                     /\ \A k \in DOMAIN all : all[k].id = all[i].id => all[k].score <= x
             X == {all[k].score : k \in DOMAIN all}
  <2>6. all[m].score \in X /\ Y(all[m].score)
    BY <1>4, <2>3, <2>4, <2>5
  <2>7. best(all[i].id) = CHOOSE x \in X : Y(x)
    OBVIOUS
  <2> HIDE DEF Y
  <2>8. best(all[i].id) \in X
    BY <2>6, <2>7
  <2> QED
    BY <1>4, <2>8
<1> HIDE DEF best
<1>6. \A i \in 1..n : T(i) \in Scored
  BY <1>4, <1>5 DEF Scored
<1> HIDE DEF T
<1>7. row \in Lists
  BY <1>4, <1>6, IsASeq DEF Lists
<1> HIDE DEF row, first
<1>8. once \in Lists
  BY <1>7, TakenIsThere DEF Lists
<1> HIDE DEF once
<1>9. ByScore(once) \in Lists
  BY <1>8, ByScoreKeeps
<1> QED
  BY <1>3, <1>9, CutCuts

(* A list whose rows get integer scores is a list, in their order.         *)
LEMMA RankedIsList ==
  ASSUME NEW s \in Lists, NEW score, \A i \in DOMAIN s : score[i] \in Int
  PROVE  ByScore(Rescore(s, score)) \in Lists
BY RescoreKeeps, ByScoreKeeps

LEMMA RerankIsList ==
  ASSUME NEW s \in Lists, NEW answer \in [IdsOf(s) -> Settings.answers]
  PROVE  RerankCandidates(s, answer) \in Lists
<1> DEFINE X == {s[i].score : i \in DOMAIN s}
           best == CHOOSE x \in X : \A i \in DOMAIN s : s[i].score <= x
           score == [i \in DOMAIN s |->
             (7 * answer[s[i].id] + (3000 * s[i].score) \div Greater(best, 1)) \div 10]
           n == Len(s)
<1>1. /\ n \in Nat /\ DOMAIN s = 1..n
      /\ \A i \in 1..n : s[i].score \in Int /\ s[i].id \in IdsOf(s)
  BY ListFacts DEF IdsOf
<1>2. RerankCandidates(s, answer) = IF s = <<>> THEN s ELSE ByScore(Rescore(s, score))
  BY DEF RerankCandidates
<1> SUFFICES ASSUME s # <<>> PROVE ByScore(Rescore(s, score)) \in Lists
  BY <1>2
<1>3. 1 \in DOMAIN s
  BY DEF Lists
<1> HIDE DEF n
<1>4. best \in Int
  <2> DEFINE value == [i \in 1..n |-> s[i].score]
             S == 1..n
  <2>1. \A i \in 1..n : value[i] \in Int
    BY <1>1
  <2>2. PICK m \in S : \A j \in S :
          value[j] < value[m] \/ (value[j] = value[m] /\ m <= j)
    <3>1. S \in SUBSET (1..n) /\ S # {}
      BY <1>1, <1>3
    <3> HIDE DEF S, value
    <3> QED
      BY <1>1, <2>1, <3>1, GreatestExists
  <2>3. \A i \in DOMAIN s : s[i].score <= s[m].score
    BY <1>1, <2>2
  <2>4. s[m].score \in X
    BY <1>1
  <2>5. best \in X
    BY <2>3, <2>4
  <2> QED
    BY <1>1, <2>5
<1>5. Greater(best, 1) \in Int /\ Greater(best, 1) > 0
  BY <1>4 DEF Greater
<1> HIDE DEF best
<1>6. \A i \in DOMAIN s : score[i] \in Int
  <2> TAKE i \in DOMAIN s
  <2> DEFINE part == (3000 * s[i].score) \div Greater(best, 1)
  <2>1. 3000 * s[i].score \in Int /\ answer[s[i].id] \in Int
    BY <1>1, SettingsAssumption
  <2>2. part \in Int
    BY <1>5, <2>1, DivIsInt
  <2> HIDE DEF part
  <2>3. 7 * answer[s[i].id] + part \in Int
    BY <2>1, <2>2
  <2>4. (7 * answer[s[i].id] + part) \div 10 \in Int
    BY <2>3, DivIsInt
  <2> QED
    BY <2>4 DEF part
<1> HIDE DEF score
<1> QED
  BY <1>6, RankedIsList

LEMMA SubjectIsList ==
  ASSUME NEW q, NEW s \in Lists
  PROVE  /\ ApplySubjectAwareRanking(q, s) \in Lists
         /\ SubjectProtection(q, s) \in Lists
<1> DEFINE score == [i \in DOMAIN s |-> ScoreSubjectCandidate(q, s[i])]
           ranked == ApplySubjectAwareRanking(q, s)
<1>1. \A i \in DOMAIN s : score[i] \in Int
  <2> TAKE i \in DOMAIN s
  <2> DEFINE id == s[i].id
             asked == Cardinality(Mentioned(id) \cap q.subjects)
             words == CountKeywordMatches(id, SubjectWords(q))
             quarter == s[i].score \div 4
  <2>1. id \in Ids /\ s[i].score \in Int
    BY ListFacts
  <2>2. IsFiniteSet(Row[id].words)
    BY <2>1, RowAssumption
  <2>3. asked \in Nat
    <3>1. Mentioned(id) \cap q.subjects = Row[id].words \cap (Settings.names \cap q.subjects)
      BY DEF Mentioned
    <3> QED
      BY <2>2, <3>1, MatchesAreNat
  <2>4. words \in Nat
    BY <2>2, MatchesAreNat DEF CountKeywordMatches
  <2>5. quarter \in Int
    BY <2>1, DivIsInt
  <2> DEFINE base == CASE asked > 0 -> s[i].score + 2000 + 750 * (asked - 1)
                       [] asked = 0 /\ Mentioned(id) # {} -> quarter
                       [] OTHER -> s[i].score
             less == IF q.event /\ "planning" \in Row[id].signs THEN 2250 ELSE 0
  <2>6. score[i] = base + 400 * words - less
    BY DEF ScoreSubjectCandidate
  <2> HIDE DEF asked, words, quarter
  <2>7. base \in Int /\ less \in Int
    BY <2>1, <2>3, <2>5
  <2> HIDE DEF base, less, score
  <2> QED
    BY <2>4, <2>6, <2>7
<1>2. ranked = ByScore(Rescore(s, score))
  BY DEF ApplySubjectAwareRanking
<1> HIDE DEF score, ranked
<1>3. ranked \in Lists
  BY <1>1, <1>2, RankedIsList
<1> DEFINE named == {id \in Ids :
                       /\ Mentioned(id) \cap q.subjects # {}
                       /\ CountKeywordMatches(id, SubjectWords(q)) > 0}
<1>4. SubjectProtection(q, s) = Cut(Keep(ranked, named), 2)
  BY DEF SubjectProtection, ranked
<1> HIDE DEF named
<1>5. SubjectProtection(q, s) \in Lists
  BY <1>3, <1>4, KeepKeeps, CutCuts
<1> QED
  BY <1>3, <1>5 DEF ranked

LEMMA SignsScore ==
  ASSUME NEW q, NEW id \in Ids
  PROVE  ScoreCandidate(q, id) \in Int
<1> DEFINE signs == Row[id].signs
           listed == Cardinality(q.wants \cap signs \cap {"pets", "music", "books"})
           named == IF q.wants \cap {"names", "pets"} # {} /\ "named" \in signs
                      THEN 30 ELSE 0
           played == IF {"music", "seen"} \subseteq q.wants
                          /\ {"leadingQuote", "performance"} \subseteq signs
                       THEN 25 ELSE 0
           quoted == ScoreQuotedOrAttendance(q, signs)
<1>1. IsFiniteSet(signs)
  BY RowAssumption
<1> HIDE DEF signs
<1>2. listed \in Nat
  <2>1. q.wants \cap signs \cap {"pets", "music", "books"}
          = signs \cap (q.wants \cap {"pets", "music", "books"})
    OBVIOUS
  <2> QED
    BY <1>1, <2>1, MatchesAreNat
<1>3. ScoreSeenMusicEvent(q, signs) \in Int
  BY DEF ScoreSeenMusicEvent
<1>4. quoted \in Int
  BY <1>3 DEF ScoreQuotedOrAttendance
<1>5. named \in Int /\ played \in Int
  OBVIOUS
<1>6. ScoreCandidate(q, id) = named + quoted + 15 * listed + played
  BY DEF ScoreCandidate, signs
<1> HIDE DEF named, quoted, listed, played
<1> QED
  BY <1>2, <1>4, <1>5, <1>6

LEMMA LiteralIsList ==
  ASSUME NEW q, NEW s \in Lists
  PROVE  ProtectLiteralListAnswerCandidates(q, s) \in Lists
<1> DEFINE strong == Keep(s, {id \in Ids : ScoreCandidate(q, id) >= 30})
           weight == [i \in DOMAIN strong |-> -ScoreCandidate(q, strong[i].id)]
<1>1. strong \in Lists
  <2> DEFINE ids == {id \in Ids : ScoreCandidate(q, id) >= 30}
  <2> HIDE DEF ids
  <2>1. Keep(s, ids) \in Lists
    BY KeepKeeps
  <2> QED
    BY <2>1 DEF ids
<1>2. \/ ProtectLiteralListAnswerCandidates(q, s) = <<>>
      \/ ProtectLiteralListAnswerCandidates(q, s)
           = Cut(Sorted(strong, weight), Settings.literalMax)
  BY DEF ProtectLiteralListAnswerCandidates
<1> HIDE DEF strong
<1>3. \A i \in DOMAIN strong : weight[i] \in Int
  <2> TAKE i \in DOMAIN strong
  <2>1. ScoreCandidate(q, strong[i].id) \in Int
    BY <1>1, ListFacts, SignsScore
  <2> QED
    BY <2>1
<1> HIDE DEF weight
<1>4. Sorted(strong, weight) \in Lists /\ Settings.literalMax \in Nat
  BY <1>1, <1>3, SortedKeeps, SettingsAssumption
<1>5. Cut(Sorted(strong, weight), Settings.literalMax) \in Lists
  BY <1>4, CutCuts
<1>6. <<>> \in Lists
  BY DEF Lists
<1> QED
  BY <1>2, <1>5, <1>6

LEMMA BoostIsList ==
  ASSUME NEW s \in Lists, NEW raised
  PROVE  BoostProtectedCandidates(s, raised) \in Lists
<1> DEFINE score == [i \in DOMAIN s |-> IF s[i].id \in IdsOf(raised)
                                        THEN s[i].score + 4000 ELSE s[i].score]
<1>1. \A i \in DOMAIN s : score[i] \in Int
  BY ListFacts
<1>2. BoostProtectedCandidates(s, raised) = Rescore(s, score)
  BY DEF BoostProtectedCandidates
<1> HIDE DEF score
<1> QED
  BY <1>1, <1>2, RescoreKeeps

LEMMA ConstraintIsList ==
  ASSUME NEW q, NEW s \in Lists
  PROVE  ApplyTemporalQueryConstraints(q, s) \in Lists
<1> DEFINE score == [i \in DOMAIN s |->
             IF ~MatchesConstraint(q, s[i].id) THEN s[i].score
             ELSE s[i].score + Settings.temporalBoost
                    + 100 * CountKeywordMatches(s[i].id, q.words)]
<1>1. \A i \in DOMAIN s : score[i] \in Int
  <2> TAKE i \in DOMAIN s
  <2>1. s[i].id \in Ids /\ s[i].score \in Int /\ Settings.temporalBoost \in Int
    BY ListFacts, SettingsAssumption
  <2>2. CountKeywordMatches(s[i].id, q.words) \in Nat
    BY <2>1, RowAssumption, MatchesAreNat DEF CountKeywordMatches
  <2> QED
    BY <2>1, <2>2
<1>2. ApplyTemporalQueryConstraints(q, s) = ByScore(Rescore(s, score))
  BY DEF ApplyTemporalQueryConstraints
<1> HIDE DEF score
<1> QED
  BY <1>1, <1>2, RankedIsList

LEMMA RecencyIsInt ==
  ASSUME NEW s \in Lists, NEW id \in IdsOf(s)
  PROVE  RecencyRank(s, id) \in Int
<1> DEFINE weight == [i \in DOMAIN s |-> -Row[s[i].id].created]
           newest == Sorted(s, weight)
<1>1. \A i \in DOMAIN s : weight[i] \in Int
  <2> TAKE i \in DOMAIN s
  <2>1. Row[s[i].id].created \in Int
    BY ListFacts, RowAssumption
  <2> QED
    BY <2>1
<1>2. RecencyRank(s, id) = (CHOOSE i \in DOMAIN newest : newest[i].id = id) - 1
  BY DEF RecencyRank
<1> HIDE DEF weight
<1>3. newest \in Lists /\ IdsOf(newest) = IdsOf(s)
  BY <1>1, SortedKeeps
<1> HIDE DEF newest
<1>4. \E i \in DOMAIN newest : newest[i].id = id
  BY <1>3 DEF IdsOf
<1>5. DOMAIN newest \subseteq Int
  BY <1>3, ListFacts
<1> QED
  BY <1>2, <1>4, <1>5

LEMMA CurrentStateIsList ==
  ASSUME NEW q, NEW s \in Lists
  PROVE  ApplyCurrentStateRanking(q, s) \in Lists
<1> DEFINE past == [i \in DOMAIN s |->
             s[i].score + (1500 * RecencyRank(s, s[i].id)) \div Len(s)
               + Marked(s[i].id, "former", 600)
               - Marked(s[i].id, "transition", 1200) - Marked(s[i].id, "current", 450)]
           now == [i \in DOMAIN s |-> s[i].score + ComputeBoost(s, s[i].id)]
<1>1. ApplyCurrentStateRanking(q, s)
        \in {s, ByScore(Rescore(s, past)), ByScore(Rescore(s, now))}
  BY DEF ApplyCurrentStateRanking, ApplyHistoricalRanking
<1>2. ASSUME NEW i \in DOMAIN s PROVE past[i] \in Int /\ now[i] \in Int
  <2> DEFINE id == s[i].id
             rank == RecencyRank(s, id)
             older == (1500 * rank) \div Len(s)
             newer == (2500 * (Len(s) - rank)) \div Len(s)
  <2>1. s[i].score \in Int /\ id \in IdsOf(s) /\ Len(s) \in Int /\ Len(s) > 0
    BY ListFacts DEF IdsOf
  <2>2. rank \in Int
    BY <2>1, RecencyIsInt
  <2> HIDE DEF rank
  <2>3. 1500 * rank \in Int /\ 2500 * (Len(s) - rank) \in Int
    BY <2>1, <2>2
  <2>4. older \in Int /\ newer \in Int
    BY <2>1, <2>3, DivIsInt
  <2> HIDE DEF older, newer
  <2>5. \A sign, bonus : bonus \in Int => Marked(id, sign, bonus) \in Int
    BY DEF Marked
  <2> DEFINE former == IF "transition" \in Row[id].signs THEN 0
                       ELSE Marked(id, "former", 600)
  <2>6. former \in Int
    BY <2>5
  <2>7. past[i] = s[i].score + older + Marked(id, "former", 600)
                    - Marked(id, "transition", 1200) - Marked(id, "current", 450)
    BY DEF older, rank
  <2>8. now[i] = s[i].score + (newer + Marked(id, "transition", 1500)
                    + Marked(id, "current", 450) - former)
    BY DEF ComputeBoost, newer, rank
  <2> HIDE DEF former, past, now
  <2>9. /\ Marked(id, "former", 600) \in Int /\ Marked(id, "transition", 1200) \in Int
        /\ Marked(id, "current", 450) \in Int /\ Marked(id, "transition", 1500) \in Int
    BY <2>5
  <2> DEFINE f6 == Marked(id, "former", 600)
             t12 == Marked(id, "transition", 1200)
             t15 == Marked(id, "transition", 1500)
             c4 == Marked(id, "current", 450)
  <2>10. past[i] = s[i].score + older + f6 - t12 - c4
    BY <2>7
  <2>11. now[i] = s[i].score + (newer + t15 + c4 - former)
    BY <2>8
  <2>12. f6 \in Int /\ t12 \in Int /\ t15 \in Int /\ c4 \in Int
    BY <2>9
  <2> HIDE DEF f6, t12, t15, c4
  <2> QED
    BY <2>1, <2>4, <2>6, <2>10, <2>11, <2>12
<1> HIDE DEF past, now
<1>3. ByScore(Rescore(s, past)) \in Lists /\ ByScore(Rescore(s, now)) \in Lists
  BY <1>2, RankedIsList
<1> QED
  BY <1>1, <1>3

LEMMA PenaltyIsList ==
  ASSUME NEW s \in Lists
  PROVE  ApplyConcisenessPenalty(s) \in Lists
<1> DEFINE weight == [i \in DOMAIN s |-> Row[s[i].id].length]
           lengths == Sorted(s, weight)
           median  == Row[lengths[Len(s) \div 2 + 1].id].length
           penalty(k) == IF k <= 150 \/ k <= median THEN 0
                         ELSE Lesser((100 * (k - median)) \div median, 150)
           score == [i \in DOMAIN s |->
             (s[i].score * (1000 - penalty(Row[s[i].id].length))) \div 1000]
<1>1. ApplyConcisenessPenalty(s) =
        IF Len(s) < 2 \/ median = 0 THEN s ELSE ByScore(Rescore(s, score))
  BY DEF ApplyConcisenessPenalty
<1>2. \A i \in DOMAIN s : Row[s[i].id].length \in Nat
  BY ListFacts, RowAssumption
<1>3. lengths \in Lists /\ Len(lengths) = Len(s)
  <2>1. \A i \in DOMAIN s : weight[i] \in Int
    BY <1>2
  <2> HIDE DEF weight
  <2> QED
    BY <2>1, SortedKeeps
<1> SUFFICES ASSUME ~(Len(s) < 2 \/ median = 0)
             PROVE  ByScore(Rescore(s, score)) \in Lists
  BY <1>1
<1> HIDE DEF lengths
<1>4. median \in Nat /\ median > 0
  <2>1. Len(s) \in Nat /\ Len(s) >= 2
    BY ListFacts
  <2>2. Len(s) \div 2 + 1 \in 1..Len(s)
    BY <2>1
  <2>3. Len(s) \div 2 + 1 \in DOMAIN lengths
    BY <1>3, <2>2, ListFacts
  <2>4. lengths[Len(s) \div 2 + 1].id \in Ids
    BY <1>3, <2>3, ListFacts
  <2>5. median \in Nat
    BY <2>4, RowAssumption
  <2> QED
    BY <2>5
<1> HIDE DEF median
<1>5. \A k \in Nat : penalty(k) \in Int
  <2> TAKE k \in Nat
  <2>1. 100 * (k - median) \in Int
    BY <1>4
  <2>2. (100 * (k - median)) \div median \in Int
    BY <1>4, <2>1, DivIsInt
  <2> QED
    BY <2>2 DEF Lesser
<1> HIDE DEF penalty
<1>6. \A i \in DOMAIN s : score[i] \in Int
  <2> TAKE i \in DOMAIN s
  <2> DEFINE p == penalty(Row[s[i].id].length)
  <2>1. p \in Int /\ s[i].score \in Int
    BY <1>2, <1>5, ListFacts
  <2> HIDE DEF p
  <2>2. s[i].score * (1000 - p) \in Int
    BY <2>1
  <2>3. (s[i].score * (1000 - p)) \div 1000 \in Int
    BY <2>2, DivIsInt
  <2> QED
    BY <2>3 DEF p
<1> HIDE DEF score
<1> QED
  BY <1>6, RankedIsList

LEMMA EligibleIsList ==
  ASSUME NEW q, NEW s \in Lists
  PROVE  ApplyRankingEligibility(q, s) \in Lists
<1> DEFINE ids == {id \in Ids : Row[id].similarity >= Settings.rankingMinSimilarity}
<1>1. ApplyRankingEligibility(q, s) \in {s, Keep(s, ids)}
  BY DEF ApplyRankingEligibility
<1> HIDE DEF ids
<1> QED
  BY <1>1, KeepKeeps

LEMMA RelevantIsList ==
  ASSUME NEW q, NEW s \in Lists
  PROVE  ApplyRelevanceFilter(q, s) \in Lists
<1> DEFINE ids == {id \in Ids : Row[id].similarity >= ResolveRelevanceGate(q)}
<1>1. ApplyRelevanceFilter(q, s) = Keep(s, ids)
  BY DEF ApplyRelevanceFilter
<1> HIDE DEF ids
<1> QED
  BY <1>1, KeepKeeps

-----------------------------------------------------------------------------
(* The diversity ranking chooses rows of the list, no more than the limit. *)

LEMMA UnchosenExists ==
  ASSUME NEW n \in Nat, NEW v \in Seq(1..n), Len(v) < n
  PROVE  (1..n) \ {v[k] : k \in 1..Len(v)} # {}
<1> DEFINE m == Len(v)
           S == 1..m
           T == {v[k] : k \in 1..m}
           f == [k \in S |-> v[k]]
<1>1. m \in Nat /\ \A k \in 1..m : v[k] \in 1..n
  OBVIOUS
<1> HIDE DEF m
<1>2. /\ IsFiniteSet(S) /\ Cardinality(S) = m
      /\ IsFiniteSet(1..n) /\ Cardinality(1..n) = n
  BY <1>1, PlacesAreFinite
<1>3. f \in Surjection(S, T)
  BY DEF Surjection
<1> HIDE DEF S, T, f
<1>4. Cardinality(T) <= m
  BY <1>2, <1>3, FS_Surjection
<1>5. T # 1..n
  BY <1>1, <1>2, <1>4 DEF m
<1>6. T \subseteq 1..n
  BY <1>1 DEF T
<1> QED
  BY <1>5, <1>6 DEF T, m

LEMMA MmrScoreIsInt ==
  ASSUME NEW s \in Lists, NEW i \in DOMAIN s, NEW chosen \in SUBSET (DOMAIN s),
         chosen # {}
  PROVE  ComputeMmrScore(s, i, chosen) \in Int
<1> DEFINE n == Len(s)
           value == [j \in 1..n |-> Similar[s[i].id][s[j].id]]
           R == {Similar[s[i].id][s[j].id] : j \in chosen} \cup {0}
           most == CHOOSE x \in R : \A y \in R : y <= x
<1>1. n \in Nat /\ DOMAIN s = 1..n /\ \A j \in 1..n : s[j].id \in Ids
  BY ListFacts
<1> HIDE DEF n
<1>2. \A j \in 1..n : value[j] \in Int
  BY <1>1, SimilarAssumption
<1>3. R = {value[j] : j \in chosen} \cup {0}
  BY <1>1
<1> HIDE DEF value, R
<1>4. PICK m \in chosen : \A j \in chosen :
        value[j] < value[m] \/ (value[j] = value[m] /\ m <= j)
  BY <1>1, <1>2, GreatestExists
<1> DEFINE top == Greater(value[m], 0)
<1>5. value[m] \in Int /\ \A j \in chosen : value[j] \in Int /\ value[j] <= value[m]
  BY <1>1, <1>2, <1>4
<1>6. top \in R /\ \A y \in R : y <= top
  BY <1>3, <1>5 DEF Greater
<1>7. most \in R
  BY <1>6
<1>8. most \in Int
  <2>1. \A y \in R : y \in Int
    BY <1>3, <1>5
  <2> QED
    BY <1>7, <2>1
<1>9. ComputeMmrScore(s, i, chosen)
        = Settings.lambda * s[i].score - (100 - Settings.lambda) * most
  BY DEF ComputeMmrScore, R
<1> HIDE DEF most
<1>10. s[i].score \in Int
  BY ListFacts
<1>11. Settings.lambda \in Int
  <2>1. Settings.lambda \in 0..100
    BY SettingsAssumption, Zenon DEF SettingsAssumption
  <2> QED
    BY <2>1
<1> QED
  BY <1>8, <1>9, <1>10, <1>11

LEMMA MmrIsList ==
  ASSUME NEW s \in Lists, NEW limit \in Nat
  PROVE  ApplyMMR(s, limit) \in Lists /\ Len(ApplyMMR(s, limit)) <= limit
<1> DEFINE D == DOMAIN s
           value(i, chosen) ==
             IF chosen = {} THEN s[i].score ELSE ComputeMmrScore(s, i, chosen)
           best(chosen) ==
             CHOOSE i \in D \ chosen : \A j \in D \ chosen :
               \/ value(j, chosen) < value(i, chosen)
               \/ value(j, chosen) = value(i, chosen) /\ i <= j
           m == Lesser(limit, Len(s))
           n == Len(s)
           Chosen(v, i) == {v[k] : k \in 1..(i - 1)}
           With(v, i) == Append(v, best(Chosen(v, i)))
           V == Seq(D)
           Careful(v, i) == IF Len(v) = i - 1 THEN With(v, i) ELSE v
           round == [p \in (1..m) \X V |-> Careful(p[2], p[1])]
           F(f) == f = [i \in 0..m |-> IF i = 0 THEN <<>> ELSE With(f[i - 1], i)]
           t == CHOOSE f : F(f)
<1>1. /\ n \in Nat /\ D = 1..n /\ m \in Nat /\ m <= n /\ m <= limit
      /\ \A i \in D : s[i] \in Scored /\ s[i].score \in Int
  BY ListFacts DEF Lesser
<1>2. ApplyMMR(s, limit) = [k \in DOMAIN t[m] |-> s[t[m][k]]]
  BY DEF ApplyMMR
<1> HIDE DEF m, n
<1>3. ASSUME NEW chosen \in SUBSET D, D \ chosen # {}
      PROVE  best(chosen) \in D
  <2> DEFINE w == [i \in 1..n |-> value(i, chosen)]
             S == D \ chosen
  <2>1. \A i \in 1..n : w[i] \in Int
    BY <1>1, MmrScoreIsInt
  <2>2. S \in SUBSET (1..n) /\ S # {}
    BY <1>1, <1>3
  <2>3. PICK i \in S : \A j \in S : w[j] < w[i] \/ (w[j] = w[i] /\ i <= j)
    <3> HIDE DEF w, S
    <3> QED
      BY <1>1, <2>1, <2>2, GreatestExists
  <2> HIDE DEF value
  <2>4. \A j \in S : \/ value(j, chosen) < value(i, chosen)
                     \/ value(j, chosen) = value(i, chosen) /\ i <= j
    BY <2>2, <2>3
  <2> QED
    BY <2>4
<1> HIDE DEF best, D
<1>4. ASSUME NEW i \in 1..m, NEW v \in V, Len(v) = i - 1
      PROVE  With(v, i) \in V /\ Len(With(v, i)) = i
  <2>1. v \in Seq(1..n) /\ Len(v) < n /\ Chosen(v, i) = {v[k] : k \in 1..Len(v)}
    BY <1>1, <1>4
  <2>2. D \ Chosen(v, i) # {}
    BY <1>1, <2>1, UnchosenExists
  <2>3. Chosen(v, i) \in SUBSET D
    <3>1. \A k \in 1..Len(v) : v[k] \in D
      BY <1>1, <2>1
    <3> QED
      BY <2>1, <3>1
  <2> HIDE DEF Chosen
  <2>4. best(Chosen(v, i)) \in D
    BY <1>3, <2>2, <2>3
  <2> QED
    BY <1>4, <2>4
<1> HIDE DEF With, V
<1>5. \A i \in 1..m, v \in V : Careful(v, i) \in V
  BY <1>4
<1> HIDE DEF Careful
<1>6. round \in [(1..m) \X V -> V]
  BY <1>5
<1>7. \A i \in 1..m, v \in V : round[<<i, v>>] = Careful(v, i)
  OBVIOUS
<1> HIDE DEF round
<1>8. <<>> \in V
  BY DEF V
<1>9. PICK h \in [0..m -> V] : Loop(h, m, <<>>, round)
  BY <1>1, <1>6, <1>8, LoopExists
<1>10. h[0] = <<>> /\ \A i \in 1..m : h[i - 1] \in V /\ h[i] = Careful(h[i - 1], i)
  <2>1. \A i \in 0..m : h[i] = IF i = 0 THEN <<>> ELSE round[<<i, h[i - 1]>>]
    BY <1>9 DEF Loop
  <2>2. h[0] = <<>>
    <3>1. 0 \in 0..m
      BY <1>1
    <3> QED
      BY <2>1, <3>1, Zenon
  <2>3. ASSUME NEW i \in 1..m
        PROVE  h[i - 1] \in V /\ h[i] = Careful(h[i - 1], i)
    <3>1. i \in 0..m /\ i # 0 /\ i - 1 \in 0..m
      BY <1>1
    <3>2. h[i - 1] \in V
      BY <1>9, <3>1
    <3>3. h[i] = round[<<i, h[i - 1]>>]
      BY <2>1, <3>1
    <3> QED
      BY <1>7, <3>2, <3>3
  <2> QED
    BY <2>2, <2>3
<1> DEFINE P == {k \in Nat : k <= m => Len(h[k]) = k}
<1>11. 0 \in P
  BY <1>10
<1>12. ASSUME NEW k \in Nat, k \in P PROVE k + 1 \in P
  <2> SUFFICES ASSUME k + 1 <= m PROVE Len(h[k + 1]) = k + 1
    OBVIOUS
  <2>1. Len(h[k]) = k /\ k + 1 \in 1..m /\ (k + 1) - 1 = k
    BY <1>1, <1>12
  <2>2. h[k] \in V /\ h[k + 1] = With(h[k], k + 1)
    BY <1>10, <2>1 DEF Careful
  <2> QED
    BY <1>4, <2>1, <2>2
<1>13. \A k \in 0..m : Len(h[k]) = k
  <2>1. Nat \subseteq P
    <3> HIDE DEF P
    <3> QED
      BY <1>11, <1>12, InSetInduction
  <2> QED
    BY <1>1, <2>1
<1> HIDE DEF P
<1>14. \A i \in 1..m : h[i] = With(h[i - 1], i)
  <2> TAKE i \in 1..m
  <2>1. i - 1 \in 0..m
    BY <1>1
  <2> QED
    BY <1>10, <1>13, <2>1 DEF Careful
<1>15. F(h)
  <2>1. \A i \in 0..m : h[i] = IF i = 0 THEN <<>> ELSE With(h[i - 1], i)
    BY <1>1, <1>10, <1>14
  <2> QED
    BY <1>9, <2>1
<1>16. F(t)
  BY <1>15
<1> HIDE DEF t
<1>17. t[0] = <<>> /\ \A i \in 1..m : t[i] = With(t[i - 1], i)
  BY <1>1, <1>16
<1> DEFINE Good(k) == t[k] \in V /\ Len(t[k]) = k
           Q == {k \in Nat : k <= m => Good(k)}
<1>18. 0 \in Q
  BY <1>8, <1>17
<1>19. ASSUME NEW k \in Nat, k \in Q PROVE k + 1 \in Q
  <2> SUFFICES ASSUME k + 1 <= m PROVE Good(k + 1)
    OBVIOUS
  <2>1. Good(k) /\ k + 1 \in 1..m /\ (k + 1) - 1 = k
    BY <1>1, <1>19
  <2>2. t[k + 1] = With(t[k], k + 1)
    BY <1>17, <2>1
  <2> QED
    BY <1>4, <2>1, <2>2
<1>20. Good(m)
  <2>1. Nat \subseteq Q
    <3> HIDE DEF Q
    <3> QED
      BY <1>18, <1>19, InSetInduction
  <2> QED
    BY <1>1, <2>1
<1> HIDE DEF Q
<1> DEFINE order == t[m]
           T(k) == s[order[k]]
<1>21. order \in Seq(D) /\ Len(order) = m
  BY <1>20 DEF V
<1> HIDE DEF order
<1>22. DOMAIN order = 1..m /\ \A k \in 1..m : T(k) \in Scored
  BY <1>1, <1>21
<1>23. ApplyMMR(s, limit) = [k \in 1..m |-> T(k)]
  BY <1>2, <1>22 DEF order
<1> HIDE DEF T
<1> DEFINE u == ApplyMMR(s, limit)
<1>24. u \in Lists
  BY <1>1, <1>22, <1>23, IsASeq DEF Lists
<1>25. DOMAIN u = 1..m
  BY <1>23
<1> HIDE DEF u
<1>26. Len(u) = m
  BY <1>1, <1>24, <1>25, ListFacts
<1> QED
  BY <1>1, <1>24, <1>26 DEF u

-----------------------------------------------------------------------------
(* The flat order shows the rows it is given.                              *)

LEMMA ConcatKeeps ==
  ASSUME NEW v \in Lists, NEW w \in Lists
  PROVE  v \o w \in Lists /\ IdsOf(v \o w) = IdsOf(v) \cup IdsOf(w)
<1>1. /\ v \o w \in Lists /\ Len(v \o w) = Len(v) + Len(w)
      /\ \A i \in 1..(Len(v) + Len(w)) :
           (v \o w)[i] = IF i <= Len(v) THEN v[i] ELSE w[i - Len(v)]
  BY ConcatProperties DEF Lists
<1>2. /\ Len(v) \in Nat /\ Len(w) \in Nat
      /\ DOMAIN v = 1..Len(v) /\ DOMAIN w = 1..Len(w)
      /\ DOMAIN (v \o w) = 1..(Len(v) + Len(w))
  BY <1>1, ListFacts
<1> DEFINE x == v \o w
<1>3. \A i \in 1..Len(v) : i \in 1..(Len(v) + Len(w)) /\ x[i] = v[i]
  BY <1>1, <1>2
<1>4. \A i \in 1..Len(w) : /\ Len(v) + i \in 1..(Len(v) + Len(w))
                           /\ x[Len(v) + i] = w[i]
  BY <1>1, <1>2
<1>5. \A i \in 1..(Len(v) + Len(w)) :
        \/ i \in 1..Len(v) /\ x[i] = v[i]
        \/ i - Len(v) \in 1..Len(w) /\ x[i] = w[i - Len(v)]
  BY <1>1, <1>2
<1> HIDE DEF x
<1>6. /\ IdsOf(x) = {x[i].id : i \in 1..(Len(v) + Len(w))}
      /\ IdsOf(v) = {v[i].id : i \in 1..Len(v)}
      /\ IdsOf(w) = {w[i].id : i \in 1..Len(w)}
  BY <1>2 DEF IdsOf, x
<1>7. \A i \in 1..(Len(v) + Len(w)) : x[i].id \in IdsOf(v) \cup IdsOf(w)
  BY <1>5, <1>6
<1>8. (\A i \in 1..Len(v) : v[i].id \in IdsOf(x)) /\ (\A i \in 1..Len(w) : w[i].id \in IdsOf(x))
  BY <1>3, <1>4, <1>6
<1>9. IdsOf(x) = IdsOf(v) \cup IdsOf(w)
  BY <1>6, <1>7, <1>8
<1> QED
  BY <1>1, <1>9 DEF x

(* Lists that are laid end to end.                                         *)
LEMMA FlattenIsThere ==
  ASSUME NEW gs \in Seq(Lists)
  PROVE  /\ FlattenSeq(gs) \in Lists
         /\ IdsOf(FlattenSeq(gs)) = UNION {IdsOf(gs[i]) : i \in DOMAIN gs}
<1> DEFINE n == Len(gs)
           round == [p \in (1..n) \X Lists |-> p[2] \o gs[p[1]]]
           F(f) == f = [i \in 1..n |-> IF i = 1 THEN gs[i] ELSE f[i - 1] \o gs[i]]
           t == CHOOSE f : F(f)
           u == FlattenSeq(gs)
<1>1. n \in Nat /\ DOMAIN gs = 1..n /\ \A i \in 1..n : gs[i] \in Lists
  OBVIOUS
<1>2. u = IF n = 0 THEN gs ELSE t[n]
  BY DEF FlattenSeq
<1>3. CASE n = 0
  <2>1. u = <<>>
    BY <1>1, <1>2, <1>3
  <2>2. DOMAIN gs = {}
    BY <1>1, <1>3
  <2>3. <<>> \in Lists /\ IdsOf(<<>>) = {}
    BY DEF Lists, IdsOf
  <2> HIDE DEF u
  <2> QED
    BY <2>1, <2>2, <2>3 DEF u
<1>4. CASE n # 0
  <2>1. ASSUME NEW v \in Lists, NEW w \in Lists
        PROVE  v \o w \in Lists /\ IdsOf(v \o w) = IdsOf(v) \cup IdsOf(w)
    BY ConcatKeeps
  <2>2. round \in [(1..n) \X Lists -> Lists]
    BY <1>1, <2>1
  <2>3. \A i \in 1..n, v \in Lists : round[<<i, v>>] = v \o gs[i]
    OBVIOUS
  <2>4. <<>> \in Lists /\ IdsOf(<<>>) = {} /\ \A v \in Lists : <<>> \o v = v
    BY DEF Lists, IdsOf
  <2> HIDE DEF round, n
  <2>5. PICK h \in [0..n -> Lists] : Loop(h, n, <<>>, round)
    BY <1>1, <2>2, <2>4, LoopExists
  <2>6. /\ h[0] = <<>>
        /\ \A i \in 1..n : h[i - 1] \in Lists /\ h[i] = h[i - 1] \o gs[i]
    <3>1. \A i \in 0..n : h[i] = IF i = 0 THEN <<>> ELSE round[<<i, h[i - 1]>>]
      BY <2>5 DEF Loop
    <3>2. h[0] = <<>>
      <4>1. 0 \in 0..n
        BY <1>1
      <4> QED
        BY <3>1, <4>1, Zenon
    <3>3. ASSUME NEW i \in 1..n
          PROVE  h[i - 1] \in Lists /\ h[i] = h[i - 1] \o gs[i]
      <4>1. i \in 0..n /\ i # 0 /\ i - 1 \in 0..n
        BY <1>1
      <4>2. h[i - 1] \in Lists
        BY <2>5, <4>1
      <4>3. h[i] = round[<<i, h[i - 1]>>]
        BY <3>1, <4>1
      <4> QED
        BY <2>3, <4>2, <4>3
    <3> QED
      BY <3>2, <3>3
  <2> DEFINE g == [i \in 1..n |-> h[i]]
  <2>7. F(g)
    <3>1. \A i \in 1..n : h[i] = IF i = 1 THEN gs[i] ELSE g[i - 1] \o gs[i]
      <4> TAKE i \in 1..n
      <4>1. CASE i = 1
        <5>1. h[i - 1] = <<>> /\ h[i] = h[i - 1] \o gs[i]
          <6>1. i - 1 = 0
            BY <4>1
          <6> QED
            BY <2>6, <6>1
        <5>2. h[i] = gs[i]
          BY <1>1, <2>4, <5>1
        <5> QED
          BY <4>1, <5>2
      <4>2. CASE i # 1
        <5>1. i - 1 \in 1..n
          BY <1>1, <4>2
        <5>2. g[i - 1] = h[i - 1] /\ h[i] = h[i - 1] \o gs[i]
          BY <2>6, <5>1
        <5> QED
          BY <4>2, <5>2
      <4> QED
        BY <4>1, <4>2
    <3> QED
      BY <3>1
  <2> HIDE DEF g
  <2>8. F(t)
    BY <2>7
  <2> HIDE DEF t
  <2>9. \A i \in 1..n : t[i] = IF i = 1 THEN gs[i] ELSE t[i - 1] \o gs[i]
    BY <2>8
  <2> DEFINE Good(m) == /\ t[m] \in Lists
                        /\ IdsOf(t[m]) = UNION {IdsOf(gs[i]) : i \in 1..m}
             P == {m \in Nat : m + 1 <= n => Good(m + 1)}
  <2>10. 0 \in P
    <3>1. 1 \in 1..n /\ t[1] = gs[1]
      BY <1>1, <1>4, <2>9
    <3>2. \A i \in 1..1 : i = 1
      OBVIOUS
    <3>3. UNION {IdsOf(gs[i]) : i \in 1..1} = IdsOf(gs[1])
      BY <3>2
    <3>4. Good(1)
      BY <1>1, <3>1, <3>3
    <3> HIDE DEF Good
    <3>5. Good(0 + 1)
      BY <3>4
    <3> QED
      BY <3>5
  <2>11. ASSUME NEW m \in Nat, m \in P PROVE m + 1 \in P
    <3> DEFINE k == m + 1
    <3> HIDE DEF Good
    <3>1. SUFFICES ASSUME k + 1 <= n PROVE Good(k + 1)
      OBVIOUS
    <3>2. Good(k) /\ k \in Nat /\ k >= 1 /\ k + 1 \in 1..n /\ (k + 1) - 1 = k
      BY <1>1, <2>11, <3>1
    <3> HIDE DEF k
    <3> USE DEF Good
    <3>3. t[k + 1] = t[k] \o gs[k + 1]
      <4>1. k + 1 # 1
        BY <3>2
      <4>2. t[k + 1] = t[(k + 1) - 1] \o gs[k + 1]
        BY <2>9, <3>2, <4>1
      <4> QED
        BY <3>2, <4>2
    <3>4. t[k] \in Lists /\ gs[k + 1] \in Lists
      BY <1>1, <3>2
    <3>5. t[k + 1] \in Lists /\ IdsOf(t[k + 1]) = IdsOf(t[k]) \cup IdsOf(gs[k + 1])
      BY <2>1, <3>3, <3>4
    <3>6. \A i : i \in 1..(k + 1) <=> i \in 1..k \/ i = k + 1
      BY <3>2
    <3>7. UNION {IdsOf(gs[i]) : i \in 1..(k + 1)}
            = (UNION {IdsOf(gs[i]) : i \in 1..k}) \cup IdsOf(gs[k + 1])
      BY <3>6
    <3> QED
      BY <3>2, <3>5, <3>7
  <2>12. Nat \subseteq P
    <3> HIDE DEF P
    <3> QED
      BY <2>10, <2>11, InSetInduction
  <2>13. Good(n)
    <3> HIDE DEF Good
    <3>1. n - 1 \in Nat /\ (n - 1) + 1 = n
      BY <1>1, <1>4
    <3>2. Good((n - 1) + 1)
      BY <1>1, <2>12, <3>1
    <3> QED
      BY <3>1, <3>2
  <2>14. u = t[n]
    BY <1>2, <1>4
  <2> HIDE DEF u, P
  <2> QED
    BY <1>1, <2>13, <2>14 DEF u
<1> QED
  BY <1>1, <1>3, <1>4

LEMMA ChronologyKeeps ==
  ASSUME NEW s \in Lists
  PROVE  /\ SortChronologically(s) \in Lists
         /\ IdsOf(SortChronologically(s)) = IdsOf(s)
<1> DEFINE weight == [i \in DOMAIN s |-> Row[s[i].id].created]
<1>1. \A i \in DOMAIN s : weight[i] \in Int
  BY ListFacts, RowAssumption
<1>2. SortChronologically(s) = Sorted(s, weight)
  BY DEF SortChronologically
<1> HIDE DEF weight
<1> QED
  BY <1>1, <1>2, SortedKeeps

LEMMA PromotionKeeps ==
  ASSUME NEW s \in Lists
  PROVE  /\ PromoteAnswerBearing(s) \in Lists
         /\ IdsOf(PromoteAnswerBearing(s)) = IdsOf(s)
<1> DEFINE Tier(k) == {id \in Ids : Row[id].answer = k}
           Of(k) == SortChronologically(Keep(s, Tier(k)))
<1>1. ASSUME NEW k PROVE Of(k) \in Lists /\ IdsOf(Of(k)) = IdsOf(s) \cap Tier(k)
  <2> HIDE DEF Tier
  <2>1. Keep(s, Tier(k)) \in Lists /\ IdsOf(Keep(s, Tier(k))) = IdsOf(s) \cap Tier(k)
    BY KeepKeeps
  <2> QED
    BY <2>1, ChronologyKeeps
<1>2. PromoteAnswerBearing(s) = Of(1) \o Of(2) \o Of(3)
  BY DEF PromoteAnswerBearing
<1> HIDE DEF Of
<1>3. Of(1) \o Of(2) \in Lists /\ IdsOf(Of(1) \o Of(2)) = IdsOf(Of(1)) \cup IdsOf(Of(2))
  BY <1>1, ConcatKeeps
<1>4. /\ PromoteAnswerBearing(s) \in Lists
      /\ IdsOf(PromoteAnswerBearing(s)) = IdsOf(Of(1)) \cup IdsOf(Of(2)) \cup IdsOf(Of(3))
  BY <1>1, <1>2, <1>3, ConcatKeeps
<1>5. \A id \in IdsOf(s) : id \in Tier(1) \/ id \in Tier(2) \/ id \in Tier(3)
  <2> TAKE id \in IdsOf(s)
  <2>1. id \in Ids /\ Row[id].answer \in 1..3
    BY ListFacts, PackagingAssumption
  <2> QED
    BY <2>1
<1> HIDE DEF Tier
<1> QED
  BY <1>1, <1>4, <1>5

(* The groups of a list are lists, none of them empty, and have its rows.  *)
LEMMA GroupsKeep ==
  ASSUME NEW s \in Lists, NEW key
  PROVE  /\ GroupsBy(s, key) \in Seq(Lists)
         /\ \A k \in DOMAIN GroupsBy(s, key) : IdsOf(GroupsBy(s, key)[k]) # {}
         /\ UNION {IdsOf(GroupsBy(s, key)[k]) : k \in DOMAIN GroupsBy(s, key)}
              = IdsOf(s)
<1> DEFINE first == {i \in DOMAIN s :
                      \A j \in 1..(i - 1) : key[s[j].id] # key[s[i].id]}
           Alike(i) == {id \in Ids : key[id] = key[s[i].id]}
           T(i) == Keep(s, Alike(i))
           n == Len(s)
           r == [i \in DOMAIN s |-> T(i)]
           gs == GroupsBy(s, key)
<1>1. /\ n \in Nat /\ DOMAIN s = 1..n
      /\ \A i \in 1..n : s[i].id \in Ids
      /\ IdsOf(s) = {s[i].id : i \in 1..n}
  BY ListFacts DEF IdsOf
<1>2. gs = Taken(r, first)
  BY DEF GroupsBy
<1> HIDE DEF n, gs
<1>3. ASSUME NEW i \in 1..n
      PROVE  /\ T(i) \in Lists /\ s[i].id \in IdsOf(T(i))
             /\ IdsOf(T(i)) = {id \in IdsOf(s) : key[id] = key[s[i].id]}
  <2>1. s[i].id \in Alike(i) /\ s[i].id \in IdsOf(s)
    BY <1>1
  <2>2. IdsOf(s) \cap Alike(i) = {id \in IdsOf(s) : key[id] = key[s[i].id]}
    BY <1>1
  <2> HIDE DEF Alike
  <2>3. T(i) \in Lists /\ IdsOf(T(i)) = IdsOf(s) \cap Alike(i)
    BY KeepKeeps
  <2> HIDE DEF T
  <2> QED
    BY <2>1, <2>2, <2>3
<1>4. r = [i \in 1..n |-> T(i)]
  BY <1>1
<1>5. r \in Seq(Lists)
  <2> HIDE DEF T, r
  <2> QED
    BY <1>1, <1>3, <1>4, IsASeq
<1>6. DOMAIN r = 1..n /\ \A i \in 1..n : r[i] = T(i)
  BY <1>4
<1> HIDE DEF r, T
<1>7. gs \in Seq(Lists) /\ Range(gs) = {r[i] : i \in DOMAIN r \cap first}
  <2> HIDE DEF first
  <2> QED
    BY <1>2, <1>5, TakenIsThere
<1>8. DOMAIN r \cap first = first /\ first \subseteq 1..n
  BY <1>1, <1>6
<1>9. Range(gs) = {T(i) : i \in first}
  <2> HIDE DEF first
  <2> QED
    BY <1>6, <1>7, <1>8
<1>10. \A k \in DOMAIN gs : \E i \in first : gs[k] = T(i)
  <2> HIDE DEF first
  <2> QED
    BY <1>9 DEF Range
<1>11. \A i \in first : \E k \in DOMAIN gs : gs[k] = T(i)
  <2> HIDE DEF first
  <2>1. \A i \in first : T(i) \in Range(gs)
    BY <1>9
  <2> QED
    BY <2>1 DEF Range
<1>12. \A k \in DOMAIN gs : IdsOf(gs[k]) # {} /\ IdsOf(gs[k]) \subseteq IdsOf(s)
  <2> HIDE DEF first
  <2> TAKE k \in DOMAIN gs
  <2>1. PICK i \in first : gs[k] = T(i)
    BY <1>10
  <2> QED
    BY <1>3, <1>8, <2>1
<1>13. ASSUME NEW i \in 1..n PROVE \E k \in DOMAIN gs : s[i].id \in IdsOf(gs[k])
  <2> DEFINE S == {j \in 1..n : key[s[j].id] = key[s[i].id]}
  <2>1. PICK m \in S : \A j \in S : m <= j
    <3>1. S \in SUBSET (1..n) /\ S # {}
      OBVIOUS
    <3> HIDE DEF S
    <3> QED
      BY <1>1, <3>1, LeastExists
  <2>2. \A j \in 1..(m - 1) : j \in 1..n /\ j \notin S
    BY <1>1, <2>1
  <2>3. m \in 1..n /\ key[s[m].id] = key[s[i].id]
    OBVIOUS
  <2>4. m \in first
    BY <1>1, <2>2, <2>3
  <2> HIDE DEF first, S
  <2>5. s[i].id \in IdsOf(T(m))
    BY <1>1, <1>3, <2>3
  <2> QED
    BY <1>11, <2>4, <2>5
<1> HIDE DEF first
<1>14. UNION {IdsOf(gs[k]) : k \in DOMAIN gs} = IdsOf(s)
  BY <1>1, <1>12, <1>13
<1> QED
  BY <1>7, <1>12, <1>14 DEF gs

LEMMA SessionsKeep ==
  ASSUME NEW s \in Lists
  PROVE  /\ SortBySessionPriority(s) \in Lists
         /\ IdsOf(SortBySessionPriority(s)) = IdsOf(s)
<1> DEFINE gs == GroupsBy(s, [id \in Ids |-> Row[id].episode])
           T(k) == PromoteAnswerBearing(gs[k])
           ranked == [k \in DOMAIN gs |-> T(k)]
           weight == [k \in DOMAIN ranked |-> Row[ranked[k][1].id].created]
           sorted == Sorted(ranked, weight)
           n == Len(gs)
<1>1. SortBySessionPriority(s) \in {SortChronologically(s), FlattenSeq(sorted)}
  BY DEF SortBySessionPriority
<1>2. /\ gs \in Seq(Lists)
      /\ \A k \in DOMAIN gs : IdsOf(gs[k]) # {}
      /\ UNION {IdsOf(gs[k]) : k \in DOMAIN gs} = IdsOf(s)
  BY GroupsKeep
<1> HIDE DEF gs
<1>3. n \in Nat /\ DOMAIN gs = 1..n /\ \A k \in 1..n : gs[k] \in Lists
  BY <1>2
<1> HIDE DEF n
<1>4. \A k \in 1..n : T(k) \in Lists /\ IdsOf(T(k)) = IdsOf(gs[k])
  BY <1>3, PromotionKeeps
<1>5. ranked = [k \in 1..n |-> T(k)]
  BY <1>3
<1> HIDE DEF T, ranked
<1>6. ranked \in Seq(Lists)
  BY <1>3, <1>4, <1>5, IsASeq
<1>7. DOMAIN ranked = 1..n /\ \A k \in 1..n : ranked[k] = T(k)
  BY <1>5
<1>8. \A k \in DOMAIN ranked : weight[k] \in Int
  <2> TAKE k \in DOMAIN ranked
  <2> DEFINE g == ranked[k]
  <2>1. g \in Lists /\ IdsOf(g) # {}
    BY <1>2, <1>3, <1>4, <1>7
  <2> HIDE DEF g
  <2>2. 1 \in DOMAIN g
    BY <2>1, ListFacts DEF IdsOf
  <2>3. Row[g[1].id].created \in Int
    BY <2>1, <2>2, ListFacts, RowAssumption
  <2> QED
    BY <2>3 DEF g
<1> HIDE DEF weight
<1>9. sorted \in Seq(Lists) /\ Range(sorted) = Range(ranked)
  BY <1>6, <1>8, SortedPermutes
<1> HIDE DEF sorted
<1>10. /\ FlattenSeq(sorted) \in Lists
       /\ IdsOf(FlattenSeq(sorted)) = UNION {IdsOf(sorted[i]) : i \in DOMAIN sorted}
  BY <1>9, FlattenIsThere
<1>11. UNION {IdsOf(sorted[i]) : i \in DOMAIN sorted} = IdsOf(s)
  <2>1. UNION {IdsOf(sorted[i]) : i \in DOMAIN sorted}
          = UNION {IdsOf(g) : g \in Range(sorted)}
    BY DEF Range
  <2>2. UNION {IdsOf(g) : g \in Range(ranked)} = UNION {IdsOf(ranked[k]) : k \in 1..n}
    BY <1>7 DEF Range
  <2>3. UNION {IdsOf(ranked[k]) : k \in 1..n} = UNION {IdsOf(gs[k]) : k \in 1..n}
    BY <1>4, <1>7
  <2> QED
    BY <1>2, <1>3, <1>9, <2>1, <2>2, <2>3
<1> QED
  BY <1>1, <1>10, <1>11, ChronologyKeeps

LEMMA FlatKeeps ==
  ASSUME NEW s \in Lists
  PROVE  /\ FormatSimpleInjection(s) \in Lists
         /\ IdsOf(FormatSimpleInjection(s)) = IdsOf(s)
<1> DEFINE gs == GroupsBy(s, [id \in Ids |-> Row[id].namespace])
           T(k) == IF SpansMultipleDates(gs[k]) THEN SortChronologically(gs[k])
                   ELSE SortBySessionPriority(gs[k])
           ranked == [k \in DOMAIN gs |-> T(k)]
           n == Len(gs)
<1>1. FormatSimpleInjection(s) = FlattenSeq(ranked)
  BY DEF FormatSimpleInjection
<1>2. gs \in Seq(Lists) /\ UNION {IdsOf(gs[k]) : k \in DOMAIN gs} = IdsOf(s)
  BY GroupsKeep
<1> HIDE DEF gs
<1>3. n \in Nat /\ DOMAIN gs = 1..n /\ \A k \in 1..n : gs[k] \in Lists
  BY <1>2
<1> HIDE DEF n
<1>4. \A k \in 1..n : T(k) \in Lists /\ IdsOf(T(k)) = IdsOf(gs[k])
  BY <1>3, ChronologyKeeps, SessionsKeep
<1>5. ranked = [k \in 1..n |-> T(k)]
  BY <1>3
<1> HIDE DEF T, ranked
<1>6. ranked \in Seq(Lists)
  BY <1>3, <1>4, <1>5, IsASeq
<1>7. DOMAIN ranked = 1..n /\ \A k \in 1..n : ranked[k] = T(k)
  BY <1>5
<1>8. /\ FlattenSeq(ranked) \in Lists
      /\ IdsOf(FlattenSeq(ranked)) = UNION {IdsOf(ranked[k]) : k \in DOMAIN ranked}
  BY <1>6, FlattenIsThere
<1>9. UNION {IdsOf(ranked[k]) : k \in DOMAIN ranked} = UNION {IdsOf(gs[k]) : k \in 1..n}
  BY <1>4, <1>7
<1> QED
  BY <1>1, <1>2, <1>3, <1>8, <1>9

-----------------------------------------------------------------------------
(* The inductive invariant.                                                *)
(* Sections, timelines and sessions show what deduplication left, no row   *)
(* less and no row more.                                                   *)
FlatIsWhole ==
  step = "done" /\ mode = "flat" =>
    IdsOf(package) =
      IdsOf(DeduplicateCompositeMembersForFlatQuery(question, selected))

PackagingInv ==
  /\ question \in Questions
  /\ candidates \in Lists
  /\ selected \in Lists
  /\ ProtectedOutrankOthers
  /\ WithinBudget
  /\ NoWordWithheld
  /\ FlatIsWhole

LEMMA PoolIsList ==
  ASSUME NEW score, \A id \in Ids : score[id] \in Int
  PROVE  [i \in 1..Cardinality(Ids) |->
           [id |-> Settings.order[i], score |-> score[Settings.order[i]]]] \in Lists
<1> DEFINE n == Cardinality(Ids)
           T(i) == [id |-> Settings.order[i], score |-> score[Settings.order[i]]]
<1>1. n \in Nat
  BY IdsAssumption, FS_CardinalityType
<1>2. Settings.order \in [1..n -> Ids]
  BY SettingsAssumption, Zenon DEF SettingsAssumption
<1>3. \A i \in 1..n : T(i) \in Scored
  <2> TAKE i \in 1..n
  <2>1. Settings.order[i] \in Ids
    BY <1>2
  <2> QED
    BY <2>1 DEF Scored
<1> HIDE DEF n, T
<1>4. [i \in 1..n |-> T(i)] \in Lists
  BY <1>1, <1>3, IsASeq DEF Lists
<1> QED
  BY <1>4 DEF n, T

LEMMA InvStart == Init => PackagingInv
<1> SUFFICES ASSUME Init PROVE PackagingInv
  OBVIOUS
<1> USE DEF Init, InitRanking, InitPackaging
<1>1. candidates \in Lists
  <2>1. PICK score \in [Ids -> Scores] :
          candidates = ByScore([i \in 1..Cardinality(Ids) |->
            [id |-> Settings.order[i], score |-> score[Settings.order[i]]]])
    OBVIOUS
  <2>2. \A id \in Ids : score[id] \in Int
    BY ScoresAssumption
  <2>3. [i \in 1..Cardinality(Ids) |->
          [id |-> Settings.order[i], score |-> score[Settings.order[i]]]] \in Lists
    BY <2>2, PoolIsList
  <2> QED
    BY <2>1, <2>3, ByScoreKeeps
<1>2. selected \in Lists
  BY DEF Lists
<1> QED
  BY <1>1, <1>2 DEF PackagingInv, ProtectedOutrankOthers, WithinBudget, Tiered,
                    NoWordWithheld, FlatIsWhole

(* A stage before the selection shows nothing yet and decides nothing.     *)
LEMMA StageKeeps ==
  ASSUME PackagingInv, question' = question, candidates' \in Lists,
         selected' \in Lists, step' \notin {"relevance", "done"}
  PROVE  PackagingInv'
BY DEF PackagingInv, ProtectedOutrankOthers, WithinBudget, Tiered,
       NoWordWithheld, FlatIsWhole

LEMMA RepairKeeps == PackagingInv /\ ApplyRepairLoop => PackagingInv'
<1> SUFFICES ASSUME PackagingInv, ApplyRepairLoop PROVE PackagingInv'
  OBVIOUS
<1>1. candidates \in Lists /\ selected \in Lists /\ question \in Questions
  BY DEF PackagingInv
<1>2. question' = question /\ selected' = selected /\ step' = "rerank"
  BY DEF ApplyRepairLoop
<1>3. candidates' \in Lists
  <2> SUFFICES ASSUME candidates' # candidates PROVE candidates' \in Lists
    BY <1>1
  <2> DEFINE Repaired(found, x) == Keep([i \in 1..Cardinality(Ids) |->
               [id |-> Settings.order[i], score |-> x]], found)
             Merged(found, x) ==
               MergeStageResults(candidates, Repaired(found, x),
                 Len(candidates) + Len(Repaired(found, x)),
                 Settings.repairPrimaryWeight, Settings.repairRewriteWeight)
             depth == ResolveRerankDepth(question)
  <2>1. PICK found \in SUBSET Ids, x \in Scores :
          candidates' = PreserveProtectedResults(
                          Cut(Merged(found, x), depth), Merged(found, x), protected, depth)
    BY DEF ApplyRepairLoop
  <2> DEFINE repaired == Repaired(found, x)
             merged == Merged(found, x)
  <2>2. repaired \in Lists
    <3> DEFINE score == [id \in Ids |-> x]
               pool == [i \in 1..Cardinality(Ids) |->
                         [id |-> Settings.order[i], score |-> x]]
    <3>1. \A id \in Ids : score[id] \in Int
      BY ScoresAssumption
    <3>2. [i \in 1..Cardinality(Ids) |->
            [id |-> Settings.order[i], score |-> score[Settings.order[i]]]] \in Lists
      <4> HIDE DEF score
      <4> QED
        BY <3>1, PoolIsList
    <3>3. pool = [i \in 1..Cardinality(Ids) |->
            [id |-> Settings.order[i], score |-> score[Settings.order[i]]]]
      <4>1. Settings.order \in [1..Cardinality(Ids) -> Ids]
        BY SettingsAssumption, Zenon DEF SettingsAssumption
      <4>2. \A i \in 1..Cardinality(Ids) : score[Settings.order[i]] = x
        BY <4>1
      <4> HIDE DEF score
      <4> QED
        BY <4>2
    <3> HIDE DEF pool
    <3>4. pool \in Lists
      BY <3>2, <3>3
    <3>5. Keep(pool, found) \in Lists
      BY <3>4, KeepKeeps
    <3> QED
      BY <3>5 DEF pool
  <2> HIDE DEF Repaired
  <2>3. merged \in Lists
    <3>1. Len(candidates) + Len(repaired) \in Nat
      BY <1>1, <2>2, ListFacts
    <3>2. Settings.repairPrimaryWeight \in Nat /\ Settings.repairRewriteWeight \in Nat
      BY SettingsAssumption, Zenon DEF SettingsAssumption
    <3> QED
      BY <1>1, <2>2, <3>1, <3>2, MergeIsList
  <2>4. candidates' = PreserveProtectedResults(Cut(merged, depth), merged, protected, depth)
    BY <2>1
  <2> HIDE DEF Merged
  <2>5. depth \in Nat
    BY <1>1, LimitIsNat
  <2> HIDE DEF depth
  <2>6. Cut(merged, depth) \in Lists /\ Len(Cut(merged, depth)) <= depth
    BY <2>3, <2>5, CutCuts
  <2> HIDE DEF merged
  <2> QED
    BY <2>3, <2>4, <2>5, <2>6, ProtectionKeeps
<1> QED
  BY <1>1, <1>2, <1>3, StageKeeps

LEMMA RerankKeeps == PackagingInv /\ ApplyCrossEncoderStage => PackagingInv'
<1> SUFFICES ASSUME PackagingInv, ApplyCrossEncoderStage PROVE PackagingInv'
  OBVIOUS
<1>1. candidates \in Lists /\ selected \in Lists
  BY DEF PackagingInv
<1>2. question' = question /\ selected' = selected /\ step' = "subject"
  BY DEF ApplyCrossEncoderStage
<1>3. \/ candidates' = candidates
      \/ \E answer \in [IdsOf(candidates) -> Settings.answers] :
           candidates' = RerankCandidates(candidates, answer)
  BY DEF ApplyCrossEncoderStage
<1>4. candidates' \in Lists
  BY <1>1, <1>3, RerankIsList
<1> QED
  BY <1>1, <1>2, <1>4, StageKeeps

LEMMA SubjectKeeps == PackagingInv /\ ApplySubjectRankingStage => PackagingInv'
<1> SUFFICES ASSUME PackagingInv, ApplySubjectRankingStage PROVE PackagingInv'
  OBVIOUS
<1>1. candidates \in Lists /\ selected \in Lists
  BY DEF PackagingInv
<1>2. question' = question /\ selected' = selected /\ step' = "literal"
  BY DEF ApplySubjectRankingStage
<1>3. candidates' \in {candidates, ApplySubjectAwareRanking(question, candidates)}
  BY DEF ApplySubjectRankingStage
<1>4. candidates' \in Lists
  BY <1>1, <1>3, SubjectIsList
<1> QED
  BY <1>1, <1>2, <1>4, StageKeeps

LEMMA LiteralKeeps == PackagingInv /\ ApplyLiteralProtectionStage => PackagingInv'
<1> SUFFICES ASSUME PackagingInv, ApplyLiteralProtectionStage PROVE PackagingInv'
  OBVIOUS
<1>1. candidates \in Lists /\ selected \in Lists
  BY DEF PackagingInv
<1>2. question' = question /\ selected' = selected /\ step' = "constraint"
  BY DEF ApplyLiteralProtectionStage
<1>3. candidates' = BoostProtectedCandidates(candidates,
                      ProtectLiteralListAnswerCandidates(question, candidates))
  BY DEF ApplyLiteralProtectionStage
<1>4. candidates' \in Lists
  BY <1>1, <1>3, BoostIsList
<1> QED
  BY <1>1, <1>2, <1>4, StageKeeps

LEMMA ConstraintKeeps == PackagingInv /\ ApplyTemporalConstraintStage => PackagingInv'
<1> SUFFICES ASSUME PackagingInv, ApplyTemporalConstraintStage PROVE PackagingInv'
  OBVIOUS
<1>1. candidates \in Lists /\ selected \in Lists
  BY DEF PackagingInv
<1>2. question' = question /\ selected' = selected /\ step' = "rank"
  BY DEF ApplyTemporalConstraintStage
<1>3. candidates' \in {candidates, ApplyTemporalQueryConstraints(question, candidates)}
  BY DEF ApplyTemporalConstraintStage
<1>4. candidates' \in Lists
  BY <1>1, <1>3, ConstraintIsList
<1> QED
  BY <1>1, <1>2, <1>4, StageKeeps

LEMMA EligibilityKeeps == PackagingInv /\ ApplyRankingEligibilityStage => PackagingInv'
<1> SUFFICES ASSUME PackagingInv, ApplyRankingEligibilityStage PROVE PackagingInv'
  OBVIOUS
<1>1. candidates \in Lists /\ selected \in Lists
  BY DEF PackagingInv
<1>2. question' = question /\ selected' = selected /\ step' = "select"
  BY DEF ApplyRankingEligibilityStage
<1>3. candidates' = ApplyRankingEligibility(question, ApplyConcisenessPenalty(
                      ApplyCurrentStateRanking(question, candidates)))
  BY DEF ApplyRankingEligibilityStage
<1>4. candidates' \in Lists
  BY <1>1, <1>3, CurrentStateIsList, PenaltyIsList, EligibleIsList
<1> QED
  BY <1>1, <1>2, <1>4, StageKeeps

(* The selection is where protection decides.                              *)
LEMMA SelectionKeeps ==
  ASSUME PackagingInv, NEW chosen \in Lists,
         Len(chosen) <= ResolveSearchLimit(question), SelectWith(chosen)
  PROVE  PackagingInv'
<1> DEFINE limit == ResolveSearchLimit(question)
           result == PreserveProtectedResults(chosen, candidates, protected, limit)
<1>1. candidates \in Lists /\ question \in Questions
  BY DEF PackagingInv
<1>2. /\ question' = question /\ candidates' = candidates /\ protected' = protected
      /\ selected' = result /\ step' = "relevance"
  BY DEF SelectWith
<1>3. limit \in Nat /\ Len(chosen) <= limit
  BY <1>1, LimitIsNat
<1> HIDE DEF limit
<1>4. /\ result \in Lists
      /\ \/ protected \cap PrintsIn(candidates) \subseteq PrintsIn(result)
         \/ PrintsIn(result) \subseteq protected
  BY <1>1, <1>3, ProtectionKeeps
<1> HIDE DEF result
<1>5. PrintsIn(selected') = PrintsIn(result) /\ PrintsIn(candidates') = PrintsIn(candidates)
  BY <1>2
<1>6. ProtectedOutrankOthers'
  BY <1>2, <1>4, <1>5 DEF ProtectedOutrankOthers, PrintsIn
<1> QED
  BY <1>1, <1>2, <1>4, <1>6 DEF PackagingInv, WithinBudget, Tiered, NoWordWithheld, FlatIsWhole

LEMMA SelectKeeps == PackagingInv /\ (SelectWithMmr \/ SelectWithoutMmr) => PackagingInv'
<1> SUFFICES ASSUME PackagingInv, SelectWithMmr \/ SelectWithoutMmr PROVE PackagingInv'
  OBVIOUS
<1> DEFINE limit == ResolveSearchLimit(question)
<1>1. candidates \in Lists /\ limit \in Nat
  BY LimitIsNat DEF PackagingInv
<1>2. CASE SelectWithMmr
  <2>1. ApplyMMR(candidates, limit) \in Lists /\ Len(ApplyMMR(candidates, limit)) <= limit
    BY <1>1, MmrIsList
  <2>2. SelectWith(ApplyMMR(candidates, limit))
    BY <1>2 DEF SelectWithMmr
  <2> QED
    BY <2>1, <2>2, SelectionKeeps
<1>3. CASE SelectWithoutMmr
  <2>1. Cut(candidates, limit) \in Lists /\ Len(Cut(candidates, limit)) <= limit
    BY <1>1, CutCuts
  <2>2. SelectWith(Cut(candidates, limit))
    BY <1>3 DEF SelectWithoutMmr
  <2> QED
    BY <2>1, <2>2, SelectionKeeps
<1> QED
  BY <1>2, <1>3

LEMMA RelevanceKeeps == PackagingInv /\ FilterByRelevance => PackagingInv'
<1> SUFFICES ASSUME PackagingInv, FilterByRelevance PROVE PackagingInv'
  OBVIOUS
<1>1. candidates \in Lists /\ selected \in Lists
  BY DEF PackagingInv
<1>2. /\ question' = question /\ candidates' = candidates /\ step' = "package"
      /\ selected' = ApplyRelevanceFilter(question, selected)
  BY DEF FilterByRelevance
<1>3. selected' \in Lists
  BY <1>1, <1>2, RelevantIsList
<1> QED
  BY <1>1, <1>2, <1>3, StageKeeps

LEMMA FlatShows == PackagingInv /\ BuildFlatInjection => PackagingInv'
<1> SUFFICES ASSUME PackagingInv, BuildFlatInjection PROVE PackagingInv'
  OBVIOUS
<1> DEFINE kept == DeduplicateCompositeMembersForFlatQuery(question, selected)
<1>1. candidates \in Lists /\ selected \in Lists /\ question \in Questions
  BY DEF PackagingInv
<1>2. /\ question' = question /\ candidates' = candidates /\ selected' = selected
      /\ step' = "done" /\ mode' = "flat" /\ package' = FormatSimpleInjection(kept)
  BY DEF BuildFlatInjection
<1>3. kept \in Lists
  <2>1. \E ids : kept = Keep(selected, ids)
    BY DEF DeduplicateCompositeMembersForFlatQuery, SuppressOverlappingComposites,
           DeduplicateCompositeMembersSoft
  <2> HIDE DEF kept
  <2> QED
    BY <1>1, <2>1, KeepKeeps
<1>4. kept' = kept
  BY <1>2
<1> HIDE DEF kept
<1>5. IdsOf(package') = IdsOf(kept)
  BY <1>2, <1>3, FlatKeeps
<1>6. FlatIsWhole'
  BY <1>4, <1>5 DEF FlatIsWhole, IdsOf, kept
<1> QED
  BY <1>1, <1>2, <1>6
     DEF PackagingInv, ProtectedOutrankOthers, WithinBudget, NoWordWithheld, Tiered

LEMMA TiersShow == PackagingInv /\ BuildTieredInjection => PackagingInv'
<1> SUFFICES ASSUME PackagingInv, BuildTieredInjection PROVE PackagingInv'
  OBVIOUS
<1> DEFINE shown == DeduplicateCompositeMembersHard(selected)
           limit == Greater(0, budget' - evidence')
           force == mode' = "abstract-aware" /\ question.abstract
           T == PreserveQueryTermVisibility(shown, AssignTiers(shown, limit, force), limit)
<1>1. candidates \in Lists /\ selected \in Lists /\ question \in Questions
  BY DEF PackagingInv
<1>2. /\ question' = question /\ candidates' = candidates /\ selected' = selected
      /\ step' = "done" /\ package' = shown
  BY DEF BuildTieredInjection
<1>3. budget' \in Nat /\ evidence' \in Nat
  <2>1. budget' \in Budgets /\ evidence' \in {0, EndpointCost}
    BY DEF BuildTieredInjection
  <2> QED
    BY <2>1, PackagingAssumption
<1>4. tiers' = T
  BY <1>2 DEF BuildTieredInjection
<1>5. shown \in Lists
  <2>1. \E ids : shown = Keep(selected, ids)
    BY DEF DeduplicateCompositeMembersHard
  <2> HIDE DEF shown
  <2> QED
    BY <1>1, <2>1, KeepKeeps
<1> HIDE DEF shown
<1>6. /\ limit \in Nat
      /\ \A sum, plain \in Nat : sum <= Greater(limit, plain) =>
           sum + evidence' <= Greater(budget', plain + evidence')
  <2> DEFINE b == budget'
             e == evidence'
  <2>1. b \in Nat /\ e \in Nat
    BY <1>3
  <2> HIDE DEF b, e
  <2>2. Greater(0, b - e) \in Nat
    BY <2>1 DEF Greater
  <2>3. \A sum, plain \in Nat : sum <= Greater(Greater(0, b - e), plain) =>
          sum + e <= Greater(b, plain + e)
    BY <2>1 DEF Greater
  <2> QED
    BY <2>2, <2>3 DEF b, e
<1>7. force \in BOOLEAN
  BY <1>1, PackagingAssumption
<1> HIDE DEF limit, force
<1>8. Fits(shown, T, limit) /\ Waits(shown, T, limit, Len(shown))
  BY <1>5, <1>6, <1>7, TiersFit
<1> HIDE DEF T
<1>9. WithinBudget'
  <2> DEFINE sum == SumTokens(shown, T)
             plain == SumTokens(shown, Plain(shown))
  <2>1. sum <= Greater(limit, plain) /\ T \in Tierings(shown)
    BY <1>8 DEF Fits
  <2>2. sum \in Nat /\ plain \in Nat
    <3>1. Plain(shown) \in Tierings(shown)
      BY DEF Plain, Tierings, Tiers
    <3> QED
      BY <1>5, <2>1, <3>1, SumIsNat
  <2>3. EstimatedContextTokens' = sum + evidence' /\ Headlines' = plain
    BY <1>2, <1>4 DEF EstimatedContextTokens, Headlines, Plain
  <2> HIDE DEF sum, plain
  <2>4. sum + evidence' <= Greater(budget', plain + evidence')
    BY <1>6, <2>1, <2>2
  <2> QED
    BY <2>3, <2>4 DEF WithinBudget
<1>10. NoWordWithheld'
  <2>1. DOMAIN shown = 1..Len(shown)
    BY <1>5, ListFacts
  <2>2. question' = question
    BY <1>2
  <2> SUFFICES ASSUME NEW i \in DOMAIN shown, NEW tier \in {"L1", "L2"},
                      T[i] = "L0", Fuller(shown[i].id, tier),
                      \A j \in DOMAIN shown : j > i => ~Cheaper(shown[j].id, T[j])
               PROVE  TierCost(shown[i].id, tier) - TierCost(shown[i].id, "L0")
                        > limit - SumTokens(shown, T)
    BY <1>2, <1>4 DEF NoWordWithheld, Withheld, GaveBack, Fuller, Cheaper, Shows, limit
  <2> QED
    BY <1>8, <2>1 DEF Waits
<1>11. FlatIsWhole'
  <2>1. mode' # "flat"
    BY DEF BuildTieredInjection
  <2> QED
    BY <2>1 DEF FlatIsWhole
<1> QED
  BY <1>1, <1>2, <1>9, <1>10, <1>11 DEF PackagingInv, ProtectedOutrankOthers

LEMMA InvStep == PackagingInv /\ [Next]_vars => PackagingInv'
<1> SUFFICES ASSUME PackagingInv, [Next]_vars PROVE PackagingInv'
  OBVIOUS
<1>1. CASE ApplyRepairLoop
  BY <1>1, RepairKeeps
<1>2. CASE ApplyCrossEncoderStage
  BY <1>2, RerankKeeps
<1>3. CASE ApplySubjectRankingStage
  BY <1>3, SubjectKeeps
<1>4. CASE ApplyLiteralProtectionStage
  BY <1>4, LiteralKeeps
<1>5. CASE ApplyTemporalConstraintStage
  BY <1>5, ConstraintKeeps
<1>6. CASE ApplyRankingEligibilityStage
  BY <1>6, EligibilityKeeps
<1>7. CASE SelectWithMmr \/ SelectWithoutMmr
  BY <1>7, SelectKeeps
<1>8. CASE FilterByRelevance
  BY <1>8, RelevanceKeeps
<1>9. CASE BuildFlatInjection
  BY <1>9, FlatShows
<1>10. CASE BuildTieredInjection
  BY <1>10, TiersShow
<1>11. CASE UNCHANGED vars
  <2>1. /\ question' = question /\ candidates' = candidates /\ selected' = selected
        /\ protected' = protected /\ step' = step /\ mode' = mode
        /\ budget' = budget /\ evidence' = evidence
        /\ package' = package /\ tiers' = tiers
    BY <1>11 DEF vars, rankingVars, packagingVars
  <2>2. ProtectedOutrankOthers'
    BY <2>1 DEF PackagingInv, ProtectedOutrankOthers, PrintsIn
  <2>3. WithinBudget'
    BY <2>1 DEF PackagingInv, WithinBudget, Tiered, EstimatedContextTokens, Headlines
  <2>4. NoWordWithheld'
    BY <2>1 DEF PackagingInv, NoWordWithheld, Tiered, Withheld, Shows, GaveBack
  <2>5. FlatIsWhole'
    <3> DEFINE kept == DeduplicateCompositeMembersForFlatQuery(question, selected)
    <3>1. kept' = kept
      BY <2>1
    <3> HIDE DEF kept
    <3>2. step = "done" /\ mode = "flat" => IdsOf(package) = IdsOf(kept)
      BY DEF PackagingInv, FlatIsWhole, kept
    <3>3. (step = "done" /\ mode = "flat" => IdsOf(package) = IdsOf(kept))'
      BY <2>1, <3>1, <3>2 DEF IdsOf
    <3> QED
      BY <3>3 DEF FlatIsWhole, kept
  <2> QED
    BY <2>1, <2>2, <2>3, <2>4, <2>5 DEF PackagingInv
<1> QED
  BY <1>1, <1>2, <1>3, <1>4, <1>5, <1>6, <1>7, <1>8, <1>9, <1>10, <1>11
     DEF Next, NextRanking

-----------------------------------------------------------------------------
(* Every state keeps the invariant, and every pool and every selection is  *)
(* a list of candidates of the search with integer scores: no stage loses  *)
(* the form that the next one reads.                                       *)
THEOREM Invariance == Spec => []PackagingInv
<1>1. Init => PackagingInv
  BY InvStart
<1>2. PackagingInv /\ [Next]_vars => PackagingInv'
  BY InvStep
<1> QED
  BY <1>1, <1>2, PTL DEF Spec

(* Whoever was named, quoted or dated is in the selection, by one row of   *)
(* its print, as long as the selection holds a row nobody protects: for    *)
(* every question, every score and every answer of a reranker              *)
(* (temporal-result-protection.ts).                                        *)
THEOREM ProtectedSafe == Spec => []ProtectedOutrankOthers
<1>1. PackagingInv => ProtectedOutrankOthers
  BY DEF PackagingInv
<1> QED
  BY <1>1, Invariance, PTL

(* Whatever the costs of the tiers, the words of the question and the      *)
(* budget are, the estimate exceeds the budget only by what the headlines  *)
(* and the evidence block cost (tiered-loading.ts,                         *)
(* query-term-visibility.ts).                                              *)
THEOREM WithinBudgetSafe == Spec => []WithinBudget
<1>1. PackagingInv => WithinBudget
  BY DEF PackagingInv
<1> QED
  BY <1>1, Invariance, PTL

(* Whatever the tiers cost and show: what is left of the budget could not  *)
(* have shown a word of the question that a headline hides, unless a row   *)
(* further down gave tokens back (query-term-visibility.ts).               *)
THEOREM NoWordWithheldSafe == Spec => []NoWordWithheld
<1>1. PackagingInv => NoWordWithheld
  BY DEF PackagingInv
<1> QED
  BY <1>1, Invariance, PTL

(* The order of a flat package, by namespaces, dates, sessions and kinds   *)
(* of answers, loses no row that deduplication left and brings none back   *)
(* (retrieval-format.ts, session-packaging.ts).                            *)
THEOREM FlatOrderIsWhole == Spec => []FlatIsWhole
<1>1. PackagingInv => FlatIsWhole
  BY DEF PackagingInv
<1> QED
  BY <1>1, Invariance, PTL
=============================================================================
