------------------------- MODULE ModelAnswersProofs -------------------------
(***************************************************************************)
(* The safety of ModelAnswers, for any calls, texts, configurations, scans *)
(* and answers: embeddings that caches give away are those of the text,    *)
(* task and model that were asked for, the list of first mentions is in    *)
(* the order of the turns, and what is kept of a conversation leads to all *)
(* that was heard of it.                                                   *)
(***************************************************************************)
EXTENDS ModelAnswers, FiniteSetTheorems, SequenceTheorems,
        WellFoundedInduction, TLAPS

-----------------------------------------------------------------------------
(* Induction over the natural numbers, for a set of them.                  *)
LEMMA InSetInduction ==
  ASSUME NEW P, 0 \in P, \A n \in Nat : n \in P => n + 1 \in P
  PROVE  Nat \subseteq P
<1> DEFINE R == OpToRel(<, Nat)
           T == Nat \ P
<1>1. \A x, y \in Nat : <<y, x>> \in R <=> y < x
  BY DEF OpToRel
<1>2. IsWellFoundedOn(R, Nat)
  BY NatLessThanWellFounded
<1> HIDE DEF R
<1>3. SUFFICES ASSUME T # {} PROVE FALSE
  OBVIOUS
<1>4. PICK x \in T : \A y \in T : ~(<<y, x>> \in R)
  BY <1>2, <1>3, WFMin
<1>5. \A y \in T : ~(y < x)
  BY <1>1, <1>4
<1>6. x # 0 /\ x - 1 \in Nat
  BY <1>4
<1>7. x - 1 \in P
  BY <1>5, <1>6
<1>8. (x - 1) + 1 \in P
  BY <1>6, <1>7
<1> QED
  BY <1>4, <1>6, <1>8

(* A loop of n rounds over values in V comes to an end in V.               *)
Loop(h, n, b, step) ==
  h = [i \in 0..n |-> IF i = 0 THEN b ELSE step[<<i, h[i - 1]>>]]

LEMMA LoopExists ==
  ASSUME NEW n \in Nat, NEW V, NEW b \in V, NEW step \in [(1..n) \X V -> V]
  PROVE  \E h \in [0..n -> V] : Loop(h, n, b, step)
<1> DEFINE P == {m \in Nat : m <= n => \E h \in [0..m -> V] : Loop(h, m, b, step)}
<1>1. 0 \in P
  <2> DEFINE h == [i \in 0..0 |-> b]
  <2>1. \A i \in 0..0 : i = 0
    OBVIOUS
  <2>2. h \in [0..0 -> V] /\ Loop(h, 0, b, step)
    BY <2>1 DEF Loop
  <2> QED
    BY <2>2
<1>2. ASSUME NEW m \in Nat, m \in P
      PROVE  m + 1 \in P
  <2>1. SUFFICES ASSUME m + 1 <= n
                 PROVE  \E g \in [0..(m + 1) -> V] : Loop(g, m + 1, b, step)
    OBVIOUS
  <2>2. PICK h \in [0..m -> V] : Loop(h, m, b, step)
    BY <1>2, <2>1
  <2> DEFINE g == [i \in 0..(m + 1) |->
                     IF i = m + 1 THEN step[<<i, h[i - 1]>>] ELSE h[i]]
  <2>3. \A i \in 0..m : h[i] = IF i = 0 THEN b ELSE step[<<i, h[i - 1]>>]
    BY <2>2 DEF Loop
  <2>4. g \in [0..(m + 1) -> V]
    <3> SUFFICES ASSUME NEW i \in 0..(m + 1)
                 PROVE  (IF i = m + 1 THEN step[<<i, h[i - 1]>>] ELSE h[i]) \in V
      OBVIOUS
    <3>1. CASE i = m + 1
      <4>1. i \in 1..n /\ i - 1 \in 0..m
        BY <2>1, <3>1
      <4> QED
        BY <3>1, <4>1
    <3>2. CASE i # m + 1
      BY <3>2
    <3> QED
      BY <3>1, <3>2
  <2>5. ASSUME NEW i \in 0..(m + 1)
        PROVE  g[i] = IF i = 0 THEN b ELSE step[<<i, g[i - 1]>>]
    <3>1. CASE i = 0
      BY <2>3, <3>1
    <3>2. CASE i # 0
      <4>1. i - 1 \in 0..m
        BY <3>2
      <4>2. g[i - 1] = h[i - 1]
        BY <4>1
      <4> QED
        BY <2>3, <3>2, <4>2
    <3> QED
      BY <3>1, <3>2
  <2>6. g = [i \in 0..(m + 1) |-> g[i]]
    OBVIOUS
  <2> HIDE DEF g
  <2>7. Loop(g, m + 1, b, step)
    BY <2>5, <2>6 DEF Loop
  <2> QED
    BY <2>4, <2>7
<1> HIDE DEF P
<1>3. n \in P
  BY <1>1, <1>2, InSetInduction
<1> QED
  BY <1>3 DEF P

LEMMA LoopStays ==
  ASSUME NEW n \in Nat, NEW V, NEW t, t[0] \in V,
         \A i \in 1..n : t[i - 1] \in V => t[i] \in V
  PROVE  t[n] \in V
<1> DEFINE P == {k \in Nat : k <= n => t[k] \in V}
<1>1. 0 \in P
  OBVIOUS
<1>2. ASSUME NEW k \in Nat, k \in P PROVE k + 1 \in P
  <2>1. SUFFICES ASSUME k + 1 <= n PROVE t[k + 1] \in V
    OBVIOUS
  <2>2. t[k] \in V /\ k + 1 \in 1..n /\ (k + 1) - 1 = k
    BY <1>2, <2>1
  <2> QED
    BY <2>2
<1> HIDE DEF P
<1>3. n \in P
  BY <1>1, <1>2, InSetInduction
<1> QED
  BY <1>3 DEF P

-----------------------------------------------------------------------------
(* A loop that carries a value through its rounds is what it computes.     *)
LEMMA OneMore ==
  ASSUME NEW S, NEW v \in Seq(S), NEW x \in S
  PROVE  Append(v, x) \in Seq(S) /\ ToSet(Append(v, x)) = ToSet(v) \cup {x}
<1>1. /\ Append(v, x) \in Seq(S) /\ Len(v) \in Nat /\ DOMAIN v = 1..Len(v)
      /\ DOMAIN Append(v, x) = 1..(Len(v) + 1)
      /\ Append(v, x)[Len(v) + 1] = x
      /\ \A i \in 1..Len(v) : Append(v, x)[i] = v[i]
  OBVIOUS
<1> DEFINE n == Len(v)
           w == Append(v, x)
<1>2. 1..(n + 1) = (1..n) \cup {n + 1}
  BY <1>1
<1> HIDE DEF n, w
<1>3. {w[i] : i \in 1..(n + 1)} = {v[i] : i \in 1..n} \cup {x}
  <2>1. /\ w[n + 1] = x /\ \A i \in 1..n : w[i] = v[i]
    BY <1>1 DEF n, w
  <2> QED
    BY <1>2, <2>1
<1> QED
  BY <1>1, <1>3 DEF n, w, ToSet

(* What is taken of a list is what is at the places.                       *)
LEMMA TakenIsThere ==
  ASSUME NEW S, NEW s \in Seq(S), NEW places
  PROVE  /\ Taken(s, places) \in Seq(S)
         /\ ToSet(Taken(s, places)) = {s[i] : i \in DOMAIN s \cap places}
<1> DEFINE n == Len(s)
           V == Seq(S)
           With(v, i) == IF i \in places THEN Append(v, s[i]) ELSE v
           round == [p \in (1..n) \X V |-> With(p[2], p[1])]
           F(f) == f = [i \in 0..n |-> IF i = 0 THEN <<>>
                                       ELSE With(f[i - 1], i)]
           t == CHOOSE f : F(f)
           Those(i) == {s[k] : k \in (1..i) \cap places}
<1>1. n \in Nat /\ DOMAIN s = 1..n /\ \A i \in 1..n : s[i] \in S
  OBVIOUS
<1>2. Taken(s, places) = t[n]
  BY DEF Taken
<1>3. \A i \in 1..n, v \in V : With(v, i) \in V
  BY <1>1
<1>4. <<>> \in V /\ ToSet(<<>>) = {}
  BY DEF ToSet
<1>5. \A i \in 1..n, v \in V : ToSet(With(v, i)) =
        IF i \in places THEN ToSet(v) \cup {s[i]} ELSE ToSet(v)
  <2> TAKE i \in 1..n, v \in V
  <2>1. s[i] \in S /\ v \in Seq(S)
    BY <1>1
  <2>2. ToSet(Append(v, s[i])) = ToSet(v) \cup {s[i]}
    BY <2>1, OneMore
  <2> HIDE DEF V, n
  <2> QED
    BY <2>2
<1> HIDE DEF n, V
<1>6. round \in [(1..n) \X V -> V]
  <2> HIDE DEF With
  <2> QED
    BY <1>3
<1>7. \A i \in 1..n, v \in V : round[<<i, v>>] = With(v, i)
  OBVIOUS
<1> HIDE DEF With, round
<1>8. PICK h \in [0..n -> V] : Loop(h, n, <<>>, round)
  BY <1>1, <1>4, <1>6, LoopExists
<1>9. F(h)
  <2>1. \A i \in 0..n : h[i] = IF i = 0 THEN <<>> ELSE With(h[i - 1], i)
    <3> SUFFICES ASSUME NEW i \in 0..n, i # 0
                 PROVE  round[<<i, h[i - 1]>>] = With(h[i - 1], i)
      BY <1>8 DEF Loop
    <3>1. i \in 1..n /\ h[i - 1] \in V
      BY <1>1
    <3> QED
      BY <1>7, <3>1
  <2> QED
    BY <2>1
<1>10. F(t)
  BY <1>9
<1> HIDE DEF t
<1>11. t[0] = <<>> /\ \A i \in 1..n : t[i] = With(t[i - 1], i)
  BY <1>1, <1>10
<1> DEFINE P == {k \in Nat : k <= n => t[k] \in V /\ ToSet(t[k]) = Those(k)}
<1>12. 0 \in P
  <2>1. Those(0) = {}
    OBVIOUS
  <2> QED
    BY <1>4, <1>11, <2>1
<1>13. ASSUME NEW k \in Nat, k \in P PROVE k + 1 \in P
  <2>1. SUFFICES ASSUME k + 1 <= n
                 PROVE  t[k + 1] \in V /\ ToSet(t[k + 1]) = Those(k + 1)
    OBVIOUS
  <2>2. /\ t[k] \in V /\ ToSet(t[k]) = Those(k)
        /\ k + 1 \in 1..n /\ (k + 1) - 1 = k
    BY <1>1, <1>13, <2>1
  <2>3. t[k + 1] = With(t[k], k + 1)
    BY <1>11, <2>2
  <2>4. Those(k + 1) = IF k + 1 \in places THEN Those(k) \cup {s[k + 1]}
                       ELSE Those(k)
    <3> DEFINE m == k + 1
    <3>1. 1..m = (1..k) \cup {m}
      OBVIOUS
    <3> HIDE DEF m
    <3>2. Those(m) = IF m \in places THEN Those(k) \cup {s[m]} ELSE Those(k)
      BY <3>1
    <3> QED
      BY <3>2 DEF m
  <2> HIDE DEF Those
  <2> QED
    BY <1>3, <1>5, <2>2, <2>3, <2>4
<1> HIDE DEF P
<1>14. n \in P
  BY <1>1, <1>12, <1>13, InSetInduction
<1>15. t[n] \in V /\ ToSet(t[n]) = Those(n)
  BY <1>1, <1>14 DEF P
<1> QED
  BY <1>1, <1>2, <1>15 DEF V, n

-----------------------------------------------------------------------------
(* The two loops over the cache.                                           *)

(* An entry that is looked up moves, and no other entry comes in.          *)
LEMMA GetKeeps ==
  ASSUME NEW V, NEW entries \in Seq(V), NEW key
  PROVE  GetCachedEmbedding(entries, key) \in Seq(V)
<1>1. CASE Held(entries, key) = {}
  BY <1>1 DEF GetCachedEmbedding
<1>2. CASE Held(entries, key) # {}
  <2> DEFINE i == CHOOSE i \in Held(entries, key) : TRUE
  <2>1. i \in DOMAIN entries
    BY <1>2 DEF Held
  <2> HIDE DEF i
  <2>2. /\ SubSeq(entries, 1, i - 1) \in Seq(V)
        /\ SubSeq(entries, i + 1, Len(entries)) \in Seq(V)
    BY <2>1, SubSeqProperties
  <2>3. RemoveAt(entries, i) \in Seq(V)
    BY <2>2 DEF RemoveAt
  <2>4. Append(RemoveAt(entries, i), entries[i]) \in Seq(V)
    BY <2>1, <2>3
  <2> QED
    BY <1>2, <2>4 DEF GetCachedEmbedding, i
<1> QED
  BY <1>1, <1>2

(* Only the entry that is set comes in.                                    *)
LEMMA SetKeeps ==
  ASSUME NEW V, NEW entries \in Seq(V), NEW key, NEW vector,
         [key |-> key, vector |-> vector] \in V
  PROVE  SetCachedEmbedding(entries, key, vector) \in Seq(V)
<1> DEFINE room == IF Len(entries) >= CacheMax THEN Tail(entries) ELSE entries
           new  == [key |-> key, vector |-> vector]
<1>1. room \in Seq(V)
  <2>1. CASE entries = <<>>
    BY <2>1, BoundsAssumption
  <2>2. CASE entries # <<>>
    BY <2>2
  <2> QED
    BY <2>1, <2>2
<1>2. new \in V
  OBVIOUS
<1>3. SetCachedEmbedding(entries, key, vector) =
        IF Held(room, key) = {} THEN Append(room, new)
        ELSE [i \in DOMAIN room |-> IF room[i].key = key THEN new ELSE room[i]]
  BY DEF SetCachedEmbedding
<1> HIDE DEF room, new
<1>4. [i \in DOMAIN room |-> IF room[i].key = key THEN new ELSE room[i]] \in Seq(V)
  <2>1. Len(room) \in Nat /\ DOMAIN room = 1..Len(room)
    BY <1>1
  <2>2. \A i \in 1..Len(room) : (IF room[i].key = key THEN new ELSE room[i]) \in V
    BY <1>1, <1>2
  <2> DEFINE T(i) == IF room[i].key = key THEN new ELSE room[i]
  <2> HIDE DEF T
  <2>3. \A i \in 1..Len(room) : T(i) \in V
    BY <2>2 DEF T
  <2>4. [i \in 1..Len(room) |-> T(i)] \in Seq(V)
    BY <2>1, <2>3, IsASeq
  <2> QED
    BY <2>1, <2>4 DEF T
<1> QED
  BY <1>1, <1>2, <1>3, <1>4

(* A batch that touches what is cached brings nothing in.                  *)
LEMMA TouchKeeps ==
  ASSUME NEW c \in Calls, NEW V, cache \in Seq(V)
  PROVE  TouchCached(c) \in Seq(V)
<1> DEFINE n == Len(Call[c].texts)
           W == Seq(V)
           step == [p \in (1..n) \X W |-> GetCachedEmbedding(p[2], Keys(c)[p[1]])]
           F(f) == f = [i \in 0..n |-> IF i = 0 THEN cache
                                       ELSE GetCachedEmbedding(f[i - 1], Keys(c)[i])]
           t == CHOOSE f : F(f)
<1>1. n \in Nat
  BY CallsAssumption
<1>2. \A i \in 1..n, w \in W : GetCachedEmbedding(w, Keys(c)[i]) \in W
  BY GetKeeps
<1>3. TouchCached(c) = t[n]
  BY DEF TouchCached
<1> HIDE DEF n, W
<1>4. step \in [(1..n) \X W -> W]
  BY <1>2
<1>5. cache \in W
  BY DEF W
<1>6. \A i \in 1..n, w \in W : step[<<i, w>>] = GetCachedEmbedding(w, Keys(c)[i])
  OBVIOUS
<1> HIDE DEF step
<1>7. PICK h \in [0..n -> W] : Loop(h, n, cache, step)
  BY <1>1, <1>4, <1>5, LoopExists
<1>8. F(h)
  <2>1. \A i \in 0..n : h[i] = IF i = 0 THEN cache
                               ELSE GetCachedEmbedding(h[i - 1], Keys(c)[i])
    <3> SUFFICES ASSUME NEW i \in 0..n, i # 0
                 PROVE  step[<<i, h[i - 1]>>] = GetCachedEmbedding(h[i - 1], Keys(c)[i])
      BY <1>7 DEF Loop
    <3>1. i \in 1..n /\ h[i - 1] \in W
      BY <1>1
    <3> QED
      BY <1>6, <3>1
  <2> QED
    BY <2>1
<1>9. F(t)
  BY <1>8
<1> HIDE DEF t
<1>10. t[n] \in W
  <2>1. t[0] = cache
    BY <1>1, <1>9
  <2>2. ASSUME NEW i \in 1..n, t[i - 1] \in W PROVE t[i] \in W
    <3>1. i \in 0..n /\ i # 0
      BY <1>1
    <3>2. t[i] = GetCachedEmbedding(t[i - 1], Keys(c)[i])
      BY <1>9, <3>1
    <3> QED
      BY <1>2, <2>2, <3>2
  <2> QED
    BY <1>1, <1>5, <2>1, <2>2, LoopStays
<1> QED
  BY <1>3, <1>10 DEF W

(* What is asked for is all that is missing.                               *)
LEMMA UncachedAre ==
  ASSUME NEW c \in Calls, DOMAIN call[c].found = DOMAIN Call[c].texts
  PROVE  /\ UncachedIndices(c) \in Seq(DOMAIN Call[c].texts)
         /\ \A j \in DOMAIN UncachedIndices(c) :
              UncachedIndices(c)[j] \in Missing(c)
         /\ \A i \in Missing(c) :
              \E j \in DOMAIN UncachedIndices(c) : UncachedIndices(c)[j] = i
<1> DEFINE n == Len(Call[c].texts)
           s == [i \in DOMAIN call[c].found |-> i]
           u == UncachedIndices(c)
<1>1. n \in Nat /\ DOMAIN Call[c].texts = 1..n
  BY CallsAssumption
<1>2. u = Taken(s, Missing(c))
  BY DEF UncachedIndices
<1>3. Missing(c) \subseteq 1..n
  BY <1>1 DEF Missing
<1>4. s \in Seq(1..n) /\ DOMAIN s = 1..n /\ \A i \in 1..n : s[i] = i
  BY <1>1
<1> HIDE DEF s, u, n
<1>5. /\ u \in Seq(1..n)
      /\ ToSet(u) = {s[i] : i \in DOMAIN s \cap Missing(c)}
  <2> DEFINE S == 1..n
             P == Missing(c)
  <2>1. s \in Seq(S)
    BY <1>4
  <2> HIDE DEF S, P
  <2>2. /\ Taken(s, P) \in Seq(S)
        /\ ToSet(Taken(s, P)) = {s[i] : i \in DOMAIN s \cap P}
    BY <2>1, TakenIsThere
  <2> QED
    BY <1>2, <2>2 DEF S, P
<1>6. ToSet(u) = Missing(c)
  BY <1>3, <1>4, <1>5
<1>7. ToSet(u) = {u[j] : j \in DOMAIN u}
  BY DEF ToSet
<1>8. \A j \in DOMAIN u : u[j] \in Missing(c)
  BY <1>6, <1>7
<1>9. \A i \in Missing(c) : \E j \in DOMAIN u : u[j] = i
  BY <1>6, <1>7
<1> QED
  BY <1>1, <1>5, <1>8, <1>9 DEF u

(* A batch caches what it has asked for and nothing else.                  *)
LEMMA CacheKeeps ==
  ASSUME NEW c \in Calls, NEW V, cache \in Seq(V),
         NEW S, UncachedIndices(c) \in Seq(S),
         \A j \in DOMAIN UncachedIndices(c) :
           [key |-> Keys(c)[UncachedIndices(c)[j]],
            vector |-> FreshEmbeddings(c)[j]] \in V
  PROVE  CacheMissing(c) \in Seq(V)
<1> DEFINE places == UncachedIndices(c)
           n == Len(places)
           W == Seq(V)
           Set(j, w) == SetCachedEmbedding(w, Keys(c)[places[j]],
                                           FreshEmbeddings(c)[j])
           step == [p \in (1..n) \X W |-> Set(p[1], p[2])]
           F(f) == f = [j \in 0..n |-> IF j = 0 THEN cache
                                       ELSE Set(j, f[j - 1])]
           t == CHOOSE f : F(f)
<1>1. n \in Nat /\ DOMAIN places = 1..n
  OBVIOUS
<1>2. \A j \in 1..n, w \in W : Set(j, w) \in W
  BY <1>1, SetKeeps
<1>3. CacheMissing(c) = t[n]
  BY DEF CacheMissing
<1> HIDE DEF n, W, Set, places
<1>4. step \in [(1..n) \X W -> W]
  BY <1>2
<1>5. cache \in W
  BY DEF W
<1>6. \A j \in 1..n, w \in W : step[<<j, w>>] = Set(j, w)
  OBVIOUS
<1> HIDE DEF step
<1>7. PICK h \in [0..n -> W] : Loop(h, n, cache, step)
  BY <1>1, <1>4, <1>5, LoopExists
<1>8. F(h)
  <2>1. \A j \in 0..n : h[j] = IF j = 0 THEN cache ELSE Set(j, h[j - 1])
    <3> SUFFICES ASSUME NEW j \in 0..n, j # 0
                 PROVE  step[<<j, h[j - 1]>>] = Set(j, h[j - 1])
      BY <1>7 DEF Loop
    <3>1. j \in 1..n /\ h[j - 1] \in W
      BY <1>1
    <3> QED
      BY <1>6, <3>1
  <2> QED
    BY <2>1
<1>9. F(t)
  BY <1>8
<1> HIDE DEF t
<1>10. t[n] \in W
  <2>1. t[0] = cache
    BY <1>1, <1>9
  <2>2. ASSUME NEW j \in 1..n, t[j - 1] \in W PROVE t[j] \in W
    <3>1. j \in 0..n /\ j # 0
      BY <1>1
    <3>2. t[j] = Set(j, t[j - 1])
      BY <1>9, <3>1
    <3> QED
      BY <1>2, <2>2, <3>2
  <2> QED
    BY <1>1, <1>5, <2>1, <2>2, LoopStays
<1> QED
  BY <1>3, <1>10 DEF W

-----------------------------------------------------------------------------
(* What is cached belongs to its key.                                      *)

Tasks == {Call[c].task : c \in Calls}
Texts == UNION {Range(Call[c].texts) : c \in Calls}
Entry(s, t, x) ==
  [key |-> <<s.provider, s.model, t, x>>, vector |-> Vector(s, t, x)]
Entries(s) == {Entry(s, t, x) : t \in Tasks, x \in Texts}

(* What a call gets for its i-th text under configuration s.               *)
Right(s, c, i) == Vector(s, Call[c].task, Call[c].texts[i])
Vectors == {Vector(s, t, x) : s \in Setups, t \in Tasks, x \in Texts}

(* In memory there are vectors of the present configuration only, on disk  *)
(* of any; a call that waits has what was cached, and the rest to come.    *)
CachesInv ==
  /\ setup \in Setups
  /\ cache \in Seq(Entries(setup))
  /\ \A e \in disk : \E s \in Setups : e \in Entries(s)

CallType ==
  call \in [Calls -> [pc : {"none", "new", "asking", "answered", "failed", "lost"},
                     under : Setups, found : Seq({None} \cup Vectors),
                     tries : Nat]]

CallInv(c) ==
  /\ call[c].pc = "asking" =>
       /\ call[c].under = setup
       /\ DOMAIN call[c].found = DOMAIN Call[c].texts
       /\ \A i \in DOMAIN Call[c].texts :
            call[c].found[i] \in {None, Right(setup, c, i)}
  /\ call[c].pc = "answered" =>
       call[c].found =
         [i \in DOMAIN Call[c].texts |-> Right(call[c].under, c, i)]

EmbedInv == CachesInv /\ CallType /\ \A c \in Calls : CallInv(c)

LEMMA TextFacts ==
  ASSUME NEW c \in Calls
  PROVE  /\ Len(Call[c].texts) \in Nat
         /\ DOMAIN Call[c].texts = 1..Len(Call[c].texts)
         /\ Call[c].task \in Tasks
         /\ \A i \in DOMAIN Call[c].texts : Call[c].texts[i] \in Texts
<1>1. Call[c].texts \in Seq(Range(Call[c].texts))
  BY CallsAssumption
<1>2. \A i \in DOMAIN Call[c].texts : Call[c].texts[i] \in Range(Call[c].texts)
  BY DEF Range
<1> QED
  BY <1>1, <1>2 DEF Tasks, Texts

(* The key says all that the vector depends on.                            *)
LEMMA KeyDecides ==
  ASSUME NEW c \in Calls, NEW i \in DOMAIN Call[c].texts, setup \in Setups,
         NEW s \in Setups, NEW e \in Entries(s), e.key = Keys(c)[i]
  PROVE  /\ e.vector = Right(setup, c, i)
         /\ e \in Entries(setup)
<1>1. PICK t \in Tasks, x \in Texts : e = Entry(s, t, x)
  BY DEF Entries
<1>2. /\ e.key = <<s.provider, s.model, t, x>>
      /\ e.vector = Vector(s, t, x)
  BY <1>1 DEF Entry
<1>3. Keys(c)[i] = <<setup.provider, setup.model, Call[c].task, Call[c].texts[i]>>
  BY DEF Keys, EmbeddingCacheKey
<1>4. /\ s.provider = setup.provider /\ s.model = setup.model
      /\ t = Call[c].task /\ x = Call[c].texts[i]
  <2>1. <<s.provider, s.model, t, x>> =
          <<setup.provider, setup.model, Call[c].task, Call[c].texts[i]>>
    BY <1>2, <1>3, Zenon
  <2> QED
    BY <2>1, Zenon
<1>5. s.byTask = setup.byTask
  BY <1>4, SetupsAssumption
<1>6. Vector(s, t, x) = Right(setup, c, i)
  BY <1>4, <1>5 DEF Vector, Right
<1>7. Entry(s, t, x) = Entry(setup, t, x)
  BY <1>4, <1>5 DEF Entry, Vector
<1> QED
  BY <1>1, <1>2, <1>6, <1>7 DEF Entries

(* The answer to a text, under its key, is an entry of its configuration.  *)
LEMMA RightIsEntry ==
  ASSUME NEW c \in Calls, NEW i \in DOMAIN Call[c].texts, setup \in Setups
  PROVE  /\ [key |-> Keys(c)[i], vector |-> Right(setup, c, i)] \in Entries(setup)
         /\ Right(setup, c, i) \in Vectors
<1>1. Call[c].task \in Tasks /\ Call[c].texts[i] \in Texts
  BY TextFacts
<1>2. [key |-> Keys(c)[i], vector |-> Right(setup, c, i)]
        = Entry(setup, Call[c].task, Call[c].texts[i])
  BY DEF Keys, EmbeddingCacheKey, Right, Entry
<1>3. Right(setup, c, i) \in Vectors
  BY <1>1 DEF Right, Vectors
<1> QED
  BY <1>1, <1>2, <1>3 DEF Entries

(* What the cache in memory gives to a call.                               *)
LEMMA FoundIsRight ==
  ASSUME CachesInv, NEW c \in Calls
  PROVE  /\ Found(c) \in Seq({None} \cup Vectors)
         /\ DOMAIN Found(c) = DOMAIN Call[c].texts
         /\ \A i \in DOMAIN Call[c].texts :
              Found(c)[i] \in {None, Right(setup, c, i)}
<1>1. DOMAIN Keys(c) = DOMAIN Call[c].texts
  BY DEF Keys
<1>2. DOMAIN Found(c) = DOMAIN Call[c].texts
  BY <1>1 DEF Found
<1>3. ASSUME NEW i \in DOMAIN Call[c].texts
      PROVE  Found(c)[i] \in {None, Right(setup, c, i)}
  <2>1. Found(c)[i] = IF Held(cache, Keys(c)[i]) = {} THEN None
                      ELSE At(cache, Keys(c)[i]).vector
    BY <1>1 DEF Found
  <2>2. SUFFICES ASSUME Held(cache, Keys(c)[i]) # {}
                 PROVE  At(cache, Keys(c)[i]).vector = Right(setup, c, i)
    BY <2>1
  <2> DEFINE e == At(cache, Keys(c)[i])
             j == CHOOSE j \in Held(cache, Keys(c)[i]) : TRUE
  <2>3. j \in Held(cache, Keys(c)[i]) /\ e = cache[j]
    BY <2>2 DEF At
  <2>4. e \in Entries(setup) /\ e.key = Keys(c)[i]
    BY <2>3 DEF Held, CachesInv
  <2> QED
    BY <2>4, KeyDecides DEF CachesInv
<1>4. \A i \in DOMAIN Call[c].texts : Right(setup, c, i) \in Vectors
  BY RightIsEntry DEF CachesInv
<1>5. \A i \in 1..Len(Call[c].texts) : Found(c)[i] \in {None} \cup Vectors
  BY <1>3, <1>4, TextFacts
<1>6. Found(c) = [i \in 1..Len(Call[c].texts) |-> Found(c)[i]]
  BY <1>1, TextFacts DEF Found
<1>7. Found(c) \in Seq({None} \cup Vectors)
  <2> DEFINE T(i) == Found(c)[i]
  <2>1. \A i \in 1..Len(Call[c].texts) : T(i) \in {None} \cup Vectors
    BY <1>5
  <2> HIDE DEF T
  <2>2. [i \in 1..Len(Call[c].texts) |-> T(i)] \in Seq({None} \cup Vectors)
    BY <2>1, IsASeq, TextFacts
  <2> QED
    BY <1>6, <2>2 DEF T
<1> QED
  BY <1>2, <1>3, <1>7

-----------------------------------------------------------------------------
(* Every step keeps it.                                                    *)

LEMMA InitEmbed == Init => EmbedInv
<1> SUFFICES ASSUME NEW met \in Meetings, InitModels(met.calls) PROVE EmbedInv
  BY DEF Init
<1>1. CachesInv
  <2>1. <<>> \in Seq(Entries(setup))
    OBVIOUS
  <2> QED
    BY <2>1 DEF InitModels, CachesInv
<1>2. CallType
  <2>1. <<>> \in Seq({None} \cup Vectors) /\ 0 \in Nat
    OBVIOUS
  <2> QED
    BY <2>1 DEF InitModels, CallType
<1>3. \A c \in Calls : CallInv(c)
  BY DEF InitModels, CallInv
<1> QED
  BY <1>1, <1>2, <1>3 DEF EmbedInv

(* One call changes, the configuration does not.                           *)
LEMMA OthersStay ==
  ASSUME EmbedInv, NEW c \in Calls, UNCHANGED setup, CallType',
         \A d \in Calls \ {c} : call'[d] = call[d]
  PROVE  \A d \in Calls \ {c} : CallInv(d)'
BY DEF EmbedInv, CallInv

(* A call that is answered with what belongs to its texts.                 *)
LEMMA AnswerIsRight ==
  ASSUME EmbedInv, NEW c \in Calls, NEW found, UNCHANGED setup,
         found \in Seq({None} \cup Vectors),
         DOMAIN found = DOMAIN Call[c].texts,
         \A i \in DOMAIN Call[c].texts : found[i] = Right(setup, c, i),
         Answer(c, found)
  PROVE  CallType' /\ \A d \in Calls : CallInv(d)'
<1>1. setup \in Setups /\ CallType
  BY DEF EmbedInv, CachesInv
<1>2. CallType'
  BY <1>1 DEF CallType, Answer
<1>3. \A d \in Calls \ {c} : call'[d] = call[d]
  BY <1>1 DEF CallType, Answer
<1>4. /\ call'[c].pc = "answered" /\ call'[c].under = setup
      /\ call'[c].found = found
  BY <1>1 DEF CallType, Answer
<1>5. found = [i \in DOMAIN Call[c].texts |-> Right(setup, c, i)]
  <2>1. found = [i \in DOMAIN found |-> found[i]]
    OBVIOUS
  <2> QED
    BY <2>1
<1>6. CallInv(c)'
  BY <1>4, <1>5 DEF CallInv, Right
<1> QED
  BY <1>2, <1>3, <1>6, OthersStay

(* A call that fails, or tries again.                                      *)
LEMMA FailureIsSafe ==
  ASSUME EmbedInv, NEW c \in Calls, NEW pc \in {"asking", "failed"},
         NEW tries \in Nat, UNCHANGED setup, call[c].pc = "asking",
         call' = [call EXCEPT ![c].pc = pc, ![c].tries = tries]
  PROVE  CallType' /\ \A d \in Calls : CallInv(d)'
<1>1. CallType /\ CallInv(c)
  BY DEF EmbedInv
<1>2. CallType'
  BY <1>1 DEF CallType
<1>3. \A d \in Calls \ {c} : call'[d] = call[d]
  BY <1>1 DEF CallType
<1>4. /\ call'[c].pc = pc /\ call'[c].under = call[c].under
      /\ call'[c].found = call[c].found
  BY <1>1 DEF CallType
<1>5. CallInv(c)'
  BY <1>1, <1>4 DEF CallInv
<1> QED
  BY <1>2, <1>3, <1>5, OthersStay

LEMMA StartEmbedSafe ==
  ASSUME EmbedInv, NEW c \in Calls, StartEmbed(c)
  PROVE  EmbedInv'
<1> DEFINE found == Found(c)
           hits == TouchCached(c)
           kept == {e \in disk : /\ setup.disk /\ Call[c].kind = "single"
                                 /\ e.key = Keys(c)[1]}
<1>1. CachesInv /\ CallType /\ CallInv(c) /\ UNCHANGED <<setup, disk>>
  BY DEF StartEmbed, EmbedInv
<1>2. hits \in Seq(Entries(setup))
  BY <1>1, TouchKeeps DEF CachesInv
<1>3. /\ found \in Seq({None} \cup Vectors)
      /\ DOMAIN found = DOMAIN Call[c].texts
      /\ \A i \in DOMAIN Call[c].texts : found[i] \in {None, Right(setup, c, i)}
  BY <1>1, FoundIsRight
<1>4. IF \A i \in DOMAIN found : found[i] # None
      THEN cache' = hits /\ Answer(c, found)
      ELSE IF kept # {}
      THEN \E e \in kept : /\ cache' = SetCachedEmbedding(hits, e.key, e.vector)
                           /\ Answer(c, <<e.vector>>)
      ELSE /\ cache' \in {<<>>, hits}
           /\ call' = [call EXCEPT ![c].pc = "asking", ![c].under = setup,
                                   ![c].found = found]
  BY DEF StartEmbed
<1> HIDE DEF found, hits
<1>5. CASE \A i \in DOMAIN found : found[i] # None
  <2>1. cache' = hits /\ Answer(c, found)
    BY <1>4, <1>5
  <2>2. \A i \in DOMAIN Call[c].texts : found[i] = Right(setup, c, i)
    BY <1>3, <1>5
  <2>3. CachesInv'
    BY <1>1, <1>2, <2>1 DEF CachesInv
  <2> QED
    BY <1>1, <1>3, <2>1, <2>2, <2>3, AnswerIsRight DEF EmbedInv
<1>6. CASE ~(\A i \in DOMAIN found : found[i] # None) /\ kept # {}
  <2>1. PICK e \in kept : /\ cache' = SetCachedEmbedding(hits, e.key, e.vector)
                          /\ Answer(c, <<e.vector>>)
    BY <1>4, <1>6
  <2>2. PICK s \in Setups : e \in Entries(s)
    BY <1>1 DEF CachesInv
  <2>3. DOMAIN Call[c].texts = {1} /\ e.key = Keys(c)[1]
    <3>1. Len(Call[c].texts) = 1
      BY CallsAssumption
    <3>2. 1..1 = {1}
      OBVIOUS
    <3> QED
      BY <3>1, <3>2, TextFacts
  <2>4. e.vector = Right(setup, c, 1) /\ e \in Entries(setup)
    BY <1>1, <2>2, <2>3, KeyDecides DEF CachesInv
  <2>5. e = [key |-> e.key, vector |-> e.vector]
    BY <2>4 DEF Entries, Entry
  <2>6. cache' \in Seq(Entries(setup))
    BY <1>2, <2>1, <2>4, <2>5, SetKeeps
  <2>7. CachesInv'
    BY <1>1, <2>6 DEF CachesInv
  <2>8. e.vector \in Vectors
    BY <1>1, <2>3, <2>4, RightIsEntry DEF CachesInv
  <2>9. /\ <<e.vector>> \in Seq({None} \cup Vectors)
        /\ DOMAIN <<e.vector>> = {1}
        /\ <<e.vector>>[1] = Right(setup, c, 1)
    BY <2>4, <2>8
  <2> QED
    BY <1>1, <2>1, <2>3, <2>7, <2>9, AnswerIsRight DEF EmbedInv
<1>7. CASE ~(\A i \in DOMAIN found : found[i] # None) /\ kept = {}
  <2>1. /\ cache' \in {<<>>, hits}
        /\ call' = [call EXCEPT ![c].pc = "asking", ![c].under = setup,
                                ![c].found = found]
    BY <1>4, <1>7
  <2>2. CachesInv'
    <3>1. <<>> \in Seq(Entries(setup))
      OBVIOUS
    <3> QED
      BY <1>1, <1>2, <2>1, <3>1 DEF CachesInv
  <2>3. setup \in Setups
    BY <1>1 DEF CachesInv
  <2>4. CallType'
    BY <1>1, <1>3, <2>1, <2>3 DEF CallType
  <2>5. \A d \in Calls \ {c} : call'[d] = call[d]
    BY <1>1, <2>1 DEF CallType
  <2>6. /\ call'[c].pc = "asking" /\ call'[c].under = setup
        /\ call'[c].found = found
    BY <1>1, <2>1 DEF CallType
  <2>7. CallInv(c)'
    BY <1>1, <1>3, <2>6 DEF CallInv, Right
  <2> QED
    BY <1>1, <2>2, <2>4, <2>5, <2>7, OthersStay DEF EmbedInv
<1> QED
  BY <1>5, <1>6, <1>7

LEMMA AnswerEmbedSafe ==
  ASSUME EmbedInv, NEW c \in Calls, AnswerEmbed(c)
  PROVE  EmbedInv'
<1> DEFINE vectors == Results(c)
           entry == [key |-> Keys(c)[1], vector |-> vectors[1]]
<1>1. CachesInv /\ CallType /\ CallInv(c) /\ UNCHANGED setup /\ call[c].pc = "asking"
  BY DEF AnswerEmbed, Turn, EmbedInv
<1>2. /\ cache' = CacheMissing(c)
      /\ disk' = IF setup.disk /\ Call[c].kind = "single"
                 THEN {e \in disk : e.key # entry.key} \cup {entry} ELSE disk
      /\ Answer(c, vectors)
  BY DEF AnswerEmbed
<1>3. /\ DOMAIN call[c].found = DOMAIN Call[c].texts
      /\ \A i \in DOMAIN Call[c].texts :
           call[c].found[i] \in {None, Right(setup, c, i)}
  BY <1>1 DEF CallInv
<1>a. /\ UncachedIndices(c) \in Seq(DOMAIN Call[c].texts)
      /\ \A j \in DOMAIN UncachedIndices(c) :
           UncachedIndices(c)[j] \in Missing(c)
      /\ \A i \in Missing(c) :
           \E j \in DOMAIN UncachedIndices(c) : UncachedIndices(c)[j] = i
  BY <1>3, UncachedAre
<1>b. \A j \in DOMAIN UncachedIndices(c) :
        /\ UncachedIndices(c)[j] \in DOMAIN Call[c].texts
        /\ FreshEmbeddings(c)[j] = Right(setup, c, UncachedIndices(c)[j])
  BY <1>a DEF FreshEmbeddings, Right
<1>4. /\ DOMAIN vectors = DOMAIN Call[c].texts
      /\ \A i \in DOMAIN Call[c].texts : vectors[i] = Right(setup, c, i)
  <2>1. DOMAIN vectors = DOMAIN Call[c].texts
    BY <1>3 DEF Results
  <2>2. ASSUME NEW i \in DOMAIN Call[c].texts, i \in Missing(c)
        PROVE  vectors[i] = Right(setup, c, i)
    <3> DEFINE j == CHOOSE j \in DOMAIN UncachedIndices(c) :
                      UncachedIndices(c)[j] = i
    <3>1. j \in DOMAIN UncachedIndices(c) /\ UncachedIndices(c)[j] = i
      BY <1>a, <2>2
    <3>2. vectors[i] = FreshEmbeddings(c)[j]
      BY <1>3, <2>2 DEF Results
    <3> QED
      BY <1>b, <3>1, <3>2
  <2>3. ASSUME NEW i \in DOMAIN Call[c].texts, i \notin Missing(c)
        PROVE  vectors[i] = Right(setup, c, i)
    <3>1. vectors[i] = call[c].found[i] /\ call[c].found[i] # None
      BY <1>3, <2>3 DEF Results, Missing
    <3> QED
      BY <1>3, <3>1
  <2> QED
    BY <2>1, <2>2, <2>3
<1>5. vectors = [i \in DOMAIN Call[c].texts |-> vectors[i]]
  BY <1>3 DEF Results
<1> HIDE DEF vectors
<1>6. \A i \in DOMAIN Call[c].texts :
        /\ [key |-> Keys(c)[i], vector |-> vectors[i]] \in Entries(setup)
        /\ vectors[i] \in Vectors
  BY <1>1, <1>4, RightIsEntry DEF CachesInv
<1>7. vectors \in Seq({None} \cup Vectors)
  <2>1. \A i \in 1..Len(Call[c].texts) : vectors[i] \in {None} \cup Vectors
    BY <1>6, TextFacts
  <2> DEFINE T(i) == vectors[i]
  <2>2. \A i \in 1..Len(Call[c].texts) : T(i) \in {None} \cup Vectors
    BY <2>1
  <2>3. vectors = [i \in 1..Len(Call[c].texts) |-> T(i)]
    BY <1>5, TextFacts
  <2> HIDE DEF T
  <2>4. [i \in 1..Len(Call[c].texts) |-> T(i)] \in Seq({None} \cup Vectors)
    BY <2>2, IsASeq, TextFacts
  <2> QED
    BY <2>3, <2>4
<1>8. cache' \in Seq(Entries(setup))
  <2>1. \A j \in DOMAIN UncachedIndices(c) :
          [key |-> Keys(c)[UncachedIndices(c)[j]],
           vector |-> FreshEmbeddings(c)[j]] \in Entries(setup)
    BY <1>1, <1>b, RightIsEntry DEF CachesInv
  <2> QED
    BY <1>1, <1>2, <1>a, <2>1, CacheKeeps DEF CachesInv
<1>9. \A e \in disk' : \E s \in Setups : e \in Entries(s)
  <2>1. CASE setup.disk /\ Call[c].kind = "single"
    <3>1. Len(Call[c].texts) = 1
      BY <2>1, CallsAssumption
    <3>2. 1 \in DOMAIN Call[c].texts
      BY <3>1, TextFacts
    <3>3. entry \in Entries(setup)
      BY <1>6, <3>2
    <3> HIDE DEF entry
    <3> QED
      BY <1>1, <1>2, <2>1, <3>3 DEF CachesInv
  <2>2. CASE ~(setup.disk /\ Call[c].kind = "single")
    BY <1>1, <1>2, <2>2 DEF CachesInv
  <2> QED
    BY <2>1, <2>2
<1>10. CachesInv'
  BY <1>1, <1>8, <1>9 DEF CachesInv
<1> QED
  BY <1>1, <1>2, <1>4, <1>7, <1>10, AnswerIsRight DEF EmbedInv

LEMMA FailuresSafe ==
  ASSUME EmbedInv, NEW c \in Calls, RateLimitEmbed(c) \/ FailEmbed(c)
  PROVE  EmbedInv'
<1>1. CallType /\ call[c].pc = "asking" /\ UNCHANGED <<setup, cache, disk>>
  BY DEF RateLimitEmbed, FailEmbed, Turn, EmbedInv
<1>2. call[c].tries \in Nat
  BY <1>1 DEF CallType
<1>3. \E pc \in {"asking", "failed"}, tries \in Nat :
        call' = [call EXCEPT ![c].pc = pc, ![c].tries = tries]
  <2>1. CASE RateLimitEmbed(c)
    <3> DEFINE pc == IF call[c].tries + 1 = MaxRetries THEN "failed" ELSE "asking"
    <3>1. call' = [call EXCEPT ![c].tries = @ + 1, ![c].pc = pc]
      BY <2>1 DEF RateLimitEmbed
    <3>2. call' = [call EXCEPT ![c].pc = pc, ![c].tries = call[c].tries + 1]
      BY <1>1, <3>1 DEF CallType
    <3>3. pc \in {"asking", "failed"} /\ call[c].tries + 1 \in Nat
      BY <1>2
    <3> QED
      BY <3>2, <3>3
  <2>2. CASE FailEmbed(c)
    <3>1. call' = [call EXCEPT ![c].pc = "failed"]
      BY <2>2 DEF FailEmbed
    <3>2. call' = [call EXCEPT ![c].pc = "failed", ![c].tries = call[c].tries]
      BY <1>1, <3>1 DEF CallType
    <3> QED
      BY <1>2, <3>2
  <2> QED
    BY <2>1, <2>2
<1>4. CallType' /\ \A d \in Calls : CallInv(d)'
  BY <1>1, <1>3, FailureIsSafe
<1>5. CachesInv'
  BY <1>1 DEF EmbedInv, CachesInv
<1> QED
  BY <1>4, <1>5 DEF EmbedInv

(* What a process had in memory does not outlive it.                       *)
LEMMA RestartSafe ==
  ASSUME EmbedInv, RestartProcess
  PROVE  EmbedInv'
<1>1. CachesInv /\ CallType
  BY DEF EmbedInv
<1>2. CachesInv'
  <2>1. setup' \in Setups /\ cache' = <<>> /\ disk' = disk
    BY DEF RestartProcess
  <2>2. <<>> \in Seq(Entries(setup'))
    OBVIOUS
  <2> QED
    BY <1>1, <2>1, <2>2 DEF CachesInv
<1>3. \A c \in Calls : call'[c] = IF call[c].pc = "asking"
                                 THEN [call[c] EXCEPT !.pc = "lost"] ELSE call[c]
  BY DEF RestartProcess
<1>4. CallType'
  <2>1. call' = [c \in Calls |-> call'[c]]
    BY DEF RestartProcess
  <2> QED
    BY <1>1, <1>3, <2>1 DEF CallType
<1>5. ASSUME NEW c \in Calls
      PROVE  CallInv(c)'
  <2>1. CallInv(c)
    BY DEF EmbedInv
  <2>2. CASE call[c].pc = "asking"
    <3>1. call'[c].pc = "lost"
      BY <1>1, <1>3, <2>2 DEF CallType
    <3> QED
      BY <3>1 DEF CallInv
  <2>3. CASE call[c].pc # "asking"
    <3>1. call'[c] = call[c]
      BY <1>3, <2>3
    <3> QED
      BY <2>1, <2>3, <3>1 DEF CallInv, Right
  <2> QED
    BY <2>2, <2>3
<1> QED
  BY <1>2, <1>4, <1>5 DEF EmbedInv

LEMMA EmbedStaysPut ==
  ASSUME EmbedInv, UNCHANGED <<setup, cache, disk, call>>
  PROVE  EmbedInv'
BY DEF EmbedInv, CachesInv, CallType, CallInv

(* Extractions and scans chat, and leave embeddings alone.                 *)
LEMMA ChatsLeaveEmbeddings ==
  NextExtraction \/ NextMentions => UNCHANGED embedVars
<1>1. ASSUME NEW x \in Extractions,
             \/ StartExtraction(x) \/ ReadCache(x) \/ AskModel(x)
             \/ CachedExtractFacts(x) \/ ChunkedFallback(x)
             \/ ConsensusExtractFacts(x) \/ FailExtraction(x)
      PROVE  UNCHANGED embedVars
  BY <1>1 DEF StartExtraction, ReadCache, AskModel, CachedExtractFacts,
     ChunkedFallback, ConsensusExtractFacts, FailExtraction, Chat, modelVars, embedVars
<1>2. ASSUME NEW s \in Scans,
             AskForMentions(s) \/ ExtractMentions(s) \/ StoreMentions(s) \/ FailScan(s)
      PROVE  UNCHANGED embedVars
  BY <1>2 DEF AskForMentions, ExtractMentions, StoreMentions, FailScan, Chat,
     modelVars, embedVars
<1>3. ASSUME NEW m, RemoveMemory(m) PROVE UNCHANGED embedVars
  BY <1>3 DEF RemoveMemory, modelVars, embedVars
<1> QED
  BY <1>1, <1>2, <1>3 DEF NextExtraction, NextMentions

LEMMA NextEmbed == EmbedInv /\ [Next]_vars => EmbedInv'
<1> SUFFICES ASSUME EmbedInv, [Next]_vars PROVE EmbedInv'
  OBVIOUS
<1>1. ASSUME NEW c \in Calls, StartEmbed(c) \/ EmbedStep(c) PROVE EmbedInv'
  BY <1>1, StartEmbedSafe, AnswerEmbedSafe, FailuresSafe DEF EmbedStep
<1>2. CASE LoadPipeline
  BY <1>2, EmbedStaysPut DEF LoadPipeline
<1>3. ASSUME NEW k \in Clients, ChatStep(k) PROVE EmbedInv'
  <2>1. UNCHANGED embedVars
    BY <1>3 DEF ChatStep, AnswerChat, RateLimitChat, RejectBody, FailChat, Chat
  <2> QED
    BY <2>1, EmbedStaysPut DEF embedVars
<1>4. CASE NextExtraction \/ NextMentions
  BY <1>4, ChatsLeaveEmbeddings, EmbedStaysPut DEF embedVars
<1>5. CASE Restart
  BY <1>5, RestartSafe DEF Restart
<1>6. CASE UNCHANGED vars
  BY <1>6, EmbedStaysPut DEF vars, modelVars
<1> QED
  BY <1>1, <1>2, <1>3, <1>4, <1>5, <1>6 DEF Next, NextModels

(* The caches hold what belongs to their keys, always.                     *)
THEOREM EmbedInvariance == Spec => []EmbedInv
<1> QED
  BY InitEmbed, NextEmbed, PTL DEF Spec

(* An embedding is the one of its text, task and model, whatever was       *)
(* cached, by whom and under which configuration: embedText, embedTexts.   *)
THEOREM AnswersSafe == Spec => []AnswersBelongToTheirCall
<1>1. EmbedInv => AnswersBelongToTheirCall
  BY DEF EmbedInv, CallInv, Right, AnswersBelongToTheirCall
<1> QED
  BY <1>1, EmbedInvariance, PTL

-----------------------------------------------------------------------------
(* First mentions: the order of the events of a scan.                      *)

(* The answers that count, and those that come before one of them.         *)
Listed(turns) == {i \in DOMAIN turns : turns[i] \in DOMAIN MemoryOf}
Before(turns, i) ==
  {k \in Listed(turns) : \/ turns[k] < turns[i]
                         \/ turns[k] = turns[i] /\ k < i}
Rank(turns, i) == Cardinality(Before(turns, i))

(* Ranks are different and below the number of the answers that count.     *)
LEMMA RankFacts ==
  ASSUME NEW turns \in Seq(Int)
  PROVE  /\ IsFiniteSet(Listed(turns)) /\ Cardinality(Listed(turns)) \in Nat
         /\ \A i \in Listed(turns) : Rank(turns, i) \in 0..(Cardinality(Listed(turns)) - 1)
         /\ \A i, j \in Listed(turns) :
              j \in Before(turns, i) => Rank(turns, j) < Rank(turns, i)
<1> DEFINE of == Listed(turns)
<1>1. DOMAIN turns = 1..Len(turns) /\ Len(turns) \in Nat
  OBVIOUS
<1>2. \A i \in of : i \in Nat /\ turns[i] \in Int
  BY <1>1 DEF Listed
<1>3. IsFiniteSet(of) /\ Cardinality(of) \in Nat
  <2>1. IsFiniteSet(1..Len(turns))
    BY <1>1, FS_Interval
  <2>2. of \in SUBSET (1..Len(turns))
    BY <1>1 DEF Listed
  <2> HIDE DEF of
  <2> QED
    BY <2>1, <2>2, FS_Subset, FS_CardinalityType
<1>4. \A i \in of : Before(turns, i) \in SUBSET (of \ {i})
  BY <1>2 DEF Before
<1>5. \A i, j \in of : j \in Before(turns, i) =>
        Before(turns, j) \in SUBSET (Before(turns, i) \ {j})
  BY <1>2 DEF Before
<1> HIDE DEF of
<1>6. \A i \in of : IsFiniteSet(Before(turns, i)) /\ Rank(turns, i) \in Nat
  <2> TAKE i \in of
  <2>1. Before(turns, i) \in SUBSET of
    BY <1>4
  <2> QED
    BY <1>3, <2>1, FS_Subset, FS_CardinalityType DEF Rank
<1>7. ASSUME NEW S, NEW x \in S, IsFiniteSet(S), NEW T \in SUBSET (S \ {x})
      PROVE  Cardinality(T) < Cardinality(S)
  <2>1. IsFiniteSet(S \ {x}) /\ Cardinality(S \ {x}) = Cardinality(S) - 1
    BY <1>7, FS_RemoveElement
  <2>2. Cardinality(T) <= Cardinality(S \ {x}) /\ IsFiniteSet(T)
    BY <2>1, FS_Subset
  <2>3. Cardinality(T) \in Nat /\ Cardinality(S) \in Nat
    BY <1>7, <2>2, FS_CardinalityType
  <2> QED
    BY <2>1, <2>2, <2>3
<1>8. \A i \in of : Rank(turns, i) < Cardinality(of)
  BY <1>3, <1>4, <1>7 DEF Rank
<1>9. \A i, j \in of : j \in Before(turns, i) => Rank(turns, j) < Rank(turns, i)
  BY <1>5, <1>6, <1>7 DEF Rank
<1>10. \A i \in of : Rank(turns, i) \in 0..(Cardinality(of) - 1)
  BY <1>3, <1>6, <1>8
<1> QED
  BY <1>3, <1>9, <1>10 DEF of

(* Every place in the list is taken by one of them.                        *)
LEMMA EveryRankIsTaken ==
  ASSUME NEW turns \in Seq(Int), NEW n \in 1..Cardinality(Listed(turns))
  PROVE  \E i \in Listed(turns) : Rank(turns, i) = n - 1
<1> DEFINE of == Listed(turns)
           N == Cardinality(of)
           T == (0..(N - 1)) \ {n - 1}
           f == [i \in of |-> Rank(turns, i)]
<1>1. IsFiniteSet(of) /\ N \in Nat /\ n \in 1..N
  BY RankFacts
<1>2. \A i \in of : Rank(turns, i) \in 0..(N - 1)
  BY RankFacts
<1>3. \A i, j \in of : i # j => Rank(turns, i) # Rank(turns, j)
  <2> TAKE i, j \in of
  <2> HAVE i # j
  <2>1. turns[i] \in Int /\ turns[j] \in Int /\ i \in Nat /\ j \in Nat
    BY DEF Listed
  <2>2. i \in Before(turns, j) \/ j \in Before(turns, i)
    BY <2>1 DEF Before
  <2>3. Rank(turns, i) \in Int /\ Rank(turns, j) \in Int
    BY <1>1, <1>2
  <2>4. Rank(turns, i) < Rank(turns, j) \/ Rank(turns, j) < Rank(turns, i)
    BY <2>2, RankFacts
  <2> QED
    BY <2>3, <2>4
<1> SUFFICES ASSUME \A i \in of : Rank(turns, i) # n - 1
             PROVE  FALSE
  OBVIOUS
<1> HIDE DEF of
<1>4. f \in [of -> T]
  BY <1>2
<1>5. IsFiniteSet(T) /\ Cardinality(T) < N
  <2>1. IsFiniteSet(0..(N - 1)) /\ Cardinality(0..(N - 1)) = N
    <3>1. 0 \in Int /\ N - 1 \in Int /\ ~(0 > N - 1) /\ (N - 1) - 0 + 1 = N
      BY <1>1
    <3> HIDE DEF N
    <3> QED
      BY <3>1, FS_Interval
  <2>2. n - 1 \in 0..(N - 1)
    BY <1>1
  <2>3. IsFiniteSet(T) /\ Cardinality(T) = N - 1
    <3> DEFINE S == 0..(N - 1)
               x == n - 1
    <3>1. IsFiniteSet(S) /\ Cardinality(S) = N /\ x \in S
      BY <2>1, <2>2
    <3> HIDE DEF N, S, x
    <3>2. IsFiniteSet(S \ {x}) /\ Cardinality(S \ {x}) = N - 1
      BY <3>1, FS_RemoveElement
    <3> QED
      BY <3>2 DEF S, x
  <2> QED
    BY <1>1, <2>3
<1>6. PICK i \in of, j \in of : i # j /\ f[i] = f[j]
  <2> HIDE DEF f, T
  <2> QED
    BY <1>1, <1>4, <1>5, FS_PigeonHole
<1> QED
  BY <1>3, <1>6

(* Events are listed by turn, at their positions.                          *)
Events ==
  Seq([turn : Int, memory : {MemoryOf[t] : t \in DOMAIN MemoryOf}, position : Nat])
ScanStates == {"none", "new", "asking", "store", "done", "failed"}

InOrder(events) ==
  /\ events \in Events
  /\ \A n \in DOMAIN events :
       /\ events[n].turn \in DOMAIN MemoryOf
       /\ events[n].memory = MemoryOf[events[n].turn]
       /\ events[n].position = n - 1
       /\ \A k \in DOMAIN events : k < n => events[k].turn <= events[n].turn

(* mapToEvents, for whatever the model lists.                              *)
LEMMA MapToEventsSorts ==
  ASSUME NEW turns \in Seq(Int)
  PROVE  InOrder(MapToEvents(turns))
<1> DEFINE N == Cardinality(Listed(turns))
           at(n) == CHOOSE i \in Listed(turns) : Rank(turns, i) = n - 1
           event(n) == [turn |-> turns[at(n)], memory |-> MemoryOf[turns[at(n)]],
                        position |-> n - 1]
<1>1. MapToEvents(turns) = [n \in 1..N |-> event(n)]
  BY DEF MapToEvents, Listed, Before, Rank
<1>2. \A n \in 1..N : at(n) \in Listed(turns) /\ Rank(turns, at(n)) = n - 1
  BY EveryRankIsTaken
<1>3. N \in Nat
  BY RankFacts
<1>4. \A n \in 1..N : /\ at(n) \in Nat /\ turns[at(n)] \in Int
                       /\ turns[at(n)] \in DOMAIN MemoryOf
  BY <1>2 DEF Listed
<1> HIDE DEF at
<1>5. \A k, n \in 1..N : k < n => turns[at(k)] <= turns[at(n)]
  <2> TAKE k, n \in 1..N
  <2> HAVE k < n
  <2>1. SUFFICES ASSUME turns[at(n)] < turns[at(k)] PROVE FALSE
    BY <1>4
  <2>2. at(n) \in Before(turns, at(k))
    BY <1>2, <2>1 DEF Before
  <2>3. Rank(turns, at(n)) < Rank(turns, at(k))
    BY <1>2, <2>2, RankFacts
  <2>4. n - 1 < k - 1
    BY <1>2, <2>3
  <2> QED
    BY <2>4
<1> HIDE DEF N
<1>6. \A n \in 1..N : event(n) \in
        [turn : Int, memory : {MemoryOf[t] : t \in DOMAIN MemoryOf}, position : Nat]
  BY <1>3, <1>4
<1>7. [n \in 1..N |-> event(n)] \in Events
  <2> HIDE DEF event
  <2> QED
    BY <1>3, <1>6, IsASeq DEF Events
<1>8. PICK events : events = MapToEvents(turns)
  OBVIOUS
<1>9. /\ events \in Events /\ DOMAIN events = 1..N
      /\ \A n \in 1..N : events[n] = event(n)
  BY <1>1, <1>7, <1>8
<1>10. \A n \in DOMAIN events :
         /\ events[n].turn = turns[at(n)]
         /\ events[n].memory = MemoryOf[turns[at(n)]]
         /\ events[n].position = n - 1
  BY <1>9
<1> HIDE DEF event
<1>11. InOrder(events)
  BY <1>4, <1>5, <1>9, <1>10 DEF InOrder
<1> QED
  BY <1>8, <1>11

-----------------------------------------------------------------------------
(* The list itself.                                                        *)

ScanInv ==
  /\ scan \in [Scans -> [pc : ScanStates, events : Events]]
  /\ \A s \in Scans : InOrder(scan[s].events)

(* A row is the first event of its memory in a scan that is over.          *)
RowOf(m, s, n) ==
  /\ scan[s].pc = "done"
  /\ n \in DOMAIN scan[s].events
  /\ m = Mention(s, n)
  /\ \A k \in 1..(n - 1) : scan[s].events[k].memory # m.memory

RowsInv ==
  \A m \in mentions : /\ \E s \in Scans : \E n \in Nat : RowOf(m, s, n)
                      /\ m.memory \notin deleted

MentionInv == ScanInv /\ RowsInv

LEMMA MentionInvSuffices == MentionInv => EarliestMentionStands
<1> SUFFICES ASSUME MentionInv, NEW m \in mentions
             PROVE  /\ m.memory \notin deleted
                    /\ \A n \in DOMAIN scan[m.scan].events :
                         scan[m.scan].events[n].memory = m.memory =>
                           m.turn <= scan[m.scan].events[n].turn
                    /\ \A o \in mentions :
                         o.scan = m.scan /\ o.position < m.position => o.turn < m.turn
  BY DEF EarliestMentionStands
<1>1. PICK s \in Scans, j \in Nat : RowOf(m, s, j)
  BY DEF MentionInv, RowsInv
<1> DEFINE events == scan[s].events
<1>2. InOrder(events) /\ DOMAIN events = 1..Len(events) /\ Len(events) \in Nat
  <2>1. InOrder(scan[s].events)
    BY DEF MentionInv, ScanInv
  <2> HIDE DEF events
  <2>2. InOrder(events)
    BY <2>1 DEF events
  <2> QED
    BY <2>2 DEF InOrder, Events
<1>3. /\ m.scan = s /\ j \in DOMAIN events /\ m.turn = events[j].turn
      /\ m.memory = events[j].memory /\ m.position = events[j].position
      /\ \A k \in 1..(j - 1) : events[k].memory # m.memory
  BY <1>1 DEF RowOf, Mention
<1> HIDE DEF events
<1>4. \A k, n \in DOMAIN events :
        /\ events[n].turn \in Int /\ events[n].position = n - 1
        /\ events[n].memory = MemoryOf[events[n].turn]
        /\ k < n => events[k].turn <= events[n].turn
  <2>1. \A n \in DOMAIN events : events[n].turn \in Int
    <3> DEFINE R == [turn : Int, memory : {MemoryOf[t] : t \in DOMAIN MemoryOf},
                     position : Nat]
    <3>1. \A r \in R : r.turn \in Int
      OBVIOUS
    <3>2. events \in Seq(R)
      BY <1>2 DEF InOrder, Events
    <3> HIDE DEF R
    <3>3. \A n \in DOMAIN events : events[n] \in R
      BY <3>2
    <3> QED
      BY <3>1, <3>3
  <2> QED
    BY <1>2, <2>1 DEF InOrder
<1>5. ASSUME NEW n \in DOMAIN events, events[n].memory = m.memory
      PROVE  m.turn <= events[n].turn
  <2>1. n \in Nat /\ n \notin 1..(j - 1) /\ n >= 1
    BY <1>2, <1>3, <1>5
  <2>2. j = n \/ j < n
    BY <2>1
  <2> QED
    BY <1>3, <1>4, <2>2
<1>6. ASSUME NEW o \in mentions, o.scan = m.scan, o.position < m.position
      PROVE  o.turn < m.turn
  <2>1. PICK r \in Scans, k \in Nat : RowOf(o, r, k)
    BY DEF MentionInv, RowsInv
  <2>2. r = s
    BY <1>3, <1>6, <2>1 DEF RowOf, Mention
  <2>3. /\ k \in DOMAIN events /\ o.turn = events[k].turn
        /\ o.position = events[k].position
    BY <2>1, <2>2 DEF RowOf, Mention, events
  <2>4. k < j
    BY <1>3, <1>4, <1>6, <2>3
  <2>5. events[k].turn <= events[j].turn
    BY <1>3, <1>4, <2>3, <2>4
  <2>6. events[k].memory # events[j].memory
    BY <1>2, <1>3, <2>3, <2>4
  <2>7. events[k].turn # events[j].turn
    BY <1>3, <1>4, <2>3, <2>6
  <2> QED
    BY <1>3, <1>4, <2>3, <2>5, <2>7
<1> QED
  BY <1>3, <1>5, <1>6 DEF MentionInv, RowsInv, events

LEMMA EmptyInOrder == InOrder(<<>>)
BY DEF InOrder, Events

LEMMA InitMentionInv == Init => MentionInv
<1> SUFFICES ASSUME NEW met \in Meetings, InitMentions(met.scans) PROVE MentionInv
  BY DEF Init
<1>1. <<>> \in Events
  BY DEF Events
<1>2. ScanInv
  BY <1>1, EmptyInOrder DEF InitMentions, ScanInv, ScanStates
<1> QED
  BY <1>2 DEF InitMentions, MentionInv, RowsInv

(* A step that adds no row and changes no scan that is over.               *)
LEMMA RowsStay ==
  ASSUME MentionInv, \A s \in Scans : scan[s].pc = "done" => scan'[s] = scan[s],
         NEW m \in mentions
  PROVE  \E s \in Scans : \E n \in Nat : RowOf(m, s, n)'
<1>1. PICK s \in Scans, n \in Nat : RowOf(m, s, n)
  BY DEF MentionInv, RowsInv
<1>2. scan'[s] = scan[s]
  BY <1>1 DEF RowOf
<1>3. RowOf(m, s, n)'
  BY <1>1, <1>2 DEF RowOf, Mention
<1> QED
  BY <1>3

(* One scan goes on, with events in order.                                 *)
LEMMA ScanGoesOn ==
  ASSUME MentionInv, NEW s \in Scans,
         NEW pc \in ScanStates,
         NEW events, InOrder(events), scan[s].pc # "done",
         scan' = [scan EXCEPT ![s].pc = pc, ![s].events = events]
  PROVE  /\ ScanInv'
         /\ \A r \in Scans : scan[r].pc = "done" => scan'[r] = scan[r]
         /\ scan'[s].pc = pc /\ scan'[s].events = events
<1>1. ScanInv
  BY DEF MentionInv
<1>2. events \in Events
  BY DEF InOrder
<1>3. /\ \A r \in Scans \ {s} : scan'[r] = scan[r]
      /\ scan'[s].pc = pc /\ scan'[s].events = events
  BY <1>1 DEF ScanInv
<1>4. scan' \in [Scans -> [pc : ScanStates, events : Events]]
  BY <1>1, <1>2 DEF ScanInv
<1>5. \A r \in Scans : InOrder(scan'[r].events)
  BY <1>1, <1>3 DEF ScanInv
<1>6. ScanInv'
  BY <1>4, <1>5 DEF ScanInv, InOrder
<1> QED
  BY <1>3, <1>6

(* Where nothing but the state of a scan changes, its events stay.         *)
LEMMA AdvanceKeepsEvents ==
  ASSUME MentionInv, NEW s \in Scans, NEW pc, Advance(s, pc)
  PROVE  /\ scan' = [scan EXCEPT ![s].pc = pc, ![s].events = scan[s].events]
         /\ InOrder(scan[s].events)
BY DEF MentionInv, ScanInv, Advance

LEMMA QuietSafe ==
  ASSUME MentionInv, NEW s \in Scans,
         AskForMentions(s) \/ ExtractMentions(s) \/ FailScan(s)
  PROVE  MentionInv'
<1>1. \E pc \in ScanStates, events \in Events :
        /\ InOrder(events) /\ scan[s].pc # "done"
        /\ scan' = [scan EXCEPT ![s].pc = pc, ![s].events = events]
  <2>1. scan[s].events \in Events
    BY DEF MentionInv, ScanInv
  <2>2. CASE AskForMentions(s)
    BY <2>1, <2>2, AdvanceKeepsEvents DEF AskForMentions, ScanStates
  <2>3. CASE FailScan(s)
    BY <2>1, <2>3, AdvanceKeepsEvents DEF FailScan, ScanStates
  <2>4. CASE ExtractMentions(s)
    <3>1. PICK turns \in Replies : scan' = [scan EXCEPT
            ![s].pc = IF MapToEvents(turns) = <<>> THEN "done" ELSE "store",
            ![s].events = MapToEvents(turns)]
      BY <2>4 DEF ExtractMentions
    <3>2. InOrder(MapToEvents(turns))
      BY MapToEventsSorts, RepliesAssumption
    <3>3. scan[s].pc # "done"
      BY <2>4 DEF ExtractMentions
    <3>4. MapToEvents(turns) \in Events
      BY <3>2 DEF InOrder
    <3> QED
      BY <3>1, <3>2, <3>3, <3>4 DEF ScanStates
  <2> QED
    BY <2>2, <2>3, <2>4
<1>2. /\ ScanInv'
      /\ \A r \in Scans : scan[r].pc = "done" => scan'[r] = scan[r]
  BY <1>1, ScanGoesOn
<1>3. UNCHANGED <<mentions, deleted>>
  BY DEF AskForMentions, ExtractMentions, FailScan
<1>4. RowsInv'
  BY <1>2, <1>3, RowsStay DEF RowsInv, MentionInv
<1> QED
  BY <1>2, <1>4 DEF MentionInv

(* The rows that are added are the first of their memories.                *)
LEMMA StoreSafe ==
  ASSUME MentionInv, NEW s \in Scans, StoreMentions(s)
  PROVE  MentionInv'
<1> DEFINE events == scan[s].events
           new == {n \in DOMAIN events :
                    /\ \A m \in mentions : m.memory # events[n].memory
                    /\ \A k \in 1..(n - 1) : events[k].memory # events[n].memory}
<1>1. scan[s].pc = "store" /\ UNCHANGED deleted
  BY DEF StoreMentions
<1>2. IF \E n \in DOMAIN events : events[n].memory \in deleted
      THEN Advance(s, "failed") /\ UNCHANGED mentions
      ELSE /\ mentions' = mentions \cup {Mention(s, n) : n \in new}
           /\ Advance(s, "done")
  BY DEF StoreMentions
<1>3. PICK pc \in ScanStates : Advance(s, pc)
  BY <1>2 DEF ScanStates
<1>4. /\ ScanInv' /\ \A r \in Scans : scan[r].pc = "done" => scan'[r] = scan[r]
      /\ scan'[s].pc = pc /\ scan'[s].events = events
  <2>1. scan[s].pc # "done"
    BY <1>1
  <2>2. /\ scan' = [scan EXCEPT ![s].pc = pc, ![s].events = events]
        /\ InOrder(events)
    BY <1>3, AdvanceKeepsEvents
  <2>3. PICK e : e = events
    OBVIOUS
  <2>4. scan' = [scan EXCEPT ![s].pc = pc, ![s].events = e] /\ InOrder(e)
    BY <2>2, <2>3
  <2>5. /\ ScanInv' /\ \A r \in Scans : scan[r].pc = "done" => scan'[r] = scan[r]
        /\ scan'[s].pc = pc /\ scan'[s].events = e
    BY <2>1, <2>4, ScanGoesOn
  <2> QED
    BY <2>3, <2>5
<1>5. CASE UNCHANGED mentions
  <2>1. RowsInv'
    BY <1>1, <1>4, <1>5, RowsStay DEF RowsInv, MentionInv
  <2> QED
    BY <1>4, <2>1 DEF MentionInv
<1>6. CASE /\ ~\E n \in DOMAIN events : events[n].memory \in deleted
           /\ mentions' = mentions \cup {Mention(s, n) : n \in new}
           /\ Advance(s, "done")
  <2>1. /\ scan'[s].pc = "done" /\ scan'[s].events = events
        /\ DOMAIN events \subseteq Nat
    <3>1. ScanInv
      BY DEF MentionInv
    <3>2. scan' = [scan EXCEPT ![s].pc = "done"]
      BY <1>6 DEF Advance
    <3>3. scan'[s].pc = "done" /\ scan'[s].events = events
      BY <3>1, <3>2 DEF ScanInv
    <3>4. events \in Events
      BY <3>1 DEF ScanInv
    <3> HIDE DEF events
    <3> QED
      BY <3>3, <3>4 DEF Events
  <2>2. ASSUME NEW n \in new
        PROVE  RowOf(Mention(s, n), s, n)' /\ Mention(s, n).memory \notin deleted
    <3>1. n \in DOMAIN events /\ n \in Nat
      BY <2>1
    <3>2. Mention(s, n)' = Mention(s, n) /\ Mention(s, n).memory = events[n].memory
      BY <2>1 DEF Mention
    <3>3. \A k \in 1..(n - 1) : events[k].memory # events[n].memory
      BY <2>2
    <3>4. Mention(s, n).memory \notin deleted
      BY <1>6, <3>1, <3>2
    <3> HIDE DEF new
    <3> QED
      BY <2>1, <3>1, <3>2, <3>3, <3>4 DEF RowOf
  <2>3. ASSUME NEW m \in mentions'
        PROVE  /\ \E r \in Scans : \E n \in Nat : RowOf(m, r, n)'
               /\ m.memory \notin deleted'
    <3>1. CASE m \in mentions
      BY <1>1, <1>4, <3>1, RowsStay DEF MentionInv, RowsInv
    <3>2. CASE m \notin mentions
      <4>1. PICK n \in new : m = Mention(s, n)
        BY <1>6, <3>2
      <4>2. n \in Nat
        BY <2>1
      <4>3. RowOf(m, s, n)'
        <5>1. Mention(s, n)' = Mention(s, n)
          BY <2>1 DEF Mention
        <5> QED
          BY <2>2, <4>1, <5>1 DEF RowOf
      <4> QED
        BY <1>1, <2>2, <4>1, <4>2, <4>3
    <3> QED
      BY <3>1, <3>2
  <2>4. RowsInv'
    BY <2>3 DEF RowsInv
  <2> QED
    BY <1>4, <2>4 DEF MentionInv
<1> QED
  BY <1>2, <1>5, <1>6

LEMMA RemoveSafe ==
  ASSUME MentionInv, NEW x, RemoveMemory(x)
  PROVE  MentionInv'
<1>1. /\ UNCHANGED scan /\ deleted' = deleted \cup {x}
      /\ mentions' = {e \in mentions : e.memory # x}
  BY DEF RemoveMemory
<1>2. ScanInv'
  BY <1>1 DEF MentionInv, ScanInv, InOrder
<1>3. RowsInv'
  BY <1>1, RowsStay DEF MentionInv, RowsInv
<1> QED
  BY <1>2, <1>3 DEF MentionInv

LEMMA RestartKeepsMentions ==
  ASSUME MentionInv, Restart
  PROVE  MentionInv'
<1>1. UNCHANGED <<mentions, deleted>>
  BY DEF Restart
<1>2. scan' = [s \in Scans |-> IF scan[s].pc \in {"asking", "store"}
                               THEN [scan[s] EXCEPT !.pc = "failed"] ELSE scan[s]]
  BY DEF Restart
<1>3. ScanInv
  BY DEF MentionInv
<1>4. \A s \in Scans : scan'[s] = IF scan[s].pc \in {"asking", "store"}
                               THEN [scan[s] EXCEPT !.pc = "failed"] ELSE scan[s]
  BY <1>2
<1>5. \A s \in Scans : scan'[s].events = scan[s].events
  BY <1>3, <1>4 DEF ScanInv
<1>6. ScanInv'
  <2>1. scan' \in [Scans -> [pc : ScanStates, events : Events]]
    BY <1>2, <1>3 DEF ScanInv, ScanStates
  <2> QED
    BY <1>3, <1>5, <2>1 DEF ScanInv, InOrder
<1>7. \A s \in Scans : scan[s].pc = "done" => scan'[s] = scan[s]
  BY <1>4
<1>8. RowsInv'
  BY <1>1, <1>7, RowsStay DEF MentionInv, RowsInv
<1> QED
  BY <1>6, <1>8 DEF MentionInv

LEMMA MentionsStayPut ==
  ASSUME MentionInv, UNCHANGED mentionVars
  PROVE  MentionInv'
<1>1. UNCHANGED <<scan, mentions, deleted>>
  BY DEF mentionVars
<1>2. ScanInv'
  BY <1>1 DEF MentionInv, ScanInv, InOrder
<1>3. RowsInv'
  BY <1>1, RowsStay DEF MentionInv, RowsInv
<1> QED
  BY <1>2, <1>3 DEF MentionInv

LEMMA NextMentionInv == MentionInv /\ [Next]_vars => MentionInv'
<1> SUFFICES ASSUME MentionInv, [Next]_vars PROVE MentionInv'
  OBVIOUS
<1>1. CASE NextMentions
  BY <1>1, QuietSafe, StoreSafe, RemoveSafe DEF NextMentions
<1>2. CASE Restart
  BY <1>2, RestartKeepsMentions
<1>3. CASE UNCHANGED mentionVars
  BY <1>3, MentionsStayPut
<1> QED
  BY <1>1, <1>2, <1>3 DEF Next, vars

(* Every row of the list is the first event of its memory in a scan, and  *)
(* the events of a scan are in the order of the turns, always.             *)
THEOREM MentionInvariance == Spec => []MentionInv
<1> QED
  BY InitMentionInv, NextMentionInv, PTL DEF Spec

(* However often a conversation is scanned, at once or again, whatever the *)
(* model lists and in whatever order, a memory stands at its earliest      *)
(* mention, and deleted ones are gone: mapToEvents, store.                 *)
THEOREM EarliestMentionSafe == Spec => []EarliestMentionStands
<1> QED
  BY MentionInvariance, MentionInvSuffices, PTL
-----------------------------------------------------------------------------
(* Extractions: what lists of facts become.                                *)

(* Lists that are put behind one another: nothing is added, and nothing of *)
(* the first one is lost.                                                  *)
LEMMA FlattenKeeps ==
  ASSUME NEW S, NEW seqs \in Seq(Seq(S)), Len(seqs) # 0
  PROVE  /\ FlattenSeq(seqs) \in Seq(S)
         /\ ToSet(seqs[1]) \subseteq ToSet(FlattenSeq(seqs))
         /\ Len(seqs) = 1 => FlattenSeq(seqs) = seqs[1]
<1> DEFINE n == Len(seqs)
           V == {v \in Seq(S) : ToSet(seqs[1]) \subseteq ToSet(v)}
           With(v, i) == IF i = 1 THEN seqs[1] ELSE v \o seqs[i]
           round == [p \in (1..n) \X V |-> With(p[2], p[1])]
           F(f) == f = [i \in 1..n |-> IF i = 1 THEN seqs[i]
                                       ELSE f[i - 1] \o seqs[i]]
           t == CHOOSE f : F(f)
<1>1. n \in Nat /\ 1 \in 1..n /\ \A i \in 1..n : seqs[i] \in Seq(S)
  OBVIOUS
<1>2. FlattenSeq(seqs) = t[n]
  BY <1>1 DEF FlattenSeq
<1>3. \A v, w \in Seq(S) :
        v \o w \in Seq(S) /\ ToSet(v) \subseteq ToSet(v \o w)
  <2> TAKE v, w \in Seq(S)
  <2>1. /\ Len(v) \in Nat /\ Len(w) \in Nat /\ DOMAIN v = 1..Len(v)
        /\ v \o w \in Seq(S) /\ DOMAIN (v \o w) = 1..(Len(v) + Len(w))
        /\ \A i \in 1..Len(v) : (v \o w)[i] = v[i]
    OBVIOUS
  <2>2. \A i \in 1..Len(v) : i \in 1..(Len(v) + Len(w))
    BY <2>1
  <2> QED
    BY <2>1, <2>2 DEF ToSet
<1>4. seqs[1] \in V
  BY <1>1
<1> HIDE DEF n
<1>5. \A i \in 1..n, v \in V : With(v, i) \in V
  BY <1>1, <1>3, <1>4
<1> HIDE DEF V
<1>6. round \in [(1..n) \X V -> V]
  <2> HIDE DEF With
  <2> QED
    BY <1>5
<1>7. \A i \in 1..n, v \in V : round[<<i, v>>] = With(v, i)
  OBVIOUS
<1> HIDE DEF round
<1>8. PICK h \in [0..n -> V] : Loop(h, n, seqs[1], round)
  BY <1>1, <1>4, <1>6, LoopExists
<1> DEFINE g == [i \in 1..n |-> h[i]]
<1>9. F(g)
  <2>1. ASSUME NEW i \in 1..n
        PROVE  h[i] = IF i = 1 THEN seqs[i] ELSE g[i - 1] \o seqs[i]
    <3>1. i \in 0..n /\ i # 0 /\ i - 1 \in 0..n /\ h[i - 1] \in V
      BY <1>1
    <3>2. h[i] = With(h[i - 1], i)
      BY <1>7, <1>8, <3>1 DEF Loop
    <3>3. i # 1 => g[i - 1] = h[i - 1]
      BY <1>1
    <3> QED
      BY <3>2, <3>3
  <2> QED
    BY <2>1
<1>10. F(t)
  BY <1>9
<1> HIDE DEF t, With
<1>11. t[1] = seqs[1] /\ \A i \in 2..n : t[i] = t[i - 1] \o seqs[i]
  <2>1. \A i \in 1..n : t[i] = IF i = 1 THEN seqs[i] ELSE t[i - 1] \o seqs[i]
    BY <1>10
  <2>2. \A i \in 2..n : i \in 1..n /\ i # 1
    BY <1>1
  <2> QED
    BY <1>1, <2>1, <2>2
<1> DEFINE u == [i \in 0..n |-> IF i = 0 THEN seqs[1] ELSE t[i]]
<1>12. u[0] \in V /\ \A i \in 1..n : u[i - 1] \in V => u[i] \in V
  <2> SUFFICES ASSUME NEW i \in 1..n, u[i - 1] \in V PROVE t[i] \in V
    <3>1. u[0] = seqs[1] /\ \A i \in 1..n : u[i] = t[i]
      BY <1>1
    <3> HIDE DEF u
    <3> QED
      BY <1>4, <3>1
  <2>1. CASE i = 1
    BY <1>4, <1>11, <2>1
  <2>2. CASE i # 1
    <3>1. i \in 2..n /\ u[i - 1] = t[i - 1]
      BY <1>1, <2>2
    <3>2. t[i] = With(t[i - 1], i)
      BY <1>11, <2>2, <3>1 DEF With
    <3> QED
      BY <1>5, <3>1, <3>2
  <2> QED
    BY <2>1, <2>2
<1> HIDE DEF u
<1>13. u[n] \in V
  BY <1>1, <1>12, LoopStays
<1>14. u[n] = t[n]
  BY <1>1 DEF u
<1> QED
  BY <1>1, <1>2, <1>11, <1>13, <1>14 DEF V, n

(* What is in leads to all facts, by way of those that are alike.          *)
Leads(facts, in) ==
  /\ in \subseteq DOMAIN facts
  /\ \A T \in SUBSET ToSet(facts) :
       /\ \A i \in in : facts[i] \in T
       /\ Closed(T, ToSet(facts))
       => T = ToSet(facts)

(* One of two that are alike may go.                                       *)
LEMMA OneMayGo ==
  ASSUME NEW facts, NEW in, Leads(facts, in), NEW i \in in, NEW j \in in,
         i # j, Similar(facts[i], facts[j]), NEW loser \in {i, j}
  PROVE  Leads(facts, in \ {loser})
<1> SUFFICES ASSUME NEW T \in SUBSET ToSet(facts),
                    \A k \in in \ {loser} : facts[k] \in T,
                    Closed(T, ToSet(facts))
             PROVE  \A k \in in : facts[k] \in T
  BY DEF Leads
<1>1. Similar(facts[j], facts[i])
  BY DEF Similar
<1>2. facts[i] \in ToSet(facts) /\ facts[j] \in ToSet(facts)
  BY DEF Leads, ToSet
<1>3. facts[loser] \in T
  BY <1>1, <1>2 DEF Closed
<1> QED
  BY <1>3

(* A choice between any two places.                                        *)
Losers(facts) ==
  {l \in [DOMAIN facts -> [DOMAIN facts -> DOMAIN facts]] :
     \A i, j \in DOMAIN facts : l[i][j] \in {i, j}}

(* Comparing one fact with those after it takes none of them out of reach. *)
LEMMA ComparedLeads ==
  ASSUME NEW facts, Len(facts) \in Nat, DOMAIN facts = 1..Len(facts),
         NEW loser \in Losers(facts), NEW in, Leads(facts, in),
         NEW i \in DOMAIN facts
  PROVE  Leads(facts, Compared(facts, loser, in, i))
<1> DEFINE n == Len(facts)
           V == {v \in SUBSET DOMAIN facts : Leads(facts, v)}
           With(v, j) == IF /\ i < j /\ {i, j} \subseteq v
                            /\ Similar(facts[i], facts[j])
                         THEN v \ {loser[i][j]} ELSE v
           round == [p \in (1..n) \X V |-> With(p[2], p[1])]
           F(f) == f = [j \in 0..n |-> IF j = 0 THEN in ELSE With(f[j - 1], j)]
           t == CHOOSE f : F(f)
<1>1. n \in Nat /\ DOMAIN facts = 1..n
  OBVIOUS
<1>2. Compared(facts, loser, in, i) = t[n]
  BY DEF Compared
<1>3. ASSUME NEW j \in 1..n, NEW v \in V PROVE With(v, j) \in V
  <2>1. CASE i < j /\ {i, j} \subseteq v /\ Similar(facts[i], facts[j])
    <3>1. i # j
      BY <1>1, <2>1
    <3>2. loser[i][j] \in {i, j}
      BY <1>1 DEF Losers
    <3>3. Leads(facts, v \ {loser[i][j]})
      BY <2>1, <3>1, <3>2, OneMayGo
    <3> QED
      BY <2>1, <3>3
  <2>2. CASE ~(i < j /\ {i, j} \subseteq v /\ Similar(facts[i], facts[j]))
    BY <2>2
  <2> QED
    BY <2>1, <2>2
<1>4. in \in V
  BY DEF Leads
<1>5. \A v \in V : Leads(facts, v)
  OBVIOUS
<1> HIDE DEF n, V
<1>6. round \in [(1..n) \X V -> V]
  <2> HIDE DEF With
  <2> QED
    BY <1>3
<1>7. \A j \in 1..n, v \in V : round[<<j, v>>] = With(v, j)
  OBVIOUS
<1> HIDE DEF With, round
<1>8. PICK h \in [0..n -> V] : Loop(h, n, in, round)
  BY <1>1, <1>4, <1>6, LoopExists
<1>9. F(h)
  <2>1. \A j \in 0..n : h[j] = IF j = 0 THEN in ELSE With(h[j - 1], j)
    <3> SUFFICES ASSUME NEW j \in 0..n, j # 0
                 PROVE  round[<<j, h[j - 1]>>] = With(h[j - 1], j)
      BY <1>8 DEF Loop
    <3>1. j \in 1..n /\ h[j - 1] \in V
      BY <1>1
    <3> QED
      BY <1>7, <3>1
  <2> QED
    BY <2>1
<1>10. F(t)
  BY <1>9
<1> HIDE DEF t
<1>11. t[0] = in /\ \A j \in 1..n : t[j] = With(t[j - 1], j)
  BY <1>1, <1>10
<1>12. t[0] \in V /\ \A j \in 1..n : t[j - 1] \in V => t[j] \in V
  BY <1>3, <1>4, <1>11
<1>13. t[n] \in V
  BY <1>1, <1>12, LoopStays
<1> QED
  BY <1>2, <1>5, <1>13

(* Nor does comparing each of them.                                        *)
LEMMA RemainingLeads ==
  ASSUME NEW facts, Len(facts) \in Nat, DOMAIN facts = 1..Len(facts),
         NEW loser \in Losers(facts)
  PROVE  Leads(facts, Remaining(facts, loser))
<1> DEFINE n == Len(facts)
           V == {v \in SUBSET DOMAIN facts : Leads(facts, v)}
           With(v, i) == Compared(facts, loser, v, i)
           all == DOMAIN facts
           round == [p \in (1..n) \X V |-> With(p[2], p[1])]
           F(f) == f = [i \in 0..n |-> IF i = 0 THEN all
                                       ELSE With(f[i - 1], i)]
           t == CHOOSE f : F(f)
<1>1. n \in Nat /\ all = 1..n
  OBVIOUS
<1>2. Remaining(facts, loser) = t[n]
  BY DEF Remaining
<1>3. ASSUME NEW i \in 1..n, NEW v \in V PROVE With(v, i) \in V
  <2>1. Leads(facts, With(v, i))
    BY ComparedLeads
  <2> QED
    BY <2>1 DEF Leads
<1>4. all \in V
  <2>1. Leads(facts, all)
    BY DEF Leads, ToSet
  <2> QED
    BY <2>1
<1>5. \A v \in V : Leads(facts, v)
  OBVIOUS
<1> HIDE DEF n, V, all
<1>6. round \in [(1..n) \X V -> V]
  <2> HIDE DEF With
  <2> QED
    BY <1>3
<1>7. \A i \in 1..n, v \in V : round[<<i, v>>] = With(v, i)
  OBVIOUS
<1> HIDE DEF With, round
<1>8. PICK h \in [0..n -> V] : Loop(h, n, all, round)
  BY <1>1, <1>4, <1>6, LoopExists
<1>9. F(h)
  <2>1. \A i \in 0..n : h[i] = IF i = 0 THEN all ELSE With(h[i - 1], i)
    <3> SUFFICES ASSUME NEW i \in 0..n, i # 0
                 PROVE  round[<<i, h[i - 1]>>] = With(h[i - 1], i)
      BY <1>8 DEF Loop
    <3>1. i \in 1..n /\ h[i - 1] \in V
      BY <1>1
    <3> QED
      BY <1>7, <3>1
  <2> QED
    BY <2>1
<1>10. F(t)
  BY <1>9
<1> HIDE DEF t
<1>11. t[0] = all /\ \A i \in 1..n : t[i] = With(t[i - 1], i)
  BY <1>1, <1>10
<1>12. t[0] \in V /\ \A i \in 1..n : t[i - 1] \in V => t[i] \in V
  BY <1>3, <1>4, <1>11
<1>13. t[n] \in V
  BY <1>1, <1>12, LoopStays
<1> QED
  BY <1>2, <1>5, <1>13

(* Of facts that are deduplicated, what is kept leads to all of them.      *)
LEMMA KeptLeads ==
  ASSUME NEW S, NEW facts \in Seq(S), NEW loser \in Losers(facts),
         NEW kept, kept = Taken(facts, Remaining(facts, loser))
  PROVE  /\ kept \in Seq(S) /\ ToSet(kept) \subseteq ToSet(facts)
         /\ \A T \in SUBSET ToSet(facts) :
              ToSet(kept) \subseteq T /\ Closed(T, ToSet(facts))
              => T = ToSet(facts)
<1> DEFINE in == Remaining(facts, loser)
<1>1. Leads(facts, in)
  <2>1. Len(facts) \in Nat /\ DOMAIN facts = 1..Len(facts)
    OBVIOUS
  <2> QED
    BY <2>1, RemainingLeads
<1>2. kept \in Seq(S) /\ ToSet(kept) = {facts[i] : i \in DOMAIN facts \cap in}
  BY TakenIsThere
<1>3. ToSet(kept) = {facts[i] : i \in in}
  BY <1>1, <1>2 DEF Leads
<1> HIDE DEF in
<1>4. ToSet(kept) \subseteq ToSet(facts)
  BY <1>2 DEF ToSet
<1>5. ASSUME NEW T \in SUBSET ToSet(facts), ToSet(kept) \subseteq T,
             Closed(T, ToSet(facts))
      PROVE  T = ToSet(facts)
  <2>1. \A i \in in : facts[i] \in T
    BY <1>3, <1>5
  <2> QED
    BY <1>1, <1>5, <2>1 DEF Leads
<1> QED
  BY <1>2, <1>4, <1>5

(* Of several runs, what deduplicateFacts keeps leads to all of them.      *)
LEMMA DeduplicateKeeps ==
  ASSUME NEW S, NEW facts \in Seq(S)
  PROVE  /\ DeduplicateFacts(facts) \in Seq(S)
         /\ ToSet(DeduplicateFacts(facts)) \subseteq ToSet(facts)
         /\ \A T \in SUBSET ToSet(facts) :
              /\ ToSet(DeduplicateFacts(facts)) \subseteq T
              /\ Closed(T, ToSet(facts))
              => T = ToSet(facts)
<1> DEFINE l == [i \in DOMAIN facts |-> [j \in DOMAIN facts |-> j]]
<1>1. l \in Losers(facts)
  BY DEF Losers
<1>2. PICK kept : kept = DeduplicateFacts(facts)
  OBVIOUS
<1>3. kept = Taken(facts, Remaining(facts, l))
  BY <1>2 DEF DeduplicateFacts
<1> HIDE DEF l
<1>4. /\ kept \in Seq(S) /\ ToSet(kept) \subseteq ToSet(facts)
      /\ \A T \in SUBSET ToSet(facts) :
           ToSet(kept) \subseteq T /\ Closed(T, ToSet(facts))
           => T = ToSet(facts)
  BY <1>1, <1>3, KeptLeads
<1> QED
  BY <1>2, <1>4

(* Of several chunks, what markDuplicates keeps leads to all of them.      *)
LEMMA MarkKeeps ==
  ASSUME NEW S, NEW facts \in Seq(S)
  PROVE  /\ MarkDuplicates(facts) \in Seq(S)
         /\ ToSet(MarkDuplicates(facts)) \subseteq ToSet(facts)
         /\ \A T \in SUBSET ToSet(facts) :
              /\ ToSet(MarkDuplicates(facts)) \subseteq T
              /\ Closed(T, ToSet(facts))
              => T = ToSet(facts)
<1> DEFINE l == [i \in DOMAIN facts |-> [j \in DOMAIN facts |->
                   IF Importance[facts[j]] > Importance[facts[i]] THEN i
                   ELSE j]]
<1>1. l \in Losers(facts)
  BY DEF Losers
<1>2. PICK kept : kept = MarkDuplicates(facts)
  OBVIOUS
<1>3. kept = Taken(facts, Remaining(facts, l))
  BY <1>2 DEF MarkDuplicates
<1> HIDE DEF l
<1>4. /\ kept \in Seq(S) /\ ToSet(kept) \subseteq ToSet(facts)
      /\ \A T \in SUBSET ToSet(facts) :
           ToSet(kept) \subseteq T /\ Closed(T, ToSet(facts))
           => T = ToSet(facts)
  BY <1>1, <1>3, KeptLeads
<1> QED
  BY <1>2, <1>4

(* A vote keeps facts of the first run only.                               *)
LEMMA MajorityIsHeard ==
  ASSUME NEW S, NEW runs \in Seq(Seq(S)), Len(runs) # 0
  PROVE  /\ FilterByMajorityVote(runs) \in Seq(S)
         /\ ToSet(FilterByMajorityVote(runs)) \subseteq ToSet(runs[1])
<1>1. runs[1] \in Seq(S)
  OBVIOUS
<1>2. PICK P : FilterByMajorityVote(runs) = Taken(runs[1], P)
  BY DEF FilterByMajorityVote
<1>3. /\ Taken(runs[1], P) \in Seq(S)
      /\ ToSet(Taken(runs[1], P)) = {runs[1][i] : i \in DOMAIN runs[1] \cap P}
  BY <1>1, TakenIsThere
<1> QED
  BY <1>2, <1>3 DEF ToSet

-----------------------------------------------------------------------------
(* Chunks.                                                                 *)
LEMMA LeastOfSome ==
  ASSUME NEW P \in SUBSET Nat, P # {}
  PROVE  \E n \in P : \A k \in P : n <= k
<1> DEFINE R == OpToRel(<, Nat)
<1>1. \A x, y \in Nat : <<y, x>> \in R <=> y < x
  BY DEF OpToRel
<1>2. IsWellFoundedOn(R, Nat)
  BY NatLessThanWellFounded
<1> HIDE DEF R
<1>3. PICK x \in P : \A y \in P : ~(<<y, x>> \in R)
  BY <1>2, WFMin
<1>4. ASSUME NEW y \in P PROVE x <= y
  <2>1. x \in Nat /\ y \in Nat
    OBVIOUS
  <2>2. ~(y < x)
    BY <1>1, <1>3, <2>1
  <2> QED
    BY <2>1, <2>2
<1> QED
  BY <1>4

(* What a list of prompts must cover.                                      *)
Covered(prompts, job) ==
  \A i \in DOMAIN job.lines :
    \/ i \in TurnLines(job) \/ Len(prompts) = 1
    \/ job.mode \in {"consensus", "union"}
    => \E p \in ToSet(prompts) : i \in p

Prompts == SUBSET Nat

(* Any number of prompts about the whole conversation covers it.           *)
LEMMA WholeIsCovered ==
  ASSUME NEW job \in ExtractionJob, NEW n \in Nat \ {0}
  PROVE  /\ [k \in 1..n |-> Whole(job)] \in Seq(Prompts)
         /\ Len([k \in 1..n |-> Whole(job)]) = n
         /\ Covered([k \in 1..n |-> Whole(job)], job)
<1> DEFINE w == Whole(job)
           s == [k \in 1..n |-> w]
<1>1. w \in Prompts
  <2>1. job.lines \in Seq(LineKinds)
    BY DEF ExtractionJob
  <2> QED
    BY <2>1 DEF Whole, Prompts
<1>2. DOMAIN job.lines = w
  BY DEF Whole
<1> HIDE DEF w
<1>3. s \in Seq(Prompts) /\ Len(s) = n
  BY <1>1
<1>4. w \in ToSet(s)
  <2>1. 1 \in DOMAIN s /\ s[1] = w
    OBVIOUS
  <2> QED
    BY <2>1 DEF ToSet
<1> HIDE DEF s
<1>5. Covered(s, job)
  BY <1>2, <1>4 DEF Covered
<1> QED
  BY <1>3, <1>5 DEF w, s

(* So does one.                                                            *)
LEMMA OneWhole ==
  ASSUME NEW job \in ExtractionJob
  PROVE  /\ <<Whole(job)>> \in Seq(Prompts) /\ Len(<<Whole(job)>>) = 1
         /\ Covered(<<Whole(job)>>, job)
<1> DEFINE one == 1
           s == [k \in 1..one |-> Whole(job)]
<1>1. <<Whole(job)>> = s
  OBVIOUS
<1>2. one \in Nat \ {0} /\ one = 1
  OBVIOUS
<1> HIDE DEF one
<1>3. s \in Seq(Prompts) /\ Len(s) = one /\ Covered(s, job)
  BY <1>2, WholeIsCovered
<1> QED
  BY <1>1, <1>2, <1>3

(* Turns are numbered from 1.                                              *)
LEMMA TurnsAreNumbered ==
  ASSUME NEW job \in ExtractionJob
  PROVE  /\ Cardinality(TurnLines(job)) \in Nat
         /\ \A i \in TurnLines(job) :
              TurnNumber(job, i) \in 1..Cardinality(TurnLines(job))
<1> DEFINE all == TurnLines(job)
           n == Len(job.lines)
<1>1. n \in Nat /\ DOMAIN job.lines = 1..n
  BY DEF ExtractionJob
<1>2. all \subseteq 1..n
  BY <1>1 DEF TurnLines
<1> HIDE DEF n, all
<1>3. IsFiniteSet(1..n)
  BY <1>1, FS_Interval
<1>4. IsFiniteSet(all)
  BY <1>2, <1>3, FS_Subset
<1>5. Cardinality(all) \in Nat
  BY <1>4, FS_CardinalityType
<1>6. ASSUME NEW i \in all PROVE TurnNumber(job, i) \in 1..Cardinality(all)
  <2> DEFINE upto == {h \in all : h <= i}
  <2>1. upto \subseteq all /\ i \in upto
    BY <1>1, <1>2
  <2>2. TurnNumber(job, i) = Cardinality(upto)
    BY DEF TurnNumber, all
  <2> HIDE DEF upto
  <2>3. IsFiniteSet(upto) /\ Cardinality(upto) <= Cardinality(all)
    BY <1>4, <2>1, FS_Subset
  <2>4. Cardinality(upto) \in Nat /\ Cardinality(upto) # 0
    BY <2>1, <2>3, FS_CardinalityType, FS_EmptySet
  <2> QED
    BY <1>5, <2>2, <2>3, <2>4
<1> QED
  BY <1>5, <1>6 DEF all

(* No window begins after the turn behind the one before it, the last one  *)
(* reaches the last turn, and there is more than one.                      *)
LEMMA ChunksCover ==
  ASSUME NEW job \in ExtractionJob, job.mode \notin {"consensus", "union"}
  PROVE  /\ ChunkConversation(job) \in Seq(Prompts)
         /\ Len(ChunkConversation(job)) # 0
         /\ Covered(ChunkConversation(job), job)
<1> DEFINE all == TurnLines(job)
           turns == Cardinality(all)
           size == job.size
           step == Greater(1, size - job.overlap)
           start(n) == (n - 1) * step
           Ends(n) == start(n) + size >= turns
           IsLast(n) == Ends(n) /\ \A k \in 1..(n - 1) : ~Ends(k)
           last == CHOOSE n \in 1..turns : IsLast(n)
           Window(n) == (start(n) + 1)..(start(n) + size)
           p(n) == {i \in all : TurnNumber(job, i) \in Window(n)}
           c == [n \in 1..last |-> p(n)]
<1>1. turns \in Nat /\ size \in Nat /\ job.overlap \in Nat
  BY TurnsAreNumbered DEF ExtractionJob
<1>2. step \in Nat /\ 1 <= step /\ (size # 0 => step <= size)
  BY <1>1 DEF Greater
<1>3. CASE turns <= size \/ size = 0
  <2>1. ChunkConversation(job) = <<Whole(job)>>
    BY <1>3 DEF ChunkConversation
  <2> QED
    BY <2>1, OneWhole
<1>4. CASE ~(turns <= size \/ size = 0)
  <2>1. ChunkConversation(job) = c
    BY <1>4 DEF ChunkConversation
  <2>a. /\ \A i \in all : TurnNumber(job, i) \in 1..turns
        /\ all \subseteq Nat /\ all \subseteq DOMAIN job.lines
    <3>1. all \subseteq DOMAIN job.lines /\ job.lines \in Seq(LineKinds)
      BY DEF TurnLines, ExtractionJob
    <3> QED
      BY <3>1, TurnsAreNumbered
  <2> HIDE DEF all, turns, size, step
  <2>2. /\ start(1) = 0
        /\ \A n \in Nat \ {0} : start(n) \in Nat /\ start(n) >= n - 1
        /\ \A n \in Nat \ {0} : start(n + 1) = start(n) + step
    <3>1. start(1) = 0
      BY <1>2
    <3>2. ASSUME NEW n \in Nat \ {0}
          PROVE  /\ start(n) \in Nat /\ start(n) >= n - 1
                 /\ start(n + 1) = start(n) + step
      <4> DEFINE m == n - 1
                 d == step - 1
      <4>1. m \in Nat /\ d \in Nat /\ step = d + 1 /\ n = m + 1
        BY <1>2
      <4>2. m * d \in Nat
        BY <4>1
      <4>3. m * step = m * d + m
        BY <4>1
      <4>4. ((n + 1) - 1) * step = m * step + step
        BY <4>1
      <4> QED
        BY <4>1, <4>2, <4>3, <4>4
    <3> QED
      BY <3>1, <3>2
  <2> HIDE DEF start
  <2>3. turns \in 1..turns /\ Ends(turns)
    BY <1>1, <1>4, <2>2
  <2>4. \E n \in 1..turns : IsLast(n)
    <3> DEFINE P == {n \in 1..turns : Ends(n)}
    <3>a. P \in SUBSET Nat /\ P # {}
      BY <1>1, <2>3
    <3>b. \A n \in P : n \in 1..turns /\ Ends(n)
      OBVIOUS
    <3>c. \A n \in 1..turns : Ends(n) => n \in P
      OBVIOUS
    <3> HIDE DEF P
    <3>1. PICK n \in P : \A k \in P : n <= k
      BY <3>a, LeastOfSome
    <3>2. \A k \in 1..(n - 1) : k \in 1..turns /\ ~(n <= k)
      BY <1>1, <3>1, <3>b
    <3>3. n \in 1..turns /\ Ends(n)
      BY <3>b
    <3>4. \A k \in 1..(n - 1) : ~Ends(k)
      <4> HIDE DEF Ends
      <4> QED
        BY <3>2, <3>1, <3>c
    <3> QED
      BY <3>3, <3>4
  <2>5. last \in 1..turns /\ IsLast(last)
    BY <2>4
  <2> HIDE DEF last
  <2>6. c \in Seq(Prompts) /\ Len(c) = last /\ last \notin {0, 1}
    <3>1. \A n \in 1..last : p(n) \in Prompts
      BY <2>a DEF Prompts
    <3>2. last # 1
      BY <1>1, <1>4, <2>2, <2>5
    <3> HIDE DEF p
    <3> QED
      BY <1>1, <2>5, <3>1, <3>2
  <2>7. ASSUME NEW t \in 1..turns
        PROVE  \E n \in 1..last : t \in Window(n)
    <3> DEFINE P == {n \in 1..last : t <= start(n) + size}
    <3>1. last \in P
      BY <1>1, <2>2, <2>5, <2>7
    <3>a. P \in SUBSET Nat /\ P # {}
      BY <1>1, <2>5, <3>1
    <3>b. \A n : n \in P <=> n \in 1..last /\ t <= start(n) + size
      OBVIOUS
    <3> HIDE DEF P
    <3>2. PICK n \in P : \A k \in P : n <= k
      BY <3>a, LeastOfSome
    <3>3. n \in 1..last /\ t <= start(n) + size /\ n \in Nat \ {0}
      BY <2>5, <3>2, <3>b
    <3>4. start(n) + 1 <= t
      <4>1. CASE n = 1
        BY <2>2, <2>7, <4>1
      <4>2. CASE n # 1
        <5>1. n - 1 \in 1..last /\ n - 1 \in Nat \ {0} /\ (n - 1) + 1 = n
          BY <2>5, <3>3, <4>2
        <5>2. n - 1 \notin P
          <6>1. ~(n <= n - 1)
            BY <3>3
          <6> QED
            BY <3>2, <6>1
        <5>3. start(n - 1) + size < t
          BY <1>1, <2>2, <2>7, <5>1, <5>2, <3>b
        <5>4. start(n) = start(n - 1) + step
          BY <2>2, <5>1
        <5> QED
          <6> DEFINE was == start(n - 1)
                     now == start(n)
          <6>1. was \in Nat /\ was + size < t /\ now = was + step
            BY <2>2, <5>1, <5>3, <5>4
          <6>2. t \in Nat
            BY <1>1, <2>7
          <6> HIDE DEF was, now
          <6>3. now + 1 <= t
            BY <1>1, <1>2, <1>4, <6>1, <6>2
          <6> QED
            BY <6>3 DEF now
      <4> QED
        BY <4>1, <4>2
    <3>5. start(n) \in Nat
      BY <2>2, <3>3
    <3>6. t \in Window(n)
      BY <1>1, <2>7, <3>3, <3>4, <3>5
    <3> QED
      BY <3>3, <3>6
  <2>8. Covered(c, job)
    <3>1. \A n \in 1..last : p(n) \in ToSet(c)
      <4> HIDE DEF p
      <4> QED
        BY DEF ToSet
    <3>2. ASSUME NEW i \in all PROVE \E n \in 1..last : i \in p(n)
      <4> HIDE DEF Window
      <4> QED
        BY <2>a, <2>7
    <3>3. Len(c) # 1
      BY <2>6
    <3> HIDE DEF p, c
    <3>4. \A i \in all : \E q \in ToSet(c) : i \in q
      BY <3>1, <3>2
    <3> QED
      BY <3>3, <3>4 DEF Covered, all
  <2> QED
    BY <2>1, <2>6, <2>8
<1> QED
  BY <1>3, <1>4


-----------------------------------------------------------------------------
(* Extractions: the invariant.  The prompts cover what they must of the    *)
(* conversation, an answer is awaited for as long as there is a prompt     *)
(* without one, and what is kept in the end leads to all that was heard.   *)
Facts == DOMAIN Said

ExtractState ==
  [pc : {"none", "new", "next", "asking", "done", "failed"},
   job : {None} \cup ExtractionJob, prompts : Seq(Prompts),
   heard : Seq(Seq(Facts)), kept : Seq(Facts)]

(* What is kept of all that was heard and quoted.                          *)
KeepsEnough(mode, all, quotes, kept) ==
  /\ quotes \subseteq kept /\ kept \subseteq all \cup quotes
  /\ mode # "consensus" =>
       \A T \in SUBSET all : kept \cap all \subseteq T /\ Closed(T, all)
                             => T = all

KeptSays(job, heard, kept) ==
  KeepsEnough(job.mode, ToSet(FlattenSeq(heard)), ToSet(job.quotes),
              ToSet(kept))

Sound(pc, job, prompts, heard, kept) ==
  /\ pc # "none" => job \in ExtractionJob
  /\ pc = "new" => heard = <<>>
  /\ pc \in {"next", "asking", "done"} =>
       /\ Len(prompts) # 0 /\ Covered(prompts, job)
       /\ Len(heard) <= Len(prompts)
  /\ pc = "asking" => Len(heard) < Len(prompts)
  /\ pc = "done" => KeptSays(job, heard, kept)

SoundAt(x) == Sound(extract[x].pc, extract[x].job, extract[x].prompts,
                    extract[x].heard, extract[x].kept)

ExtractInv ==
  /\ extract \in [Extractions -> ExtractState]
  /\ \A a \in answers : a.facts \in Seq(Facts)
  /\ \A x \in Extractions : SoundAt(x)

(* What the model finds is a list of what was said.                        *)
LEMMA HearableFacts ==
  ASSUME NEW prompt, NEW facts \in Hearable(prompt)
  PROVE  facts \in Seq(Facts)
<1> DEFINE all == [f \in DOMAIN Said |-> f]
<1>1. all \in Seq(Facts)
  <2>1. Len(Said) \in Nat /\ DOMAIN Said = 1..Len(Said)
    BY SaidAssumption
  <2>2. all = [f \in 1..Len(Said) |-> f] /\ \A f \in 1..Len(Said) : f \in Facts
    BY <2>1 DEF Facts
  <2> QED
    BY <2>1, <2>2
<1>2. PICK F : facts = Taken(all, F)
  BY DEF Hearable
<1> HIDE DEF all
<1> QED
  BY <1>1, <1>2, TakenIsThere

(* One list behind another.                                                *)
LEMMA Behind ==
  ASSUME NEW S, NEW a \in Seq(S), NEW c \in Seq(S)
  PROVE  a \o c \in Seq(S) /\ ToSet(a \o c) = ToSet(a) \cup ToSet(c)
<1>1. /\ a \o c \in Seq(S) /\ Len(a \o c) = Len(a) + Len(c)
      /\ Len(a) \in Nat /\ Len(c) \in Nat
      /\ \A i \in 1..Len(a) : (a \o c)[i] = a[i]
      /\ \A i \in 1..Len(c) : (a \o c)[Len(a) + i] = c[i]
  BY ConcatProperties
<1> DEFINE m == Len(a)
           n == Len(c)
           s == a \o c
<1>2. /\ m \in Nat /\ n \in Nat /\ DOMAIN s = 1..(m + n)
      /\ DOMAIN a = 1..m /\ DOMAIN c = 1..n
      /\ \A i \in 1..m : s[i] = a[i]
      /\ \A i \in 1..n : s[m + i] = c[i]
  BY <1>1
<1> HIDE DEF m, n, s
<1>3. ASSUME NEW i \in 1..(m + n), i \notin 1..m
      PROVE  \E k \in 1..n : i = m + k
  <2>1. i - m \in 1..n /\ i = m + (i - m)
    BY <1>2, <1>3
  <2> QED
    BY <2>1
<1>4. \A i \in 1..m : i \in 1..(m + n)
  BY <1>2
<1>5. \A i \in 1..n : m + i \in 1..(m + n)
  BY <1>2
<1>6. ToSet(s) = ToSet(a) \cup ToSet(c)
  <2>1. \A i \in 1..(m + n) : \/ \E k \in 1..m : s[i] = a[k]
                             \/ \E k \in 1..n : s[i] = c[k]
    BY <1>2, <1>3
  <2>2. \A k \in 1..m : \E i \in 1..(m + n) : s[i] = a[k]
    BY <1>2, <1>4
  <2>3. \A k \in 1..n : \E i \in 1..(m + n) : s[i] = c[k]
    BY <1>2, <1>5
  <2>4. /\ ToSet(s) = {s[i] : i \in 1..(m + n)}
        /\ ToSet(a) = {a[i] : i \in 1..m}
        /\ ToSet(c) = {c[i] : i \in 1..n}
    BY <1>2 DEF ToSet
  <2> QED
    BY <2>1, <2>2, <2>3, <2>4
<1> QED
  BY <1>1, <1>6 DEF s

(* Quotes come on top, and nothing is lost for them.                       *)
LEMMA MergedKeeps ==
  ASSUME NEW facts \in Seq(Facts), NEW quotes \in Seq(Facts)
  PROVE  /\ MergeQuotedEntityFacts(facts, quotes) \in Seq(Facts)
         /\ ToSet(MergeQuotedEntityFacts(facts, quotes))
              = ToSet(facts) \cup ToSet(quotes)
<1> DEFINE new == {i \in DOMAIN quotes : quotes[i] \notin ToSet(facts)}
           top == Taken(quotes, new)
<1>1. MergeQuotedEntityFacts(facts, quotes) = facts \o top
  BY DEF MergeQuotedEntityFacts
<1>2. \A i \in DOMAIN quotes : i \in new \/ quotes[i] \in ToSet(facts)
  OBVIOUS
<1> HIDE DEF new
<1>3. /\ top \in Seq(Facts)
      /\ ToSet(top) = {quotes[i] : i \in DOMAIN quotes \cap new}
  BY TakenIsThere
<1> HIDE DEF top
<1>4. /\ facts \o top \in Seq(Facts)
      /\ ToSet(facts \o top) = ToSet(facts) \cup ToSet(top)
  BY <1>3, Behind
<1>5. ToSet(facts) \cup ToSet(top) = ToSet(facts) \cup ToSet(quotes)
  BY <1>2, <1>3 DEF ToSet
<1> QED
  BY <1>1, <1>4, <1>5

(* What is agreed on comes from what was heard, and but for a vote leads   *)
(* to all of it.                                                           *)
LEMMA AgreedIsSound ==
  ASSUME NEW x, extract[x].heard \in Seq(Seq(Facts)), Len(extract[x].heard) # 0
  PROVE  /\ AllHeard(x) \in Seq(Facts) /\ Agreed(x) \in Seq(Facts)
         /\ ToSet(Agreed(x)) \subseteq ToSet(AllHeard(x))
         /\ Goal(x).mode # "consensus" =>
              \A T \in SUBSET ToSet(AllHeard(x)) :
                ToSet(Agreed(x)) \subseteq T /\ Closed(T, ToSet(AllHeard(x)))
                => T = ToSet(AllHeard(x))
<1> DEFINE heard == extract[x].heard
           all == FlattenSeq(heard)
           mode == Goal(x).mode
<1>1. /\ all \in Seq(Facts)
      /\ ToSet(heard[1]) \subseteq ToSet(all)
      /\ Len(heard) = 1 => all = heard[1]
  BY FlattenKeeps
<1>2. Len(heard) \in Nat /\ heard[1] \in Seq(Facts)
  OBVIOUS
<1>3. heard \in Seq(Seq(Facts)) /\ Len(heard) # 0
  OBVIOUS
<1>4. Agreed(x) = CASE mode = "consensus" -> FilterByMajorityVote(heard)
                    [] mode = "union" -> DeduplicateFacts(all)
                    [] OTHER -> IF Len(heard) > 1 THEN MarkDuplicates(all)
                                ELSE heard[1]
  BY DEF Agreed, AllHeard
<1>5. AllHeard(x) = all /\ Goal(x).mode = mode
  BY DEF AllHeard
<1> HIDE DEF heard, all, mode
<1>6. CASE mode = "consensus"
  <2>1. Agreed(x) = FilterByMajorityVote(heard)
    BY <1>4, <1>6
  <2>2. Agreed(x) \in Seq(Facts) /\ ToSet(Agreed(x)) \subseteq ToSet(heard[1])
    BY <1>3, <2>1, MajorityIsHeard
  <2> QED
    BY <1>1, <1>5, <1>6, <2>2
<1>7. CASE mode = "union"
  <2>1. Agreed(x) = DeduplicateFacts(all)
    BY <1>4, <1>7
  <2>2. /\ DeduplicateFacts(all) \in Seq(Facts)
        /\ ToSet(DeduplicateFacts(all)) \subseteq ToSet(all)
        /\ \A T \in SUBSET ToSet(all) :
             /\ ToSet(DeduplicateFacts(all)) \subseteq T
             /\ Closed(T, ToSet(all))
             => T = ToSet(all)
    BY <1>1, DeduplicateKeeps
  <2> QED
    BY <1>1, <1>5, <2>1, <2>2
<1>8. CASE mode \notin {"consensus", "union"} /\ Len(heard) > 1
  <2>1. Agreed(x) = MarkDuplicates(all)
    BY <1>4, <1>8
  <2>2. /\ MarkDuplicates(all) \in Seq(Facts)
        /\ ToSet(MarkDuplicates(all)) \subseteq ToSet(all)
        /\ \A T \in SUBSET ToSet(all) :
             /\ ToSet(MarkDuplicates(all)) \subseteq T
             /\ Closed(T, ToSet(all))
             => T = ToSet(all)
    BY <1>1, MarkKeeps
  <2> QED
    BY <1>1, <1>5, <2>1, <2>2
<1>9. CASE mode \notin {"consensus", "union"} /\ ~(Len(heard) > 1)
  <2>1. Agreed(x) = heard[1]
    BY <1>4, <1>9
  <2>2. Len(heard) = 1
    <3> DEFINE n == Len(heard)
    <3>1. n \in Nat /\ n # 0 /\ ~(n > 1)
      BY <1>2, <1>3, <1>9
    <3> HIDE DEF n
    <3>2. n = 1
      BY <3>1
    <3> QED
      BY <3>2 DEF n
  <2> QED
    BY <1>1, <1>2, <1>5, <2>1, <2>2
<1> QED
  BY <1>6, <1>7, <1>8, <1>9

(* Whatever the mode, what is kept is sound.                               *)
LEMMA KeptIsSound ==
  ASSUME NEW x, extract[x].heard \in Seq(Seq(Facts)),
         Len(extract[x].heard) # 0, extract[x].job \in ExtractionJob
  PROVE  /\ Kept(x) \in Seq(Facts)
         /\ KeptSays(extract[x].job, extract[x].heard, Kept(x))
<1> DEFINE all == AllHeard(x)
           agreed == Agreed(x)
           quotes == extract[x].job.quotes
           mode == Goal(x).mode
<1>1. /\ all \in Seq(Facts) /\ agreed \in Seq(Facts)
      /\ ToSet(agreed) \subseteq ToSet(all)
      /\ mode # "consensus" =>
           \A T \in SUBSET ToSet(all) :
             ToSet(agreed) \subseteq T /\ Closed(T, ToSet(all))
             => T = ToSet(all)
  BY AgreedIsSound
<1>2. quotes \in Seq(Facts)
  BY DEF ExtractionJob, Facts
<1>3. Kept(x) = MergeQuotedEntityFacts(agreed, quotes)
  BY DEF Kept, Goal
<1>4. KeptSays(extract[x].job, extract[x].heard, Kept(x))
        = KeepsEnough(mode, ToSet(all), ToSet(quotes), ToSet(Kept(x)))
  BY DEF KeptSays, Goal, AllHeard
<1> HIDE DEF all, agreed, quotes, mode
<1>5. Kept(x) \in Seq(Facts) /\ ToSet(Kept(x)) = ToSet(agreed) \cup ToSet(quotes)
  BY <1>1, <1>2, <1>3, MergedKeeps
<1>6. ToSet(agreed) \subseteq ToSet(Kept(x)) \cap ToSet(all)
  BY <1>1, <1>5
<1>7. KeepsEnough(mode, ToSet(all), ToSet(quotes), ToSet(Kept(x)))
  BY <1>1, <1>5, <1>6 DEF KeepsEnough
<1> QED
  BY <1>4, <1>5, <1>7

-----------------------------------------------------------------------------
(* Extractions: every step keeps it.                                       *)
(* No extraction has begun.                                                *)
LEMMA InitExtractInv == Init => ExtractInv
<1> SUFFICES ASSUME NEW met \in Meetings, InitExtraction(met.extractions)
             PROVE  ExtractInv
  BY DEF Init
<1> DEFINE active == met.extractions
<1>1. PICK job \in [active -> Jobs] :
        extract = [x \in Extractions |->
                     [pc |-> IF x \in active THEN "new" ELSE "none",
                      job |-> IF x \in active THEN job[x] ELSE None,
                      prompts |-> <<>>, heard |-> <<>>, kept |-> <<>>]]
  BY DEF InitExtraction
<1>2. <<>> \in Seq(Prompts) /\ <<>> \in Seq(Seq(Facts)) /\ <<>> \in Seq(Facts)
  OBVIOUS
<1> HIDE DEF active
<1>3. \A x \in active : job[x] \in ExtractionJob
  BY <1>1, JobsAssumption
<1>4. extract \in [Extractions -> ExtractState]
  BY <1>1, <1>2, <1>3 DEF ExtractState
<1>5. ASSUME NEW x \in Extractions PROVE SoundAt(x)
  BY <1>1, <1>3 DEF SoundAt, Sound
<1> QED
  BY <1>4, <1>5 DEF ExtractInv, InitExtraction

(* One extraction goes on.                                                 *)
Becomes(x, pc, job, prompts, heard, kept) ==
  extract' = [extract EXCEPT ![x].pc = pc, ![x].job = job,
    ![x].prompts = prompts, ![x].heard = heard, ![x].kept = kept]

LEMMA ExtractionGoesOn ==
  ASSUME ExtractInv, NEW x \in Extractions,
         NEW job \in {None} \cup ExtractionJob,
         NEW pc \in {"none", "new", "next", "asking", "done", "failed"},
         NEW prompts \in Seq(Prompts), NEW heard \in Seq(Seq(Facts)),
         NEW kept \in Seq(Facts),
         Becomes(x, pc, job, prompts, heard, kept),
         Sound(pc, job, prompts, heard, kept),
         \A a \in answers' : a.facts \in Seq(Facts)
  PROVE  ExtractInv'
<1>1. extract \in [Extractions -> ExtractState]
  BY DEF ExtractInv
<1>2. extract' \in [Extractions -> ExtractState]
  <2> DEFINE r == [extract[x] EXCEPT !.pc = pc, !.job = job,
                     !.prompts = prompts, !.heard = heard, !.kept = kept]
  <2>1. extract[x] \in ExtractState
    BY <1>1
  <2>2. r \in ExtractState
    BY <2>1 DEF ExtractState
  <2>3. extract' = [extract EXCEPT ![x] = r]
    BY <1>1 DEF Becomes
  <2> HIDE DEF r
  <2> QED
    BY <1>1, <2>2, <2>3
<1>3. /\ extract'[x].pc = pc /\ extract'[x].job = job
      /\ extract'[x].prompts = prompts /\ extract'[x].heard = heard
      /\ extract'[x].kept = kept
      /\ \A y \in Extractions \ {x} : extract'[y] = extract[y]
  BY <1>1 DEF ExtractState, Becomes
<1>4. ASSUME NEW y \in Extractions PROVE SoundAt(y)'
  <2>1. CASE y = x
    <3>1. SoundAt(x)'
      BY <1>3 DEF SoundAt, Sound, Covered, TurnLines, KeptSays,
          KeepsEnough, Closed, Similar
    <3> QED
      BY <2>1, <3>1
  <2>2. CASE y # x
    <3>1. extract'[y] = extract[y] /\ SoundAt(y)
      BY <1>3, <2>2 DEF ExtractInv
    <3> QED
      BY <3>1 DEF SoundAt, Sound, Covered, TurnLines, KeptSays,
          KeepsEnough, Closed, Similar
  <2> QED
    BY <2>1, <2>2
<1> QED
  BY <1>2, <1>4 DEF ExtractInv

(* What an extraction is, field by field.                                  *)
LEMMA Fields ==
  ASSUME ExtractInv, NEW x \in Extractions
  PROVE  /\ extract \in [Extractions -> ExtractState]
         /\ extract[x].pc \in
              {"none", "new", "next", "asking", "done", "failed"}
         /\ extract[x].job \in {None} \cup ExtractionJob
         /\ extract[x].prompts \in Seq(Prompts)
         /\ extract[x].heard \in Seq(Seq(Facts))
         /\ extract[x].kept \in Seq(Facts)
         /\ Len(extract[x].heard) \in Nat /\ Len(extract[x].prompts) \in Nat
         /\ Sound(extract[x].pc, extract[x].job, extract[x].prompts,
                  extract[x].heard, extract[x].kept)
<1>1. extract \in [Extractions -> ExtractState] /\ SoundAt(x)
  BY DEF ExtractInv
<1>2. extract[x] \in ExtractState
  BY <1>1
<1> QED
  BY <1>1, <1>2 DEF ExtractState, SoundAt

(* The prompts that are made cover the conversation.                       *)
LEMMA StartSafe ==
  ASSUME ExtractInv, NEW x \in Extractions, StartExtraction(x)
  PROVE  ExtractInv'
<1> DEFINE job == extract[x].job
           prompts == IF Again(x) THEN [n \in 1..job.runs |-> Whole(job)]
                      ELSE IF job.mode = "chunked" THEN ChunkConversation(job)
                      ELSE <<Whole(job)>>
<1>1. /\ extract[x].pc = "new" /\ UNCHANGED answers
      /\ extract' = [extract EXCEPT ![x].pc = "next", ![x].prompts = prompts]
  BY DEF StartExtraction, Goal
<1>2. job \in ExtractionJob /\ extract[x].heard = <<>>
  BY <1>1, Fields DEF Sound
<1>3. /\ job.runs \in Nat \ {0}
      /\ Again(x) <=> job.mode \in {"consensus", "union"}
  BY <1>2 DEF ExtractionJob, Again, Goal
<1> HIDE DEF job
<1>4. /\ prompts \in Seq(Prompts) /\ Len(prompts) # 0
      /\ Covered(prompts, job)
  <2>1. CASE Again(x)
    <3>1. prompts = [n \in 1..job.runs |-> Whole(job)]
      BY <2>1
    <3> HIDE DEF prompts
    <3> QED
      BY <1>2, <1>3, <3>1, WholeIsCovered
  <2>2. CASE ~Again(x) /\ job.mode = "chunked"
    <3>1. prompts = ChunkConversation(job)
      BY <2>2
    <3> HIDE DEF prompts
    <3> QED
      BY <1>2, <1>3, <2>2, <3>1, ChunksCover
  <2>3. CASE ~Again(x) /\ job.mode # "chunked"
    <3>1. prompts = <<Whole(job)>>
      BY <2>3
    <3> HIDE DEF prompts
    <3> QED
      BY <1>2, <3>1, OneWhole
  <2> QED
    BY <2>1, <2>2, <2>3
<1> HIDE DEF prompts
<1> DEFINE heard == extract[x].heard
           kept == extract[x].kept
<1>5. /\ heard \in Seq(Seq(Facts)) /\ kept \in Seq(Facts)
      /\ Becomes(x, "next", job, prompts, heard, kept)
  BY <1>1, Fields DEF ExtractState, Becomes, job
<1>6. Len(heard) = 0 /\ Len(prompts) \in Nat
  BY <1>2, <1>4
<1> HIDE DEF heard, kept
<1>7. Sound("next", job, prompts, heard, kept)
  BY <1>2, <1>4, <1>6 DEF Sound
<1>8. \A a \in answers' : a.facts \in Seq(Facts)
  BY <1>1 DEF ExtractInv
<1> QED
  BY <1>2, <1>4, <1>5, <1>7, <1>8, ExtractionGoesOn

(* An answer comes, from the cache or from the model.                      *)
LEMMA HeardSafe ==
  ASSUME ExtractInv, NEW x \in Extractions,
         extract[x].pc \in {"next", "asking"}, Left(x),
         NEW facts \in Seq(Facts),
         extract' = [extract EXCEPT ![x].pc = "next",
                                    ![x].heard = Append(@, facts)],
         \A a \in answers' : a.facts \in Seq(Facts)
  PROVE  ExtractInv'
<1> DEFINE job == extract[x].job
           prompts == extract[x].prompts
           was == extract[x].heard
           heard == Append(was, facts)
           kept == extract[x].kept
<1>1. /\ prompts \in Seq(Prompts) /\ was \in Seq(Seq(Facts))
      /\ job \in {None} \cup ExtractionJob
      /\ kept \in Seq(Facts)
      /\ Len(was) \in Nat /\ Len(prompts) \in Nat
      /\ Sound(extract[x].pc, job, prompts, was, kept)
  BY Fields
<1>2. Becomes(x, "next", job, prompts, heard, kept)
  BY Fields DEF ExtractState, Becomes
<1>3. Len(was) < Len(prompts)
  BY DEF Left
<1> HIDE DEF was, prompts, kept, job
<1>4. heard \in Seq(Seq(Facts)) /\ Len(heard) = Len(was) + 1
  BY <1>1
<1> HIDE DEF heard
<1>5. Sound("next", job, prompts, heard, kept)
  BY <1>1, <1>3, <1>4 DEF Sound
<1> QED
  BY <1>1, <1>2, <1>4, <1>5, ExtractionGoesOn

(* The model is asked, or has failed.                                      *)
LEMMA WaitSafe ==
  ASSUME ExtractInv, NEW x \in Extractions,
         extract[x].pc \in {"next", "asking"},
         NEW pc \in {"asking", "failed"}, pc = "asking" => Left(x),
         extract' = [extract EXCEPT ![x].pc = pc], UNCHANGED answers
  PROVE  ExtractInv'
<1> DEFINE job == extract[x].job
           prompts == extract[x].prompts
           heard == extract[x].heard
           kept == extract[x].kept
<1>1. /\ prompts \in Seq(Prompts) /\ heard \in Seq(Seq(Facts))
      /\ kept \in Seq(Facts) /\ job \in {None} \cup ExtractionJob
      /\ Sound(extract[x].pc, job, prompts, heard, kept)
  BY Fields
<1>2. Becomes(x, pc, job, prompts, heard, kept)
  BY Fields DEF ExtractState, Becomes
<1>3. pc = "asking" => Len(heard) < Len(prompts)
  BY DEF Left
<1> HIDE DEF prompts, heard, kept, job
<1>4. Sound(pc, job, prompts, heard, kept)
  BY <1>1, <1>3 DEF Sound
<1>5. \A a \in answers' : a.facts \in Seq(Facts)
  BY DEF ExtractInv
<1>6. pc \in {"none", "new", "next", "asking", "done", "failed"}
  OBVIOUS
<1> QED
  <2>1. /\ prompts \in Seq(Prompts) /\ heard \in Seq(Seq(Facts))
        /\ kept \in Seq(Facts) /\ job \in {None} \cup ExtractionJob
    BY <1>1
  <2> QED
    BY <1>2, <1>4, <1>5, <1>6, <2>1, ExtractionGoesOn

(* So do the chunks that take the place of the one prompt.                 *)
LEMMA FallbackSafe ==
  ASSUME ExtractInv, NEW x \in Extractions, ChunkedFallback(x)
  PROVE  ExtractInv'
<1> DEFINE was == extract[x].job
           job == [was EXCEPT !.mode = "chunked"]
           prompts == ChunkConversation(was)
           kept == extract[x].kept
<1>1. /\ kept \in Seq(Facts) /\ <<>> \in Seq(Seq(Facts))
      /\ was \in ExtractionJob /\ was.mode = "fallback"
  BY Fields DEF ChunkedFallback, FallBack, Goal, Sound
<1>2. Becomes(x, "next", job, prompts, <<>>, kept)
  <2>1. extract[x].pc = "next" /\ extract' = [extract EXCEPT
          ![x].job.mode = "chunked", ![x].prompts = prompts,
          ![x].heard = <<>>]
    BY DEF ChunkedFallback, Goal
  <2> HIDE DEF prompts
  <2> QED
    BY <2>1, Fields DEF ExtractState, Becomes
<1>3. /\ job \in ExtractionJob /\ job.mode = "chunked"
      /\ job.lines = was.lines
  BY <1>1 DEF ExtractionJob
<1> HIDE DEF kept, was, job
<1>4. /\ prompts \in Seq(Prompts) /\ Len(prompts) # 0
      /\ Covered(prompts, was)
  BY <1>1, ChunksCover
<1> HIDE DEF prompts
<1>5. Covered(prompts, job)
  BY <1>1, <1>3, <1>4 DEF Covered, TurnLines
<1>6. Len(prompts) \in Nat /\ Len(<<>>) = 0
  BY <1>4
<1>7. Sound("next", job, prompts, <<>>, kept)
  BY <1>3, <1>4, <1>5, <1>6 DEF Sound
<1>8. \A a \in answers' : a.facts \in Seq(Facts)
  BY DEF ChunkedFallback, ExtractInv
<1> QED
  BY <1>1, <1>2, <1>3, <1>4, <1>7, <1>8, ExtractionGoesOn

(* All prompts have been answered, so there is one to keep facts of.       *)
LEMMA DoneSafe ==
  ASSUME ExtractInv, NEW x \in Extractions, ConsensusExtractFacts(x)
  PROVE  ExtractInv'
<1> DEFINE job == extract[x].job
           prompts == extract[x].prompts
           heard == extract[x].heard
           kept == Kept(x)
<1>1. /\ extract[x].pc = "next" /\ ~Left(x) /\ UNCHANGED answers
      /\ extract' = [extract EXCEPT ![x].pc = "done", ![x].kept = kept]
  BY DEF ConsensusExtractFacts
<1>2. /\ prompts \in Seq(Prompts) /\ heard \in Seq(Seq(Facts))
      /\ job \in ExtractionJob /\ Len(prompts) \in Nat /\ Len(heard) \in Nat
      /\ Sound("next", job, prompts, heard, extract[x].kept)
  BY <1>1, Fields DEF Sound
<1>3. Len(heard) # 0
  BY <1>1, <1>2 DEF Left, Sound
<1>4. kept \in Seq(Facts) /\ KeptSays(job, heard, kept)
  BY <1>2, <1>3, KeptIsSound
<1> HIDE DEF kept
<1>5. Becomes(x, "done", job, prompts, heard, kept)
  BY <1>1, Fields DEF ExtractState, Becomes
<1> HIDE DEF prompts, heard, job
<1>6. Sound("done", job, prompts, heard, kept)
  BY <1>2, <1>4 DEF Sound
<1>7. \A a \in answers' : a.facts \in Seq(Facts)
  BY <1>1 DEF ExtractInv
<1> QED
  BY <1>2, <1>4, <1>5, <1>6, <1>7, ExtractionGoesOn

(* Each action of an extraction keeps the invariant.                       *)
LEMMA ExtractionSafe ==
  ASSUME ExtractInv, NextExtraction
  PROVE  ExtractInv'
<1> SUFFICES ASSUME NEW x \in Extractions,
               \/ StartExtraction(x) \/ ReadCache(x) \/ AskModel(x)
               \/ CachedExtractFacts(x) \/ ChunkedFallback(x)
               \/ ConsensusExtractFacts(x) \/ FailExtraction(x)
             PROVE  ExtractInv'
  BY DEF NextExtraction
<1>1. CASE ReadCache(x)
  <2>1. PICK a \in Known(x) :
          extract' = [extract EXCEPT ![x].heard = Append(@, a.facts)]
    BY <1>1 DEF ReadCache
  <2>2. a.facts \in Seq(Facts) /\ \A b \in answers' : b.facts \in Seq(Facts)
    BY <1>1 DEF ExtractInv, Known, ReadCache
  <2>3. extract[x].pc = "next" /\ Left(x)
    BY <1>1 DEF ReadCache
  <2> DEFINE facts == a.facts
  <2>4. extract' = [extract EXCEPT ![x].pc = "next",
                                   ![x].heard = Append(@, facts)]
    BY <2>1, <2>3, Fields DEF ExtractState
  <2> HIDE DEF facts
  <2>5. facts \in Seq(Facts)
    BY <2>2 DEF facts
  <2> QED
    BY <2>2, <2>3, <2>4, <2>5, HeardSafe
<1>2. CASE AskModel(x)
  <2>1. /\ extract[x].pc = "next" /\ Left(x) /\ UNCHANGED answers
        /\ extract' = [extract EXCEPT ![x].pc = "asking"]
    BY <1>2 DEF AskModel
  <2> QED
    BY <2>1, WaitSafe
<1>3. CASE CachedExtractFacts(x)
  <2>1. PICK facts \in Hearable(Prompt(x)) :
          /\ extract' = [extract EXCEPT ![x].pc = "next",
                                        ![x].heard = Append(@, facts)]
          /\ answers' \subseteq answers \cup
               {[lines |-> Goal(x).lines, prompt |-> Prompt(x),
                 facts |-> facts]}
    <3>1. PICK facts \in Hearable(Prompt(x)) :
            /\ extract' = [extract EXCEPT ![x].pc = "next",
                                          ![x].heard = Append(@, facts)]
            /\ answers' =
                 IF Goal(x).cached /\ ~Again(x)
                 THEN {a \in answers : \/ a.lines # Goal(x).lines
                                       \/ a.prompt # Prompt(x)}
                        \cup {[lines |-> Goal(x).lines, prompt |-> Prompt(x),
                               facts |-> facts]}
                 ELSE answers
      BY <1>3 DEF CachedExtractFacts
    <3> QED
      BY <3>1
  <2>2. facts \in Seq(Facts)
    BY HearableFacts
  <2>3. \A a \in answers' : a.facts \in Seq(Facts)
    BY <2>1, <2>2 DEF ExtractInv
  <2>4. extract[x].pc = "asking" /\ Left(x)
    BY <1>3, Fields DEF CachedExtractFacts, Sound, Left
  <2> QED
    BY <2>1, <2>2, <2>3, <2>4, HeardSafe
<1>4. CASE FailExtraction(x)
  <2>1. /\ extract[x].pc \in {"next", "asking"} /\ UNCHANGED answers
        /\ extract' = [extract EXCEPT ![x].pc = "failed"]
    BY <1>4 DEF FailExtraction
  <2> QED
    BY <2>1, WaitSafe
<1> QED
  BY <1>1, <1>2, <1>3, <1>4, StartSafe, FallbackSafe, DoneSafe

(* What was going on has failed, and what was done remains.                *)
LEMMA RestartKeepsExtractions ==
  ASSUME ExtractInv, Restart
  PROVE  ExtractInv'
<1>1. /\ UNCHANGED answers
      /\ extract' = [x \in Extractions |->
           IF extract[x].pc \in {"next", "asking"}
           THEN [extract[x] EXCEPT !.pc = "failed"] ELSE extract[x]]
  BY DEF Restart
<1>2. ASSUME NEW x \in Extractions
      PROVE  extract'[x] \in ExtractState /\ SoundAt(x)'
  <2>1. extract[x] \in ExtractState /\ SoundAt(x)
    BY DEF ExtractInv
  <2>2. CASE extract[x].pc \in {"next", "asking"}
    <3>1. extract'[x] = [extract[x] EXCEPT !.pc = "failed"]
      BY <1>1, <2>2
    <3>2. /\ extract'[x] \in ExtractState /\ extract'[x].pc = "failed"
          /\ extract'[x].job = extract[x].job
      BY <2>1, <3>1 DEF ExtractState
    <3> QED
      BY <2>1, <2>2, <3>2 DEF SoundAt, Sound
  <2>3. CASE extract[x].pc \notin {"next", "asking"}
    <3>1. extract'[x] = extract[x]
      BY <1>1, <2>3
    <3> QED
      BY <2>1, <3>1 DEF SoundAt, Sound, Covered, TurnLines, KeptSays,
          KeepsEnough, Closed, Similar
  <2> QED
    BY <2>2, <2>3
<1>3. extract' \in [Extractions -> ExtractState]
  <2>1. extract' = [x \in Extractions |-> extract'[x]]
    BY <1>1
  <2> QED
    BY <1>2, <2>1
<1> QED
  BY <1>1, <1>2, <1>3 DEF ExtractInv

(* So does every step.                                                     *)
LEMMA NextExtractInv == ExtractInv /\ [Next]_vars => ExtractInv'
<1> SUFFICES ASSUME ExtractInv, [Next]_vars PROVE ExtractInv'
  OBVIOUS
<1>1. CASE NextExtraction
  BY <1>1, ExtractionSafe
<1>2. CASE Restart
  BY <1>2, RestartKeepsExtractions
<1>3. CASE UNCHANGED extractVars
  <2>1. UNCHANGED <<extract, answers>>
    BY <1>3 DEF extractVars
  <2> QED
    BY <2>1 DEF ExtractInv, SoundAt, Sound, Covered, TurnLines, KeptSays,
          KeepsEnough, Closed, Similar
<1> QED
  BY <1>1, <1>2, <1>3 DEF Next, vars, NextMentions, mentionVars

(* Every extraction that is over has covered the lines of its conversation *)
(* that chunkConversation or the one prompt take, and kept what leads to   *)
(* all that it heard.                                                      *)
THEOREM ExtractInvariance == Spec => []ExtractInv
<1> QED
  BY InitExtractInv, NextExtractInv, PTL DEF Spec

(* However long a conversation is and whatever its lines are, for any size *)
(* and overlap that are not negative, whatever the model answers and the   *)
(* caches hold: chunks leave out no line that chunkConversation takes for  *)
(* a turn, other prompts leave out no line, nothing is kept that neither   *)
(* an answer nor a rule names, and nothing is given up but for what it is  *)
(* like, or by a vote: markDuplicates, deduplicateFacts,                   *)
(* filterByMajorityVote, mergeQuotedEntityFacts.                           *)
THEOREM TurnsHeardSafe == Spec => []EveryTurnIsHeard
<1>1. ExtractInv => EveryTurnIsHeard
  <2> SUFFICES ASSUME ExtractInv
               PROVE  EveryTurnIsHeard
    OBVIOUS
  <2>1. ASSUME NEW x \in Extractions, extract[x].pc = "done"
        PROVE  /\ Covered(extract[x].prompts, extract[x].job)
               /\ KeepsEnough(Goal(x).mode, ToSet(AllHeard(x)),
                              ToSet(Goal(x).quotes), ToSet(extract[x].kept))
    BY <2>1, Fields DEF Sound, KeptSays, AllHeard, Goal
  <2> QED
    BY <2>1 DEF EveryTurnIsHeard, Covered, KeepsEnough, Goal, Again
<1> QED
  BY <1>1, ExtractInvariance, PTL

=============================================================================
