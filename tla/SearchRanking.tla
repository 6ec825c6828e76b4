---------------------------- MODULE SearchRanking ----------------------------
(***************************************************************************)
(* How the pool of one search is ordered and cut: repair loop, reranker,   *)
(* subject, literal-list, temporal and current-state ranking, conciseness  *)
(* penalty, eligibility floor, MMR, the protection of prints and the       *)
(* relevance gate.  The stages are functions on sequences of candidates    *)
(* [id, score]; scores and similarities are in thousandths.                *)
(*                                                                         *)
(* Words, months and signals are sets: what the regular expressions find   *)
(* in a question or in a memory is a field of its record.                  *)
(***************************************************************************)
EXTENDS Integers, FiniteSets, SequencesExt

CONSTANTS
  Ids,               \* candidates
  Row,               \* print, similarity, words, signs, months, created, ...
  Similar,           \* cosine of two candidates
  Questions,         \* what the classifiers say of a question; its overlay
  Scores,            \* scores the retrieval may have given
  Settings           \* thresholds, weights and limits of the configuration

ASSUME IdsAssumption == IsFiniteSet(Ids)
ASSUME RowAssumption == \A id \in Ids :
  /\ Row[id].similarity \in Int /\ Row[id].created \in Int
  /\ Row[id].length \in Nat
  /\ IsFiniteSet(Row[id].words) /\ IsFiniteSet(Row[id].signs)
ASSUME SimilarAssumption == Similar \in [Ids -> [Ids -> Int]]
ASSUME QuestionsAssumption == \A q \in Questions :
  /\ q.limit \in Nat /\ Settings.limits[q.label] \in Nat
ASSUME ScoresAssumption == Scores \subseteq Int
ASSUME SettingsAssumption ==
  /\ Settings.order \in [1..Cardinality(Ids) -> Ids]
  /\ Settings.rerankDepth \in Nat /\ Settings.maxSearchResults \in Nat
  /\ Settings.literalMax \in Nat /\ Settings.temporalBoost \in Int
  /\ Settings.lambda \in 0..100 /\ Settings.answers \subseteq Int
  /\ Settings.rankingMinSimilarity \in 0..1000
  /\ Settings.repairPrimaryWeight \in Nat /\ Settings.repairRewriteWeight \in Nat

VARIABLES
  question,    \* the question and what the classifiers say of it
  step,        \* the next stage
  candidates,  \* the pool in its order
  protected,   \* prints that must not be cut
  selected     \* the rows chosen from the pool

rankingVars == <<question, step, candidates, protected, selected>>

Lesser(a, b) == IF a <= b THEN a ELSE b
Greater(a, b) == IF a >= b THEN a ELSE b

(* The sequence with the smallest weights first, ties as they were.        *)
Sorted(s, weight) ==
  LET place(i) == Cardinality({j \in DOMAIN s :
                    weight[j] < weight[i] \/ (weight[j] = weight[i] /\ j <= i)})
  IN [k \in DOMAIN s |-> s[CHOOSE i \in DOMAIN s : place(i) = k]]

ByScore(s) == Sorted(s, [i \in DOMAIN s |-> -s[i].score])
Cut(s, n) == SubSeq(s, 1, Lesser(n, Len(s)))
IdsOf(s) == {s[i].id : i \in DOMAIN s}
Rescore(s, score) ==
  [i \in DOMAIN s |-> [id |-> s[i].id, score |-> score[i]]]
(* What is at the places, and the rows that have the ids, in their order.  *)
Taken(s, places) ==
  LET taken[i \in 0..Len(s)] ==
        IF i = 0 THEN <<>>
        ELSE IF i \in places THEN Append(taken[i - 1], s[i]) ELSE taken[i - 1]
  IN taken[Len(s)]
Keep(s, ids) == Taken(s, {i \in DOMAIN s : s[i].id \in ids})
PrintOf(id) == Row[id].print
PrintsIn(s) == {PrintOf(s[i].id) : i \in DOMAIN s}
NotAbove(s, i, j) ==
  s[i].score < s[j].score \/ (s[i].score = s[j].score /\ i <= j)

-----------------------------------------------------------------------------
(* What a question asks for.                                               *)

RecallLabels == {"complex", "multi-hop", "aggregation"}

ResolveRecallBypass(q) ==
  q.asOf \/ q.site \/ q.tense # "plain" \/ q.label \in RecallLabels

ClampLimit(n) == Greater(1, Lesser(Settings.maxSearchResults, n))
ClampLimitWide(n) == Greater(1, Lesser(50, n))

ResolveSearchLimit(q) ==
  CASE q.limit # 0 -> ClampLimit(q.limit)
    [] ~Settings.adaptive -> ClampLimit(Settings.maxSearchResults)
    [] q.label = "aggregation" -> ClampLimitWide(Settings.limits[q.label])
    [] OTHER -> ClampLimit(Settings.limits[q.label])

ResolveRerankDepth(q) ==
  Greater(ClampLimitWide(ResolveSearchLimit(q)), Settings.rerankDepth)

CountKeywordMatches(id, words) == Cardinality(Row[id].words \cap words)

-----------------------------------------------------------------------------
(* The repair loop: a second retrieval with a question that a model wrote. *)

TopSimilarity(s) == IF s = <<>> THEN 0 ELSE Row[s[1].id].similarity

ShouldRunRepairLoop(q, s) ==
  /\ Settings.repair
  /\ \/ q.label \in {"multi-hop", "aggregation"}
     \/ q.label = "complex" /\ ~q.ordering
  /\ \/ s = <<>>
     \/ TopSimilarity(s) < Settings.repairLoopMinSimilarity
     \/ q.complexWords /\ Len(s) < ResolveSearchLimit([q EXCEPT !.limit = 0])

ShouldAcceptRepair(initial, repaired) ==
  LET before == TopSimilarity(initial)
      after  == TopSimilarity(repaired)
      delta  == IF Settings.repairDeltaThreshold = 0 THEN 10
                ELSE Settings.repairDeltaThreshold
  IN /\ ~(before > 600 /\ after < before)
     /\ after - before >= delta
     /\ Settings.repairConfidenceFloor > 0 =>
          after >= Settings.repairConfidenceFloor

(* Every row once, at the place of its first sight, with its better score. *)
MergeStageResults(primary, secondary, limit, primaryWeight, secondaryWeight) ==
  LET weigh(s, w) == Rescore(s, [i \in DOMAIN s |-> (s[i].score * w) \div 100])
      all  == weigh(primary, primaryWeight) \o weigh(secondary, secondaryWeight)
      best(id) == CHOOSE x \in {all[i].score : i \in DOMAIN all} :
                    /\ \E i \in DOMAIN all : all[i] = [id |-> id, score |-> x]
                    /\ \A i \in DOMAIN all : all[i].id = id => all[i].score <= x
      first == {i \in DOMAIN all : \A j \in 1..(i - 1) : all[j].id # all[i].id}
      once  == Taken([i \in DOMAIN all |->
                       [id |-> all[i].id, score |-> best(all[i].id)]], first)
  IN Cut(ByScore(once), limit)

-----------------------------------------------------------------------------
(* Protection: one row for each print, the best one, in the place of rows  *)
(* nobody protects, the lowest first.                                      *)

DedupeByFingerprint(s) ==
  LET first == {i \in DOMAIN s :
                  \A j \in 1..(i - 1) : PrintOf(s[j].id) # PrintOf(s[i].id)}
      best(i) == CHOOSE j \in DOMAIN s :
                   /\ PrintOf(s[j].id) = PrintOf(s[i].id)
                   /\ \A k \in DOMAIN s : PrintOf(s[k].id) = PrintOf(s[i].id) =>
                        s[k].score < s[j].score
                          \/ (s[k].score = s[j].score /\ j <= k)
  IN Taken([i \in DOMAIN s |-> s[best(i)]], first)

LowestAtAll(s, prints) ==
  {i \in DOMAIN s : \A j \in DOMAIN s : NotAbove(s, i, j)}

(* The place of the lowest row nobody protects, or none.                   *)
FindReplacementIndex(s, prints) ==
  LET free == {i \in DOMAIN s : PrintOf(s[i].id) \notin prints}
  IN {i \in free : \A j \in free : NotAbove(s, i, j)}

PreserveProtectedResults(s, from, prints, limit) ==
  LET kept    == Keep(from, {id \in Ids : PrintOf(id) \in prints})
      missing == Keep(DedupeByFingerprint(kept),
                      {id \in Ids : PrintOf(id) \notin PrintsIn(s)})
      replace(acc, c) ==
        LET at == FindReplacementIndex(acc, prints)
        IN IF at = {} THEN acc ELSE [acc EXCEPT ![CHOOSE i \in at : TRUE] = c]
      result[k \in 0..Len(missing)] ==
        IF k = 0 THEN s ELSE replace(result[k - 1], missing[k])
  IN IF prints = {} \/ s = <<>> \/ kept = <<>> THEN Cut(s, limit)
     ELSE Cut(ByScore(result[Len(missing)]), limit)

-----------------------------------------------------------------------------
(* The ranking stages.                                                     *)

ShouldAutoSkipReranking(s) ==
  \/ Len(s) < 2
  \/ /\ Row[s[1].id].similarity >= Settings.rerankSkipTopSimilarity
     /\ Row[s[1].id].similarity - Row[s[2].id].similarity
          >= Settings.rerankSkipMinGap

(* Seven tenths the model's score, three tenths the score there was.       *)
RerankCandidates(s, answer) ==
  LET best == CHOOSE x \in {s[i].score : i \in DOMAIN s} :
                \A i \in DOMAIN s : s[i].score <= x
  IN IF s = <<>> THEN s ELSE ByScore(Rescore(s, [i \in DOMAIN s |->
       (7 * answer[s[i].id] + (3000 * s[i].score) \div Greater(best, 1)) \div 10]))

Mentioned(id) == Row[id].words \cap Settings.names
SubjectWords(q) == q.words \ q.subjects

ScoreSubjectCandidate(q, c) ==
  LET asked == Cardinality(Mentioned(c.id) \cap q.subjects)
      base  == CASE asked > 0 -> c.score + 2000 + 750 * (asked - 1)
                 [] asked = 0 /\ Mentioned(c.id) # {} -> c.score \div 4
                 [] OTHER -> c.score
  IN base + 400 * CountKeywordMatches(c.id, SubjectWords(q))
       - (IF q.event /\ "planning" \in Row[c.id].signs THEN 2250 ELSE 0)

ApplySubjectAwareRanking(q, s) ==
  ByScore(Rescore(s, [i \in DOMAIN s |-> ScoreSubjectCandidate(q, s[i])]))

SubjectProtection(q, s) ==
  Cut(Keep(ApplySubjectAwareRanking(q, s), {id \in Ids :
        /\ Mentioned(id) \cap q.subjects # {}
        /\ CountKeywordMatches(id, SubjectWords(q)) > 0}), 2)

ScoreSeenMusicEvent(q, signs) ==
  CASE ~({"music", "seen"} \subseteq q.wants) -> 0
    [] "leadingQuote" \in signs -> 40
    [] "attendance" \in signs -> 30
    [] OTHER -> 0

ScoreQuotedOrAttendance(q, signs) ==
  CASE ScoreSeenMusicEvent(q, signs) > 0 -> ScoreSeenMusicEvent(q, signs)
    [] q.wants \cap {"music", "books"} # {} /\ "quoted" \in signs -> 30
    [] OTHER -> 0

ScoreCandidate(q, id) ==
  LET signs == Row[id].signs
  IN (IF q.wants \cap {"names", "pets"} # {} /\ "named" \in signs
        THEN 30 ELSE 0)
     + ScoreQuotedOrAttendance(q, signs)
     + 15 * Cardinality(q.wants \cap signs \cap {"pets", "music", "books"})
     + (IF {"music", "seen"} \subseteq q.wants
             /\ {"leadingQuote", "performance"} \subseteq signs THEN 25 ELSE 0)

HasListIntent(q) == q.wants \cap {"names", "pets", "music", "books"} # {}

(* The rows with the strongest signals, each raised by four points.        *)
ProtectLiteralListAnswerCandidates(q, s) ==
  LET strong == Keep(s, {id \in Ids : ScoreCandidate(q, id) >= 30})
  IN IF ~(q.literal /\ HasListIntent(q)) THEN <<>>
     ELSE Cut(Sorted(strong, [i \in DOMAIN strong |->
                                -ScoreCandidate(q, strong[i].id)]),
              Settings.literalMax)

BoostProtectedCandidates(s, raised) ==
  Rescore(s, [i \in DOMAIN s |->
    IF s[i].id \in IdsOf(raised) THEN s[i].score + 4000 ELSE s[i].score])

HasKeywordSupport(id, words) ==
  CountKeywordMatches(id, words) >= Lesser(2, Cardinality(words))

MatchesConstraint(q, id) ==
  /\ Row[id].months \cap q.months # {}
  /\ HasKeywordSupport(id, q.words)

ApplyTemporalQueryConstraints(q, s) ==
  ByScore(Rescore(s, [i \in DOMAIN s |->
    IF ~MatchesConstraint(q, s[i].id) THEN s[i].score
    ELSE s[i].score + Settings.temporalBoost
           + 100 * CountKeywordMatches(s[i].id, q.words)]))

(* 0 for the newest of the candidates.                                     *)
RecencyRank(s, id) ==
  LET newest == Sorted(s, [i \in DOMAIN s |-> -Row[s[i].id].created])
  IN (CHOOSE i \in DOMAIN newest : newest[i].id = id) - 1

Marked(id, sign, bonus) == IF sign \in Row[id].signs THEN bonus ELSE 0

ComputeBoost(s, id) ==
  (2500 * (Len(s) - RecencyRank(s, id))) \div Len(s)
    + Marked(id, "transition", 1500) + Marked(id, "current", 450)
    - (IF "transition" \in Row[id].signs THEN 0 ELSE Marked(id, "former", 600))

ApplyHistoricalRanking(s) ==
  ByScore(Rescore(s, [i \in DOMAIN s |->
    s[i].score + (1500 * RecencyRank(s, s[i].id)) \div Len(s)
      + Marked(s[i].id, "former", 600)
      - Marked(s[i].id, "transition", 1200) - Marked(s[i].id, "current", 450)]))

ApplyCurrentStateRanking(q, s) ==
  CASE s = <<>> \/ q.tense = "plain" -> s
    [] q.tense = "past" -> ApplyHistoricalRanking(s)
    [] OTHER -> ByScore(Rescore(s, [i \in DOMAIN s |->
                   s[i].score + ComputeBoost(s, s[i].id)]))

(* Up to 15 per cent off what is longer than the median.                   *)
ApplyConcisenessPenalty(s) ==
  LET lengths == Sorted(s, [i \in DOMAIN s |-> Row[s[i].id].length])
      median  == Row[lengths[Len(s) \div 2 + 1].id].length
      penalty(n) == IF n <= 150 \/ n <= median THEN 0
                    ELSE Lesser((100 * (n - median)) \div median, 150)
  IN IF Len(s) < 2 \/ median = 0 THEN s
     ELSE ByScore(Rescore(s, [i \in DOMAIN s |->
            (s[i].score * (1000 - penalty(Row[s[i].id].length))) \div 1000]))

ApplyRankingEligibility(q, s) ==
  IF ResolveRecallBypass(q) THEN s
  ELSE Keep(s, {id \in Ids : Row[id].similarity >= Settings.rankingMinSimilarity})

-----------------------------------------------------------------------------
(* MMR: the best score first, then again and again the row whose score     *)
(* weighs most against its likeness to the rows already chosen.            *)

ComputeMmrScore(s, i, chosen) ==
  LET redundancy == {Similar[s[i].id][s[j].id] : j \in chosen} \cup {0}
      most == CHOOSE x \in redundancy : \A y \in redundancy : y <= x
  IN Settings.lambda * s[i].score - (100 - Settings.lambda) * most

ApplyMMR(s, limit) ==
  LET value(i, chosen) ==
        IF chosen = {} THEN s[i].score ELSE ComputeMmrScore(s, i, chosen)
      best(chosen) ==
        CHOOSE i \in DOMAIN s \ chosen : \A j \in DOMAIN s \ chosen :
          \/ value(j, chosen) < value(i, chosen)
          \/ value(j, chosen) = value(i, chosen) /\ i <= j
      pick[n \in 0..Lesser(limit, Len(s))] ==
        IF n = 0 THEN <<>>
        ELSE Append(pick[n - 1],
               best({pick[n - 1][k] : k \in 1..(n - 1)}))
      order == pick[Lesser(limit, Len(s))]
  IN [k \in DOMAIN order |-> s[order[k]]]

ResolveRelevanceGate(q) ==
  CASE q.threshold # -1 -> q.threshold
    [] ResolveRecallBypass(q) -> -1
    [] OTHER -> Settings.similarityThreshold

ApplyRelevanceFilter(q, s) ==
  Keep(s, {id \in Ids : Row[id].similarity >= ResolveRelevanceGate(q)})

-----------------------------------------------------------------------------
(* One search: the rows of the first retrieval with any scores, some of    *)
(* them anchors of the temporal expansion.                                 *)
InitRanking ==
  /\ question \in Questions
  /\ step = "repair"
  /\ \E score \in [Ids -> Scores] :
       candidates = ByScore([i \in 1..Cardinality(Ids) |->
         [id |-> Settings.order[i], score |-> score[Settings.order[i]]]])
  /\ \E anchors \in SUBSET Ids :
       /\ Cardinality(anchors) <= Settings.maxAnchors
       /\ protected = {PrintOf(id) : id \in anchors}
  /\ selected = <<>>

(* The rewritten question finds some of the rows, in any order.            *)
ApplyRepairLoop ==
  /\ step = "repair"
  /\ step' = "rerank"
  /\ \/ candidates' = candidates
     \/ /\ ShouldRunRepairLoop(question, candidates)
        /\ \E found \in SUBSET Ids, x \in Scores :
             LET repaired == Keep([i \in 1..Cardinality(Ids) |->
                   [id |-> Settings.order[i], score |-> x]], found)
                 merged == MergeStageResults(candidates, repaired,
                   Len(candidates) + Len(repaired),
                   Settings.repairPrimaryWeight, Settings.repairRewriteWeight)
                 depth == ResolveRerankDepth(question)
             IN /\ ShouldAcceptRepair(candidates, repaired)
                /\ candidates' = PreserveProtectedResults(
                                   Cut(merged, depth), merged, protected, depth)
  /\ UNCHANGED <<question, protected, selected>>

ApplyCrossEncoderStage ==
  /\ step = "rerank"
  /\ step' = "subject"
  /\ IF ~Settings.crossEncoder \/ ShouldAutoSkipReranking(candidates)
       THEN candidates' = candidates
       ELSE \E answer \in [IdsOf(candidates) -> Settings.answers] :
              candidates' = RerankCandidates(candidates, answer)
  /\ UNCHANGED <<question, protected, selected>>

(* A question without a name leaves the order, whatever its other words.   *)
ApplySubjectRankingStage ==
  /\ step = "subject"
  /\ step' = "literal"
  /\ IF question.subjects = {} THEN UNCHANGED <<candidates, protected>>
     ELSE /\ candidates' = ApplySubjectAwareRanking(question, candidates)
          /\ protected' = protected
                            \cup PrintsIn(SubjectProtection(question, candidates))
  /\ UNCHANGED <<question, selected>>

ApplyLiteralProtectionStage ==
  /\ step = "literal"
  /\ step' = "constraint"
  /\ LET raised == ProtectLiteralListAnswerCandidates(question, candidates)
     IN /\ candidates' = BoostProtectedCandidates(candidates, raised)
        /\ protected' = protected \cup PrintsIn(raised)
  /\ UNCHANGED <<question, selected>>

ApplyTemporalConstraintStage ==
  /\ step = "constraint"
  /\ step' = "rank"
  /\ IF question.months = {} \/ Settings.temporalBoost <= 0
       THEN UNCHANGED <<candidates, protected>>
       ELSE /\ candidates' = ApplyTemporalQueryConstraints(question, candidates)
            /\ protected' = protected \cup PrintsIn(Cut(Keep(candidates',
                 {id \in Ids : MatchesConstraint(question, id)}), 3))
  /\ UNCHANGED <<question, selected>>

ApplyRankingEligibilityStage ==
  /\ step = "rank"
  /\ step' = "select"
  /\ candidates' = ApplyRankingEligibility(question, ApplyConcisenessPenalty(
                     ApplyCurrentStateRanking(question, candidates)))
  /\ UNCHANGED <<question, protected, selected>>

SelectWith(chosen) ==
  /\ step = "select"
  /\ step' = "relevance"
  /\ selected' = PreserveProtectedResults(chosen, candidates, protected,
                   ResolveSearchLimit(question))
  /\ UNCHANGED <<question, candidates, protected>>

SelectWithMmr ==
  question.mmr
    /\ SelectWith(ApplyMMR(candidates, ResolveSearchLimit(question)))
SelectWithoutMmr ==
  ~question.mmr /\ SelectWith(Cut(candidates, ResolveSearchLimit(question)))

FilterByRelevance ==
  /\ step = "relevance"
  /\ step' = "package"
  /\ selected' = ApplyRelevanceFilter(question, selected)
  /\ UNCHANGED <<question, candidates, protected>>

NextRanking ==
  \/ ApplyRepairLoop \/ ApplyCrossEncoderStage \/ ApplySubjectRankingStage
  \/ ApplyLiteralProtectionStage \/ ApplyTemporalConstraintStage
  \/ ApplyRankingEligibilityStage \/ SelectWithMmr \/ SelectWithoutMmr
  \/ FilterByRelevance

(* Whoever was named, quoted or dated is in the selection, by one row of   *)
(* its print, as long as the selection holds a row nobody protects         *)
(* (temporal-result-protection.ts, after every stage that cuts).           *)
ProtectedOutrankOthers ==
  step = "relevance" =>
    \/ protected \cap PrintsIn(candidates) \subseteq PrintsIn(selected)
    \/ PrintsIn(selected) \subseteq protected

=============================================================================
