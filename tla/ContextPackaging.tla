--------------------------- MODULE ContextPackaging ---------------------------
(***************************************************************************)
(* What the rows a search selected become: the composites that repeat      *)
(* their members are taken out, the rest is ordered (flat mode) or shown   *)
(* at one of three tiers under a budget of tokens (tiered modes).  The     *)
(* cost of a row at a tier and the words visible there are data.           *)
(***************************************************************************)
EXTENDS SearchRanking

CONSTANTS
  Budgets,         \* token budgets of the callers
  EndpointCost,    \* tokens of the temporal evidence block
  SummaryCost      \* tokens of the timeline between the dates

Tiers == {"L0", "L1", "L2"}

ASSUME PackagingAssumption ==
  /\ Budgets \subseteq Nat /\ EndpointCost \in Nat
  /\ \A q \in Questions : q.abstract \in BOOLEAN
  /\ \A id \in Ids : /\ Row[id].cost \in [Tiers -> Nat]
                      /\ Row[id].answer \in 1..3
                      /\ IsFiniteSet(Row[id].members)

VARIABLES
  mode,       \* flat, tiered or abstract-aware
  budget,     \* tokens the caller allows
  evidence,   \* tokens of the evidence block the question calls for
  package,    \* the rows in the order they are shown
  tiers       \* the tier of each of them

packagingVars == <<mode, budget, evidence, package, tiers>>
vars == <<rankingVars, packagingVars>>

IsComposite(id) == Row[id].members # {}
Members(id) == Row[id].members
Composites(s) == {id \in IdsOf(s) : IsComposite(id)}
Atomic(s) == IdsOf(s) \ Composites(s)

-----------------------------------------------------------------------------
(* Composites against their members.                                       *)

DeduplicateCompositeMembersHard(s) ==
  Keep(s, {id \in Ids :
    IsComposite(id) \/ id \notin UNION {Members(c) : c \in Composites(s)}})

Covered(s, id) == 10 * Cardinality(Members(id) \cap Atomic(s))
                    >= 6 * Cardinality(Members(id))

DeduplicateCompositeMembersSoft(s) ==
  Keep(s, {id \in Ids : ~(IsComposite(id) /\ Covered(s, id))})

SuppressOverlappingComposites(s) ==
  Keep(s, {id \in Ids : Members(id) \cap Atomic(s) = {}})

PrefersAtomicFlatPackaging(q) == ~q.broad /\ (q.tense = "now" \/ q.direct)

DeduplicateCompositeMembersForFlatQuery(q, s) ==
  IF PrefersAtomicFlatPackaging(q) THEN SuppressOverlappingComposites(s)
  ELSE DeduplicateCompositeMembersSoft(s)

-----------------------------------------------------------------------------
(* The flat order: a section for each namespace; one that spans several    *)
(* dates is a timeline, another one is ordered by sessions.                *)

SortChronologically(s) ==
  Sorted(s, [i \in DOMAIN s |-> Row[s[i].id].created])

SpansMultipleDates(s) == Cardinality({Row[id].created : id \in IdsOf(s)}) >= 2

(* Amounts and outcomes before people and places before the rest.          *)
PromoteAnswerBearing(s) ==
  LET of(tier) ==
        SortChronologically(Keep(s, {id \in Ids : Row[id].answer = tier}))
  IN of(1) \o of(2) \o of(3)

(* The rows of each key, keys as they are first met.                       *)
GroupsBy(s, key) ==
  LET first == {i \in DOMAIN s :
                 \A j \in 1..(i - 1) : key[s[j].id] # key[s[i].id]}
  IN Taken([i \in DOMAIN s |->
              Keep(s, {id \in Ids : key[id] = key[s[i].id]})], first)

SortBySessionPriority(s) ==
  LET groups == GroupsBy(s, [id \in Ids |-> Row[id].episode])
      ranked == [k \in DOMAIN groups |-> PromoteAnswerBearing(groups[k])]
  IN IF Len(groups) <= 1 THEN SortChronologically(s)
     ELSE FlattenSeq(Sorted(ranked, [k \in DOMAIN ranked |->
                                       Row[ranked[k][1].id].created]))

FormatSimpleInjection(s) ==
  LET groups == GroupsBy(s, [id \in Ids |-> Row[id].namespace])
  IN FlattenSeq([k \in DOMAIN groups |->
       IF SpansMultipleDates(groups[k]) THEN SortChronologically(groups[k])
       ELSE SortBySessionPriority(groups[k])])

-----------------------------------------------------------------------------
(* The tiers.                                                              *)

TierCost(id, tier) == Row[id].cost[tier]
SumTokens(s, t) ==
  LET sum[i \in 0..Len(s)] ==
        IF i = 0 THEN 0 ELSE sum[i - 1] + TierCost(s[i].id, t[i])
  IN sum[Len(s)]

GetTopSliceCount(n) ==
  IF n = 0 THEN 0 ELSE Lesser(2, Greater(1, (2 * n + 5) \div 10))

GetL1Quota(n, top) ==
  IF n - top <= 1 THEN Greater(0, n - top)
  ELSE Lesser(n - top - 1, Greater(1, (3 * n) \div 10))

ChooseRichTopHit(id, remaining) ==
  LET base == TierCost(id, "L0")
  IN CASE TierCost(id, "L2") - base <= remaining -> "L2"
       [] /\ TierCost(id, "L2") - base > remaining
          /\ TierCost(id, "L1") > base
          /\ TierCost(id, "L1") - base <= remaining -> "L1"
       [] OTHER -> "L0"

(* The L2 share is counted down, and so is the budget.                     *)
PromoteTopSliceToL2(s, t, limit) ==
  LET l2(i) == TierCost(s[i].id, "L2")
      promote(acc, i) ==
        LET extra == l2(i) - TierCost(s[i].id, acc.t[i])
        IN IF extra > acc.remaining \/ extra > acc.share THEN acc
           ELSE [t |-> [acc.t EXCEPT ![i] = "L2"],
                 remaining |-> acc.remaining - extra,
                 share |-> acc.share - extra]
      after[i \in 0..GetTopSliceCount(Len(s))] ==
        IF i = 0 THEN [t |-> t, remaining |-> limit - SumTokens(s, t),
                       share |-> (6 * limit) \div 10]
        ELSE promote(after[i - 1], i)
  IN after[GetTopSliceCount(Len(s))].t

PromoteSupportingSliceToL1(s, t, limit) ==
  LET top == GetTopSliceCount(Len(s))
      stop == Lesser(Len(s), top + GetL1Quota(Len(s), top))
      promote(acc, i) ==
        LET extra == TierCost(s[i].id, "L1") - TierCost(s[i].id, acc[i])
        IN IF i <= top \/ i > stop \/ extra = 0
                \/ extra > limit - SumTokens(s, acc) THEN acc
           ELSE [acc EXCEPT ![i] = "L1"]
      after[i \in 0..Len(s)] == IF i = 0 THEN t ELSE promote(after[i - 1], i)
  IN after[Len(s)]

AssignTiers(s, limit, forceRichTopHit) ==
  LET plain == [i \in DOMAIN s |-> "L0"]
      rich  == IF forceRichTopHit /\ s # <<>>
                 THEN [plain EXCEPT ![1] =
                        ChooseRichTopHit(s[1].id, limit - SumTokens(s, plain))]
                 ELSE plain
  IN PromoteSupportingSliceToL1(s, PromoteTopSliceToL2(s, rich, limit), limit)

(* Words of the question that the text of a tier shows.                    *)
Shows(id, tier) == question.words \cap Row[id].shown[tier]

ChooseVisibleTier(id, tier, remaining) ==
  LET missing == Shows(id, "L2") \ Shows(id, tier)
      helps(t) == /\ Shows(id, t) \cap missing # {}
                  /\ TierCost(id, t) - TierCost(id, tier) <= remaining
  IN CASE missing # {} /\ helps("L1") -> "L1"
       [] missing # {} /\ ~helps("L1") /\ helps("L2") -> "L2"
       [] OTHER -> tier

UpgradeWithoutCounting(s, t, limit) ==
  [i \in DOMAIN s |-> IF t[i] = "L2" THEN "L2"
     ELSE ChooseVisibleTier(s[i].id, t[i], limit - SumTokens(s, t))]
ChargeWholeTiers(s, t, limit) ==
  LET upgrade(acc, i) ==
        LET tier == ChooseVisibleTier(s[i].id, acc.t[i], acc.remaining)
        IN IF acc.t[i] \in {"L2", tier} THEN acc
           ELSE [t |-> [acc.t EXCEPT ![i] = tier],
                 remaining |-> acc.remaining - TierCost(s[i].id, tier)]
      after[i \in 0..Len(s)] ==
        IF i = 0 THEN [t |-> t, remaining |-> limit - SumTokens(s, t)]
        ELSE upgrade(after[i - 1], i)
  IN after[Len(s)].t
PreserveQueryTermVisibility(s, t, limit) ==
  LET upgrade(acc, i) ==
        IF acc[i] = "L2" THEN acc
        ELSE [acc EXCEPT ![i] = ChooseVisibleTier(s[i].id, acc[i],
                                  limit - SumTokens(s, acc))]
      after[i \in 0..Len(s)] == IF i = 0 THEN t ELSE upgrade(after[i - 1], i)
  IN after[Len(s)]

-----------------------------------------------------------------------------
InitPackaging ==
  /\ mode = "unread" /\ budget = 0 /\ evidence = 0
  /\ package = <<>> /\ tiers = <<>>

Init == InitRanking /\ InitPackaging

(* The mode and the budget of the request are first read here.             *)
BuildFlatInjection ==
  /\ step = "package"
  /\ step' = "done" /\ mode' = "flat"
  /\ package' = FormatSimpleInjection(
                  DeduplicateCompositeMembersForFlatQuery(question, selected))
  /\ UNCHANGED <<question, candidates, protected, selected>>
  /\ UNCHANGED <<budget, evidence, tiers>>

(* The evidence block is paid for before the tiers are.                    *)
BuildTieredInjection ==
  /\ step = "package"
  /\ step' = "done"
  /\ mode' \in {"tiered", "abstract-aware"}
  /\ budget' \in Budgets
  /\ evidence' \in IF selected = <<>> THEN {0} ELSE {0, EndpointCost}
  /\ package' = DeduplicateCompositeMembersHard(selected)
  /\ LET limit == Greater(0, budget' - evidence')
         force == mode' = "abstract-aware" /\ question.abstract
     IN tiers' = PreserveQueryTermVisibility(package',
                   AssignTiers(package', limit, force), limit)
  /\ UNCHANGED <<question, candidates, protected, selected>>

Next ==
  \/ NextRanking /\ UNCHANGED packagingVars
  \/ BuildFlatInjection
  \/ BuildTieredInjection

Spec == Init /\ [][Next]_vars

-----------------------------------------------------------------------------
Tiered == step = "done" /\ mode # "flat" /\ package # <<>>
EstimatedContextTokens == SumTokens(package, tiers) + evidence

Headlines == SumTokens(package, [i \in DOMAIN package |-> "L0"])

(* However the rows are promoted, by rank, by force or for a word of the   *)
(* question, the estimate exceeds the budget only by what the headlines    *)
(* and the evidence block cost (tiered-loading.ts, query-term-visibility). *)
WithinBudget ==
  Tiered => EstimatedContextTokens <=
              Greater(budget, Headlines + evidence)

(* retrieval-format.ts:376-380: what is appended to the rows is part of    *)
(* the estimate.  The timeline that takes the place of the evidence block  *)
(* is not.                                                                 *)
AppendedTokens ==
  CASE evidence > 0 -> evidence
    [] evidence = 0 /\ SpansMultipleDates(package) -> SummaryCost
    [] OTHER -> 0

EstimateCoversText ==
  Tiered => SumTokens(package, tiers) + AppendedTokens
              <= EstimatedContextTokens

(* A row left as a headline hides no word of the question that it could    *)
(* show: what the word costs is beyond what is left of the budget when     *)
(* all promotions are done, unless a row further down gave tokens back,    *)
(* its fuller tier being shorter than a lower one                          *)
(* (query-term-visibility.ts:29-38).                                       *)
Withheld(id) == Shows(id, "L2") \ Shows(id, "L0")
GaveBack(j) ==
  \E tier \in {"L0", "L1"} :
    TierCost(package[j].id, tiers[j]) < TierCost(package[j].id, tier)

NoWordWithheld ==
  Tiered => \A i \in DOMAIN package, tier \in {"L1", "L2"} :
    LET id == package[i].id
    IN /\ tiers[i] = "L0"
       /\ Shows(id, tier) \cap Withheld(id) # {}
       /\ \A j \in DOMAIN package : j > i => ~GaveBack(j)
       => TierCost(id, tier) - TierCost(id, "L0")
            > Greater(0, budget - evidence) - SumTokens(package, tiers)

=============================================================================
