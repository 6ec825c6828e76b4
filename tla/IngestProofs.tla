---------------------------- MODULE IngestProofs ----------------------------
(***************************************************************************)
(* Three parts of the ingest path that share no state.  The guarantees of  *)
(* the conflict policies (ConflictPolicy) for every list of candidates,    *)
(* every fact and every answer of the LLM; the safety properties of the    *)
(* chains (TemporalLinkage) for any memories, entities and sources; and    *)
(* those of whole requests (IngestBatch) for any requests, statements,     *)
(* thresholds and failures.                                                *)
(***************************************************************************)
EXTENDS ConflictPolicy, TemporalLinkage, IngestBatch, FiniteSetTheorems,
        SequenceTheorems, WellFoundedInduction, TLAPS

(* Part 1: the conflict policies.                                          *)

Overridden == ApplyClarificationOverrides(raw, fact, candidates)

(* How the variables hang together at each stage.                          *)
Staged ==
  /\ stage = "searched" => decision = Undecided
  /\ stage = "answered" => decision = raw
  /\ stage = "overridden" => decision = Overridden
  /\ stage \in {"checked", "executed"} =>
       \/ decision = Overridden
       \/ Merging(Overridden) /\ decision = PromoteToAdd(Overridden)
  /\ outcome = IF stage = "executed" THEN Outcome(decision, candidates)
                                     ELSE "none"

IInv == TypeOK /\ Staged

-----------------------------------------------------------------------------
(* The overrides turn decisions into decisions.                            *)
LEMMA OverridesType ==
  ASSUME NEW d \in Decision, NEW f \in Fact, NEW cs \in Seq(Candidate)
  PROVE  ApplyClarificationOverrides(d, f, cs) \in Decision
<1>1. PromoteToAdd(d) \in Decision
  BY DEF PromoteToAdd, Decision, Actions, NoTarget
<1>2. Supersede(d) \in Decision
  BY DEF Supersede, Decision, Actions
<1>3. Clarify(d) \in Decision
  BY DEF Clarify, Decision, Actions
<1>4. QED
  BY <1>1, <1>2, <1>3
     DEF ApplyClarificationOverrides, ResolveExplicitReplacement,
         ResolveCritical, PreserveAtomicFacts

(* A decision keeps its type when its action becomes ADD.                  *)
LEMMA PromoteType ==
  ASSUME NEW d \in Decision
  PROVE  PromoteToAdd(d) \in Decision
BY DEF PromoteToAdd, Decision, Actions, NoTarget

(* An answer that gets a confidence is still a decision.                   *)
LEMMA NormalizeType ==
  ASSUME NEW d \in Decision, NEW f \in Fact
  PROVE  Normalize(d, f) \in Decision
BY DEF Normalize, Decision, Actions

(* Every outcome has a name.                                               *)
LEMMA OutcomeType ==
  ASSUME NEW d, NEW cs
  PROVE  Outcome(d, cs) \in {"held", "cited", "dropped", "stored", "merged",
                             "error", "superseded", "deleted"}
BY DEF Outcome

-----------------------------------------------------------------------------
(* The invariant holds of every reachable state.                           *)
THEOREM Invariance == Spec => []IInv
<1>1. Init => IInv
  <2> SUFFICES ASSUME Init PROVE IInv
    OBVIOUS
  <2>1. Undecided \in Decision
    BY DEF Undecided, Decision, Actions, NoTarget
  <2>2. TypeOK
    BY <2>1, CandidatesAssumption, FactsAssumption DEF Init, TypeOK
  <2>3. Staged
    BY DEF Init, Staged
  <2>4. QED
    BY <2>2, <2>3 DEF IInv
<1>2. IInv /\ [Next]_vars => IInv'
  <2> SUFFICES ASSUME IInv, [Next]_vars PROVE IInv'
    OBVIOUS
  <2>0. TypeOK /\ Staged
    BY DEF IInv
  <2>1. CASE ResolveAUDN
    <3>1. raw' \in Decision
      BY <2>0, <2>1, NormalizeType, AnswersAssumption DEF ResolveAUDN, TypeOK
    <3>2. TypeOK'
      BY <2>0, <2>1, <3>1 DEF ResolveAUDN, TypeOK
    <3>3. Staged'
      BY <2>0, <2>1 DEF ResolveAUDN, Staged
    <3>4. QED
      BY <3>2, <3>3 DEF IInv
  <2>2. CASE Override
    <3>1. decision' \in Decision
      BY <2>0, <2>2, OverridesType DEF Override, TypeOK
    <3>2. TypeOK'
      BY <2>0, <2>2, <3>1 DEF Override, TypeOK
    <3>3. Staged'
      BY <2>0, <2>2 DEF Override, Staged, Overridden
    <3>4. QED
      BY <3>2, <3>3 DEF IInv
  <2>3. CASE EntityScopedDedup
    <3>1. decision' \in Decision
      BY <2>0, <2>3, PromoteType DEF EntityScopedDedup, TypeOK
    <3>2. TypeOK'
      BY <2>0, <2>3, <3>1 DEF EntityScopedDedup, TypeOK
    <3>3. Staged'
      BY <2>0, <2>3 DEF EntityScopedDedup, Staged, Overridden
    <3>4. QED
      BY <3>2, <3>3 DEF IInv
  <2>4. CASE ExecuteDecision
    <3>1. TypeOK'
      BY <2>0, <2>4, OutcomeType DEF ExecuteDecision, TypeOK
    <3>2. Staged'
      BY <2>0, <2>4 DEF ExecuteDecision, Staged, Overridden
    <3>3. QED
      BY <3>1, <3>2 DEF IInv
  <2>5. CASE UNCHANGED vars
    BY <2>0, <2>5 DEF vars, IInv, TypeOK, Staged, Overridden
  <2>6. QED
    BY <2>1, <2>2, <2>3, <2>4, <2>5 DEF Next
<1>3. QED
  BY <1>1, <1>2, PTL DEF Spec

(* Variables keep their types.                                             *)
THEOREM TypeCorrect == Spec => []TypeOK
<1>1. IInv => TypeOK
  BY DEF IInv
<1>2. QED
  BY Invariance, <1>1, PTL

-----------------------------------------------------------------------------
(* What the overrides leave of a decision.                                 *)

(* A merge that survives the overrides is the answer itself, about a near  *)
(* duplicate of the fact.                                                  *)
LEMMA MergeSurvives ==
  ASSUME NEW d \in Decision, NEW f \in Fact, NEW cs \in Seq(Candidate),
         Merging(ApplyClarificationOverrides(d, f, cs))
  PROVE  /\ ApplyClarificationOverrides(d, f, cs) = d
         /\ ~f.transition
         /\ d.action = "UPDATE" => d.content # "grows"
         /\ \E i \in TargetOf(d, cs) : SafeReuse(cs[i])
<1>1. ~Merging(PromoteToAdd(d)) /\ ~Merging(Supersede(d)) /\ ~Merging(Clarify(d))
  BY DEF Merging, PromoteToAdd, Supersede, Clarify, Decision
<1>2. ~Merging(ResolveExplicitReplacement(d, cs)) \/ ~ExplicitReplacement(d, f)
  BY <1>1 DEF ResolveExplicitReplacement, ExplicitReplacement, Merging
<1>3. ~Merging(d) \/ ~LowConfidence(d)
  BY DEF Merging, LowConfidence
<1>4. ~Merging(ResolveCritical(d, f, cs))
  BY <1>1 DEF ResolveCritical, Merging
<1>5. /\ ApplyClarificationOverrides(d, f, cs) = PreserveAtomicFacts(d, f, cs)
      /\ Merging(PreserveAtomicFacts(d, f, cs))
  BY <1>1, <1>2, <1>3, <1>4 DEF ApplyClarificationOverrides
<1>6. QED
  BY <1>1, <1>5 DEF PreserveAtomicFacts

(* SUPERSEDE and DELETE are executed for a target among the candidates.    *)
LEMMA DestroyedTarget ==
  ASSUME IInv, outcome \in {"superseded", "deleted"}
  PROVE  /\ decision = Overridden
         /\ decision.target \in DOMAIN candidates
         /\ decision.action = IF outcome = "superseded" THEN "SUPERSEDE"
                                                       ELSE "DELETE"
<1>1. outcome = Outcome(decision, candidates)
  BY DEF IInv, Staged
<1>2. decision.action = IF outcome = "superseded" THEN "SUPERSEDE" ELSE "DELETE"
  BY <1>1 DEF Outcome, IInv, TypeOK, Decision, Actions
<1>3. decision.target \in DOMAIN candidates
  BY <1>1 DEF Outcome
<1>4. Overridden \in Decision
  BY OverridesType DEF IInv, TypeOK, Overridden
<1>5. decision # PromoteToAdd(Overridden)
  BY <1>2, <1>4 DEF PromoteToAdd, Decision
<1>6. decision = Overridden
  BY <1>5 DEF IInv, Staged
<1>7. QED
  BY <1>2, <1>3, <1>6

(* A SUPERSEDE or DELETE that survives the overrides without being passed  *)
(* as it is comes from one of three policies.                              *)
LEMMA DestructionSurvives ==
  ASSUME NEW d \in Decision, NEW f \in Fact, NEW cs \in Seq(Candidate),
         NEW e, e = ApplyClarificationOverrides(d, f, cs),
         Destructive(e), e.target \in DOMAIN cs, ~(LowConfidence(d) /\ ~f.replaces)
  PROVE  /\ e.target = d.target
         /\ f.uncertain => d.action = "CLARIFY" /\ f.replaces
         /\ f.recommends \/ f.transition =>
              ContradictsCandidate(f, cs[e.target]) \/ e.action = "DELETE"
         /\ d.action \notin {"CLARIFY", "UPDATE"} => e = d
         /\ d.action \in {"CLARIFY", "UPDATE"} => e.action = "SUPERSEDE"
         /\ CriticalConflict(d, f, cs) =>
              e.action = "SUPERSEDE" /\ (f.replaces \/ d.action = "UPDATE")
<1>1. /\ ~Destructive(PromoteToAdd(d)) /\ ~Destructive(Clarify(d))
      /\ Supersede(d).target = d.target /\ Supersede(d).action = "SUPERSEDE"
  BY DEF Destructive, PromoteToAdd, Clarify, Supersede, Decision
<1>2. CASE ExplicitReplacement(d, f)
  BY <1>1, <1>2
     DEF ApplyClarificationOverrides, ResolveExplicitReplacement,
         ExplicitReplacement, ContradictsCandidate, Destructive
<1>3. CASE ~ExplicitReplacement(d, f)
  <2>1. d.action # "CLARIFY" /\ ~UncertainConflict(f, cs) /\ ~f.uncertain
    BY <1>1, <1>3 DEF ApplyClarificationOverrides, ExplicitReplacement,
                      LowConfidence, UncertainConflict
  <2>2. CASE CriticalConflict(d, f, cs)
    <3>1. e = ResolveCritical(d, f, cs)
      BY <1>3, <2>1, <2>2 DEF ApplyClarificationOverrides
    <3>2. QED
      BY <1>1, <2>1, <3>1 DEF ResolveCritical, ContradictsCandidate
  <2>3. CASE ~CriticalConflict(d, f, cs)
    <3>1. CASE d.action = "UPDATE"
      <4>1. CASE ContradictingUpdate(d, f, cs)
        BY <1>1, <1>3, <2>1, <2>3, <3>1, <4>1
           DEF ApplyClarificationOverrides, ContradictingUpdate, Destructive
      <4>2. CASE ~ContradictingUpdate(d, f, cs)
        BY <1>1, <1>3, <2>1, <2>3, <3>1, <4>2
           DEF ApplyClarificationOverrides, PreserveAtomicFacts, Destructive
      <4>3. QED
        BY <4>1, <4>2
    <3>2. CASE d.action # "UPDATE"
      <4>1. e = d
        BY <1>1, <1>3, <2>1, <2>3, <3>2
           DEF ApplyClarificationOverrides, PreserveAtomicFacts,
               ContradictingUpdate
      <4>2. Destructive(d) /\ ~RecommendationOnly(d, f, cs)
            /\ ~StateTransition(d, f)
        BY <1>1, <1>3, <2>1, <2>3, <4>1 DEF ApplyClarificationOverrides
      <4>3. f.recommends => ContradictsCandidate(f, cs[d.target])
        <5>1. d.target \in TargetOf(d, cs)
          BY <4>1 DEF TargetOf, NoTarget, Decision
        <5>2. QED
          BY <4>2, <5>1 DEF RecommendationOnly
      <4>4. QED
        BY <2>1, <2>3, <3>2, <4>1, <4>2, <4>3 DEF StateTransition, Destructive
    <3>3. QED
      BY <3>1, <3>2
  <2>4. QED
    BY <2>2, <2>3
<1>4. QED
  BY <1>2, <1>3

(* If a candidate is critical and shares a word, there is a first one.     *)
LEMMA SomeFirstCritical ==
  ASSUME NEW cs \in Seq(Candidate), NEW i \in DOMAIN cs,
         cs[i].critical, cs[i].words > 0
  PROVE  FirstCritical(cs) # {}
<1> DEFINE C == {j \in DOMAIN cs : cs[j].critical /\ cs[j].words > 0}
           R == {s \in Nat \X Nat : s[1] < s[2]}
<1>1. IsWellFoundedOn(R, Nat)
  BY NatLessThanWellFounded DEF OpToRel
<1>2. C \subseteq Nat /\ C # {} /\ C \subseteq DOMAIN cs
  OBVIOUS
<1>3. PICK k \in C : \A j \in C : ~(<<j, k>> \in R)
  <2> HIDE DEF C, R
  <2>1. QED
    BY <1>1, <1>2, WFMin
<1>4. \A j \in C : ~(j < k)
  BY <1>2, <1>3
<1>5. k \in FirstCritical(cs)
  BY <1>4 DEF FirstCritical
<1>6. QED
  BY <1>5

-----------------------------------------------------------------------------
(* The properties.                                                         *)

(* What a merge that is executed leaves behind.                            *)
LEMMA MergedTarget ==
  ASSUME IInv, Merging(decision), stage \in {"checked", "executed"}
  PROVE  /\ decision = Overridden /\ decision = raw
         /\ ~fact.transition
         /\ raw.action = "UPDATE" => raw.content # "grows"
         /\ \E i \in TargetOf(decision, candidates) : SafeReuse(candidates[i])
<1>1. Overridden \in Decision
  BY OverridesType DEF IInv, TypeOK, Overridden
<1>2. ~Merging(PromoteToAdd(Overridden))
  BY <1>1 DEF Merging, PromoteToAdd, Decision
<1>3. decision = Overridden
  BY <1>2 DEF IInv, Staged
<1>4. QED
  BY <1>3, MergeSurvives DEF IInv, TypeOK, Overridden

(* The outcomes of a merge are those of UPDATE and NOOP.                   *)
LEMMA MergeOutcomes ==
  ASSUME IInv, outcome \in {"cited", "dropped", "merged"}
  PROVE  /\ Merging(decision) /\ stage = "executed"
         /\ outcome = "merged" =>
              decision.action = "UPDATE" /\ decision.content # "none"
         /\ outcome = "dropped" => decision.target \notin DOMAIN candidates
<1>1. stage = "executed" /\ outcome = Outcome(decision, candidates)
  BY DEF IInv, Staged
<1>2. decision.action \in Actions
  BY DEF IInv, TypeOK, Decision
<1>3. QED
  BY <1>1, <1>2 DEF Outcome, Merging, Actions

(* Nothing is merged into a memory that is not a near duplicate, whatever  *)
(* the LLM answers.                                                        *)
THEOREM MergesAreSafe == Spec => []OnlySafeReuseMerges
<1>1. IInv => OnlySafeReuseMerges
  <2> SUFFICES ASSUME IInv, outcome \in {"cited", "dropped", "merged"}
               PROVE  /\ \E i \in TargetOf(decision, candidates) :
                           SafeReuse(candidates[i])
                      /\ ~fact.transition
                      /\ outcome = "merged" => decision.content = "fits"
    BY DEF OnlySafeReuseMerges
  <2>1. decision.content \in {"none", "fits", "grows"}
    BY DEF IInv, TypeOK, Decision
  <2>2. QED
    BY <2>1, MergeOutcomes, MergedTarget
<1>2. QED
  BY Invariance, <1>1, PTL

(* A fact disappears without evidence only if the LLM names no memory.     *)
THEOREM DropsAreUnnamed == Spec => []DroppedOnlyUnnamed
<1>1. IInv => DroppedOnlyUnnamed
  <2> SUFFICES ASSUME IInv, outcome = "dropped" PROVE raw.target = NoTarget
    BY DEF DroppedOnlyUnnamed
  <2>1. decision = raw /\ TargetOf(decision, candidates) # {}
    BY MergeOutcomes, MergedTarget
  <2>2. decision.target \notin DOMAIN candidates
    BY MergeOutcomes
  <2>3. QED
    BY <2>1, <2>2 DEF TargetOf, NoTarget
<1>2. QED
  BY Invariance, <1>1, PTL

(* Without keywords nothing is merged: the deferred pass, which gives the  *)
(* policies no keywords, never updates or discards a memory.               *)
THEOREM KeywordlessSafe == Spec => []KeywordlessNeverMerges
<1>1. IInv => KeywordlessNeverMerges
  <2> SUFFICES ASSUME IInv, stage # "answered", Merging(decision),
                      \A i \in DOMAIN candidates : candidates[i].keywords = 0
               PROVE  FALSE
    BY DEF KeywordlessNeverMerges
  <2>1. stage # "searched"
    BY DEF IInv, Staged, Undecided, Merging
  <2>2. CASE stage = "overridden"
    <3>1. \E i \in TargetOf(raw, candidates) : SafeReuse(candidates[i])
      BY <2>2, MergeSurvives DEF IInv, TypeOK, Staged, Overridden
    <3>2. QED
      BY <3>1 DEF TargetOf, SafeReuse
  <2>3. CASE stage \in {"checked", "executed"}
    <3>1. \E i \in TargetOf(decision, candidates) : SafeReuse(candidates[i])
      BY <2>3, MergedTarget
    <3>2. QED
      BY <3>1 DEF TargetOf, SafeReuse
  <2>4. QED
    BY <2>1, <2>2, <2>3 DEF IInv, TypeOK
<1>2. QED
  BY Invariance, <1>1, PTL

(* What DestructionSurvives says of a state.                               *)
LEMMA DestroyedState ==
  ASSUME IInv, outcome \in {"superseded", "deleted"}, ~PassedAsIs
  PROVE  /\ decision.target \in DOMAIN candidates
         /\ decision.target = raw.target
         /\ fact.uncertain => raw.action = "CLARIFY" /\ fact.replaces
         /\ fact.recommends \/ fact.transition =>
              \/ ContradictsCandidate(fact, candidates[decision.target])
              \/ outcome = "deleted"
         /\ raw.action \notin {"CLARIFY", "UPDATE"} => decision = raw
         /\ raw.action \in {"CLARIFY", "UPDATE"} => outcome = "superseded"
         /\ CriticalConflict(raw, fact, candidates) =>
              outcome = "superseded" /\ (fact.replaces \/ raw.action = "UPDATE")
<1>1. Destructive(Overridden) /\ decision = Overridden
      /\ decision.target \in DOMAIN candidates
  BY DestroyedTarget DEF Destructive
<1>2. raw \in Decision /\ fact \in Fact /\ candidates \in Seq(Candidate)
  BY DEF IInv, TypeOK
<1>3. QED
  BY <1>1, <1>2, DestroyedTarget, DestructionSurvives DEF Overridden, PassedAsIs

(* Critical memories are protected from every decision that is not passed  *)
(* as it is.                                                               *)
THEOREM CriticalSafe == Spec => []CriticalIsProtected
<1>1. IInv => CriticalIsProtected
  <2> SUFFICES ASSUME IInv, outcome \in {"superseded", "deleted"}, ~PassedAsIs,
                      candidates[decision.target].critical,
                      candidates[decision.target].words > 0
               PROVE  outcome = "superseded"
                      /\ (fact.replaces \/ raw.action = "UPDATE")
    BY DEF CriticalIsProtected
  <2>1. decision.target \in DOMAIN candidates
    BY DestroyedState
  <2>2. CASE raw.action = "UPDATE"
    BY <2>2, DestroyedState
  <2>3. CASE raw.action = "CLARIFY"
    BY <2>3, DestroyedState DEF PassedAsIs, LowConfidence
  <2>4. CASE raw.action \notin {"UPDATE", "CLARIFY"}
    <3>1. raw.action \notin {"ADD", "NOOP"}
      BY <2>4, DestroyedState, DestroyedTarget
    <3>2. FirstCritical(candidates) # {}
      BY <2>1, SomeFirstCritical DEF IInv, TypeOK
    <3>3. QED
      BY <2>4, <3>1, <3>2, DestroyedState DEF CriticalConflict
  <2>5. QED
    BY <2>2, <2>3, <2>4
<1>2. QED
  BY Invariance, <1>1, PTL

(* An uncertain fact destroys nothing, with the same exception.            *)
THEOREM UncertainSafe == Spec => []UncertainIsHeld
<1>1. IInv => UncertainIsHeld
  BY DestroyedState DEF UncertainIsHeld
<1>2. QED
  BY Invariance, <1>1, PTL

(* Hearsay replaces nothing it does not contradict, with that exception.   *)
THEOREM HearsaySafe == Spec => []HearsayReplacesNothing
<1>1. IInv => HearsayReplacesNothing
  BY DestroyedState DEF HearsayReplacesNothing
<1>2. QED
  BY Invariance, <1>1, PTL

-----------------------------------------------------------------------------
(* Part 2: the chains of memories.                                         *)

(* A transaction holds the lock of the chain it appends to, and its entity *)
(* is one that is still to be done.                                        *)
LocksHeld ==
  \A m \in Memories :
    /\ memory[m] = "new" => append[m].todo = {}
    /\ append[m].step # "idle" =>
         append[m].entity \in append[m].todo /\ lock[append[m].entity] = m

(* The append of a memory to a chain is over: it will not be repeated.     *)
Over(m, e) == memory[m] # "new" /\ e \notin append[m].todo

RowsAreOver ==
  \A r \in chain :
    /\ Over(r.memory, r.entity)
    /\ r.predecessor # Null => Over(r.predecessor, r.entity)
    /\ r.predecessor # r.memory

PositionsUnique ==
  \A q, r \in chain :
    q.entity = r.entity /\ q.position = r.position => q = r

OneRow ==
  \A q, r \in chain :
    q.entity = r.entity /\ q.memory = r.memory => q = r

(* What an inserted row b says stays true until it is committed: it comes  *)
(* after all rows of the chain and its predecessor is the last of them, if *)
(* it is still there.                                                      *)
ComesLast(b) ==
  /\ b.predecessor # Null => Over(b.predecessor, b.entity)
  /\ \A q \in chain :
       q.entity = b.entity =>
         /\ q.position < b.position
         /\ b.predecessor # Null
         /\ b.predecessor # q.predecessor
         /\ b.predecessor = q.memory =>
              \A t \in chain : t.entity = b.entity => t.position <= q.position

InsertedIsLast ==
  \A m \in Memories : append[m].step = "inserted" => ComesLast(append[m])

(* The inductive invariant.                                                *)
ChainInv ==
  /\ ChainTypeOK
  /\ LocksHeld
  /\ RowsAreOver
  /\ PositionsUnique
  /\ OneRow
  /\ InsertedIsLast
  /\ ChainIsLine

-----------------------------------------------------------------------------
LEMMA IdleIsLocal == Idle \in Local
BY DEF Idle, Local

LEMMA LocalTyped ==
  ASSUME ChainTypeOK, NEW m \in Memories, NEW a \in Local,
         append' = [append EXCEPT ![m] = a],
         UNCHANGED <<memory, chain>>,
         lock' \in [Entities -> Memories \cup {Null}]
  PROVE  ChainTypeOK'
BY DEF ChainTypeOK

(* The fields a transaction gets are well-typed.                           *)
LEMMA LocalFields ==
  ASSUME NEW a \in Local,
         NEW step \in {"idle", "locked", "inserted"},
         NEW e \in Entities, NEW p \in Memories \cup {Null}, NEW n \in Nat
  PROVE  /\ [a EXCEPT !.step = step, !.entity = e] \in Local
         /\ [a EXCEPT !.step = step, !.predecessor = p, !.position = n] \in Local
BY DEF Local

(* A step that adds no row and starts nothing again keeps the chains.      *)
LEMMA ChainsKept ==
  ASSUME ChainInv, chain' \subseteq chain,
         \A x \in Memories, e \in Entities : Over(x, e) => Over(x, e)'
  PROVE  /\ RowsAreOver'
         /\ PositionsUnique'
         /\ OneRow'
         /\ ChainIsLine'
         /\ \A b \in Local : b.entity \in Entities /\ ComesLast(b) => ComesLast(b)'
<1> USE DEF ChainInv
<1>1. \A r \in chain : r \in Row
  BY DEF ChainTypeOK
<1>2. RowsAreOver'
  <2> SUFFICES ASSUME NEW r \in chain'
               PROVE  /\ Over(r.memory, r.entity)'
                      /\ r.predecessor # Null => Over(r.predecessor, r.entity)'
                      /\ r.predecessor # r.memory
    BY DEF RowsAreOver
  <2>1. r \in chain /\ r \in Row
    BY <1>1
  <2>2. /\ Over(r.memory, r.entity)
        /\ r.predecessor # Null => Over(r.predecessor, r.entity)
        /\ r.predecessor # r.memory
    BY <2>1 DEF RowsAreOver
  <2>3. /\ r.memory \in Memories /\ r.entity \in Entities
        /\ r.predecessor # Null => r.predecessor \in Memories
    BY <2>1 DEF Row
  <2> QED
    BY <2>2, <2>3
<1>3. PositionsUnique' /\ OneRow'
  BY DEF PositionsUnique, OneRow
<1>4. ChainIsLine'
  BY DEF ChainIsLine, Chain
<1>5. ASSUME NEW b \in Local, b.entity \in Entities, ComesLast(b)
      PROVE  ComesLast(b)'
  <2>1. b.predecessor # Null => b.predecessor \in Memories
    BY DEF Local
  <2>2. b.predecessor # Null => Over(b.predecessor, b.entity)'
    BY <1>5, <2>1 DEF ComesLast
  <2> QED
    BY <1>5, <2>2 DEF ComesLast
<1> QED
  BY <1>2, <1>3, <1>4, <1>5

(* A transaction that stays as it is keeps its place at the end.           *)
LEMMA InsertedKept ==
  ASSUME ChainInv, ChainTypeOK', chain' \subseteq chain,
         \A x \in Memories, e \in Entities : Over(x, e) => Over(x, e)',
         NEW n \in Memories, append'[n] = append[n], append[n].step = "inserted"
  PROVE  ComesLast(append[n])'
<1> USE DEF ChainInv
<1>1. PICK b : b = append[n]
  OBVIOUS
<1>2. append'[n] = b /\ b \in Local /\ b.step = "inserted"
  BY <1>1 DEF ChainTypeOK
<1>3. b.entity \in Entities
  BY <1>1, <1>2 DEF LocksHeld, Local
<1>4. ComesLast(b)
  BY <1>1, <1>2 DEF InsertedIsLast, ComesLast
<1>5. ComesLast(b)'
  BY <1>2, <1>3, <1>4, ChainsKept
<1> QED
  BY <1>2, <1>5 DEF ComesLast, Over

(* An append that ends with a rollback disturbs nothing.                   *)
LEMMA RollbackKeeps ==
  ASSUME ChainInv, NEW m \in Memories, Rollback(m)
  PROVE  ChainInv'
<1> USE DEF ChainInv, Rollback
<1>1. ChainTypeOK'
  BY IdleIsLocal DEF ChainTypeOK
<1>2. \A n \in Memories \ {m} : append'[n] = append[n]
  BY DEF ChainTypeOK
<1>3. append'[m] = Idle
  BY DEF ChainTypeOK
<1>4. LocksHeld'
  <2> SUFFICES ASSUME NEW n \in Memories
               PROVE  /\ memory'[n] = "new" => append'[n].todo = {}
                      /\ append'[n].step # "idle" =>
                           /\ append'[n].entity \in append'[n].todo
                           /\ lock'[append'[n].entity] = n
    BY DEF LocksHeld
  <2>1. CASE n = m
    BY <1>3, <2>1 DEF Idle
  <2>2. CASE n # m
    <3>1. append'[n] = append[n]
      BY <1>2, <2>2
    <3>2. append[n].todo \subseteq Entities
      BY DEF ChainTypeOK, Local
    <3> QED
      BY <2>2, <3>1, <3>2 DEF LocksHeld
  <2> QED
    BY <2>1, <2>2
<1>5. ASSUME NEW n \in Memories, NEW e, Over(n, e)
      PROVE  Over(n, e)'
  BY <1>2, <1>3, <1>5 DEF Over, Idle
<1>6. RowsAreOver' /\ PositionsUnique' /\ OneRow' /\ ChainIsLine'
  BY <1>5, ChainsKept
<1>7. InsertedIsLast'
  BY <1>1, <1>2, <1>3, <1>5, InsertedKept DEF Idle, InsertedIsLast
<1> QED
  BY <1>1, <1>4, <1>6, <1>7

-----------------------------------------------------------------------------
LEMMA StoreAndLinkKeeps ==
  ASSUME ChainInv, NEW m \in Memories, StoreAndLink(m)
  PROVE  ChainInv'
<1> USE DEF ChainInv, StoreAndLink
<1> PICK E \in SUBSET Mentions[m] : append' = [append EXCEPT ![m].todo = E]
  OBVIOUS
<1>1. E \subseteq Entities
  BY MentionsAssumption
<1>2. ChainTypeOK'
  BY <1>1 DEF ChainTypeOK, Local
<1>3. append[m].todo = {} /\ append[m].step = "idle"
  BY DEF LocksHeld, ChainTypeOK, Local
<1>4. /\ append'[m].step = "idle"
      /\ \A n \in Memories \ {m} : append'[n] = append[n] /\ memory'[n] = memory[n]
      /\ memory'[m] = "live"
  BY <1>3 DEF ChainTypeOK, Local
<1>5. LocksHeld'
  BY <1>4 DEF LocksHeld
<1>6. \A x \in Memories, e \in Entities : Over(x, e) => Over(x, e)'
  BY <1>4 DEF Over
<1>7. RowsAreOver' /\ PositionsUnique' /\ OneRow' /\ ChainIsLine'
  BY <1>6, ChainsKept
<1>8. InsertedIsLast'
  BY <1>2, <1>4, <1>6, InsertedKept DEF InsertedIsLast
<1> QED
  BY <1>2, <1>5, <1>7, <1>8

LEMMA LockChainKeeps ==
  ASSUME ChainInv, NEW m \in Memories, LockChain(m)
  PROVE  ChainInv'
<1> USE DEF ChainInv, LockChain
<1> PICK e \in append[m].todo :
      /\ lock[e] = Null
      /\ append' = [append EXCEPT ![m].step = "locked", ![m].entity = e]
      /\ lock' = [lock EXCEPT ![e] = m]
  OBVIOUS
<1>1. e \in Entities
  BY DEF ChainTypeOK, Local
<1>2. ChainTypeOK'
  <2> DEFINE a == [append[m] EXCEPT !.step = "locked", !.entity = e]
  <2>1. a \in Local
    BY <1>1, LocalFields, append[m] \in Local DEF ChainTypeOK
  <2>2. append' = [append EXCEPT ![m] = a]
    BY DEF ChainTypeOK, Local
  <2>3. lock' \in [Entities -> Memories \cup {Null}] /\ UNCHANGED <<memory, chain>>
    BY <1>1 DEF ChainTypeOK
  <2> HIDE DEF a
  <2> QED
    BY <2>1, <2>2, <2>3, LocalTyped
<1>3. /\ append'[m].step = "locked" /\ append'[m].entity = e
      /\ append'[m].todo = append[m].todo
      /\ \A n \in Memories \ {m} : append'[n] = append[n]
  BY DEF ChainTypeOK, Local
<1>4. LocksHeld'
  <2> SUFFICES ASSUME NEW n \in Memories
               PROVE  /\ memory'[n] = "new" => append'[n].todo = {}
                      /\ append'[n].step # "idle" =>
                           /\ append'[n].entity \in append'[n].todo
                           /\ lock'[append'[n].entity] = n
    BY DEF LocksHeld
  <2>1. CASE n = m
    BY <1>1, <1>3, <2>1 DEF LocksHeld, ChainTypeOK
  <2>2. CASE n # m
    BY <1>1, <1>3, <2>2, NullAssumption DEF LocksHeld, ChainTypeOK, Local
  <2> QED
    BY <2>1, <2>2
<1>5. \A x \in Memories, f \in Entities : Over(x, f) => Over(x, f)'
  BY <1>3 DEF Over
<1>6. RowsAreOver' /\ PositionsUnique' /\ OneRow' /\ ChainIsLine'
  BY <1>5, ChainsKept
<1>7. InsertedIsLast'
  BY <1>2, <1>3, <1>5, InsertedKept DEF InsertedIsLast
<1> QED
  BY <1>2, <1>4, <1>6, <1>7

(* The insertion of a row that comes last changes nothing else.            *)
LEMMA InsertedOther ==
  ASSUME ChainInv, ChainTypeOK', NEW m \in Memories, UNCHANGED <<memory, lock, chain>>,
         append[m].step # "idle",
         append'[m].entity = append[m].entity, append'[m].todo = append[m].todo,
         \A n \in Memories \ {m} : append'[n] = append[n],
         ComesLast(append[m])'
  PROVE  ChainInv'
<1> USE DEF ChainInv
<1>1. LocksHeld'
  BY DEF LocksHeld
<1>2. \A x \in Memories, e \in Entities : Over(x, e) => Over(x, e)'
  BY DEF Over
<1>3. RowsAreOver' /\ PositionsUnique' /\ OneRow' /\ ChainIsLine'
  BY <1>2, ChainsKept
<1>4. InsertedIsLast'
  BY <1>2, InsertedKept DEF InsertedIsLast
<1> QED
  BY <1>1, <1>3, <1>4

(* A new row comes after the tip, which nothing names as predecessor.      *)
LEMMA InsertRowKeeps ==
  ASSUME ChainInv, NEW m \in Memories, InsertRow(m)
  PROVE  ChainInv'
<1> USE DEF ChainInv, InsertRow
<1> DEFINE e == append[m].entity
<1> PICK b \in NextRows(e) :
      append' = [append EXCEPT ![m].step = "inserted",
                               ![m].predecessor = b.predecessor,
                               ![m].position = b.position]
  OBVIOUS
<1>1. e \in Entities /\ e \in append[m].todo
  BY DEF LocksHeld, ChainTypeOK, Local
<1>2. CASE Chain(e) = {}
  <2>1. b.predecessor = Null /\ b.position = 0
    BY <1>2 DEF NextRows
  <2>2. ChainTypeOK'
    <3> DEFINE a == [append[m] EXCEPT !.step = "inserted",
                                      !.predecessor = Null, !.position = 0]
    <3>1. a \in Local
      BY LocalFields, append[m] \in Local, <1>1 DEF ChainTypeOK
    <3>2. append' = [append EXCEPT ![m] = a]
      BY <2>1 DEF ChainTypeOK, Local
    <3>3. UNCHANGED <<memory, lock, chain>>
      OBVIOUS
    <3> HIDE DEF a
    <3> QED
      BY <3>1, <3>2, <3>3, LocalTyped DEF ChainTypeOK
  <2>3. \A n \in Memories \ {m} : append'[n] = append[n]
    BY DEF ChainTypeOK
  <2>4. /\ append'[m].entity = e /\ append'[m].todo = append[m].todo
        /\ append'[m].predecessor = Null /\ append'[m].position = 0
    BY <2>1 DEF ChainTypeOK, Local
  <2>5. \A q \in chain' : q.entity # e
    BY <1>2 DEF Chain
  <2>6. ComesLast(append[m])'
    BY <2>4, <2>5 DEF ComesLast
  <2> QED
    BY <1>1, <2>2, <2>3, <2>4, <2>6, InsertedOther
<1>3. CASE Chain(e) # {}
  <2> PICK r \in Tip(e) : b = [predecessor |-> r.memory,
                               position |-> r.position + 1]
    BY <1>3 DEF NextRows
  <2>1. /\ r \in chain /\ r \in Row /\ r.entity = e
        /\ \A q \in chain : q.entity = e => q.position <= r.position
    BY DEF Tip, Chain, ChainTypeOK
  <2>2. /\ r.memory \in Memories /\ r.position \in Nat
        /\ r.predecessor # r.memory /\ Over(r.memory, e)
    BY <2>1 DEF Row, RowsAreOver
  <2>3. ChainTypeOK'
    <3> DEFINE a == [append[m] EXCEPT !.step = "inserted",
                                      !.predecessor = r.memory,
                                      !.position = r.position + 1]
    <3>1. a \in Local
      BY <1>1, <2>2, r.position + 1 \in Nat, LocalFields, append[m] \in Local DEF ChainTypeOK
    <3>2. append' = [append EXCEPT ![m] = a]
      BY DEF ChainTypeOK, Local
    <3>3. UNCHANGED <<memory, lock, chain>>
      OBVIOUS
    <3> HIDE DEF a
    <3> QED
      BY <3>1, <3>2, <3>3, LocalTyped DEF ChainTypeOK
  <2>4. /\ append'[m] = [append[m] EXCEPT !.step = "inserted",
                                          !.predecessor = r.memory,
                                          !.position = r.position + 1]
        /\ \A n \in Memories \ {m} : append'[n] = append[n]
    BY DEF ChainTypeOK
  <2>5. /\ append'[m].entity = e /\ append'[m].todo = append[m].todo
        /\ append'[m].predecessor = r.memory
        /\ append'[m].position = r.position + 1
    BY <2>4 DEF ChainTypeOK, Local
  <2>6. Over(r.memory, e)'
    BY <2>2, <2>4, <2>5 DEF Over
  <2>7. ASSUME NEW q \in chain, q.entity = e
        PROVE  /\ q.position < r.position + 1
               /\ r.memory # Null
               /\ r.memory # q.predecessor
               /\ r.memory = q.memory =>
                    \A t \in chain : t.entity = e => t.position <= q.position
    <3>1. q \in Row /\ q.position \in Nat /\ q.position <= r.position
      BY <2>1, <2>7 DEF ChainTypeOK, Row
    <3>2. CASE q = r
      BY <2>1, <2>2, <3>1, <3>2, NullAssumption
    <3>3. CASE q # r
      <4>1. q.position < r.position
        BY <2>1, <2>2, <2>7, <3>1, <3>3 DEF PositionsUnique
      <4>2. q.predecessor # r.memory
        BY <2>1, <2>7, <4>1 DEF ChainIsLine
      <4>3. r.memory # q.memory
        BY <2>1, <2>2, <2>7, <3>1, <4>1 DEF OneRow
      <4> QED
        BY <2>2, <3>1, <4>1, <4>2, <4>3, NullAssumption
    <3> QED
      BY <3>2, <3>3
  <2>8. ComesLast(append[m])'
    BY <2>5, <2>6, <2>7 DEF ComesLast
  <2> QED
    BY <1>1, <2>3, <2>4, <2>5, <2>8, InsertedOther
<1> QED
  BY <1>2, <1>3

(* A committed row becomes the last of its chain.                          *)
LEMMA CommitKeeps ==
  ASSUME ChainInv, NEW m \in Memories, Commit(m)
  PROVE  ChainInv'
<1> USE DEF ChainInv
<1> PICK e : e = append[m].entity
  OBVIOUS
<1> PICK row : row = Inserted(m)
  OBVIOUS
<1>1. /\ append[m] \in Local /\ append[m].step = "inserted"
      /\ e \in Entities /\ e \in append[m].todo /\ lock[e] = m
      /\ memory[m] # "new"
  BY DEF Commit, LocksHeld, ChainTypeOK, Local
<1>2. /\ chain' = chain \cup {row}
      /\ lock' = [lock EXCEPT ![e] = Null]
      /\ append' = [append EXCEPT ![m] = [Idle EXCEPT !.todo =
                                            append[m].todo \ {e}]]
      /\ memory' = memory
  BY DEF Commit
<1>3. /\ row \in Row /\ row.entity = e /\ row.memory = m
      /\ row.predecessor = append[m].predecessor
      /\ row.position = append[m].position
  BY <1>1 DEF Inserted, Row, Local
<1>4. [Idle EXCEPT !.todo = append[m].todo \ {e}] \in Local
  BY <1>1 DEF Idle, Local
<1>5. ChainTypeOK'
  BY <1>1, <1>2, <1>3, <1>4 DEF ChainTypeOK
<1>6. /\ append'[m].step = "idle" /\ append'[m].todo = append[m].todo \ {e}
      /\ \A n \in Memories \ {m} : append'[n] = append[n]
  BY <1>2 DEF ChainTypeOK, Idle
<1>7. /\ row.predecessor # Null => Over(row.predecessor, e)
      /\ \A q \in chain :
           q.entity = e =>
             /\ q.position < row.position
             /\ row.predecessor # Null
             /\ row.predecessor # q.predecessor
             /\ row.predecessor = q.memory =>
                  \A t \in chain : t.entity = e => t.position <= q.position
  BY <1>1, <1>3 DEF InsertedIsLast, ComesLast
<1>8. \A x \in Memories, f \in Entities : Over(x, f) => Over(x, f)'
  BY <1>2, <1>6 DEF Over
<1>9. Over(m, e)'
  BY <1>1, <1>2, <1>6 DEF Over
<1>10. \A q \in chain :
         /\ q \in Row /\ q.entity \in Entities /\ q.memory \in Memories
         /\ q.position \in Nat
         /\ q.entity = e => q.memory # m /\ q.predecessor # m
  <2> SUFFICES ASSUME NEW q \in chain
               PROVE  /\ q \in Row /\ q.entity \in Entities /\ q.memory \in Memories
                      /\ q.position \in Nat
                      /\ q.entity = e => q.memory # m /\ q.predecessor # m
    OBVIOUS
  <2>1. q \in Row
    BY DEF ChainTypeOK
  <2>2. /\ Over(q.memory, q.entity)
        /\ q.predecessor # Null => Over(q.predecessor, q.entity)
    BY DEF RowsAreOver
  <2>3. ~Over(m, e)
    BY <1>1 DEF Over
  <2> QED
    BY <2>1, <2>2, <2>3, NullAssumption DEF Row
<1>11. row.predecessor # m /\ row.position \in Nat
  <2>1. ~Over(m, e)
    BY <1>1 DEF Over
  <2> QED
    BY <1>3, <1>7, <2>1, NullAssumption DEF Row
<1>12. LocksHeld'
  <2> SUFFICES ASSUME NEW n \in Memories
               PROVE  /\ memory'[n] = "new" => append'[n].todo = {}
                      /\ append'[n].step # "idle" =>
                           /\ append'[n].entity \in append'[n].todo
                           /\ lock'[append'[n].entity] = n
    BY DEF LocksHeld
  <2>1. CASE n = m
    BY <1>1, <1>2, <1>6, <2>1
  <2>2. CASE n # m
    BY <1>1, <1>2, <1>6, <2>2 DEF LocksHeld, ChainTypeOK, Local
  <2> QED
    BY <2>1, <2>2
<1>13. RowsAreOver'
  <2> SUFFICES ASSUME NEW r \in chain'
               PROVE  /\ Over(r.memory, r.entity)'
                      /\ r.predecessor # Null => Over(r.predecessor, r.entity)'
                      /\ r.predecessor # r.memory
    BY DEF RowsAreOver
  <2>1. CASE r \in chain
    <3>1. /\ Over(r.memory, r.entity)
          /\ r.predecessor # Null => Over(r.predecessor, r.entity)
          /\ r.predecessor # r.memory
      BY <2>1 DEF RowsAreOver
    <3>2. /\ r.memory \in Memories /\ r.entity \in Entities
          /\ r.predecessor # Null => r.predecessor \in Memories
      BY <2>1, <1>10 DEF Row
    <3> QED
      BY <3>1, <3>2, <1>8
  <2>2. CASE r = row
    <3>1. row.predecessor # Null => row.predecessor \in Memories
      BY <1>3 DEF Row
    <3> QED
      BY <2>2, <3>1, <1>1, <1>3, <1>7, <1>8, <1>9, <1>11
  <2> QED
    BY <1>2, <2>1, <2>2
<1>14. PositionsUnique' /\ OneRow'
  BY <1>2, <1>3, <1>7, <1>10, <1>11 DEF PositionsUnique, OneRow
<1>15. ChainIsLine'
  <2> SUFFICES ASSUME NEW q \in chain', NEW r \in chain',
                      q.entity = r.entity, q.position < r.position
               PROVE  /\ r.predecessor # Null
                      /\ r.predecessor # q.predecessor
                      /\ q.predecessor # r.memory
                      /\ r.predecessor = q.memory =>
                           \A t \in chain' : t.entity = r.entity =>
                             ~(q.position < t.position /\ t.position < r.position)
    BY DEF ChainIsLine, Chain
  <2>1. q # row
    BY <1>2, <1>3, <1>7, <1>10, <1>11
  <2>2. q \in chain
    BY <1>2, <2>1
  <2>3. CASE r = row
    BY <1>2, <1>3, <1>7, <1>10, <1>11, <2>2, <2>3
  <2>4. CASE r \in chain
    <3>1. /\ r.predecessor # Null
          /\ r.predecessor # q.predecessor
          /\ q.predecessor # r.memory
          /\ r.predecessor = q.memory =>
               \A t \in chain : t.entity = r.entity =>
                 ~(q.position < t.position /\ t.position < r.position)
      BY <2>2, <2>4 DEF ChainIsLine, Chain
    <3>2. row.entity = r.entity => ~(row.position < r.position)
      BY <1>3, <1>7, <1>10, <1>11, <2>4
    <3> QED
      BY <1>2, <3>1, <3>2
  <2> QED
    BY <1>2, <2>3, <2>4
<1>16. InsertedIsLast'
  <2> SUFFICES ASSUME NEW n \in Memories, append'[n].step = "inserted"
               PROVE  ComesLast(append[n])'
    BY DEF InsertedIsLast
  <2>1. n # m /\ append'[n] = append[n]
    BY <1>6
  <2>2. append[n].entity # e /\ append[n].entity \in Entities
    BY <1>1, <2>1 DEF LocksHeld, ChainTypeOK, Local
  <2>3. ComesLast(append[n])
    BY <2>1 DEF InsertedIsLast
  <2>4. append[n].predecessor # Null => append[n].predecessor \in Memories
    BY DEF ChainTypeOK, Local
  <2>5. append[n].predecessor # Null =>
          Over(append[n].predecessor, append[n].entity)
    BY <2>3 DEF ComesLast
  <2>6. append'[n].predecessor # Null =>
          /\ memory'[append'[n].predecessor] # "new"
          /\ append'[n].entity \notin append'[append'[n].predecessor].todo
    BY <1>8, <2>1, <2>2, <2>4, <2>5 DEF Over
  <2>7. \A q \in chain' : q.entity = append'[n].entity => q \in chain
    BY <1>2, <1>3, <2>1, <2>2
  <2> QED
    BY <1>2, <2>1, <2>3, <2>6, <2>7 DEF ComesLast, Over
<1> QED
  BY <1>5, <1>12, <1>13, <1>14, <1>15, <1>16

LEMMA DeleteBySourceKeeps ==
  ASSUME ChainInv, NEW s \in Sources, DeleteBySource(s)
  PROVE  ChainInv'
<1> USE DEF ChainInv
<1>1. /\ chain' \subseteq chain
      /\ UNCHANGED <<append, lock>>
      /\ memory' \in [Memories -> {"new", "live", "gone"}]
      /\ \A m \in Memories : memory'[m] = "new" <=> memory[m] = "new"
  BY DEF DeleteBySource, ChainTypeOK
<1>2. ChainTypeOK'
  BY <1>1 DEF ChainTypeOK
<1>3. LocksHeld'
  BY <1>1 DEF LocksHeld
<1>4. \A x \in Memories, e \in Entities : Over(x, e) => Over(x, e)'
  BY <1>1 DEF Over
<1>5. RowsAreOver' /\ PositionsUnique' /\ OneRow' /\ ChainIsLine'
  BY <1>1, <1>4, ChainsKept
<1>6. InsertedIsLast'
  BY <1>1, <1>2, <1>4, InsertedKept DEF InsertedIsLast
<1> QED
  BY <1>2, <1>3, <1>5, <1>6

-----------------------------------------------------------------------------
LEMMA InitEstablishes == InitChains => ChainInv
<1> SUFFICES ASSUME InitChains PROVE ChainInv
  OBVIOUS
<1>1. ChainTypeOK
  BY IdleIsLocal DEF InitChains, ChainTypeOK
<1>2. LocksHeld /\ InsertedIsLast
  BY DEF InitChains, LocksHeld, InsertedIsLast, Idle
<1> QED
  BY <1>1, <1>2
  DEF InitChains, ChainInv, RowsAreOver, PositionsUnique, OneRow, ChainIsLine

LEMMA NextKeeps == ChainInv /\ [NextChains]_chainVars => ChainInv'
<1> SUFFICES ASSUME ChainInv, [NextChains]_chainVars PROVE ChainInv'
  OBVIOUS
<1>1. ASSUME NEW m \in Memories, StoreAndLink(m) PROVE ChainInv'
  BY <1>1, StoreAndLinkKeeps
<1>2. ASSUME NEW m \in Memories, LockChain(m) PROVE ChainInv'
  BY <1>2, LockChainKeeps
<1>3. ASSUME NEW m \in Memories, InsertRow(m) PROVE ChainInv'
  BY <1>3, InsertRowKeeps
<1>4. ASSUME NEW m \in Memories, Commit(m) PROVE ChainInv'
  BY <1>4, CommitKeeps
<1>5. ASSUME NEW m \in Memories, RejectDeleted(m) \/ FailAppend(m) PROVE ChainInv'
  BY <1>5, RollbackKeeps DEF RejectDeleted, FailAppend
<1>6. ASSUME NEW s \in Sources, DeleteBySource(s) PROVE ChainInv'
  BY <1>6, DeleteBySourceKeeps
<1>7. CASE UNCHANGED chainVars
  BY <1>7 DEF chainVars, ChainInv, ChainTypeOK, LocksHeld, RowsAreOver, Over,
     PositionsUnique, OneRow, InsertedIsLast, ComesLast, ChainIsLine, Chain
<1> QED
  BY <1>1, <1>2, <1>3, <1>4, <1>5, <1>6, <1>7 DEF NextChains, AppendStep

(* The invariant holds in every reachable state, whatever fails.           *)
THEOREM ChainInvariance == ChainSpec => []ChainInv
BY InitEstablishes, NextKeeps, PTL DEF ChainSpec

(* Types: rows, transactions and locks stay well-formed.                   *)
THEOREM ChainTypeCorrect == ChainSpec => []ChainTypeOK
<1>1. ChainInv => ChainTypeOK
  BY DEF ChainInv
<1> QED
  BY <1>1, ChainInvariance, PTL

(* The advisory lock does what the unique index backs up: two appends      *)
(* never choose one position, for any number of them and any deletions.    *)
THEOREM BackstopSafe == ChainSpec => []BackstopNeverFires
<1>1. ChainInv => BackstopNeverFires
  <2> SUFFICES ASSUME ChainInv, NEW m \in Memories, append[m].step = "inserted",
                      NEW r \in chain \cup
                        {Inserted(n) : n \in {n \in Memories \ {m} :
                                                append[n].step = "inserted"}},
                      r.entity = append[m].entity
               PROVE  r.position # append[m].position
    BY DEF BackstopNeverFires
  <2>1. CASE r \in chain
    <3>1. r.position < append[m].position
      BY <2>1 DEF ChainInv, InsertedIsLast, ComesLast
    <3>2. r.position \in Nat /\ append[m].position \in Nat
      BY <2>1 DEF ChainInv, ChainTypeOK, Row, Local
    <3> QED
      BY <3>1, <3>2
  <2>2. ASSUME NEW n \in Memories \ {m}, append[n].step = "inserted",
               r = Inserted(n)
        PROVE  FALSE
    <3>1. append[n].entity = append[m].entity
      BY <2>2 DEF Inserted
    <3> QED
      BY <2>2, <3>1 DEF ChainInv, LocksHeld
  <2> QED
    BY <2>1, <2>2
<1> QED
  BY <1>1, ChainInvariance, PTL

(* Predecessors describe one line in the order of positions, whatever is   *)
(* deleted.                                                                *)
THEOREM LineSafe == ChainSpec => []ChainIsLine
<1>1. ChainInv => ChainIsLine
  BY DEF ChainInv
<1> QED
  BY <1>1, ChainInvariance, PTL

-----------------------------------------------------------------------------
(* Part 3: ingest requests.                                                *)

(* Induction over the natural numbers, for a set of them.                  *)
LEMMA InSetInduction ==
  ASSUME NEW P, 0 \in P, \A n \in Nat : n \in P => n + 1 \in P
  PROVE  Nat \subseteq P
<1> DEFINE R == OpToRel(<, Nat)
           T == Nat \ P
<1>1. \A x, y \in Nat : <<y, x>> \in R <=> y < x
  BY DEF OpToRel
<1>2. IsWellFoundedOn(R, Nat)
  BY NatLessThanWellFounded
<1> HIDE DEF R
<1>3. SUFFICES ASSUME T # {} PROVE FALSE
  OBVIOUS
<1>4. PICK x \in T : \A y \in T : ~(<<y, x>> \in R)
  BY <1>2, <1>3, WFMin
<1>5. \A y \in T : ~(y < x)
  BY <1>1, <1>4
<1>6. x # 0 /\ x - 1 \in Nat
  BY <1>4
<1>7. x - 1 \in P
  BY <1>5, <1>6
<1>8. (x - 1) + 1 \in P
  BY <1>6, <1>7
<1> QED
  BY <1>4, <1>6, <1>8

(* A loop of n rounds over values in V comes to an end in V.               *)
Loop(h, n, b, round) ==
  h = [i \in 0..n |-> IF i = 0 THEN b ELSE round[<<i, h[i - 1]>>]]

(* Such a loop exists.                                                     *)
LEMMA LoopExists ==
  ASSUME NEW n \in Nat, NEW V, NEW b \in V, NEW round \in [(1..n) \X V -> V]
  PROVE  \E h \in [0..n -> V] : Loop(h, n, b, round)
<1> DEFINE P == {m \in Nat : m <= n =>
                   \E h \in [0..m -> V] : Loop(h, m, b, round)}
<1>1. 0 \in P
  <2> DEFINE h == [i \in 0..0 |-> b]
  <2>1. \A i \in 0..0 : i = 0
    OBVIOUS
  <2>2. h \in [0..0 -> V] /\ Loop(h, 0, b, round)
    BY <2>1 DEF Loop
  <2> QED
    BY <2>2
<1>2. ASSUME NEW m \in Nat, m \in P
      PROVE  m + 1 \in P
  <2>1. SUFFICES ASSUME m + 1 <= n
                 PROVE  \E g \in [0..(m + 1) -> V] : Loop(g, m + 1, b, round)
    OBVIOUS
  <2>2. PICK h \in [0..m -> V] : Loop(h, m, b, round)
    BY <1>2, <2>1
  <2> DEFINE g == [i \in 0..(m + 1) |->
                     IF i = m + 1 THEN round[<<i, h[i - 1]>>] ELSE h[i]]
  <2>3. \A i \in 0..m : h[i] = IF i = 0 THEN b ELSE round[<<i, h[i - 1]>>]
    BY <2>2 DEF Loop
  <2>4. g \in [0..(m + 1) -> V]
    <3> SUFFICES ASSUME NEW i \in 0..(m + 1)
                 PROVE  (IF i = m + 1 THEN round[<<i, h[i - 1]>>]
                                      ELSE h[i]) \in V
      OBVIOUS
    <3>1. CASE i = m + 1
      <4>1. i \in 1..n /\ i - 1 \in 0..m
        BY <2>1, <3>1
      <4> QED
        BY <3>1, <4>1
    <3>2. CASE i # m + 1
      BY <3>2
    <3> QED
      BY <3>1, <3>2
  <2>5. ASSUME NEW i \in 0..(m + 1)
        PROVE  g[i] = IF i = 0 THEN b ELSE round[<<i, g[i - 1]>>]
    <3>1. CASE i = 0
      BY <2>3, <3>1
    <3>2. CASE i # 0
      <4>1. i - 1 \in 0..m
        BY <3>2
      <4>2. g[i - 1] = h[i - 1]
        BY <4>1
      <4> QED
        BY <2>3, <3>2, <4>2
    <3> QED
      BY <3>1, <3>2
  <2>6. g = [i \in 0..(m + 1) |-> g[i]]
    OBVIOUS
  <2> HIDE DEF g
  <2>7. Loop(g, m + 1, b, round)
    BY <2>5, <2>6 DEF Loop
  <2> QED
    BY <2>4, <2>7
<1> HIDE DEF P
<1>3. n \in P
  BY <1>1, <1>2, InSetInduction
<1> QED
  BY <1>3 DEF P

(* What every round of a loop keeps, the loop keeps.                       *)
LEMMA LoopStays ==
  ASSUME NEW n \in Nat, NEW V, NEW t, t[0] \in V,
         \A i \in 1..n : t[i - 1] \in V => t[i] \in V
  PROVE  t[n] \in V
<1> DEFINE P == {k \in Nat : k <= n => t[k] \in V}
<1>1. 0 \in P
  OBVIOUS
<1>2. ASSUME NEW k \in Nat, k \in P PROVE k + 1 \in P
  <2>1. SUFFICES ASSUME k + 1 <= n PROVE t[k + 1] \in V
    OBVIOUS
  <2>2. t[k] \in V /\ k + 1 \in 1..n /\ (k + 1) - 1 = k
    BY <1>2, <2>1
  <2> QED
    BY <2>2
<1> HIDE DEF P
<1>3. n \in P
  BY <1>1, <1>2, InSetInduction
<1> QED
  BY <1>3 DEF P

(* Of some places of a list, one has the greatest value, the first of      *)
-----------------------------------------------------------------------------
(* What is taken of a list is a list of the same values.                   *)
LEMMA TakenIsThere ==
  ASSUME NEW S, NEW s \in Seq(S), NEW places
  PROVE  Taken(s, places) \in Seq(S)
<1> DEFINE n == Len(s)
           V == Seq(S)
           With(v, i) == IF i \in places THEN Append(v, s[i]) ELSE v
           round == [p \in (1..n) \X V |-> With(p[2], p[1])]
           F(f) == f = [i \in 0..n |->
                          IF i = 0 THEN <<>> ELSE With(f[i - 1], i)]
           t == CHOOSE f : F(f)
<1>1. n \in Nat /\ DOMAIN s = 1..n /\ \A i \in 1..n : s[i] \in S
  OBVIOUS
<1>2. Taken(s, places) = t[n]
  BY DEF Taken
<1>3. \A i \in 1..n, v \in V : With(v, i) \in V
  BY <1>1
<1>4. <<>> \in V
  OBVIOUS
<1> HIDE DEF n, V
<1>5. round \in [(1..n) \X V -> V]
  <2> HIDE DEF With
  <2> QED
    BY <1>3
<1>6. \A i \in 1..n, v \in V : round[<<i, v>>] = With(v, i)
  OBVIOUS
<1> HIDE DEF With, round
<1>7. PICK h \in [0..n -> V] : Loop(h, n, <<>>, round)
  BY <1>1, <1>4, <1>5, LoopExists
<1>8. F(h)
  <2>1. \A i \in 0..n : h[i] = IF i = 0 THEN <<>> ELSE With(h[i - 1], i)
    <3> SUFFICES ASSUME NEW i \in 0..n, i # 0
                 PROVE  round[<<i, h[i - 1]>>] = With(h[i - 1], i)
      BY <1>7 DEF Loop
    <3>1. i \in 1..n /\ h[i - 1] \in V
      BY <1>1
    <3> QED
      BY <1>6, <3>1
  <2> QED
    BY <2>1
<1>9. F(t)
  BY <1>8
<1> HIDE DEF t
<1>10. t[0] = <<>> /\ \A i \in 1..n : t[i] = With(t[i - 1], i)
  BY <1>1, <1>9
<1>11. t[0] \in V /\ \A i \in 1..n : t[i - 1] \in V => t[i] \in V
  BY <1>3, <1>4, <1>10
<1>12. t[n] \in V
  BY <1>1, <1>11, LoopStays
<1> QED
  BY <1>2, <1>12 DEF V

(* A finite set in some order, nothing twice.                              *)
LEMMA SetInOrder ==
  ASSUME NEW S, IsFiniteSet(S)
  PROVE  /\ SetToSeq(S) \in [1..Cardinality(S) -> S]
         /\ SetToSeq(S) \in Seq(S) /\ Len(SetToSeq(S)) = Cardinality(S)
         /\ Cardinality(S) \in Nat
<1> DEFINE n == Cardinality(S)
<1>1. n \in Nat /\ ExistsBijection(1..n, S)
  BY FS_CardinalityType
<1>2. PICK f \in [1..n -> S] : IsInjective(f)
  BY <1>1, Zenon DEF ExistsBijection, Bijection, Injection
<1>3. SetToSeq(S) \in [1..n -> S]
  BY <1>2, Zenon DEF SetToSeq
<1> HIDE DEF n
<1>4. SetToSeq(S) \in Seq(S) /\ Len(SetToSeq(S)) = n
  <2> DEFINE t == SetToSeq(S)
  <2>1. t \in [1..n -> S]
    BY <1>3
  <2> HIDE DEF t
  <2>2. t \in Seq(S) /\ Len(t) = n
    BY <1>1, <2>1
  <2> QED
    BY <2>2 DEF t
<1> QED
  BY <1>1, <1>3, <1>4 DEF n

-----------------------------------------------------------------------------
(* Nothing is more alike to a statement than what states it alone.         *)

Texts == {S \in SUBSET Statements : IsFiniteSet(S) /\ S # {}}

(* The mean of numbers up to b is a number up to b.                        *)
LEMMA MeanIsBounded ==
  ASSUME NEW n \in Nat \ {0}, NEW b \in {99, 100}, NEW s \in Int, s <= b * n
  PROVE  s \div n \in Int /\ s \div n <= b
<1>1. s \div n \in Int
  OBVIOUS
<1>2. n * (s \div n) <= s
  OBVIOUS
<1>3. ASSUME s \div n >= b + 1 PROVE FALSE
  <2>1. n * (s \div n) >= n * (b + 1)
    BY <1>1, <1>3
  <2> QED
    BY <1>1, <1>2, <2>1
<1> QED
  BY <1>1, <1>3

NoMoreAlike(f, says, b) == \A g \in says : Alike[f][g] <= b

(* A text is as alike as the most alike of its statements, or less.        *)
LEMMA LikenessUpTo ==
  ASSUME NEW f \in Statements, NEW says \in Texts, NEW b \in {99, 100},
         NoMoreAlike(f, says, b)
  PROVE  Likeness(f, says) \in Int /\ Likeness(f, says) <= b
<1> DEFINE order == SetToSeq(says)
           n == Len(order)
           V == Int
           With(v, i) == v + Alike[f][order[i]]
           round == [p \in (1..n) \X V |-> With(p[2], p[1])]
           F(g) == g = [i \in 0..n |-> IF i = 0 THEN 0 ELSE With(g[i - 1], i)]
           t == CHOOSE g : F(g)
<1>1. /\ n \in Nat /\ n # 0
      /\ \A i \in 1..n : Alike[f][order[i]] \in Int /\ Alike[f][order[i]] <= b
  <2>1. says \subseteq Statements /\ IsFiniteSet(says) /\ says # {}
    BY DEF Texts
  <2>2. n = Cardinality(says) /\ n \in Nat /\ order \in [1..n -> says]
    BY <2>1, SetInOrder
  <2>3. n # 0
    BY <2>1, <2>2, FS_EmptySet
  <2>4. \A i \in 1..n : order[i] \in Statements /\ Alike[f][order[i]] <= b
    BY <2>1, <2>2 DEF NoMoreAlike
  <2> HIDE DEF order, n
  <2> QED
    BY <2>2, <2>3, <2>4, AlikeAssumption
<1>2. Likeness(f, says) = t[n] \div n
  BY DEF Likeness
<1> HIDE DEF order, n
<1>3. \A i \in 1..n, v \in V : With(v, i) \in V
  BY <1>1
<1>4. round \in [(1..n) \X V -> V]
  <2> HIDE DEF With
  <2> QED
    BY <1>3
<1>5. \A i \in 1..n, v \in V : round[<<i, v>>] = With(v, i)
  OBVIOUS
<1> HIDE DEF With, round
<1>6. PICK h \in [0..n -> V] : Loop(h, n, 0, round)
  <2>1. 0 \in V
    OBVIOUS
  <2> HIDE DEF V
  <2> QED
    BY <1>1, <1>4, <2>1, LoopExists
<1>7. F(h)
  <2>1. \A i \in 0..n : h[i] = IF i = 0 THEN 0 ELSE With(h[i - 1], i)
    <3> SUFFICES ASSUME NEW i \in 0..n, i # 0
                 PROVE  round[<<i, h[i - 1]>>] = With(h[i - 1], i)
      BY <1>6 DEF Loop
    <3>1. i \in 1..n /\ h[i - 1] \in V
      BY <1>1
    <3> QED
      BY <1>5, <3>1
  <2> QED
    BY <2>1
<1>8. F(t)
  <2> HIDE DEF F
  <2> QED
    BY <1>7, Zenon
<1> HIDE DEF t
<1>9. t[0] = 0 /\ \A i \in 1..n : t[i] = With(t[i - 1], i)
  BY <1>1, <1>8
<1> DEFINE P == {m \in Nat : m <= n => t[m] \in Int /\ t[m] <= b * m}
<1>10. 0 \in P
  BY <1>9
<1>11. ASSUME NEW m \in Nat, m \in P PROVE m + 1 \in P
  <2> SUFFICES ASSUME m + 1 <= n
               PROVE  t[m + 1] \in Int /\ t[m + 1] <= b * (m + 1)
    OBVIOUS
  <2> DEFINE a == Alike[f][order[m + 1]]
  <2>1. m + 1 \in 1..n /\ (m + 1) - 1 = m
    BY <1>1
  <2>2. t[m + 1] = t[m] + a
    BY <1>9, <2>1 DEF With
  <2>3. a \in Int /\ a <= b
    BY <1>1, <2>1
  <2>4. t[m] \in Int /\ t[m] <= b * m
    BY <1>1, <1>11
  <2> HIDE DEF a
  <2>5. CASE b = 99
    BY <2>2, <2>3, <2>4, <2>5
  <2>6. CASE b = 100
    BY <2>2, <2>3, <2>4, <2>6
  <2> QED
    BY <2>5, <2>6
<1> HIDE DEF P
<1>12. n \in P
  BY <1>1, <1>10, <1>11, InSetInduction
<1>13. t[n] \in Int /\ t[n] <= b * n
  BY <1>1, <1>12 DEF P
<1>14. t[n] \div n \in Int /\ t[n] \div n <= b
  <2> DEFINE sum == t[n]
  <2>1. sum \in Int /\ sum <= b * n /\ n \in Nat \ {0}
    BY <1>1, <1>13
  <2> HIDE DEF sum
  <2>2. sum \div n \in Int /\ sum \div n <= b
    BY <2>1, MeanIsBounded
  <2> QED
    BY <2>2 DEF sum
<1> QED
  BY <1>2, <1>14

(* Nothing is more alike than the same.                                    *)
LEMMA LikenessBounded ==
  ASSUME NEW f \in Statements, NEW says \in Texts
  PROVE  Likeness(f, says) \in Int /\ Likeness(f, says) <= 100
<1>1. \A g \in says : Alike[f][g] <= 100
  BY AlikeAssumption DEF Texts
<1> QED
  BY <1>1, LikenessUpTo DEF NoMoreAlike

(* What is as alike as the same quotes whatever the statement quotes.      *)
LEMMA AlikeQuotesTheSame ==
  ASSUME NEW f \in Statements, NEW says \in Texts, Likeness(f, says) = 100
  PROVE  Literals[f] \subseteq UNION {Literals[g] : g \in says}
<1>1. PICK g \in says : ~(Alike[f][g] <= 99)
  BY LikenessUpTo DEF NoMoreAlike
<1>2. g \in Statements /\ Alike[f][g] \in Int /\ Alike[f][g] <= 100
  BY AlikeAssumption DEF Texts
<1>3. Alike[f][g] = 100
  BY <1>1, <1>2
<1>4. Literals[f] \subseteq Literals[g]
  BY <1>2, <1>3, AlikeAssumption
<1> QED
  BY <1>4

(* The same statement alone is alike in every respect.                     *)
LEMMA SameIsAlike ==
  ASSUME NEW f \in Statements
  PROVE  Likeness(f, {f}) = 100
<1> DEFINE order == SetToSeq({f})
           F(g) == g = [i \in 0..Len(order) |->
                          IF i = 0 THEN 0 ELSE g[i - 1] + Alike[f][order[i]]]
           t == CHOOSE g : F(g)
<1>1. IsFiniteSet({f}) /\ Cardinality({f}) = 1
  BY FS_Singleton
<1>2. Len(order) = 1 /\ order \in [1..1 -> {f}]
  BY <1>1, SetInOrder
<1>3. order[1] = f
  BY <1>2
<1>4. Likeness(f, {f}) = t[Len(order)] \div Len(order)
  BY DEF Likeness
<1> HIDE DEF order
<1>5. Alike[f][f] = 100
  BY AlikeAssumption
<1> DEFINE h == [i \in 0..1 |-> IF i = 0 THEN 0 ELSE 100]
<1>6. F(h)
  <2>1. \A i \in 0..1 :
          h[i] = IF i = 0 THEN 0 ELSE h[i - 1] + Alike[f][order[i]]
    <3> TAKE i \in 0..1
    <3>1. CASE i = 0
      BY <3>1
    <3>2. CASE i = 1
      <4>1. h[i - 1] = 0
        BY <3>2
      <4> QED
        BY <1>3, <1>5, <3>2, <4>1
    <3> QED
      BY <3>1, <3>2
  <2>2. h = [i \in 0..1 |-> h[i]]
    OBVIOUS
  <2> HIDE DEF h
  <2> QED
    BY <1>2, <2>1, <2>2
<1>7. F(t)
  BY <1>6
<1> HIDE DEF t, h
<1>8. t = [i \in 0..1 |-> IF i = 0 THEN 0 ELSE t[i - 1] + Alike[f][order[i]]]
  BY <1>2, <1>7
<1>9. 0 \in 0..1 /\ 1 \in 0..1
  OBVIOUS
<1>10. t[0] = 0
  BY <1>8, <1>9
<1>11. t[1] = t[0] + Alike[f][order[1]]
  BY <1>8, <1>9
<1>12. t[1] = 100
  BY <1>3, <1>5, <1>10, <1>11
<1> QED
  BY <1>2, <1>4, <1>12

-----------------------------------------------------------------------------
(* Clusters are lists of memories with what they were stored for.          *)

Pairs == Nat \X Statements
Clusters == Seq(Pairs) \ {<<>>}

(* Placing a memory keeps every cluster filled.                            *)
LEMMA PlaceKeeps ==
  ASSUME NEW clusters \in Seq(Clusters), NEW x \in Pairs
  PROVE  Place(clusters, x) \in Seq(Clusters)
<1>1. \A c \in Seq(Pairs) : Append(c, x) \in Clusters
  <2> TAKE c \in Seq(Pairs)
  <2>1. Append(c, x) \in Seq(Pairs) /\ Len(Append(c, x)) # 0
    OBVIOUS
  <2>2. Append(c, x) # <<>>
    BY <2>1
  <2> QED
    BY <2>1, <2>2 DEF Clusters
<1>2. <<x>> \in Clusters
  BY DEF Clusters
<1>3. \A c \in Clusters : c \in Seq(Pairs)
  BY DEF Clusters
<1> HIDE DEF Clusters, Pairs
<1>4. PICK S : Place(clusters, x) =
         IF S = {} THEN Append(clusters, <<x>>)
         ELSE [clusters EXCEPT ![CHOOSE k \in S : TRUE] = Append(@, x)]
  BY DEF Place
<1>5. CASE S = {}
  BY <1>2, <1>4, <1>5
<1>6. CASE S # {}
  <2> DEFINE k == CHOOSE k \in S : TRUE
             c == Append(clusters[k], x)
  <2>1. Place(clusters, x) = [clusters EXCEPT ![k] = c]
    BY <1>4, <1>6
  <2>2. k \in DOMAIN clusters => c \in Clusters
    BY <1>1, <1>3
  <2> HIDE DEF k, c
  <2>3. CASE k \in DOMAIN clusters
    BY <2>1, <2>2, <2>3
  <2>4. CASE k \notin DOMAIN clusters
    <3>1. [clusters EXCEPT ![k] = c] = clusters
      BY <2>4
    <3> QED
      BY <2>1, <3>1
  <2> QED
    BY <2>3, <2>4
<1> QED
  BY <1>5, <1>6

(* Clustering yields clusters that are not empty.                          *)
LEMMA ClustersAreThere ==
  ASSUME NEW inputs \in Seq(Pairs)
  PROVE  ClusterBySimilarity(inputs) \in Seq(Clusters)
<1> DEFINE n == Len(inputs)
           V == Seq(Clusters)
           With(v, i) == Place(v, inputs[i])
           round == [p \in (1..n) \X V |-> With(p[2], p[1])]
           F(f) == f = [i \in 0..n |->
                          IF i = 0 THEN <<>> ELSE With(f[i - 1], i)]
           t == CHOOSE f : F(f)
<1>1. n \in Nat /\ \A i \in 1..n : inputs[i] \in Pairs
  OBVIOUS
<1>2. ClusterBySimilarity(inputs) = t[n]
  BY DEF ClusterBySimilarity
<1>3. \A i \in 1..n, v \in V : With(v, i) \in V
  BY <1>1, PlaceKeeps
<1>4. <<>> \in V
  OBVIOUS
<1> HIDE DEF n, V
<1>5. round \in [(1..n) \X V -> V]
  <2> HIDE DEF With
  <2> QED
    BY <1>3
<1>6. \A i \in 1..n, v \in V : round[<<i, v>>] = With(v, i)
  OBVIOUS
<1> HIDE DEF With, round
<1>7. PICK h \in [0..n -> V] : Loop(h, n, <<>>, round)
  BY <1>1, <1>4, <1>5, LoopExists
<1>8. F(h)
  <2>1. \A i \in 0..n : h[i] = IF i = 0 THEN <<>> ELSE With(h[i - 1], i)
    <3> SUFFICES ASSUME NEW i \in 0..n, i # 0
                 PROVE  round[<<i, h[i - 1]>>] = With(h[i - 1], i)
      BY <1>7 DEF Loop
    <3>1. i \in 1..n /\ h[i - 1] \in V
      BY <1>1
    <3> QED
      BY <1>6, <3>1
  <2> QED
    BY <2>1
<1>9. F(t)
  BY <1>8
<1> HIDE DEF t
<1>10. t[0] = <<>> /\ \A i \in 1..n : t[i] = With(t[i - 1], i)
  BY <1>1, <1>9
<1>11. t[0] \in V /\ \A i \in 1..n : t[i - 1] \in V => t[i] \in V
  BY <1>3, <1>4, <1>10
<1>12. t[n] \in V
  BY <1>1, <1>11, LoopStays
<1> QED
  BY <1>2, <1>12 DEF V

(* So do the clusters that become composites.                              *)
LEMMA CompositesAreThere ==
  ASSUME NEW inputs \in Seq(Pairs)
  PROVE  BuildComposites(inputs) \in Seq(Clusters)
<1>1. ClusterBySimilarity(inputs) \in Seq(Clusters)
  BY ClustersAreThere
<1>2. PICK S : BuildComposites(inputs) = Taken(ClusterBySimilarity(inputs), S)
  BY DEF BuildComposites
<1> QED
  BY <1>1, <1>2, TakenIsThere

-----------------------------------------------------------------------------
(* What rows and requests are.                                             *)

BatchRow ==
  [says : Texts, status : {"live", "held", "expired", "deleted"},
   created : {Today} \cup {Job[j].session : j \in Jobs},
   members : SUBSET Nat, slot : {None} \cup {Slot[f] : f \in Statements},
   user : {Job[j].user : j \in Jobs},
   workspace : {Job[j].workspace : j \in Jobs},
   first : Jobs, by : Jobs]

(* A candidate as it was read.                                             *)
Read == [id : Nat, says : Texts, similarity : Int]

JobState ==
  [pc : {"none", "new", "fact", "decide", "backdate", "links", "composites",
         "done", "failed"},
   next : Nat \ {0}, attempt : Nat, candidates : SUBSET Nat,
   top : SUBSET Read, superseded : SUBSET Nat,
   seen : SUBSET UNION {Keywords[f] : f \in Statements},
   previous : {None} \cup Statements, ids : SUBSET Nat,
   embedded : SUBSET Nat, stored : Seq(Pairs), touched : SUBSET Nat]

(* A request knows rows that exist and is at a fact it has.                *)
Sound(j) ==
  /\ job[j].ids \subseteq Ids /\ job[j].candidates \subseteq Ids
  /\ \A c \in job[j].top : c.id \in Ids
  /\ At(j, "decide") => job[j].next <= Len(Job[j].facts)
  /\ Job[j].mode = "verbatim" => job[j].pc \in {"none", "new", "done"}

BatchTyped ==
  /\ rows \in Seq(BatchRow)
  /\ job \in [Jobs -> JobState]
  /\ \A j \in Jobs : Sound(j)

(* Rows are in the reach of the request that wrote them last, and what a   *)
(* request read is in its reach.                                           *)
Owned(j, r) ==
  /\ rows[r].workspace = Job[j].workspace
  /\ Job[j].mode = "workspace" \/ rows[r].user = Job[j].user

RowOwned(r) ==
  /\ rows[r].slot # None => rows[r].workspace = None
  /\ Owned(rows[r].by, r)

Reached(j) == \A r \in job[j].candidates : Owned(j, r)

(* What BatchIsDated says of a request that is done holds as soon as it    *)
(* has backdated its rows.                                                 *)
RowDated(r) ==
  LET j == rows[r].first IN
  Job[j].session # None /\ Job[j].mode \notin {"verbatim", "workspace"} =>
    rows[r].created \in DatesOf(r)

BatchDated(j) ==
  /\ Job[j].session # None /\ Job[j].mode # "verbatim"
  /\ job[j].pc \in {"links", "composites", "done"}
  => \A r \in job[j].ids : rows[r].created \in DatesOf(r)

(* Nothing of a text that is to be stored as it is.                        *)
Untold(j) ==
  Job[j].mode = "verbatim" /\ job[j].pc \in {"none", "new"} =>
    \A r \in Ids : rows[r].by # j

BatchInv ==
  /\ BatchTyped
  /\ \A r \in Ids : RowOwned(r) /\ RowDated(r)
  /\ \A j \in Jobs : Reached(j) /\ BatchDated(j) /\ Untold(j)

(* The candidate a request begins with is as alike as the same, and quotes *)
(* the same: neither path leaves it to the model.                          *)
AsAlike(j) ==
  \E c \in job[j].top :
    /\ c.similarity = 100
    /\ Job[j].mode # "quick" =>
         Literals[CurrentFact(j)] \subseteq UNION {Literals[g] : g \in c.says}

(* What the request has already said and still serves was found before it  *)
(* decides, or is hidden from it.                                          *)
FoundAgain(j) ==
  At(j, "decide") =>
    \A r \in Ids : Saying(j, r) => Hidden(j, r) \/ AsAlike(j)

OnceInv == \A j \in Jobs : FoundAgain(j)

-----------------------------------------------------------------------------
(* What a step of a request does to the rows and to the request.           *)

Unwritten(r) ==
  /\ rows'[r].says = rows[r].says /\ rows'[r].by = rows[r].by
  /\ rows'[r].status = "live" => rows[r].status = "live"

RowStep(j, r) ==
  /\ rows'[r].first = rows[r].first /\ rows'[r].members = rows[r].members
  /\ rows'[r].user = rows[r].user /\ rows'[r].workspace = rows[r].workspace
  /\ rows'[r].slot = rows[r].slot
  /\ \/ rows'[r].created = rows[r].created
     \/ rows'[r].created = Job[j].session /\ r \in job'[j].touched
  /\ Unwritten(r) \/ (rows'[r].by = j /\ Owned(j, r))

NewStep(j, r) ==
  /\ rows'[r].first = j /\ rows'[r].by = j
  /\ rows'[r].user = Job[j].user /\ rows'[r].workspace = Job[j].workspace
  /\ rows'[r].slot # None => rows'[r].workspace = None
  /\ Job[j].mode \notin {"verbatim", "workspace"} /\ Job[j].session # None =>
       rows'[r].created = Job[j].session

RowsStep(j) ==
  /\ rows' \in Seq(BatchRow)
  /\ Ids \subseteq DOMAIN rows'
  /\ \A r \in Ids : RowStep(j, r)
  /\ \A r \in DOMAIN rows' \ Ids : NewStep(j, r)

JobStep(j) ==
  /\ job' \in [Jobs -> JobState]
  /\ \A k \in Jobs \ {j} : job'[k] = job[k]
  /\ Sound(j)'
  /\ job[j].touched \subseteq job'[j].touched
  /\ Reached(j)'
  /\ job'[j].pc \notin {"none", "new"}
  /\ \/ job'[j].pc \notin {"links", "composites", "done"}
     \/ Job[j].session = None \/ Job[j].mode = "verbatim"
     \/ job[j].pc \in {"links", "composites"} /\ job'[j].ids = job[j].ids
     \/ \A r \in job'[j].ids :
          r \in job'[j].touched /\ rows'[r].created = Job[j].session

(* A row never loses a date it may have.                                   *)
LEMMA DatesGrow ==
  ASSUME BatchTyped, NEW j \in Jobs, RowsStep(j), JobStep(j), NEW r \in Ids
  PROVE  DatesOf(r) \subseteq DatesOf(r)'
<1>1. rows'[r].first = rows[r].first
  BY DEF RowsStep, RowStep
<1>2. \A k \in Jobs : job[k].touched \subseteq job'[k].touched
  BY DEF JobStep
<1> QED
  BY <1>1, <1>2 DEF DatesOf

(* What every step of one request does keeps the invariant.                *)
LEMMA BatchStepKeeps ==
  ASSUME BatchInv, NEW j \in Jobs, RowsStep(j), JobStep(j)
  PROVE  BatchInv'
<1>1. /\ rows \in Seq(BatchRow) /\ rows' \in Seq(BatchRow)
      /\ job \in [Jobs -> JobState] /\ job' \in [Jobs -> JobState]
      /\ Ids \subseteq Ids' /\ \A k \in Jobs \ {j} : job'[k] = job[k]
  BY DEF BatchInv, BatchTyped, RowsStep, JobStep, Ids
<1>2. BatchTyped'
  <2>1. \A k \in Jobs \ {j} : Sound(k)'
    BY <1>1 DEF BatchInv, BatchTyped, Sound, At
  <2> QED
    BY <1>1, <2>1 DEF BatchTyped, JobStep
<1>3. /\ \A r \in Ids : RowStep(j, r)
      /\ \A r \in Ids' \ Ids : NewStep(j, r)
  BY DEF RowsStep, Ids
<1>4. \A k \in Jobs, r \in Ids : Owned(k, r) => Owned(k, r)'
  BY <1>3 DEF RowStep, Owned
<1>5. \A r \in Ids : rows[r].by \in Jobs /\ rows[r].first \in Jobs
  <2> TAKE r \in Ids
  <2>1. rows[r] \in BatchRow
    BY <1>1 DEF Ids
  <2> QED
    BY <2>1 DEF BatchRow
<1>6. ASSUME NEW r \in Ids' PROVE RowOwned(r)'
  <2>1. CASE r \in Ids
    <3>1. RowOwned(r) /\ RowStep(j, r)
      BY <1>3, <2>1 DEF BatchInv
    <3>2. \/ rows'[r].by = rows[r].by /\ Owned(rows[r].by, r)
          \/ rows'[r].by = j /\ Owned(j, r)
      BY <3>1 DEF RowStep, Unwritten, RowOwned
    <3>3. PICK k \in Jobs : rows'[r].by = k /\ Owned(k, r)
      BY <1>5, <2>1, <3>2
    <3>4. Owned(k, r)'
      BY <1>4, <2>1, <3>3
    <3> QED
      BY <3>1, <3>3, <3>4 DEF RowOwned, RowStep, Owned
  <2>2. CASE r \notin Ids
    <3>1. NewStep(j, r)
      BY <1>3, <1>6, <2>2
    <3> QED
      BY <3>1 DEF NewStep, RowOwned, Owned
  <2> QED
    BY <2>1, <2>2
<1>7. \A r \in Ids : DatesOf(r) \subseteq DatesOf(r)'
  BY DatesGrow DEF BatchInv
<1>8. ASSUME NEW r \in Ids, rows[r].created \in DatesOf(r)
      PROVE  rows'[r].created \in DatesOf(r)'
  <2>1. \/ rows'[r].created = rows[r].created
        \/ rows'[r].created = Job[j].session /\ r \in job'[j].touched
    BY <1>3 DEF RowStep
  <2>2. CASE rows'[r].created = rows[r].created
    BY <1>7, <1>8, <2>2
  <2>3. CASE rows'[r].created = Job[j].session /\ r \in job'[j].touched
    BY <2>3 DEF DatesOf
  <2> QED
    BY <2>1, <2>2, <2>3
<1>9. ASSUME NEW r \in Ids' PROVE RowDated(r)'
  <2>1. CASE r \in Ids
    <3>1. RowDated(r) /\ rows'[r].first = rows[r].first
      BY <1>3, <2>1 DEF BatchInv, RowStep
    <3> QED
      BY <1>8, <2>1, <3>1 DEF RowDated
  <2>2. CASE r \notin Ids
    <3>1. NewStep(j, r)
      BY <1>3, <1>9, <2>2
    <3> QED
      BY <3>1 DEF NewStep, RowDated, DatesOf
  <2> QED
    BY <2>1, <2>2
<1>10. ASSUME NEW k \in Jobs \ {j} PROVE Reached(k)'
  <2>1. Reached(k) /\ job[k].candidates \subseteq Ids
    BY DEF BatchInv, BatchTyped, Sound
  <2> QED
    BY <1>1, <1>4, <2>1 DEF Reached
<1>11. ASSUME NEW k \in Jobs PROVE BatchDated(k)'
  <2>1. BatchDated(k) /\ job[k].ids \subseteq Ids
    BY DEF BatchInv, BatchTyped, Sound
  <2>2. CASE /\ job'[k].ids = job[k].ids
             /\ job[k].pc \in {"links", "composites", "done"}
    BY <1>8, <2>1, <2>2 DEF BatchDated
  <2>3. CASE k # j
    <3>1. job'[k] = job[k]
      BY <1>1, <2>3
    <3> QED
      BY <1>8, <2>1, <3>1 DEF BatchDated
  <2>4. CASE /\ k = j
             /\ ~(/\ job[k].pc \in {"links", "composites"}
                  /\ job'[k].ids = job[k].ids)
    <3>1. SUFFICES ASSUME Job[j].session # None, Job[j].mode # "verbatim",
                          job'[j].pc \in {"links", "composites", "done"},
                          NEW r \in job'[j].ids
                   PROVE  rows'[r].created \in DatesOf(r)'
      BY <2>4 DEF BatchDated
    <3>2. r \in job'[j].touched /\ rows'[r].created = Job[j].session
      BY <2>4, <3>1 DEF JobStep
    <3> QED
      BY <3>2 DEF DatesOf
  <2> QED
    BY <2>2, <2>3, <2>4
<1>12. ASSUME NEW k \in Jobs PROVE Untold(k)'
  <2>1. CASE k = j
    BY <2>1 DEF JobStep, Untold
  <2>2. CASE k # j
    <3>1. Untold(k) /\ job'[k] = job[k]
      BY <1>1, <2>2 DEF BatchInv
    <3>2. ASSUME NEW r \in Ids', rows'[r].by = k
          PROVE  r \in Ids /\ rows[r].by = k
      BY <1>3, <2>2, <3>2 DEF RowStep, Unwritten, NewStep
    <3> QED
      BY <3>1, <3>2 DEF Untold
  <2> QED
    BY <2>1, <2>2
<1> QED
  BY <1>2, <1>6, <1>9, <1>10, <1>11, <1>12 DEF BatchInv, JobStep

-----------------------------------------------------------------------------
(* The steps of requests.                                                  *)

(* The fact a request is at is a statement.                                *)
LEMMA FactIsStated ==
  ASSUME BatchTyped, NEW j \in Jobs, job[j].next <= Len(Job[j].facts)
  PROVE  CurrentFact(j) \in Statements
<1>1. job[j].next \in Nat \ {0}
  BY DEF BatchTyped, JobState
<1>2. Job[j].facts \in Seq(Statements)
  BY JobAssumption
<1> QED
  BY <1>1, <1>2 DEF CurrentFact

(* A request in the middle of its facts is not one that stores a text.     *)
LEMMA NotVerbatim ==
  ASSUME BatchTyped, NEW j \in Jobs, job[j].pc \notin {"none", "new", "done"}
  PROVE  Job[j].mode # "verbatim"
BY DEF BatchTyped, Sound

(* The table is a list of rows.                                            *)
LEMMA RowsAre ==
  ASSUME BatchTyped
  PROVE  /\ rows \in Seq(BatchRow) /\ Len(rows) \in Nat /\ Ids = 1..Len(rows)
         /\ \A r \in Ids : rows[r] \in BatchRow
BY DEF BatchTyped, Ids

(* A step may leave the table alone.                                       *)
LEMMA RowsStay ==
  ASSUME BatchInv, NEW j \in Jobs, rows' = rows
  PROVE  RowsStep(j)
<1>1. rows \in Seq(BatchRow)
  BY DEF BatchInv, BatchTyped
<1> QED
  BY <1>1 DEF RowsStep, RowStep, Unwritten, Ids

(* A new row is a row.                                                     *)
LEMMA NewRowTyped ==
  ASSUME BatchTyped, NEW j \in Jobs, NEW says \in Texts,
         NEW status \in {"live", "held"},
         NEW created \in {Today} \cup {Job[k].session : k \in Jobs},
         NEW members \in SUBSET Nat
  PROVE  NewRow(j, says, status, created, members) \in BatchRow
<1>1. job[j].superseded \in SUBSET Nat
  BY DEF BatchTyped, JobState
<1> QED
  BY <1>1 DEF NewRow, BatchRow

(* One statement is a text.                                                *)
LEMMA OneIsAText ==
  ASSUME NEW f \in Statements
  PROVE  {f} \in Texts
BY FS_Singleton DEF Texts

(* A row is stored with a date of a request, or today's.                   *)
LEMMA DateIsADate ==
  ASSUME NEW j \in Jobs
  PROVE  StoringDate(j) \in {Today} \cup {Job[k].session : k \in Jobs}
BY DEF StoringDate

(* Rows that no longer count, but are otherwise as they were.              *)
Dimmed(b, a) ==
  b = a \/ \E s \in {"expired", "deleted"} : b = [a EXCEPT !.status = s]

(* Such a row says what it said, by whom it said it.                       *)
LEMMA DimmedRow ==
  ASSUME NEW a \in BatchRow, NEW b, Dimmed(b, a)
  PROVE  /\ b \in BatchRow
         /\ b.first = a.first /\ b.members = a.members /\ b.user = a.user
         /\ b.workspace = a.workspace /\ b.slot = a.slot
         /\ b.created = a.created /\ b.says = a.says /\ b.by = a.by
         /\ (b.status = "live" => a.status = "live")
BY DEF Dimmed, BatchRow

(* A row is added; others may end to count.                                *)
LEMMA RowIsAdded ==
  ASSUME BatchInv, NEW j \in Jobs, NEW x \in BatchRow,
         x.first = j, x.by = j, x.user = Job[j].user,
         x.workspace = Job[j].workspace, x.slot # None => x.workspace = None,
         Job[j].mode # "verbatim" => x.created = StoringDate(j),
         NEW base, base \in Seq(BatchRow), Len(base) = Len(rows),
         \A r \in Ids : Dimmed(base[r], rows[r]),
         rows' = Append(base, x)
  PROVE  /\ RowsStep(j)
         /\ DOMAIN rows' = Ids \cup {Len(rows) + 1} /\ Len(rows) + 1 \notin Ids
         /\ rows'[Len(rows) + 1] = x
         /\ \A r \in Ids : rows'[r] = base[r]
<1> DEFINE n == Len(rows)
<1>1. n \in Nat /\ Ids = 1..n /\ \A r \in Ids : rows[r] \in BatchRow
  BY RowsAre DEF BatchInv
<1>2. /\ rows' \in Seq(BatchRow) /\ DOMAIN rows' = 1..(n + 1)
      /\ rows'[n + 1] = x /\ \A r \in 1..n : rows'[r] = base[r]
  <2>1. Len(base) = n
    OBVIOUS
  <2> HIDE DEF n
  <2> QED
    BY <1>1, <2>1
<1> HIDE DEF n
<1>3. Ids \cup {n + 1} = 1..(n + 1) /\ n + 1 \notin Ids
  BY <1>1
<1>4. ASSUME NEW r \in Ids PROVE RowStep(j, r)
  <2>1. rows'[r] = base[r] /\ rows[r] \in BatchRow /\ Dimmed(base[r], rows[r])
    BY <1>1, <1>2
  <2> QED
    BY <2>1, DimmedRow DEF RowStep, Unwritten
<1>5. NewStep(j, n + 1)
  BY <1>2 DEF NewStep, StoringDate
<1>6. RowsStep(j)
  BY <1>2, <1>3, <1>4, <1>5 DEF RowsStep
<1> QED
  BY <1>1, <1>2, <1>3, <1>6 DEF n

(* Most steps of a request leave what it reported alone.                   *)
LEMMA RecordIsAStep ==
  ASSUME BatchInv, NEW j \in Jobs, RowsStep(j), Job[j].mode # "verbatim",
         CurrentFact(j) \in Statements,
         NEW told \in SUBSET (DOMAIN rows'), IsFiniteSet(told),
         NEW embedded \in SUBSET Nat, Record(j, told, embedded)
  PROVE  JobStep(j) /\ job'[j].pc = "fact"
<1>1. job \in [Jobs -> JobState] /\ job[j] \in JobState
  BY DEF BatchInv, BatchTyped
<1>2. /\ Ids \subseteq DOMAIN rows' /\ DOMAIN rows' \subseteq Nat
      /\ job[j].ids \subseteq Ids
  BY DEF RowsStep, BatchInv, BatchTyped, Sound
<1>3. SetToSeq(told \X {CurrentFact(j)}) \in Seq(Pairs)
  <2> DEFINE S == told \X {CurrentFact(j)}
  <2>1. IsFiniteSet(S) /\ S \subseteq Pairs
    BY <1>2, FS_Singleton, FS_Product DEF Pairs
  <2> HIDE DEF S
  <2>2. SetToSeq(S) \in Seq(S)
    BY <2>1, SetInOrder
  <2>3. SetToSeq(S) \in Seq(Pairs)
    BY <2>1, <2>2
  <2> QED
    BY <2>3 DEF S
<1>4. job[j].stored \o SetToSeq(told \X {CurrentFact(j)}) \in Seq(Pairs)
  <2> DEFINE a == job[j].stored
             b == SetToSeq(told \X {CurrentFact(j)})
  <2>1. a \in Seq(Pairs) /\ b \in Seq(Pairs)
    BY <1>1, <1>3 DEF JobState
  <2> HIDE DEF a, b
  <2>2. a \o b \in Seq(Pairs)
    BY <2>1
  <2> QED
    BY <2>2 DEF a, b
<1>5. /\ job' \in [Jobs -> JobState] /\ \A k \in Jobs \ {j} : job'[k] = job[k]
      /\ job'[j].pc = "fact" /\ job'[j].candidates = {}
      /\ job'[j].top = {}
      /\ job'[j].ids = job[j].ids \cup told /\ job'[j].touched = job[j].touched
  <2> DEFINE st == job[j].stored \o SetToSeq(told \X {CurrentFact(j)})
             v == [job[j] EXCEPT !.pc = "fact", !.next = @ + 1,
                     !.candidates = {}, !.top = {},
                     !.ids = @ \cup told, !.embedded = @ \cup embedded,
                     !.stored = st]
  <2>1. job' = [job EXCEPT ![j] = v]
    BY <1>1 DEF Record
  <2>2. st \in Seq(Pairs)
    BY <1>4
  <2>3. /\ job[j].next + 1 \in Nat \ {0}
        /\ job[j].ids \cup told \in SUBSET Nat
        /\ job[j].embedded \cup embedded \in SUBSET Nat
    <3>1. /\ job[j].next \in Nat \ {0} /\ job[j].ids \in SUBSET Nat
          /\ job[j].embedded \in SUBSET Nat
      BY <1>1 DEF JobState
    <3>2. told \in SUBSET Nat
      BY <1>2
    <3> DEFINE k == job[j].next
    <3>3. k + 1 \in Nat \ {0}
      <4>1. k \in Nat
        BY <3>1
      <4> HIDE DEF k
      <4> QED
        BY <4>1
    <3> QED
      BY <3>1, <3>2, <3>3
  <2> HIDE DEF st
  <2>4. /\ v \in JobState /\ v.pc = "fact" /\ v.candidates = {}
        /\ v.top = {}
        /\ v.ids = job[j].ids \cup told /\ v.touched = job[j].touched
    BY <1>1, <2>2, <2>3 DEF JobState
  <2> HIDE DEF v
  <2> QED
    BY <1>1, <2>1, <2>4
<1>6. job'[j].ids \subseteq DOMAIN rows'
  BY <1>2, <1>5
<1> QED
  BY <1>5, <1>6 DEF JobStep, Sound, At, Reached, Ids

(* What each of the actions does, in the same order as in the model.       *)
LEMMA StartKeeps ==
  ASSUME BatchInv, NEW j \in Jobs, Start(j)
  PROVE  RowsStep(j) /\ JobStep(j) /\ rows' = rows /\ job'[j].pc # "decide"
<1>1. job \in [Jobs -> JobState] /\ job[j] \in JobState
  BY DEF BatchInv, BatchTyped
<1>2. rows' = rows /\ RowsStep(j)
  BY RowsStay DEF Start
<1> DEFINE v == Fresh(job[j].attempt + 1, job[j].touched)
<1>3. job' = [job EXCEPT ![j] = v]
  BY DEF Start
<1>4. /\ v \in JobState /\ v.pc = "fact" /\ v.candidates = {}
      /\ v.top = {}
      /\ v.ids = {} /\ v.touched = job[j].touched
  BY <1>1 DEF Fresh, JobState
<1> HIDE DEF v
<1> QED
  BY <1>1, <1>2, <1>3, <1>4 DEF JobStep, Sound, At, Reached, Start

(* Steps that only go on to another place.                                 *)
LEMMA GoIsAStep ==
  ASSUME BatchInv, NEW j \in Jobs, rows' = rows,
         job[j].pc \notin {"none", "new", "done"},
         NEW pc \in {"failed", "backdate", "links", "composites", "done"},
         \/ pc \in {"failed", "backdate"} \/ Job[j].session = None
         \/ job[j].pc \in {"links", "composites"},
         Go(j, pc)
  PROVE  RowsStep(j) /\ JobStep(j) /\ job'[j].pc # "decide"
<1>1. job \in [Jobs -> JobState] /\ job[j] \in JobState
  BY DEF BatchInv, BatchTyped
<1>2. RowsStep(j) /\ Job[j].mode # "verbatim"
  BY RowsStay, NotVerbatim DEF BatchInv
<1> DEFINE v == [job[j] EXCEPT !.pc = pc]
<1>3. job' = [job EXCEPT ![j] = v]
  BY <1>1 DEF Go
<1>4. /\ v \in JobState /\ v.pc = pc /\ v.candidates = job[j].candidates
      /\ v.top = job[j].top
      /\ v.ids = job[j].ids /\ v.touched = job[j].touched
  BY <1>1 DEF JobState
<1> HIDE DEF v
<1>5. Sound(j) /\ Reached(j)
  BY DEF BatchInv, BatchTyped
<1>6. Sound(j)' /\ Reached(j)'
  BY <1>1, <1>2, <1>3, <1>4, <1>5 DEF Sound, At, Reached, Owned, Ids
<1> QED
  BY <1>1, <1>2, <1>3, <1>4, <1>6 DEF JobStep

LEMMA FailKeeps ==
  ASSUME BatchInv, NEW j \in Jobs, Fail(j)
  PROVE  RowsStep(j) /\ JobStep(j) /\ rows' = rows /\ job'[j].pc # "decide"
BY GoIsAStep DEF Fail

LEMMA ForeignKeeps ==
  ASSUME BatchInv, NEW j \in Jobs, MutateForeignTarget(j)
  PROVE  RowsStep(j) /\ JobStep(j) /\ rows' = rows /\ job'[j].pc # "decide"
BY GoIsAStep DEF MutateForeignTarget, ByModel, LeftToModel, Deciding, At

LEMMA FinishKeeps ==
  ASSUME BatchInv, NEW j \in Jobs, FinishFacts(j)
  PROVE  RowsStep(j) /\ JobStep(j) /\ rows' = rows /\ job'[j].pc # "decide"
BY GoIsAStep DEF FinishFacts, At

LEMMA LinksKeep ==
  ASSUME BatchInv, NEW j \in Jobs, GenerateLinks(j)
  PROVE  RowsStep(j) /\ JobStep(j) /\ rows' = rows /\ job'[j].pc # "decide"
BY GoIsAStep DEF GenerateLinks, At

LEMMA VerbatimKeeps ==
  ASSUME BatchInv, NEW j \in Jobs, PerformStoreVerbatim(j)
  PROVE  /\ RowsStep(j) /\ JobStep(j) /\ job'[j].pc # "decide"
         /\ DOMAIN rows' = Ids \cup {Len(rows) + 1} /\ Len(rows) + 1 \notin Ids
         /\ \A r \in Ids : rows'[r] = rows[r] /\ rows[r].by # j
         /\ rows'[Len(rows) + 1].by = j
<1>1. job \in [Jobs -> JobState] /\ job[j] \in JobState /\ BatchTyped
  BY DEF BatchInv, BatchTyped
<1>2. /\ rows \in Seq(BatchRow) /\ Len(rows) \in Nat /\ Ids = 1..Len(rows)
      /\ \A r \in Ids : rows[r] \in BatchRow
  BY <1>1, RowsAre
<1>3. At(j, "new") /\ Job[j].mode = "verbatim"
  BY DEF PerformStoreVerbatim
<1>4. \A r \in Ids : rows[r].by # j
  BY <1>3 DEF BatchInv, Untold, At
<1>5. Job[j].facts[1] \in Statements
  <2>1. Job[j].facts \in Seq(Statements) /\ Job[j].facts # <<>>
    BY <1>3, JobAssumption
  <2> QED
    BY <2>1
<1> DEFINE x == NewRow(j, {Job[j].facts[1]}, "live", Today, {})
<1>6. /\ x \in BatchRow /\ x.first = j /\ x.by = j /\ x.user = Job[j].user
      /\ x.workspace = Job[j].workspace /\ x.slot = None
  <2>1. x \in BatchRow
    BY <1>1, <1>5, OneIsAText, NewRowTyped
  <2> QED
    BY <2>1 DEF NewRow
<1>7. rows' = Append(rows, x)
  BY DEF PerformStoreVerbatim
<1>8. \A r \in Ids : Dimmed(rows[r], rows[r])
  BY DEF Dimmed
<1> HIDE DEF x
<1>9. /\ RowsStep(j)
      /\ DOMAIN rows' = Ids \cup {Len(rows) + 1} /\ Len(rows) + 1 \notin Ids
      /\ rows'[Len(rows) + 1] = x /\ \A r \in Ids : rows'[r] = rows[r]
  BY <1>2, <1>3, <1>6, <1>7, <1>8, RowIsAdded
<1> DEFINE v == [job[j] EXCEPT !.pc = "done", !.ids = {Len(rows) + 1}]
<1>10. job' = [job EXCEPT ![j] = v]
  BY <1>1 DEF PerformStoreVerbatim
<1>11. /\ v \in JobState /\ v.pc = "done" /\ v.candidates = job[j].candidates
       /\ v.top = job[j].top
       /\ v.ids = {Len(rows) + 1} /\ v.touched = job[j].touched
  <2> DEFINE n == Len(rows) + 1
  <2>1. n \in Nat
    BY <1>2
  <2> HIDE DEF n
  <2> QED
    BY <1>1, <2>1 DEF JobState, n
<1> HIDE DEF v
<1>12. /\ job[j].candidates \subseteq Ids /\ Reached(j)
       /\ \A c \in job[j].top : c.id \in Ids
  BY DEF BatchInv, BatchTyped, Sound
<1>13. Reached(j)'
  BY <1>1, <1>9, <1>10, <1>11, <1>12 DEF Reached, Owned
<1>14. Sound(j)'
  BY <1>1, <1>9, <1>10, <1>11, <1>12 DEF Sound, At, Ids
<1> QED
  BY <1>1, <1>3, <1>4, <1>6, <1>9, <1>10, <1>11, <1>13, <1>14 DEF JobStep

LEMMA AtAFact ==
  ASSUME BatchInv, NEW j \in Jobs, MoreFacts(j) \/ Deciding(j)
  PROVE  /\ CurrentFact(j) \in Statements /\ Job[j].mode # "verbatim"
         /\ job[j] \in JobState
<1>1. job[j].pc \in {"fact", "decide"} /\ BatchTyped
  BY DEF MoreFacts, Deciding, At, BatchInv
<1>2. job[j].next <= Len(Job[j].facts)
  BY DEF MoreFacts, Deciding, BatchInv, BatchTyped, Sound
<1> QED
  BY <1>1, <1>2, FactIsStated, NotVerbatim DEF BatchTyped

LEMMA NothingRecorded ==
  ASSUME BatchInv, NEW j \in Jobs, MoreFacts(j) \/ Deciding(j), rows' = rows,
         NEW told \in SUBSET Ids, IsFiniteSet(told), Record(j, told, {})
  PROVE  RowsStep(j) /\ JobStep(j) /\ job'[j].pc = "fact"
<1>1. RowsStep(j) /\ CurrentFact(j) \in Statements /\ Job[j].mode # "verbatim"
  BY RowsStay, AtAFact
<1>2. told \in SUBSET DOMAIN rows' /\ {} \in SUBSET Nat
  BY DEF Ids
<1> QED
  BY <1>1, <1>2, RecordIsAStep

LEMMA BlockKeeps ==
  ASSUME BatchInv, NEW j \in Jobs, BlockFact(j)
  PROVE  RowsStep(j) /\ JobStep(j) /\ rows' = rows /\ job'[j].pc # "decide"
<1>1. MoreFacts(j) /\ Record(j, {}, {}) /\ rows' = rows
  BY DEF BlockFact
<1> QED
  BY <1>1, NothingRecorded, FS_EmptySet

LEMMA SkipKeeps ==
  ASSUME BatchInv, NEW j \in Jobs, SkipFact(j)
  PROVE  RowsStep(j) /\ JobStep(j) /\ rows' = rows /\ job'[j].pc # "decide"
<1>1. Deciding(j) /\ Record(j, {}, {}) /\ rows' = rows
  BY DEF SkipFact
<1> QED
  BY <1>1, NothingRecorded, FS_EmptySet

LEMMA DuplicateKeeps ==
  ASSUME BatchInv, NEW j \in Jobs, SkipDuplicate(j)
  PROVE  RowsStep(j) /\ JobStep(j) /\ rows' = rows /\ job'[j].pc # "decide"
<1>1. Deciding(j) /\ rows' = rows /\ \A c \in job[j].top : c.id \in Ids
  BY DEF SkipDuplicate, BatchInv, BatchTyped, Sound
<1>2. PICK c \in job[j].top : Record(j, {c.id}, {})
  BY DEF SkipDuplicate
<1>3. {c.id} \in SUBSET Ids /\ IsFiniteSet({c.id})
  BY <1>1, <1>2, FS_Singleton
<1> QED
  BY <1>1, <1>2, <1>3, NothingRecorded

LEMMA GatedIsAState ==
  ASSUME BatchInv, NEW j \in Jobs, MoreFacts(j)
  PROVE  /\ Gated(j) \in JobState /\ Gated(j).touched = job[j].touched
         /\ Gated(j).candidates = job[j].candidates
         /\ Gated(j).top = job[j].top
         /\ Gated(j).ids = job[j].ids /\ Gated(j).pc = job[j].pc
         /\ Gated(j).next = job[j].next
         /\ Gated(j).superseded = job[j].superseded
<1>1. CurrentFact(j) \in Statements /\ job[j] \in JobState
  BY AtAFact
<1>2. job[j].seen \cup Keywords[CurrentFact(j)]
        \in SUBSET UNION {Keywords[f] : f \in Statements}
  <2>1. job[j].seen \in SUBSET UNION {Keywords[f] : f \in Statements}
    BY <1>1 DEF JobState
  <2>2. Keywords[CurrentFact(j)] \in {Keywords[f] : f \in Statements}
    BY <1>1
  <2> QED
    BY <2>1, <2>2
<1> QED
  BY <1>1, <1>2 DEF Gated, JobState

LEMMA GateKeeps ==
  ASSUME BatchInv, NEW j \in Jobs, GateFact(j)
  PROVE  RowsStep(j) /\ JobStep(j) /\ rows' = rows /\ job'[j].pc # "decide"
<1>1. /\ MoreFacts(j) /\ rows' = rows /\ job[j].pc = "fact"
      /\ job' = [job EXCEPT ![j] = [Gated(j) EXCEPT !.next = @ + 1]]
  BY DEF GateFact, MoreFacts, At
<1>2. job \in [Jobs -> JobState] /\ Job[j].mode # "verbatim"
  BY <1>1, AtAFact DEF BatchInv, BatchTyped
<1> DEFINE g == Gated(j)
           v == [g EXCEPT !.next = @ + 1]
<1>3. /\ g \in JobState /\ g.touched = job[j].touched
      /\ g.candidates = job[j].candidates /\ g.ids = job[j].ids
      /\ g.top = job[j].top
      /\ g.pc = "fact"
  BY <1>1, GatedIsAState
<1>4. job' = [job EXCEPT ![j] = v]
  BY <1>1
<1> HIDE DEF g
<1>5. /\ v \in JobState /\ v.touched = job[j].touched /\ v.pc = "fact"
      /\ v.candidates = job[j].candidates /\ v.ids = job[j].ids
      /\ v.top = job[j].top
  BY <1>3 DEF JobState
<1> HIDE DEF v
<1>6. Sound(j) /\ Reached(j) /\ RowsStep(j)
  BY <1>1, RowsStay DEF BatchInv, BatchTyped
<1>7. Sound(j)' /\ Reached(j)'
  BY <1>1, <1>2, <1>4, <1>5, <1>6 DEF Sound, At, Reached, Owned, Ids
<1> QED
  BY <1>1, <1>2, <1>4, <1>5, <1>6, <1>7 DEF JobStep

(* What a request reads is in its reach.                                   *)
LEMMA TargetIsOwned ==
  ASSUME BatchInv, NEW j \in Jobs, NEW f \in Statements,
         NEW t \in SlotTargets(j, f), NEW r \in t
  PROVE  r \in Ids /\ Owned(j, r)
<1>1. /\ r \in Ids /\ rows[r].user = Job[j].user
      /\ rows[r].slot = SlotOf(j, f) /\ rows[r].slot # None
  BY DEF SlotTargets
<1>2. rows[r].workspace = None
  BY <1>1 DEF BatchInv, RowOwned
<1>3. Job[j].mode \in {"full", "quick"}
  BY <1>1 DEF SlotOf
<1>4. Job[j].workspace = None
  BY <1>3, JobAssumption
<1> QED
  BY <1>1, <1>2, <1>4 DEF Owned

(* What the limited queries return are rows they look for.                 *)
LEMMA NearestIsThere ==
  ASSUME NEW rs, NEW n, NEW alike, NEW S \in Nearest(rs, n, alike)
  PROVE  S \subseteq rs
BY DEF Nearest, kSubset

(* The similarity of a row found by a word is a percentage.                *)
LEMMA EstimateBounded ==
  ASSUME NEW f \in Statements, NEW says, Words[f] \cap WordsOf(says) # {}
  PROVE  /\ EstimateKeywordSimilarity(f, says) \in Int
         /\ EstimateKeywordSimilarity(f, says) <= 89
<1> DEFINE a == Cardinality(Words[f] \cap WordsOf(says))
           b == Cardinality(Words[f])
<1>1. IsFiniteSet(Words[f]) /\ Words[f] # {}
  BY WordsAssumption
<1>2. b \in Nat /\ b # 0
  BY <1>1, FS_CardinalityType, FS_EmptySet
<1>3. a \in Nat
  BY <1>1, FS_Intersection, FS_CardinalityType
<1>4. EstimateKeywordSimilarity(f, says) = Smaller(89, 45 + (44 * a) \div b)
  BY DEF EstimateKeywordSimilarity
<1> HIDE DEF a, b
<1>5. 44 * a \in Int /\ b \in Nat \ {0}
  BY <1>2, <1>3
<1> DEFINE m == 44 * a
<1> HIDE DEF m
<1>6. m \div b \in Int
  BY <1>5 DEF m
<1> DEFINE q == m \div b
<1>7. EstimateKeywordSimilarity(f, says) = Smaller(89, 45 + q)
  BY <1>4 DEF m
<1> HIDE DEF q
<1> QED
  BY <1>6, <1>7 DEF Smaller, q

(* What a search finds is in the reach of the request, and no more alike   *)
(* than the same.                                                          *)
LEMMA FoundIsOwned ==
  ASSUME BatchInv, NEW j \in Jobs, NEW f \in Statements,
         NEW near \in FindNearDuplicates(j, f),
         NEW worded \in FindKeywordCandidates(j, f),
         NEW target \in SlotTargets(j, f),
         NEW r \in near \cup worded \cup target
  PROVE  /\ r \in Ids /\ Owned(j, r) /\ rows[r].says \in Texts
         /\ MergeCandidates(f, near, worded, target)[r] \in Int
         /\ MergeCandidates(f, near, worded, target)[r] <= 100
         /\ r \in near => Likeness(f, rows[r].says)
                            <= MergeCandidates(f, near, worded, target)[r]
<1>1. r \in near => r \in Ids /\ InReach(j, r)
  BY NearestIsThere DEF FindNearDuplicates
<1>2. r \in worded =>
        /\ r \in Ids /\ InReach(j, r)
        /\ Words[f] \cap WordsOf(rows[r].says) # {}
  BY NearestIsThere DEF FindKeywordCandidates
<1>3. r \in target => r \in Ids /\ Owned(j, r)
  BY TargetIsOwned
<1>4. r \in Ids /\ Owned(j, r)
  BY <1>1, <1>2, <1>3 DEF InReach, Owned
<1>5. rows[r].says \in Texts
  <2>1. rows[r] \in BatchRow
    BY <1>4, RowsAre DEF BatchInv
  <2> QED
    BY <2>1 DEF BatchRow
<1> DEFINE a == Likeness(f, rows[r].says)
           b == EstimateKeywordSimilarity(f, rows[r].says)
           m == MergeCandidates(f, near, worded, target)[r]
<1>6. a \in Int /\ a <= 100
  BY <1>5, LikenessBounded
<1>7. r \in worded => b \in Int /\ b <= 89
  BY <1>2, EstimateBounded
<1>8. m = IF r \in target THEN 100
          ELSE Larger(IF r \in near THEN a ELSE 0, IF r \in worded THEN b ELSE 0)
  BY DEF MergeCandidates
<1> HIDE DEF a, b, m
<1>9. m \in Int /\ m <= 100 /\ (r \in near => a <= m)
  BY <1>6, <1>7, <1>8 DEF Larger
<1> QED
  BY <1>4, <1>5, <1>9 DEF a, m

(* What the search leaves is some of it, and begins with one of the most   *)
(* alike.                                                                  *)
LEMMA SearchIsSome ==
  ASSUME NEW j, NEW f, NEW near, NEW worded, NEW target,
         NEW found \in FilteredSearch(j, f, near, worded, target),
         NEW alike, alike = MergeCandidates(f, near, worded, target),
         NEW left, left = FilteredCandidates(j, near \cup worded \cup target)
  PROVE  /\ found.candidates = left /\ left \subseteq near \cup worded \cup target
         /\ left = {} => found.top = {}
         /\ left # {} =>
              \E r \in TopCandidates(j, f, near, left, alike) :
                /\ r \in left
                /\ found.top = {[id |-> r, says |-> rows[r].says,
                                 similarity |-> alike[r]]}
<1> DEFINE tops == TopCandidates(j, f, near, left, alike)
<1>1. left \subseteq near \cup worded \cup target
  BY DEF FilteredCandidates
<1>2. found \in IF left = {} THEN {[candidates |-> {}, top |-> {}]}
                ELSE {[candidates |-> left,
                       top |-> {[id |-> r, says |-> rows[r].says,
                                 similarity |-> alike[r]]}] : r \in tops}
  BY DEF FilteredSearch
<1>3. tops \subseteq left
  BY DEF TopCandidates
<1> HIDE DEF tops
<1>4. CASE left = {}
  BY <1>1, <1>2, <1>4
<1>5. CASE left # {}
  <2>1. PICK r \in tops :
          found = [candidates |-> left,
                   top |-> {[id |-> r, says |-> rows[r].says,
                             similarity |-> alike[r]]}]
    BY <1>2, <1>5
  <2> QED
    BY <1>1, <1>3, <1>5, <2>1 DEF tops
<1> QED
  BY <1>4, <1>5

(* What a search hands on are rows of the user, in the reach.              *)
LEMMA SearchIsThere ==
  ASSUME BatchInv, NEW j \in Jobs, NEW f \in Statements,
         NEW near \in FindNearDuplicates(j, f),
         NEW worded \in FindKeywordCandidates(j, f),
         NEW target \in SlotTargets(j, f),
         NEW found \in FilteredSearch(j, f, near, worded, target),
         Job[j].mode # "verbatim"
  PROVE  /\ found.candidates \subseteq Ids
         /\ \A r \in found.candidates : Owned(j, r)
         /\ found.top \in SUBSET Read /\ \A c \in found.top : c.id \in Ids
<1>1. Ids \subseteq Nat
  BY RowsAre DEF BatchInv
<1> DEFINE alike == MergeCandidates(f, near, worded, target)
<1>2. \A r \in near \cup worded \cup target :
        /\ r \in Ids /\ Owned(j, r) /\ rows[r].says \in Texts
        /\ alike[r] \in Int
  BY FoundIsOwned
<1> DEFINE left == FilteredCandidates(j, near \cup worded \cup target)
           tops == TopCandidates(j, f, near, left, alike)
<1>3. /\ found.candidates = left /\ left \subseteq near \cup worded \cup target
      /\ left = {} => found.top = {}
      /\ left # {} =>
           \E r \in tops :
             /\ r \in left
             /\ found.top = {[id |-> r, says |-> rows[r].says,
                              similarity |-> alike[r]]}
  <2>1. left \subseteq near \cup worded \cup target
    BY DEF FilteredCandidates
  <2>2. found \in IF left = {} THEN {[candidates |-> {}, top |-> {}]}
                  ELSE {[candidates |-> left,
                         top |-> {[id |-> r, says |-> rows[r].says,
                                   similarity |-> alike[r]]}] : r \in tops}
    BY DEF FilteredSearch
  <2>3. tops \subseteq left
    BY DEF TopCandidates
  <2> HIDE DEF alike, left, tops
  <2>4. CASE left = {}
    BY <2>1, <2>2, <2>4
  <2>5. CASE left # {}
    BY <2>1, <2>2, <2>3, <2>5
  <2> QED
    BY <2>4, <2>5
<1> HIDE DEF alike, left, tops
<1>4. \A r \in left : [id |-> r, says |-> rows[r].says,
                       similarity |-> alike[r]] \in Read /\ r \in Ids
  BY <1>1, <1>2, <1>3 DEF Read
<1>5. CASE left = {}
  BY <1>3, <1>5
<1>6. CASE left # {}
  <2>1. PICK r \in left :
          found.top = {[id |-> r, says |-> rows[r].says,
                        similarity |-> alike[r]]}
    BY <1>3, <1>6
  <2> DEFINE c == [id |-> r, says |-> rows[r].says, similarity |-> alike[r]]
  <2>2. c \in Read /\ c.id \in Ids /\ found.top = {c}
    BY <1>4, <2>1
  <2> HIDE DEF c
  <2> QED
    BY <1>2, <1>3, <2>2
<1> QED
  BY <1>5, <1>6

LEMMA FindKeeps ==
  ASSUME BatchInv, NEW j \in Jobs, FindCandidates(j)
  PROVE  /\ RowsStep(j) /\ JobStep(j) /\ rows' = rows
         /\ MoreFacts(j) /\ job'[j].next = job[j].next
         /\ job'[j].superseded = job[j].superseded
         /\ \E near \in FindNearDuplicates(j, CurrentFact(j)),
               worded \in FindKeywordCandidates(j, CurrentFact(j)),
               target \in SlotTargets(j, CurrentFact(j)) :
              \E found \in FilteredSearch(j, CurrentFact(j),
                                          near, worded, target) :
                job'[j].top = found.top
<1>1. MoreFacts(j) /\ rows' = rows /\ job[j].pc = "fact"
  BY DEF FindCandidates, MoreFacts, At
<1>2. /\ job \in [Jobs -> JobState] /\ Job[j].mode # "verbatim"
      /\ CurrentFact(j) \in Statements /\ job[j] \in JobState
      /\ job[j].next <= Len(Job[j].facts)
  BY <1>1, AtAFact DEF BatchInv, BatchTyped, MoreFacts
<1> DEFINE f == CurrentFact(j)
           g == IF Job[j].mode = "full" THEN Gated(j) ELSE job[j]
<1>3. PICK near \in FindNearDuplicates(j, f),
           worded \in FindKeywordCandidates(j, f),
           target \in SlotTargets(j, f) :
        \E found \in FilteredSearch(j, f, near, worded, target) :
          job' = [job EXCEPT ![j] = [g EXCEPT !.pc = "decide",
                                       !.top = found.top,
                                       !.candidates = found.candidates]]
  BY DEF FindCandidates
<1>4. PICK found \in FilteredSearch(j, f, near, worded, target) :
        job' = [job EXCEPT ![j] = [g EXCEPT !.pc = "decide",
                                     !.top = found.top,
                                     !.candidates = found.candidates]]
  BY <1>3
<1>5. /\ g \in JobState /\ g.touched = job[j].touched
      /\ g.ids = job[j].ids /\ g.next = job[j].next
      /\ g.superseded = job[j].superseded
  BY <1>1, <1>2, GatedIsAState
<1> HIDE DEF f, g
<1>6. Ids \subseteq Nat
  BY RowsAre DEF BatchInv
<1>8. /\ found.candidates \subseteq Ids
      /\ \A r \in found.candidates : Owned(j, r)
      /\ found.top \in SUBSET Read /\ \A c \in found.top : c.id \in Ids
  BY <1>2, SearchIsThere DEF f
<1> DEFINE v == [g EXCEPT !.pc = "decide", !.top = found.top,
                          !.candidates = found.candidates]
<1>9. /\ v \in JobState /\ v.pc = "decide"
      /\ v.candidates = found.candidates /\ v.top = found.top
      /\ v.touched = job[j].touched /\ v.ids = job[j].ids
      /\ v.next = job[j].next /\ v.superseded = job[j].superseded
  <2>1. found.candidates \in SUBSET Nat
    BY <1>6, <1>8
  <2> QED
    BY <1>5, <1>8, <2>1 DEF JobState
<1>10. job' = [job EXCEPT ![j] = v]
  BY <1>4
<1> HIDE DEF v
<1>11. Sound(j) /\ RowsStep(j)
  BY <1>1, RowsStay DEF BatchInv, BatchTyped
<1>12. job'[j] = v /\ job' \in [Jobs -> JobState]
       /\ \A k \in Jobs \ {j} : job'[k] = job[k]
  BY <1>2, <1>9, <1>10
<1>13. Sound(j)' /\ Reached(j)'
  BY <1>1, <1>2, <1>8, <1>9, <1>11, <1>12 DEF Sound, At, Reached, Owned, Ids
<1>14. JobStep(j)
  BY <1>9, <1>12, <1>13 DEF JobStep
<1>15. \E ff \in FilteredSearch(j, f, near, worded, target) :
         job'[j].top = ff.top
  BY <1>9, <1>12
<1> QED
  BY <1>1, <1>9, <1>11, <1>12, <1>14, <1>15 DEF f

(* A request decides and records one row that it stored for its fact.      *)
LEMMA StoredOneKeeps ==
  ASSUME BatchInv, NEW j \in Jobs, Deciding(j),
         NEW x \in BatchRow, x.first = j, x.by = j, x.user = Job[j].user,
         x.workspace = Job[j].workspace, x.slot # None => x.workspace = None,
         x.created = StoringDate(j),
         rows' = Append(rows, x),
         NEW told \in {{}, {Len(rows) + 1}}, Record(j, told, told)
  PROVE  /\ RowsStep(j) /\ JobStep(j) /\ job'[j].pc # "decide"
         /\ DOMAIN rows' = Ids \cup {Len(rows) + 1} /\ Len(rows) + 1 \notin Ids
         /\ rows'[Len(rows) + 1] = x
         /\ \A r \in Ids : rows'[r] = rows[r]
<1>1. CurrentFact(j) \in Statements /\ Job[j].mode # "verbatim"
  BY AtAFact
<1>2. rows \in Seq(BatchRow) /\ Len(rows) \in Nat
  BY RowsAre DEF BatchInv
<1>3. \A r \in Ids : Dimmed(rows[r], rows[r])
  BY DEF Dimmed
<1>4. /\ RowsStep(j)
      /\ DOMAIN rows' = Ids \cup {Len(rows) + 1} /\ Len(rows) + 1 \notin Ids
      /\ rows'[Len(rows) + 1] = x /\ \A r \in Ids : rows'[r] = rows[r]
  BY <1>1, <1>2, <1>3, RowIsAdded
<1> DEFINE n == Len(rows) + 1
<1>5. told \in SUBSET DOMAIN rows' /\ told \in SUBSET Nat
  <2>1. n \in Nat /\ n \in DOMAIN rows' /\ told \in {{}, {n}}
    BY <1>2, <1>4
  <2> HIDE DEF n
  <2> QED
    BY <2>1
<1>7. IsFiniteSet(told)
  <2>1. told \in {{}, {n}}
    OBVIOUS
  <2> HIDE DEF n
  <2>2. IsFiniteSet({}) /\ IsFiniteSet({n})
    BY FS_EmptySet, FS_Singleton
  <2> QED
    BY <2>1, <2>2
<1>6. JobStep(j) /\ job'[j].pc = "fact"
  BY <1>1, <1>4, <1>5, <1>7, RecordIsAStep
<1> QED
  BY <1>4, <1>6

LEMMA StoreKeeps ==
  ASSUME BatchInv, NEW j \in Jobs, StoreFact(j)
  PROVE  /\ RowsStep(j) /\ JobStep(j) /\ job'[j].pc # "decide"
         /\ DOMAIN rows' = Ids \cup {Len(rows) + 1} /\ Len(rows) + 1 \notin Ids
         /\ \A r \in Ids : rows'[r] = rows[r]
         /\ rows'[Len(rows) + 1].by = j
         /\ rows'[Len(rows) + 1].says = {CurrentFact(j)}
<1> DEFINE f == CurrentFact(j)
           y == NewRow(j, {f}, "live", StoringDate(j), {})
           x == [y EXCEPT !.slot = SlotOf(j, f)]
<1>1. /\ Deciding(j) /\ rows' = Append(rows, x)
      /\ Record(j, {Len(rows) + 1}, {Len(rows) + 1})
  BY DEF StoreFact, LeftToModel, Store
<1>2. f \in Statements
  BY <1>1, AtAFact
<1>3. y \in BatchRow
  BY <1>2, OneIsAText, DateIsADate, NewRowTyped DEF BatchInv
<1>4. /\ y.first = j /\ y.by = j /\ y.user = Job[j].user
      /\ y.workspace = Job[j].workspace /\ y.created = StoringDate(j)
      /\ y.says = {f}
  BY DEF NewRow
<1>5. /\ SlotOf(j, f) \in {None} \cup {Slot[g] : g \in Statements}
      /\ SlotOf(j, f) # None => Job[j].workspace = None
  BY <1>2, JobAssumption DEF SlotOf
<1> HIDE DEF y, f
<1>6. /\ x \in BatchRow /\ x.first = j /\ x.by = j /\ x.user = Job[j].user
      /\ x.workspace = Job[j].workspace /\ x.created = StoringDate(j)
      /\ x.says = {f}
      /\ x.slot = SlotOf(j, f)
  BY <1>3, <1>4, <1>5 DEF BatchRow
<1> HIDE DEF x
<1>7. x.slot # None => x.workspace = None
  BY <1>5, <1>6
<1> DEFINE told == {Len(rows) + 1}
<1>8. told \in {{}, {Len(rows) + 1}} /\ Record(j, told, told)
  BY <1>1
<1>9. /\ RowsStep(j) /\ JobStep(j) /\ job'[j].pc # "decide"
      /\ DOMAIN rows' = Ids \cup {Len(rows) + 1} /\ Len(rows) + 1 \notin Ids
      /\ rows'[Len(rows) + 1] = x
      /\ \A r \in Ids : rows'[r] = rows[r]
  <2> HIDE DEF told
  <2> QED
    BY <1>1, <1>6, <1>7, <1>8, StoredOneKeeps
<1> QED
  BY <1>6, <1>9 DEF f

LEMMA ClarifyKeeps ==
  ASSUME BatchInv, NEW j \in Jobs, ClarifyFact(j)
  PROVE  /\ RowsStep(j) /\ JobStep(j) /\ job'[j].pc # "decide"
         /\ DOMAIN rows' = Ids \cup {Len(rows) + 1} /\ Len(rows) + 1 \notin Ids
         /\ \A r \in Ids : rows'[r] = rows[r]
         /\ rows'[Len(rows) + 1].status = "held"
<1> DEFINE x == NewRow(j, {CurrentFact(j)}, "held", StoringDate(j), {})
<1>1. /\ Deciding(j) /\ rows' = Append(rows, x) /\ Record(j, {}, {})
  BY DEF ClarifyFact, ByModel, LeftToModel
<1>2. CurrentFact(j) \in Statements
  BY <1>1, AtAFact
<1>3. x \in BatchRow
  BY <1>2, OneIsAText, DateIsADate, NewRowTyped DEF BatchInv
<1>4. /\ x.first = j /\ x.by = j /\ x.user = Job[j].user
      /\ x.workspace = Job[j].workspace /\ x.created = StoringDate(j)
      /\ x.slot = None /\ x.status = "held"
  BY DEF NewRow
<1> HIDE DEF x
<1>5. {} \in {{}, {Len(rows) + 1}}
  OBVIOUS
<1> QED
  BY <1>1, <1>3, <1>4, <1>5, StoredOneKeeps

(* What a model may change is a row of the user, in the reach.             *)
LEMMA TargetsAreOwned ==
  ASSUME BatchInv, NEW j \in Jobs, NEW r \in Targets(j)
  PROVE  /\ r \in Ids /\ Owned(j, r) /\ rows[r] \in BatchRow
         /\ r \in job[j].candidates
<1>1. r \in job[j].candidates /\ job[j].candidates \subseteq Ids
  BY DEF Targets, BatchInv, BatchTyped, Sound
<1> QED
  BY <1>1, RowsAre DEF BatchInv, Reached

LEMMA UpdateKeeps ==
  ASSUME BatchInv, NEW j \in Jobs, UpdateTarget(j)
  PROVE  /\ RowsStep(j) /\ JobStep(j) /\ job'[j].pc # "decide"
         /\ DOMAIN rows' = Ids
<1>1. PICK r \in Targets(j), text \in Composed :
        /\ rows' = IF rows[r].status = "deleted" THEN rows
                   ELSE [rows EXCEPT ![r].says = {text}, ![r].by = j]
        /\ Record(j, {r}, {r})
  BY DEF UpdateTarget
<1>2. Deciding(j)
  BY DEF UpdateTarget, ByModel, LeftToModel
<1>3. /\ r \in Ids /\ Owned(j, r) /\ rows[r] \in BatchRow
      /\ rows \in Seq(BatchRow) /\ Len(rows) \in Nat /\ Ids = 1..Len(rows)
      /\ \A s \in Ids : rows[s] \in BatchRow
  BY TargetsAreOwned, RowsAre DEF BatchInv
<1>4. /\ CurrentFact(j) \in Statements /\ Job[j].mode # "verbatim"
      /\ job[j] \in JobState
  BY <1>2, AtAFact
<1>5. CASE rows' = rows
  <2>1. RowsStep(j)
    BY <1>5, RowsStay
  <2>2. {r} \in SUBSET DOMAIN rows' /\ {r} \in SUBSET Nat
    <3>1. r \in DOMAIN rows' /\ r \in Nat
      BY <1>3, <1>5 DEF Ids
    <3> QED
      BY <3>1
  <2>4. IsFiniteSet({r})
    BY FS_Singleton
  <2>3. JobStep(j) /\ job'[j].pc = "fact"
    BY <1>1, <1>4, <2>1, <2>2, <2>4, RecordIsAStep
  <2> QED
    BY <1>5, <2>1, <2>3 DEF Ids
<1>6. CASE rows' # rows
  <2> DEFINE x == [rows[r] EXCEPT !.says = {text}, !.by = j]
  <2>1. rows' = [rows EXCEPT ![r] = x]
    BY <1>1, <1>3, <1>6
  <2>2. {text} \in Texts
    BY ComposedAssumption, OneIsAText
  <2>3. /\ x \in BatchRow /\ x.by = j
        /\ x.first = rows[r].first /\ x.members = rows[r].members
        /\ x.user = rows[r].user /\ x.workspace = rows[r].workspace
        /\ x.slot = rows[r].slot /\ x.created = rows[r].created
    BY <1>3, <2>2 DEF BatchRow
  <2> HIDE DEF x
  <2>4. /\ rows' \in Seq(BatchRow) /\ DOMAIN rows' = Ids /\ rows'[r] = x
        /\ \A s \in Ids \ {r} : rows'[s] = rows[s]
    BY <1>3, <2>1, <2>3
  <2>5. RowStep(j, r)
    BY <1>3, <2>3, <2>4 DEF RowStep
  <2>6. \A s \in Ids \ {r} : RowStep(j, s)
    BY <2>4 DEF RowStep, Unwritten
  <2>7. RowsStep(j)
    BY <2>4, <2>5, <2>6 DEF RowsStep
  <2>8. {r} \in SUBSET DOMAIN rows' /\ {r} \in SUBSET Nat
    <3>1. r \in DOMAIN rows' /\ r \in Nat
      BY <1>3, <2>4
    <3> QED
      BY <3>1
  <2>10. IsFiniteSet({r})
    BY FS_Singleton
  <2>9. JobStep(j) /\ job'[j].pc = "fact"
    BY <1>1, <1>4, <2>7, <2>8, <2>10, RecordIsAStep
  <2> QED
    BY <1>3, <2>3, <2>4, <2>7, <2>9
<1> QED
  BY <1>5, <1>6

LEMMA DeleteKeeps ==
  ASSUME BatchInv, NEW j \in Jobs, DeleteTarget(j)
  PROVE  /\ RowsStep(j) /\ JobStep(j) /\ job'[j].pc # "decide"
         /\ DOMAIN rows' = Ids /\ \A s \in Ids : Dimmed(rows'[s], rows[s])
<1>1. PICK r \in Targets(j) : rows' = [rows EXCEPT ![r].status = "deleted"]
  BY DEF DeleteTarget
<1>2. Deciding(j) /\ Record(j, {}, {})
  BY DEF DeleteTarget, ByModel, LeftToModel
<1>3. /\ r \in Ids /\ rows \in Seq(BatchRow) /\ Ids = 1..Len(rows)
      /\ \A s \in Ids : rows[s] \in BatchRow
  BY TargetsAreOwned, RowsAre DEF BatchInv
<1>4. CurrentFact(j) \in Statements /\ Job[j].mode # "verbatim"
  BY <1>2, AtAFact
<1> DEFINE x == [rows[r] EXCEPT !.status = "deleted"]
<1>5. rows' = [rows EXCEPT ![r] = x]
  BY <1>1, <1>3
<1>6. Dimmed(x, rows[r])
  BY DEF Dimmed
<1>7. x \in BatchRow
  BY <1>3, <1>6, DimmedRow
<1> HIDE DEF x
<1>8. /\ rows' \in Seq(BatchRow) /\ DOMAIN rows' = Ids /\ rows'[r] = x
      /\ \A s \in Ids \ {r} : rows'[s] = rows[s]
  BY <1>3, <1>5, <1>7
<1>9. \A s \in Ids : Dimmed(rows'[s], rows[s])
  <2>1. \A s \in Ids \ {r} : Dimmed(rows'[s], rows[s])
    BY <1>8 DEF Dimmed
  <2> QED
    BY <1>6, <1>8, <2>1
<1>10. \A s \in Ids : RowStep(j, s)
  <2> TAKE s \in Ids
  <2>1. rows[s] \in BatchRow /\ Dimmed(rows'[s], rows[s])
    BY <1>3, <1>9
  <2> QED
    BY <2>1, DimmedRow DEF RowStep, Unwritten
<1>11. RowsStep(j)
  BY <1>8, <1>10 DEF RowsStep
<1>12. {} \in SUBSET DOMAIN rows' /\ {} \in SUBSET Nat /\ IsFiniteSet({})
  BY FS_EmptySet
<1>13. JobStep(j) /\ job'[j].pc = "fact"
  BY <1>2, <1>4, <1>11, <1>12, RecordIsAStep
<1> QED
  BY <1>8, <1>9, <1>11, <1>13

LEMMA SupersedeKeeps ==
  ASSUME BatchInv, NEW j \in Jobs, SupersedeTarget(j)
  PROVE  /\ RowsStep(j) /\ JobStep(j) /\ job'[j].pc # "decide"
         /\ DOMAIN rows' = Ids \cup {Len(rows) + 1} /\ Len(rows) + 1 \notin Ids
         /\ \A r \in Ids : Dimmed(rows'[r], rows[r])
         /\ rows'[Len(rows) + 1].by = j
         /\ rows'[Len(rows) + 1].says = {CurrentFact(j)}
<1> DEFINE f == CurrentFact(j)
           y == NewRow(j, {f}, "live", StoringDate(j), {})
           n == Len(rows) + 1
<1>1. Deciding(j)
  BY DEF SupersedeTarget, ByModel, LeftToModel
<1>2. PICK r \in Targets(j) :
        rows' = Append([rows EXCEPT ![r].status =
                          IF @ = "deleted" THEN @ ELSE "expired"],
                       [y EXCEPT !.slot = rows[r].slot])
  BY DEF SupersedeTarget
<1>3. /\ r \in Ids /\ Owned(j, r) /\ rows[r] \in BatchRow
      /\ rows \in Seq(BatchRow) /\ Len(rows) \in Nat /\ Ids = 1..Len(rows)
      /\ \A s \in Ids : rows[s] \in BatchRow
      /\ RowOwned(r)
  BY TargetsAreOwned, RowsAre DEF BatchInv
<1>4. /\ f \in Statements /\ Job[j].mode # "verbatim" /\ job[j] \in JobState
      /\ job \in [Jobs -> JobState] /\ job[j].ids \subseteq Ids
  BY <1>1, AtAFact DEF BatchInv, BatchTyped, Sound
<1>5. y \in BatchRow
  BY <1>4, OneIsAText, DateIsADate, NewRowTyped DEF BatchInv
<1>6. /\ y.first = j /\ y.by = j /\ y.user = Job[j].user
      /\ y.workspace = Job[j].workspace /\ y.created = StoringDate(j)
      /\ y.says = {f}
  BY DEF NewRow
<1> HIDE DEF y
<1> DEFINE x == [y EXCEPT !.slot = rows[r].slot]
           b == IF rows[r].status = "deleted" THEN rows[r]
                ELSE [rows[r] EXCEPT !.status = "expired"]
           base == [rows EXCEPT ![r] = b]
<1>7. /\ x \in BatchRow /\ x.first = j /\ x.by = j /\ x.user = Job[j].user
      /\ x.workspace = Job[j].workspace /\ x.created = StoringDate(j)
      /\ x.says = {f}
      /\ x.slot = rows[r].slot
  BY <1>3, <1>5, <1>6 DEF BatchRow
<1>8. x.slot # None => x.workspace = None
  BY <1>3, <1>7 DEF RowOwned, Owned
<1>9. b \in BatchRow /\ Dimmed(b, rows[r])
  BY <1>3, DimmedRow DEF Dimmed
<1>10. [rows EXCEPT ![r].status = IF @ = "deleted" THEN @ ELSE "expired"] = base
  <2>1. [rows[r] EXCEPT !.status = IF @ = "deleted" THEN @ ELSE "expired"] = b
    BY <1>3 DEF BatchRow
  <2> QED
    BY <1>3, <2>1
<1>11. rows' = Append(base, x)
  BY <1>2, <1>10
<1> HIDE DEF b
<1>12. base \in Seq(BatchRow) /\ Len(base) = Len(rows)
       /\ base[r] = b /\ \A s \in Ids \ {r} : base[s] = rows[s]
  BY <1>3, <1>9
<1>13. \A s \in Ids : Dimmed(base[s], rows[s])
  <2>1. \A s \in Ids \ {r} : Dimmed(base[s], rows[s])
    BY <1>12 DEF Dimmed
  <2> QED
    BY <1>9, <1>12, <2>1
<1> HIDE DEF x, base
<1>14. /\ RowsStep(j)
       /\ DOMAIN rows' = Ids \cup {Len(rows) + 1} /\ Len(rows) + 1 \notin Ids
       /\ rows'[Len(rows) + 1] = x /\ \A s \in Ids : rows'[s] = base[s]
  BY <1>4, <1>7, <1>8, <1>11, <1>12, <1>13, RowIsAdded
<1> DEFINE v == [job[j] EXCEPT !.pc = "fact", !.next = @ + 1,
                   !.candidates = {}, !.top = {},
                   !.superseded = @ \cup {n}, !.ids = @ \cup {n},
                   !.embedded = @ \cup {n}, !.stored = Append(@, <<n, f>>)]
<1>15. job' = [job EXCEPT ![j] = v]
  BY <1>4 DEF SupersedeTarget
<1>16. n \in Nat
  BY <1>3
<1> HIDE DEF n, f
<1>17. /\ job[j].next + 1 \in Nat \ {0}
       /\ job[j].superseded \cup {n} \in SUBSET Nat
       /\ job[j].ids \cup {n} \in SUBSET Nat
       /\ job[j].embedded \cup {n} \in SUBSET Nat
       /\ Append(job[j].stored, <<n, f>>) \in Seq(Pairs)
  <2>1. /\ job[j].next \in Nat \ {0} /\ job[j].superseded \in SUBSET Nat
        /\ job[j].ids \in SUBSET Nat /\ job[j].embedded \in SUBSET Nat
        /\ job[j].stored \in Seq(Pairs)
    BY <1>4 DEF JobState
  <2> DEFINE k == job[j].next
             st == job[j].stored
             e == <<n, f>>
  <2>2. k + 1 \in Nat \ {0}
    <3>1. k \in Nat
      BY <2>1
    <3> HIDE DEF k
    <3> QED
      BY <3>1
  <2>3. Append(st, e) \in Seq(Pairs)
    <3>1. st \in Seq(Pairs) /\ e \in Pairs
      BY <1>4, <1>16, <2>1 DEF Pairs
    <3> HIDE DEF st, e
    <3> QED
      BY <3>1
  <2> QED
    BY <1>16, <2>1, <2>2, <2>3
<1>18. /\ v \in JobState /\ v.pc = "fact" /\ v.candidates = {}
       /\ v.top = {}
       /\ v.ids = job[j].ids \cup {n} /\ v.touched = job[j].touched
  BY <1>4, <1>17 DEF JobState
<1> HIDE DEF v
<1>19. v.ids \subseteq DOMAIN rows'
  BY <1>4, <1>14, <1>18 DEF n
<1>20. JobStep(j)
  BY <1>4, <1>15, <1>18, <1>19 DEF JobStep, Sound, At, Reached, Ids
<1>21. \A s \in Ids : Dimmed(rows'[s], rows[s])
  BY <1>13, <1>14
<1>22. rows'[Len(rows) + 1].by = j
       /\ rows'[Len(rows) + 1].says = {CurrentFact(j)}
  BY <1>7, <1>14 DEF f
<1>23. job'[j].pc # "decide"
  BY <1>4, <1>15, <1>18
<1> QED
  BY <1>14, <1>20, <1>21, <1>22, <1>23

LEMMA BackdateKeeps ==
  ASSUME BatchInv, NEW j \in Jobs, BackdateMemories(j)
  PROVE  /\ RowsStep(j) /\ JobStep(j) /\ job'[j].pc # "decide"
         /\ DOMAIN rows' = Ids
         /\ \A r \in Ids : Unwritten(r) /\ rows'[r].members = rows[r].members
<1>1. /\ job \in [Jobs -> JobState] /\ job[j] \in JobState
      /\ rows \in Seq(BatchRow) /\ Len(rows) \in Nat /\ Ids = 1..Len(rows)
      /\ \A s \in Ids : rows[s] \in BatchRow
      /\ job[j].pc = "backdate" /\ Sound(j) /\ Reached(j)
  BY RowsAre DEF BatchInv, BatchTyped, BackdateMemories, At
<1>2. Job[j].mode # "verbatim"
  BY <1>1, NotVerbatim DEF BatchInv
<1>3. CASE Job[j].session = None
  <2>1. rows' = rows /\ Go(j, "links")
    BY <1>3 DEF BackdateMemories
  <2> QED
    BY <1>1, <1>3, <2>1, GoIsAStep DEF Unwritten, Ids
<1>4. CASE Job[j].session # None
  <2> DEFINE x(r) == IF r \in job[j].ids
                     THEN [rows[r] EXCEPT !.created = Job[j].session]
                     ELSE rows[r]
             v == [job[j] EXCEPT !.pc = "links", !.touched = @ \cup job[j].ids]
  <2>1. rows' = [r \in Ids |-> x(r)] /\ job' = [job EXCEPT ![j] = v]
    BY <1>1, <1>4 DEF BackdateMemories
  <2>2. /\ v \in JobState /\ v.pc = "links" /\ v.candidates = job[j].candidates
        /\ v.top = job[j].top
        /\ v.ids = job[j].ids /\ v.touched = job[j].touched \cup job[j].ids
    BY <1>1 DEF JobState
  <2> HIDE DEF v
  <2>3. /\ job' \in [Jobs -> JobState] /\ job'[j] = v
        /\ \A k \in Jobs \ {j} : job'[k] = job[k]
    BY <1>1, <2>1, <2>2
  <2>4. ASSUME NEW r \in Ids
        PROVE  /\ x(r) \in BatchRow
               /\ x(r).first = rows[r].first /\ x(r).members = rows[r].members
               /\ x(r).user = rows[r].user /\ x(r).workspace = rows[r].workspace
               /\ x(r).slot = rows[r].slot /\ x(r).says = rows[r].says
               /\ x(r).by = rows[r].by
               /\ x(r).status = rows[r].status
               /\ IF r \in job[j].ids THEN x(r).created = Job[j].session
                                      ELSE x(r).created = rows[r].created
    <3>1. rows[r] \in BatchRow
      BY <1>1
    <3>2. CASE r \in job[j].ids
      BY <3>1, <3>2 DEF BatchRow
    <3>3. CASE r \notin job[j].ids
      BY <3>1, <3>3
    <3> QED
      BY <3>2, <3>3
  <2> HIDE DEF x
  <2>5. DOMAIN rows' = Ids /\ \A r \in Ids : rows'[r] = x(r)
    BY <2>1
  <2>6. rows' \in Seq(BatchRow)
    <3> DEFINE n == Len(rows)
    <3>1. /\ rows' = [r \in 1..n |-> x(r)] /\ n \in Nat
          /\ \A r \in 1..n : x(r) \in BatchRow
      BY <1>1, <2>1, <2>4
    <3> HIDE DEF n
    <3> QED
      BY <3>1, IsASeq
  <2>7. \A r \in Ids : RowStep(j, r) /\ Unwritten(r)
                       /\ rows'[r].members = rows[r].members
    <3> TAKE r \in Ids
    <3>1. rows'[r] = x(r)
      BY <2>5
    <3>2. r \in job[j].ids => r \in job'[j].touched
      BY <2>2, <2>3
    <3> QED
      BY <2>4, <3>1, <3>2 DEF RowStep, Unwritten
  <2>8. RowsStep(j)
    BY <2>5, <2>6, <2>7 DEF RowsStep
  <2>9. Sound(j)' /\ Reached(j)'
    <3>1. DOMAIN rows' = Ids /\ \A r \in Ids : Owned(j, r) => Owned(j, r)'
      BY <2>5, <2>7 DEF RowStep, Owned
    <3> QED
      BY <1>1, <1>2, <2>2, <2>3, <3>1 DEF Sound, At, Reached, Ids
  <2>10. \A r \in job'[j].ids :
           r \in job'[j].touched /\ rows'[r].created = Job[j].session
    <3> TAKE r \in job'[j].ids
    <3>1. r \in job[j].ids /\ r \in Ids
      BY <1>1, <2>2, <2>3 DEF Sound
    <3> QED
      BY <2>2, <2>3, <2>4, <2>5, <3>1
  <2>11. JobStep(j)
    BY <2>2, <2>3, <2>9, <2>10 DEF JobStep
  <2> QED
    BY <2>2, <2>3, <2>5, <2>7, <2>8, <2>11
<1> QED
  BY <1>3, <1>4

LEMMA ClusterIsARow ==
  ASSUME BatchInv, NEW j \in Jobs, NEW c \in Clusters
  PROVE  /\ CompositeRow(j, c) \in BatchRow
         /\ CompositeRow(j, c).members # {}
         /\ CompositeRow(j, c).first = j /\ CompositeRow(j, c).by = j
         /\ CompositeRow(j, c).user = Job[j].user
         /\ CompositeRow(j, c).workspace = Job[j].workspace
         /\ CompositeRow(j, c).slot = None
         /\ CompositeRow(j, c).created = StoringDate(j)
<1> DEFINE says == {c[i][2] : i \in DOMAIN c}
           members == {c[i][1] : i \in DOMAIN c}
<1>1. c \in Seq(Pairs) /\ c # <<>>
  BY DEF Clusters
<1>2. /\ Len(c) \in Nat /\ DOMAIN c = 1..Len(c)
      /\ \A i \in DOMAIN c : c[i] \in Pairs
  BY <1>1
<1>3. Len(c) # 0
  BY <1>1
<1>4. 1 \in DOMAIN c
  BY <1>2, <1>3
<1>5. \A i \in DOMAIN c : c[i][1] \in Nat /\ c[i][2] \in Statements
  BY <1>2 DEF Pairs
<1>6. IsFiniteSet(says)
  <2> DEFINE g == [i \in DOMAIN c |-> c[i][2]]
  <2>1. IsFiniteSet(DOMAIN c)
    BY <1>2, FS_Interval
  <2>2. g \in Surjection(DOMAIN c, says)
    BY DEF Surjection
  <2> QED
    BY <2>1, <2>2, FS_Surjection
<1>7. says \in Texts
  BY <1>4, <1>5, <1>6 DEF Texts
<1>8. members \in SUBSET Nat /\ members # {}
  BY <1>4, <1>5
<1> DEFINE x == NewRow(j, says, "live", StoringDate(j), members)
<1>9. CompositeRow(j, c) = x
  BY DEF CompositeRow
<1> HIDE DEF says, members
<1>10. x \in BatchRow
  BY <1>7, <1>8, DateIsADate, NewRowTyped DEF BatchInv
<1>11. /\ x.members = members /\ x.first = j /\ x.by = j /\ x.user = Job[j].user
       /\ x.workspace = Job[j].workspace /\ x.slot = None
       /\ x.created = StoringDate(j)
  BY DEF NewRow
<1> QED
  BY <1>8, <1>9, <1>10, <1>11

LEMMA Appended ==
  ASSUME NEW S, NEW a \in Seq(S), NEW c \in Seq(S)
  PROVE  /\ a \o c \in Seq(S) /\ DOMAIN (a \o c) = 1..(Len(a) + Len(c))
         /\ \A r \in 1..Len(a) : (a \o c)[r] = a[r]
         /\ \A r \in (Len(a) + 1)..(Len(a) + Len(c)) :
              (a \o c)[r] = c[r - Len(a)]
  OBVIOUS

LEMMA CompositesKeep ==
  ASSUME BatchInv, NEW j \in Jobs, GenerateAndStoreComposites(j)
  PROVE  /\ RowsStep(j) /\ JobStep(j) /\ job'[j].pc # "decide"
         /\ Ids \subseteq DOMAIN rows' /\ \A r \in Ids : rows'[r] = rows[r]
         /\ \A r \in DOMAIN rows' \ Ids : rows'[r].members # {}
<1>1. /\ job \in [Jobs -> JobState] /\ job[j] \in JobState
      /\ rows \in Seq(BatchRow) /\ Len(rows) \in Nat /\ Ids = 1..Len(rows)
      /\ \A s \in Ids : rows[s] \in BatchRow
      /\ job[j].pc = "composites" /\ Sound(j) /\ Reached(j)
  BY RowsAre DEF BatchInv, BatchTyped, GenerateAndStoreComposites, At
<1>2. Job[j].mode # "verbatim"
  BY <1>1, NotVerbatim DEF BatchInv
<1>3. PICK clusters \in Seq(Clusters) :
        rows' = rows \o [k \in DOMAIN clusters |-> CompositeRow(j, clusters[k])]
  <2> DEFINE stored == job[j].stored
             inputs == Taken(stored, {i \in DOMAIN stored :
                                        stored[i][1] \in job[j].embedded})
  <2>1. stored \in Seq(Pairs)
    BY <1>1 DEF JobState
  <2>2. inputs \in Seq(Pairs)
    <3> HIDE DEF stored
    <3> QED
      BY <2>1, TakenIsThere
  <2>3. BuildComposites(inputs) \in Seq(Clusters)
    <3> HIDE DEF inputs
    <3> QED
      BY <2>2, CompositesAreThere
  <2>4. <<>> \in Seq(Clusters)
    OBVIOUS
  <2> QED
    BY <2>3, <2>4 DEF GenerateAndStoreComposites
<1> DEFINE n == Len(rows)
           m == Len(clusters)
           x(k) == CompositeRow(j, clusters[k])
           more == [k \in 1..m |-> x(k)]
<1>4. /\ m \in Nat /\ DOMAIN clusters = 1..m
      /\ \A k \in 1..m : clusters[k] \in Clusters
  BY <1>3
<1>5. \A k \in 1..m :
        /\ x(k) \in BatchRow /\ x(k).members # {} /\ x(k).first = j
        /\ x(k).by = j /\ x(k).user = Job[j].user
        /\ x(k).workspace = Job[j].workspace /\ x(k).slot = None
        /\ x(k).created = StoringDate(j)
  BY <1>4, ClusterIsARow
<1>6. rows' = rows \o more
  BY <1>3, <1>4
<1> HIDE DEF m, x
<1>7. more \in Seq(BatchRow)
  BY <1>4, <1>5, IsASeq
<1>8. Len(more) = m /\ \A k \in 1..m : more[k] = x(k)
  BY <1>4
<1> HIDE DEF more, n
<1>9. n \in Nat /\ Ids = 1..n /\ n = Len(rows)
  BY <1>1 DEF n
<1>10. /\ rows' \in Seq(BatchRow) /\ DOMAIN rows' = 1..(n + m)
       /\ \A r \in 1..n : rows'[r] = rows[r]
       /\ \A r \in (n + 1)..(n + m) : rows'[r] = more[r - n]
  <2>1. /\ rows \in Seq(BatchRow) /\ more \in Seq(BatchRow)
        /\ Len(rows) = n /\ Len(more) = m /\ n \in Nat /\ m \in Nat
        /\ rows' = rows \o more
    BY <1>1, <1>4, <1>6, <1>7, <1>8, <1>9
  <2>2. /\ rows \o more \in Seq(BatchRow)
        /\ DOMAIN (rows \o more) = 1..(n + m)
        /\ \A r \in 1..n : (rows \o more)[r] = rows[r]
        /\ \A r \in (n + 1)..(n + m) : (rows \o more)[r] = more[r - n]
    BY <2>1, Appended
  <2> QED
    BY <2>1, <2>2
<1>11. \A r \in DOMAIN rows' \ Ids : \E k \in 1..m : rows'[r] = x(k)
  <2> TAKE r \in DOMAIN rows' \ Ids
  <2>1. r \in (n + 1)..(n + m) /\ r - n \in 1..m
    BY <1>4, <1>9, <1>10
  <2> QED
    BY <1>8, <1>10, <2>1
<1>12. Ids \subseteq DOMAIN rows' /\ \A r \in Ids : rows'[r] = rows[r]
  BY <1>4, <1>9, <1>10
<1>13. \A r \in DOMAIN rows' \ Ids : NewStep(j, r) /\ rows'[r].members # {}
  BY <1>5, <1>11 DEF NewStep, StoringDate
<1>14. RowsStep(j)
  BY <1>10, <1>12, <1>13 DEF RowsStep, RowStep, Unwritten
<1> DEFINE v == [job[j] EXCEPT !.pc = "done"]
<1>15. job' = [job EXCEPT ![j] = v]
  BY <1>1 DEF GenerateAndStoreComposites, Go
<1>16. /\ v \in JobState /\ v.pc = "done" /\ v.candidates = job[j].candidates
       /\ v.top = job[j].top
       /\ v.ids = job[j].ids /\ v.touched = job[j].touched
  BY <1>1 DEF JobState
<1> HIDE DEF v
<1>17. Sound(j)' /\ Reached(j)'
  BY <1>1, <1>2, <1>12, <1>15, <1>16 DEF Sound, At, Reached, Owned, Ids
<1>18. JobStep(j)
  BY <1>1, <1>15, <1>16, <1>17 DEF JobStep
<1> QED
  BY <1>1, <1>12, <1>13, <1>14, <1>15, <1>16, <1>18

-----------------------------------------------------------------------------
(* No request has begun: the invariant holds.                              *)
LEMMA BatchInit == InitBatch => BatchInv
<1> SUFFICES ASSUME InitBatch PROVE BatchInv
  OBVIOUS
<1>1. rows = <<>> /\ rows \in Seq(BatchRow) /\ Ids = {}
  BY DEF InitBatch, Ids
<1>2. PICK met \in Together :
        job = [j \in Jobs |-> [Fresh(0, {}) EXCEPT
                                 !.pc = IF j \in met THEN "new" ELSE "none"]]
  BY DEF InitBatch
<1> DEFINE x(pc) == [Fresh(0, {}) EXCEPT !.pc = pc]
<1>3. ASSUME NEW pc \in {"none", "new"}
      PROVE  /\ x(pc) \in JobState /\ x(pc).pc = pc /\ x(pc).ids = {}
             /\ x(pc).candidates = {} /\ x(pc).top = {}
  <2> DEFINE S == UNION {Keywords[f] : f \in Statements}
             p == {None} \cup Statements
             q == Seq(Pairs)
  <2>1. /\ {} \in SUBSET S /\ None \in p /\ <<>> \in q
        /\ {} \in SUBSET Nat /\ {} \in SUBSET Read
    OBVIOUS
  <2> DEFINE y(e, t) == [pc |-> pc, next |-> 1, attempt |-> 0,
                         candidates |-> e, top |-> e, superseded |-> e,
                         seen |-> e, previous |-> None, ids |-> e,
                         embedded |-> e, stored |-> t, touched |-> e]
  <2> HIDE DEF S, p, q
  <2>2. x(pc) = y({}, <<>>)
    <3> DEFINE z(e, t) == [[pc |-> "fact", next |-> 1, attempt |-> 0,
                            candidates |-> e, top |-> e, superseded |-> e,
                            seen |-> e, previous |-> None, ids |-> e,
                            embedded |-> e, stored |-> t, touched |-> e]
                              EXCEPT !.pc = pc]
    <3>1. \A e, t : z(e, t) = y(e, t)
      OBVIOUS
    <3>2. x(pc) = z({}, <<>>)
      BY DEF Fresh
    <3> HIDE DEF x, y, z
    <3> QED
      BY <3>1, <3>2
  <2>3. \A e \in SUBSET S : \A t \in q :
          e \in SUBSET Nat /\ e \in SUBSET Read => y(e, t) \in JobState
    BY <1>3, <2>1 DEF JobState, S, p, q
  <2>4. \A e, t : /\ y(e, t).pc = pc /\ y(e, t).ids = e
                  /\ y(e, t).candidates = e /\ y(e, t).top = e
    OBVIOUS
  <2> HIDE DEF x, y
  <2> QED
    BY <2>1, <2>2, <2>3, <2>4
<1>4. \A j \in Jobs : \E pc \in {"none", "new"} : job[j] = x(pc)
  BY <1>2
<1>5. job \in [Jobs -> JobState]
  <2>1. job = [j \in Jobs |-> job[j]]
    BY <1>2
  <2> HIDE DEF x
  <2> QED
    BY <1>3, <1>4, <2>1
<1> HIDE DEF x
<1>6. \A j \in Jobs : /\ job[j].pc \in {"none", "new"} /\ job[j].ids = {}
                      /\ job[j].candidates = {} /\ job[j].top = {}
  BY <1>3, <1>4
<1>7. BatchTyped
  BY <1>1, <1>5, <1>6 DEF BatchTyped, Sound, At
<1>8. \A j \in Jobs : Reached(j) /\ BatchDated(j) /\ Untold(j)
  BY <1>1, <1>6 DEF Reached, BatchDated, Untold
<1> QED
  BY <1>1, <1>7, <1>8 DEF BatchInv

(* Every action is a step of rows and of the request.                      *)
LEMMA EveryStepIsOne ==
  ASSUME BatchInv, NEW j \in Jobs,
         \/ Start(j) \/ Fail(j) \/ PerformStoreVerbatim(j)
         \/ ProcessFact(j) \/ PostWrite(j)
  PROVE  RowsStep(j) /\ JobStep(j)
<1>1. CASE Start(j) \/ Fail(j) \/ PerformStoreVerbatim(j)
  BY <1>1, StartKeeps, FailKeeps, VerbatimKeeps
<1>2. CASE BlockFact(j) \/ GateFact(j) \/ FindCandidates(j)
  BY <1>2, BlockKeeps, GateKeeps, FindKeeps
<1>3. CASE StoreFact(j) \/ SkipFact(j) \/ SkipDuplicate(j) \/ ClarifyFact(j)
  BY <1>3, StoreKeeps, SkipKeeps, DuplicateKeeps, ClarifyKeeps
<1>4. CASE \/ UpdateTarget(j) \/ DeleteTarget(j) \/ SupersedeTarget(j)
           \/ MutateForeignTarget(j)
  BY <1>4, UpdateKeeps, DeleteKeeps, SupersedeKeeps, ForeignKeeps
<1>5. CASE PostWrite(j)
  BY <1>5, FinishKeeps, BackdateKeeps, LinksKeep, CompositesKeep DEF PostWrite
<1> QED
  BY <1>1, <1>2, <1>3, <1>4, <1>5 DEF ProcessFact

(* The invariant is about the state alone.                                 *)
LEMMA BatchStill ==
  ASSUME BatchInv, UNCHANGED batchVars
  PROVE  BatchInv'
<1>1. rows' = rows /\ job' = job
  BY DEF batchVars
<1>2. BatchTyped'
  BY <1>1 DEF BatchInv, BatchTyped, Sound, At, Ids
<1>3. \A r \in Ids' : RowOwned(r)' /\ RowDated(r)'
  BY <1>1 DEF BatchInv, RowOwned, Owned, RowDated, DatesOf, Ids
<1>4. \A j \in Jobs : Reached(j)' /\ BatchDated(j)' /\ Untold(j)'
  BY <1>1 DEF BatchInv, Reached, Owned, BatchDated, DatesOf, Untold, Ids
<1> QED
  BY <1>2, <1>3, <1>4 DEF BatchInv

(* The rows stay typed, in the reach of the request that wrote them last,  *)
(* and dated; a request knows rows that exist and are in its reach         *)
(* (memory-ingest.ts, ingest-fact-pipeline.ts, ingest-post-write.ts).      *)
THEOREM BatchInvariance == BatchSpec => []BatchInv
<1>1. BatchInv /\ [NextBatch]_batchVars => BatchInv'
  <2> SUFFICES ASSUME BatchInv, [NextBatch]_batchVars PROVE BatchInv'
    OBVIOUS
  <2>1. CASE NextBatch
    <3>1. PICK j \in Jobs : \/ Start(j) \/ Fail(j) \/ PerformStoreVerbatim(j)
                            \/ ProcessFact(j) \/ PostWrite(j)
      BY <2>1 DEF NextBatch
    <3> QED
      BY <3>1, EveryStepIsOne, BatchStepKeeps
  <2>2. CASE UNCHANGED batchVars
    BY <2>2, BatchStill
  <2> QED
    BY <2>1, <2>2
<1> QED
  BY <1>1, BatchInit, PTL DEF BatchSpec

(* Whatever requests meet, however often they fail and are sent again, a   *)
(* row of a conversation with a date has that date, or the date of another *)
(* conversation that mentioned it (backdateMemories, storeProjection).     *)
THEOREM BatchDatedSafe == BatchSpec => []BatchIsDated
<1>1. BatchInv => BatchIsDated
  <2> SUFFICES ASSUME BatchInv, NEW j \in Jobs, Job[j].session # None,
                      Job[j].mode # "verbatim"
               PROVE  /\ At(j, "done") => \A r \in job[j].ids :
                           rows[r].created \in DatesOf(r)
                      /\ Job[j].mode # "workspace" => \A r \in Ids :
                           rows[r].first = j => rows[r].created \in DatesOf(r)
    BY DEF BatchIsDated
  <2>1. ASSUME At(j, "done")
        PROVE  \A r \in job[j].ids : rows[r].created \in DatesOf(r)
    BY <2>1 DEF BatchInv, BatchDated, At
  <2>2. ASSUME Job[j].mode # "workspace", NEW r \in Ids, rows[r].first = j
        PROVE  rows[r].created \in DatesOf(r)
    BY <2>2 DEF BatchInv, RowDated
  <2> QED
    BY <2>1, <2>2
<1> QED
  BY <1>1, BatchInvariance, PTL

-----------------------------------------------------------------------------
(* Among the near duplicates of what the request itself has said is a row  *)
(* that is as alike and is not left out, unless what it said is hidden.    *)
LEMMA SayingIsFoundAgain ==
  ASSUME BatchInv, NEW j \in Jobs, NEW f \in Statements,
         NEW near \in FindNearDuplicates(j, f),
         NEW r \in Ids, rows[r].by = j, rows[r].status = "live",
         rows[r].says = {f}, ~Hidden(j, r)
  PROVE  \E x \in near : /\ Likeness(f, rows[x].says) = 100
                         /\ Job[j].mode = "full" => x \notin job[j].superseded
<1> DEFINE rs == {x \in Ids : /\ InReach(j, x)
                              /\ Likeness(f, rows[x].says) > Settings.candidate}
           alike == [x \in rs |-> Likeness(f, rows[x].says)]
<1>1. Likeness(f, rows[r].says) = 100
  BY SameIsAlike
<1>2. r \in rs
  <2>1. Owned(j, r)
    BY DEF BatchInv, RowOwned
  <2>2. Settings.candidate \in 0..99
    BY SettingsAssumption
  <2> QED
    BY <1>1, <2>1, <2>2 DEF Owned, InReach
<1>3. \A x \in rs : Likeness(f, rows[x].says) \in Int
                    /\ Likeness(f, rows[x].says) <= 100
  <2> TAKE x \in rs
  <2>1. rows[x] \in BatchRow
    BY RowsAre DEF BatchInv
  <2>2. rows[x].says \in Texts
    BY <2>1 DEF BatchRow
  <2> QED
    BY <2>2, LikenessBounded
<1>4. /\ near \subseteq rs
      /\ Cardinality(near) = Smaller(Limit(j), Cardinality(rs))
      /\ \A s \in near, c \in rs \ near : alike[c] <= alike[s]
  BY DEF FindNearDuplicates, Nearest, kSubset
<1>5. IsFiniteSet(rs)
  <2>1. Ids = 1..Len(rows) /\ Len(rows) \in Nat
    BY RowsAre DEF BatchInv
  <2>2. IsFiniteSet(Ids)
    BY <2>1, FS_Interval
  <2>3. rs \subseteq Ids
    OBVIOUS
  <2> HIDE DEF rs
  <2> QED
    BY <2>2, <2>3, FS_Subset
<1>6. \A x \in rs : alike[x] = Likeness(f, rows[x].says)
  OBVIOUS
<1> HIDE DEF rs, alike
<1>7. CASE r \in near
  BY <1>1, <1>7 DEF Hidden
<1>8. CASE r \notin near
  <2>1. \A x \in near : Likeness(f, rows[x].says) = 100
    <3> TAKE x \in near
    <3>1. alike[r] <= alike[x] /\ x \in rs
      BY <1>2, <1>4, <1>8
    <3>2. /\ alike[x] = Likeness(f, rows[x].says)
          /\ alike[r] = Likeness(f, rows[r].says)
      BY <1>2, <1>6, <3>1
    <3>3. /\ Likeness(f, rows[x].says) \in Int
          /\ Likeness(f, rows[x].says) <= 100
      BY <1>3, <3>1
    <3> DEFINE v == Likeness(f, rows[x].says)
    <3>4. v \in Int /\ v <= 100 /\ 100 <= v
      BY <1>1, <3>1, <3>2, <3>3
    <3> HIDE DEF v
    <3>5. v = 100
      BY <3>4
    <3> QED
      BY <3>5 DEF v
  <2>2. Cardinality(near) # Cardinality(rs)
    <3>1. near # rs /\ near \in SUBSET rs
      BY <1>2, <1>4, <1>8
    <3> QED
      BY <1>5, <3>1, FS_Subset
  <2>3. Cardinality(near) = Limit(j)
    BY <1>4, <2>2 DEF Smaller
  <2>4. ~(near \subseteq job[j].superseded /\ Job[j].mode = "full")
    BY <2>3 DEF Hidden
  <2>5. near # {}
    BY <2>3, FS_EmptySet DEF Limit
  <2> QED
    BY <2>1, <2>4, <2>5
<1> QED
  BY <1>7, <1>8

(* A search that comes across what the request has said begins with it, or *)
(* with what is as alike.                                                  *)
LEMMA SearchBeginsAlike ==
  ASSUME BatchInv, NEW j \in Jobs, NEW f \in Statements,
         NEW near \in FindNearDuplicates(j, f),
         NEW worded \in FindKeywordCandidates(j, f),
         NEW target \in SlotTargets(j, f),
         NEW found \in FilteredSearch(j, f, near, worded, target),
         NEW x \in near, Likeness(f, rows[x].says) = 100,
         Job[j].mode = "full" => x \notin job[j].superseded
  PROVE  \E c \in found.top :
           /\ c.similarity = 100
           /\ Job[j].mode # "quick" =>
                Literals[f] \subseteq UNION {Literals[g] : g \in c.says}
<1> DEFINE alike == MergeCandidates(f, near, worded, target)
           left == FilteredCandidates(j, near \cup worded \cup target)
           tops == TopCandidates(j, f, near, left, alike)
           top == {r \in left : \A c \in left : alike[c] <= alike[r]}
           first == {r \in top \cap near : \A c \in top \cap near :
                       Likeness(f, rows[c].says) <= Likeness(f, rows[r].says)}
<1>1. x \in left
  BY DEF FilteredCandidates
<1>2. \A r \in left :
        /\ r \in Ids /\ rows[r].says \in Texts
        /\ alike[r] \in Int /\ alike[r] <= 100
        /\ r \in near => Likeness(f, rows[r].says) <= alike[r]
  <2>1. left \subseteq near \cup worded \cup target
    BY DEF FilteredCandidates
  <2> HIDE DEF left
  <2> QED
    BY <2>1, FoundIsOwned
<1>3. tops = IF Job[j].mode = "quick" \/ first = {} THEN top ELSE first
  BY DEF TopCandidates
<1>4. left # {} =>
        \E r \in tops :
          /\ r \in left
          /\ found.top = {[id |-> r, says |-> rows[r].says,
                           similarity |-> alike[r]]}
  <2>1. alike = MergeCandidates(f, near, worded, target)
    OBVIOUS
  <2>2. left = FilteredCandidates(j, near \cup worded \cup target)
    OBVIOUS
  <2>3. tops = TopCandidates(j, f, near, left, alike)
    OBVIOUS
  <2> HIDE DEF alike, left, tops
  <2> QED
    BY <2>1, <2>2, <2>3, SearchIsSome
<1> HIDE DEF alike, left, tops
<1>5. alike[x] = 100
  BY <1>1, <1>2
<1>6. x \in top
  BY <1>1, <1>2, <1>5
<1>7. \A r \in top : alike[r] = 100
  BY <1>1, <1>2, <1>5
<1>8. \A r \in left \cap near :
        Likeness(f, rows[r].says) \in Int /\ Likeness(f, rows[r].says) <= 100
  BY <1>2, LikenessBounded
<1>9. x \in first
  BY <1>1, <1>6, <1>8
<1>10. \A r \in first : Likeness(f, rows[r].says) = 100
  BY <1>1, <1>6, <1>8
<1>11. PICK r \in tops :
         /\ r \in left
         /\ found.top = {[id |-> r, says |-> rows[r].says,
                          similarity |-> alike[r]]}
  BY <1>1, <1>4
<1>12. first \subseteq top
  OBVIOUS
<1> HIDE DEF top, first
<1>13. alike[r] = 100
  BY <1>3, <1>7, <1>11, <1>12
<1>14. ASSUME Job[j].mode # "quick"
       PROVE  Literals[f] \subseteq UNION {Literals[g] : g \in rows[r].says}
  <2>1. Likeness(f, rows[r].says) = 100
    BY <1>3, <1>9, <1>10, <1>11, <1>14
  <2> QED
    BY <1>2, <1>11, <2>1, AlikeQuotesTheSame
<1> DEFINE c == [id |-> r, says |-> rows[r].says, similarity |-> alike[r]]
<1>15. c \in found.top /\ c.similarity = 100 /\ c.says = rows[r].says
  BY <1>11, <1>13
<1> HIDE DEF c
<1> QED
  BY <1>14, <1>15

(* Such a candidate is never left to the model.                            *)
LEMMA AlikeIsNotLeft ==
  ASSUME Settings.fastAudn, NEW j \in Jobs, AsAlike(j), LeftToModel(j)
  PROVE  FALSE
<1>1. PICK c \in job[j].top :
        /\ c.similarity = 100
        /\ Job[j].mode # "quick" =>
             Literals[CurrentFact(j)] \subseteq UNION {Literals[g] : g \in c.says}
  BY DEF AsAlike
<1>2. c.similarity >= Settings.duplicate
  <2>1. Settings.duplicate \in 0..100
    BY SettingsAssumption
  <2> QED
    BY <1>1, <2>1
<1>3. IsDuplicate(j)
  BY <1>2 DEF IsDuplicate
<1>4. Job[j].mode # "quick" => TryFastAudn(j)
  BY <1>1, <1>3 DEF TryFastAudn
<1> QED
  BY <1>3, <1>4 DEF LeftToModel

(* A step of one request leaves alone what the others have found.          *)
LEMMA OthersFound ==
  ASSUME BatchInv, OnceInv, NEW j \in Jobs, RowsStep(j), JobStep(j)
  PROVE  \A k \in Jobs \ {j} : FoundAgain(k)'
<1> SUFFICES ASSUME NEW k \in Jobs, k # j, job'[k].pc = "decide",
                    NEW r \in DOMAIN rows', Saying(k, r)'
             PROVE  Hidden(k, r)' \/ AsAlike(k)'
  BY DEF FoundAgain, At, Ids
<1>1. job'[k] = job[k]
  BY DEF JobStep
<1>2. rows'[r].by = k
  BY DEF Saying
<1>3. r \in Ids
  BY <1>2 DEF RowsStep, NewStep
<1>4. RowStep(j, r) /\ Unwritten(r)
  BY <1>2, <1>3 DEF RowsStep, RowStep
<1>5. Saying(k, r)
  BY <1>1, <1>4 DEF Saying, RowStep, Unwritten, CurrentFact
<1>6. Hidden(k, r) \/ AsAlike(k)
  BY <1>1, <1>3, <1>5 DEF OnceInv, FoundAgain, At
<1>7. Hidden(k, r)' <=> Hidden(k, r)
  BY <1>1 DEF Hidden, Limit
<1>8. AsAlike(k)' <=> AsAlike(k)
  BY <1>1 DEF AsAlike, CurrentFact
<1> QED
  BY <1>6, <1>7, <1>8

(* The search finds a row that says the same, or one as alike.             *)
LEMMA FindKeepsOnce ==
  ASSUME BatchInv, OnceInv, NEW j \in Jobs, FindCandidates(j)
  PROVE  OnceInv'
<1> DEFINE f == CurrentFact(j)
<1>1. /\ RowsStep(j) /\ JobStep(j) /\ rows' = rows
      /\ MoreFacts(j) /\ job'[j].next = job[j].next
      /\ job'[j].superseded = job[j].superseded
  BY FindKeeps
<1>2. PICK near \in FindNearDuplicates(j, f),
           worded \in FindKeywordCandidates(j, f),
           target \in SlotTargets(j, f) :
        \E found \in FilteredSearch(j, f, near, worded, target) :
          job'[j].top = found.top
  BY FindKeeps
<1>3. PICK found \in FilteredSearch(j, f, near, worded, target) :
        job'[j].top = found.top
  BY <1>2
<1>4. f \in Statements /\ f' = f
  BY <1>1, AtAFact DEF CurrentFact
<1>5. ASSUME NEW r \in Ids, Saying(j, r)', ~Hidden(j, r)'
      PROVE  AsAlike(j)'
  <2>1. /\ rows[r].by = j /\ rows[r].status = "live" /\ rows[r].says = {f}
        /\ ~Hidden(j, r)
    BY <1>1, <1>4, <1>5 DEF Saying, Hidden, Limit
  <2> HIDE DEF f
  <2>2. PICK x \in near :
          /\ Likeness(f, rows[x].says) = 100
          /\ Job[j].mode = "full" => x \notin job[j].superseded
    BY <1>4, <2>1, SayingIsFoundAgain
  <2>3. \E c \in found.top :
          /\ c.similarity = 100
          /\ Job[j].mode # "quick" =>
               Literals[f] \subseteq UNION {Literals[g] : g \in c.says}
    BY <1>4, <2>2, SearchBeginsAlike
  <2> QED
    BY <1>3, <1>4, <2>3 DEF AsAlike, f
<1>6. FoundAgain(j)'
  BY <1>1, <1>5 DEF FoundAgain, Ids
<1> QED
  BY <1>1, <1>6, OthersFound DEF OnceInv

(* Every other step leaves the request with nothing to decide.             *)
LEMMA EveryStepKeepsOnce ==
  ASSUME BatchInv, OnceInv, NEW j \in Jobs,
         \/ Start(j) \/ Fail(j) \/ PerformStoreVerbatim(j)
         \/ ProcessFact(j) \/ PostWrite(j)
  PROVE  OnceInv'
<1>1. CASE FindCandidates(j)
  BY <1>1, FindKeepsOnce
<1>2. ASSUME RowsStep(j), JobStep(j), job'[j].pc # "decide"
      PROVE  OnceInv'
  BY <1>2, OthersFound DEF OnceInv, FoundAgain, At
<1>3. CASE Start(j) \/ Fail(j) \/ PerformStoreVerbatim(j)
  BY <1>2, <1>3, StartKeeps, FailKeeps, VerbatimKeeps
<1>4. CASE BlockFact(j) \/ GateFact(j) \/ SkipFact(j) \/ SkipDuplicate(j)
  BY <1>2, <1>4, BlockKeeps, GateKeeps, SkipKeeps, DuplicateKeeps
<1>5. CASE StoreFact(j) \/ ClarifyFact(j) \/ MutateForeignTarget(j)
  BY <1>2, <1>5, StoreKeeps, ClarifyKeeps, ForeignKeeps
<1>6. CASE UpdateTarget(j) \/ DeleteTarget(j) \/ SupersedeTarget(j)
  BY <1>2, <1>6, UpdateKeeps, DeleteKeeps, SupersedeKeeps
<1>7. CASE FinishFacts(j) \/ BackdateMemories(j) \/ GenerateLinks(j)
  BY <1>2, <1>7, FinishKeeps, BackdateKeeps, LinksKeep
<1>8. CASE GenerateAndStoreComposites(j)
  BY <1>2, <1>8, CompositesKeep
<1> QED
  BY <1>1, <1>3, <1>4, <1>5, <1>6, <1>7, <1>8 DEF ProcessFact, PostWrite

(* A request that decides and adds a row had its fact left to the model.   *)
LEMMA AddedByModel ==
  ASSUME BatchInv, NEW j \in Jobs, Deciding(j), Len(rows') > Len(rows),
         \/ Start(j) \/ Fail(j) \/ PerformStoreVerbatim(j)
         \/ ProcessFact(j) \/ PostWrite(j)
  PROVE  LeftToModel(j)
<1>1. Len(rows) \in Nat /\ rows \in Seq(BatchRow)
  BY RowsAre DEF BatchInv
<1>2. ~(rows' = rows)
  BY <1>1
<1>3. job[j].pc = "decide"
  BY DEF Deciding, At
<1>4. CASE Start(j) \/ Fail(j) \/ PerformStoreVerbatim(j) \/ PostWrite(j)
  BY <1>2, <1>3, <1>4 DEF Start, Fail, PerformStoreVerbatim, PostWrite,
     FinishFacts, BackdateMemories, GenerateLinks, GenerateAndStoreComposites,
     At
<1>5. CASE BlockFact(j) \/ GateFact(j) \/ FindCandidates(j)
  BY <1>3, <1>5 DEF BlockFact, GateFact, FindCandidates, MoreFacts, At
<1>6. CASE SkipFact(j) \/ SkipDuplicate(j) \/ MutateForeignTarget(j)
  BY <1>2, <1>6 DEF SkipFact, SkipDuplicate, MutateForeignTarget
<1>7. CASE \/ StoreFact(j) \/ ClarifyFact(j)
           \/ UpdateTarget(j) \/ DeleteTarget(j) \/ SupersedeTarget(j)
  BY <1>7 DEF StoreFact, ClarifyFact, UpdateTarget, DeleteTarget,
     SupersedeTarget, ByModel
<1> QED
  BY <1>4, <1>5, <1>6, <1>7 DEF ProcessFact

(* With the fast path switched on, as it is unless FAST_AUDN_ENABLED says  *)
(* otherwise (config.ts:378), a request that fails and is sent again, or   *)
(* says a thing twice, adds no row for what one of its rows still says     *)
(* word for word, unless that row is hidden from the attempt: tryFastAUDN  *)
(* and the quick path take that row, or one as alike, for a duplicate.     *)
(* What a model worded otherwise in an update, it may well store again.    *)
THEOREM SentAgainSafe ==
  ASSUME Settings.fastAudn
  PROVE  BatchSpec => SentAgainStoredOnce
<1>1. InitBatch => OnceInv
  BY DEF InitBatch, OnceInv, FoundAgain, Ids
<1>2. BatchInv /\ OnceInv /\ [NextBatch]_batchVars =>
        /\ OnceInv'
        /\ [\A j \in Jobs, r \in Ids :
              /\ Deciding(j) /\ job'[j] # job[j] /\ Len(rows') > Len(rows)
              /\ Saying(j, r)
              => Hidden(j, r)]_batchVars
  <2> SUFFICES ASSUME BatchInv, OnceInv, [NextBatch]_batchVars
               PROVE  /\ OnceInv'
                      /\ \/ UNCHANGED batchVars
                         \/ \A j \in Jobs, r \in Ids :
                              /\ Deciding(j) /\ job'[j] # job[j]
                              /\ Len(rows') > Len(rows) /\ Saying(j, r)
                              => Hidden(j, r)
    OBVIOUS
  <2>1. CASE NextBatch
    <3>1. PICK j \in Jobs : \/ Start(j) \/ Fail(j) \/ PerformStoreVerbatim(j)
                            \/ ProcessFact(j) \/ PostWrite(j)
      BY <2>1 DEF NextBatch
    <3>2. OnceInv'
      BY <3>1, EveryStepKeepsOnce
    <3>3. ASSUME NEW k \in Jobs, NEW r \in Ids, Deciding(k),
                 job'[k] # job[k], Len(rows') > Len(rows), Saying(k, r)
          PROVE  Hidden(k, r)
      <4>1. k = j
        BY <3>1, <3>3, EveryStepIsOne DEF JobStep
      <4>2. LeftToModel(j)
        BY <3>1, <3>3, <4>1, AddedByModel
      <4>3. Hidden(k, r) \/ AsAlike(k)
        BY <3>3 DEF OnceInv, FoundAgain, Deciding
      <4> QED
        BY <4>1, <4>2, <4>3, AlikeIsNotLeft
    <3> QED
      BY <3>2, <3>3
  <2>2. CASE UNCHANGED batchVars
    BY <2>2 DEF batchVars, OnceInv, FoundAgain, Saying, Hidden, Limit,
       AsAlike, CurrentFact, At, Ids
  <2> QED
    BY <2>1, <2>2
<1> QED
  BY <1>1, <1>2, BatchInvariance, PTL DEF BatchSpec, SentAgainStoredOnce

=============================================================================
