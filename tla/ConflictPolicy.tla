--------------------------- MODULE ConflictPolicy ---------------------------
(***************************************************************************)
(* What becomes of a fact that resembles stored memories: the decision of  *)
(* the LLM (resolveAUDN), the overrides of conflict-policy.ts, the entity  *)
(* check, and the execution of what is left.                               *)
(*                                                                         *)
(* Texts are reduced to the tests the code makes on them.  A candidate is  *)
(* an index of the list of candidates; NoTarget is null and an index that  *)
(* is out of range is an id that names no candidate.                       *)
(***************************************************************************)
EXTENDS Integers, Sequences

CONSTANTS
  Candidates,   \* lists of candidates that can be found for a fact
  Facts,        \* facts
  Answers       \* what the LLM can answer

NoTarget == 0

Actions == {"ADD", "UPDATE", "SUPERSEDE", "DELETE", "NOOP", "CLARIFY"}

(* critical: importance >= 0.9.  words: conflict keywords it has in common *)
(* with the fact.  keywords: keywords of the fact its content mentions.    *)
(* negated: the fact says "not" of one of its words.  risk: it warns of a  *)
(* danger.  similarity: below audnSafeReuseMinSimilarity, at least that,   *)
(* or at least 0.95 too.                                                   *)
Candidate ==
  [critical: BOOLEAN, words: 0..2, keywords: 0..2, negated: BOOLEAN,
   risk: BOOLEAN, similarity: {"low", "safe", "near"}]

(* replaces: "replacing", "no longer", ...  uncertain: "maybe", "check     *)
(* later", ...  hedged: "guess", "might", ...  transition: "switched       *)
(* from", ...  recommends: "recommended", ...  clears: "safe", "fine", ... *)
Fact ==
  [replaces: BOOLEAN, uncertain: BOOLEAN, hedged: BOOLEAN,
   transition: BOOLEAN, recommends: BOOLEAN, clears: BOOLEAN]

(* content: updatedContent is null, of similar length or much longer.      *)
(* confidence: null, or in one of the three ranges that the threshold for  *)
(* SUPERSEDE and the higher one for DELETE leave.                          *)
Decision ==
  [action: Actions, target: Nat, content: {"none", "fits", "grows"},
   confidence: {"none", "low", "middle", "high"}]

ASSUME CandidatesAssumption == Candidates \subseteq Seq(Candidate) \ {<<>>}
ASSUME FactsAssumption == Facts \subseteq Fact
ASSUME AnswersAssumption == Answers \subseteq Decision

VARIABLES
  candidates,   \* the candidates of the fact
  fact,         \* the fact
  raw,          \* the decision of the LLM
  decision,     \* the decision so far
  stage,        \* the last step taken
  outcome       \* what was done with the fact

vars == <<candidates, fact, raw, decision, stage, outcome>>

-----------------------------------------------------------------------------
(* Tests on texts.                                                         *)

Destructive(d) == d.action \in {"SUPERSEDE", "DELETE"}

Merging(d) == d.action \in {"UPDATE", "NOOP"}

ContradictsCandidate(f, c) == f.replaces \/ c.negated

TargetOfOrFirst(d, cs) ==
  {i \in DOMAIN cs : i = IF d.target \in DOMAIN cs THEN d.target ELSE 1}
(* The candidate a decision is about: the first one if it names none, and  *)
(* none if it names an id that is not a candidate.                         *)
TargetOf(d, cs) ==
  {i \in DOMAIN cs : i = IF d.target = NoTarget THEN 1 ELSE d.target}

(* A near duplicate of the fact, by the keywords the extraction gave it.   *)
SafeReuse(c) ==
  /\ c.similarity # "low"
  /\ \/ c.keywords = 2
     \/ c.keywords = 1 /\ c.similarity = "near" /\ c.words = 2

(* The first critical candidate that shares a word with the fact.          *)
FirstCritical(cs) ==
  {i \in DOMAIN cs :
     /\ cs[i].critical /\ cs[i].words > 0
     /\ \A j \in 1..(i - 1) : ~(cs[j].critical /\ cs[j].words > 0)}

CriticalConflict(d, f, cs) ==
  /\ d.action \notin {"ADD", "NOOP"}
  /\ \E i \in FirstCritical(cs) :
       d.action = "UPDATE" => cs[i].risk /\ f.clears

LowConfidence(d) ==
  \/ d.action = "CLARIFY"
  \/ d.action = "SUPERSEDE" /\ d.confidence = "low"
  \/ d.action = "DELETE" /\ d.confidence \in {"low", "middle"}

-----------------------------------------------------------------------------
(* What a policy makes of a decision.                                      *)

Supersede(d) == [d EXCEPT !.action = "SUPERSEDE", !.content = "none"]

Clarify(d) ==
  [d EXCEPT !.action = "CLARIFY",
            !.confidence = IF @ = "none" THEN "low" ELSE @]

PromoteToAdd(d) ==
  [d EXCEPT !.action = "ADD", !.target = NoTarget, !.content = "none"]

ResolveExplicitReplacement(d, cs) ==
  IF d.target \in DOMAIN cs THEN Supersede(d) ELSE d

ResolveCritical(d, f, cs) ==
  IF \E i \in TargetOf(d, cs) : ContradictsCandidate(f, cs[i])
    THEN IF d.action \in {"SUPERSEDE", "UPDATE"} /\ f.replaces
           THEN IF d.action = "UPDATE" THEN Supersede(d) ELSE d
           ELSE Clarify(d)
    ELSE PromoteToAdd(d)

PreserveAtomicFactsAnyGrowth(d, f, cs) ==
  IF /\ Merging(d)
     /\ f.transition \/ ~\E i \in TargetOf(d, cs) : SafeReuse(cs[i])
    THEN PromoteToAdd(d)
    ELSE d
PreserveAtomicFacts(d, f, cs) ==
  IF /\ Merging(d)
     /\ \/ f.transition
        \/ d.action = "UPDATE" /\ d.content = "grows"
        \/ ~\E i \in TargetOf(d, cs) : SafeReuse(cs[i])
    THEN PromoteToAdd(d)
    ELSE d

(* When each policy applies.                                               *)
ExplicitReplacement(d, f) == d.action = "CLARIFY" /\ f.replaces

UncertainConflict(f, cs) == f.uncertain /\ cs # <<>>

RecommendationOnlyDelete(d, f, cs) ==
  /\ d.action = "DELETE" /\ f.recommends
  /\ \E i \in TargetOf(d, cs) : ~ContradictsCandidate(f, cs[i])
RecommendationOnly(d, f, cs) ==
  /\ Destructive(d) /\ f.recommends
  /\ \E i \in TargetOf(d, cs) : ~ContradictsCandidate(f, cs[i])

StateTransition(d, f) ==
  f.transition /\ d.action \in {"UPDATE", "NOOP", "SUPERSEDE"}

ContradictingUpdate(d, f, cs) ==
  /\ d.action = "UPDATE" /\ d.content # "none"
  /\ d.target \in DOMAIN cs
  /\ ContradictsCandidate(f, cs[d.target])

(* The first policy that applies decides; without one, facts are kept      *)
(* atomic.                                                                 *)
ApplyOverridesWithoutCritical(d, f, cs) ==
  IF ExplicitReplacement(d, f) THEN ResolveExplicitReplacement(d, cs)
  ELSE IF LowConfidence(d) /\ ~f.replaces THEN d
  ELSE IF UncertainConflict(f, cs) THEN Clarify(d)
  ELSE IF RecommendationOnly(d, f, cs) THEN PromoteToAdd(d)
  ELSE IF StateTransition(d, f) THEN PromoteToAdd(d)
  ELSE IF ContradictingUpdate(d, f, cs) THEN Supersede(d)
  ELSE PreserveAtomicFacts(d, f, cs)
ApplyClarificationOverrides(d, f, cs) ==
  IF ExplicitReplacement(d, f) THEN ResolveExplicitReplacement(d, cs)
  ELSE IF LowConfidence(d) /\ ~f.replaces THEN d
  ELSE IF UncertainConflict(f, cs) THEN Clarify(d)
  ELSE IF CriticalConflict(d, f, cs) THEN ResolveCritical(d, f, cs)
  ELSE IF RecommendationOnly(d, f, cs) THEN PromoteToAdd(d)
  ELSE IF StateTransition(d, f) THEN PromoteToAdd(d)
  ELSE IF ContradictingUpdate(d, f, cs) THEN Supersede(d)
  ELSE PreserveAtomicFacts(d, f, cs)

-----------------------------------------------------------------------------
(* The steps of resolveAndExecuteAudn after the fast path.                 *)

Undecided ==
  [action |-> "ADD", target |-> NoTarget, content |-> "none",
   confidence |-> "none"]

(* normalizeConfidence: an answer without a confidence gets one, low for   *)
(* CLARIFY and for hedged facts.                                           *)
Normalize(d, f) ==
  IF d.confidence = "none" /\ d.action \in {"CLARIFY", "SUPERSEDE", "DELETE"}
    THEN [d EXCEPT !.confidence =
            IF d.action = "CLARIFY" \/ f.hedged THEN "low" ELSE "high"]
    ELSE d

Init ==
  /\ candidates \in Candidates
  /\ fact \in Facts
  /\ raw = Undecided
  /\ decision = Undecided
  /\ stage = "searched"
  /\ outcome = "none"

ResolveAUDN ==
  /\ stage = "searched"
  /\ \E d \in Answers : raw' = Normalize(d, fact)
  /\ decision' = raw'
  /\ stage' = "answered"
  /\ UNCHANGED <<candidates, fact, outcome>>

Override ==
  /\ stage = "answered"
  /\ decision' = ApplyClarificationOverrides(raw, fact, candidates)
  /\ stage' = "overridden"
  /\ UNCHANGED <<candidates, fact, raw, outcome>>

(* applyEntityScopedDedup: a merge into a memory that shares no entity     *)
(* with the fact is stored as a fact of its own.                           *)
EntityScopedDedup ==
  /\ stage = "overridden"
  /\ \/ UNCHANGED decision
     \/ /\ Merging(decision) /\ decision.target # NoTarget
        /\ decision' = PromoteToAdd(decision)
  /\ stage' = "checked"
  /\ UNCHANGED <<candidates, fact, raw, outcome>>

(* executeDecision: what is written for a decision.                        *)
Outcome(d, cs) ==
  IF d.action = "CLARIFY" THEN "held"
  ELSE IF d.action = "NOOP"
    THEN IF d.target \in DOMAIN cs THEN "cited" ELSE "dropped"
  ELSE IF d.action = "ADD" \/ d.target \notin DOMAIN cs THEN "stored"
  ELSE IF d.action = "UPDATE"
    THEN IF d.content = "none" THEN "error" ELSE "merged"
  ELSE IF d.action = "SUPERSEDE" THEN "superseded"
  ELSE "deleted"

ExecuteDecision ==
  /\ stage = "checked"
  /\ outcome' = Outcome(decision, candidates)
  /\ stage' = "executed"
  /\ UNCHANGED <<candidates, fact, raw, decision>>

Next == ResolveAUDN \/ Override \/ EntityScopedDedup \/ ExecuteDecision

Spec == Init /\ [][Next]_vars

-----------------------------------------------------------------------------
(* Properties.                                                             *)

TypeOK ==
  /\ candidates \in Seq(Candidate) \ {<<>>}
  /\ fact \in Fact
  /\ raw \in Decision
  /\ decision \in Decision
  /\ stage \in {"searched", "answered", "overridden", "checked", "executed"}
  /\ outcome \in {"none", "held", "cited", "dropped", "stored", "merged",
                  "error", "superseded", "deleted"}

(* A fact that is not stored in its own words was compared with a memory   *)
(* similar enough that it adds nothing, and an update does not make that   *)
(* memory swallow it.                                                      *)
OnlySafeReuseMerges ==
  outcome \in {"cited", "dropped", "merged"} =>
    /\ \E i \in TargetOf(decision, candidates) : SafeReuse(candidates[i])
    /\ ~fact.transition
    /\ outcome = "merged" => decision.content = "fits"

(* A fact is dropped without leaving evidence on a memory only if the LLM  *)
(* named no memory at all.                                                 *)
DroppedOnlyUnnamed == outcome = "dropped" => raw.target = NoTarget

(* Facts that share no extracted keyword with a candidate are never merged *)
(* into a memory.  reconcileSingleMemory calls applyClarificationOverrides *)
(* without keywords: all facts of the deferred pass are such facts.        *)
KeywordlessNeverMerges ==
  stage # "answered" /\ (\A i \in DOMAIN candidates : candidates[i].keywords = 0)
    => ~Merging(decision)

(* preserveLowConfidenceClarify returns the decision as it is, so that a   *)
(* SUPERSEDE or DELETE of too low a confidence passes all other policies.  *)
PassedAsIs == LowConfidence(raw) /\ ~fact.replaces

(* resolveCriticalConflict: a critical memory that shares a word with the  *)
(* fact is never deleted, and it is replaced only by a fact that says it   *)
(* replaces it, or by what the LLM meant as a mere update.                 *)
CriticalIsProtected ==
  outcome \in {"superseded", "deleted"} /\ ~PassedAsIs =>
    LET c == candidates[decision.target] IN
    c.critical /\ c.words > 0 =>
      outcome = "superseded" /\ (fact.replaces \/ raw.action = "UPDATE")

(* detectUncertainConflict: an uncertain fact replaces or deletes a memory *)
(* only if the LLM asked for clarification and the fact says it replaces   *)
(* something.                                                              *)
UncertainIsHeld ==
  outcome \in {"superseded", "deleted"} /\ fact.uncertain /\ ~PassedAsIs =>
    raw.action = "CLARIFY" /\ fact.replaces

(* preserveRecommendationAttribution, separateStateTransition: a fact that *)
(* tells what somebody recommended or what was given up never replaces a   *)
(* memory it does not contradict.                                          *)
HearsayReplacesNothing ==
  outcome = "superseded" /\ ~PassedAsIs
    /\ (fact.recommends \/ fact.transition) =>
      ContradictsCandidate(fact, candidates[decision.target])

(* What shouldClarifyConflict asks for ("DELETE is more destructive than   *)
(* SUPERSEDE - require higher confidence"): no memory is replaced or       *)
(* deleted on a confidence below the threshold unless the fact says it     *)
(* replaces it.                                                            *)
LowConfidenceIsHeld ==
  outcome \in {"superseded", "deleted"} => fact.replaces \/ ~LowConfidence(raw)

=============================================================================
