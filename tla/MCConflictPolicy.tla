-------------------------- MODULE MCConflictPolicy --------------------------
(* Model-checking instance of ConflictPolicy.                              *)
EXTENDS ConflictPolicy, FiniteSets

Plain ==
  [critical |-> FALSE, words |-> 1, keywords |-> 0, negated |-> FALSE,
   risk |-> FALSE, similarity |-> "low"]

(* One candidate of every kind the policies tell apart.                    *)
Kinds ==
  { Plain,
    [Plain EXCEPT !.negated = TRUE],
    [Plain EXCEPT !.similarity = "safe", !.keywords = 2],
    [Plain EXCEPT !.similarity = "near", !.keywords = 1, !.words = 2],
    [Plain EXCEPT !.critical = TRUE, !.similarity = "near"],
    [Plain EXCEPT !.critical = TRUE, !.negated = TRUE],
    [Plain EXCEPT !.critical = TRUE, !.risk = TRUE, !.words = 2] }

MCCandidates == UNION {[1..n -> Kinds] : n \in 1..2}

(* Facts that pass at most two of the tests on their text.                 *)
MCFacts ==
  {f \in Fact : Cardinality({a \in DOMAIN f : f[a]}) <= 2}

(* Answers that name one of two candidates, none, or an unknown one; only  *)
(* UPDATE comes with content.                                              *)
MCAnswers ==
  {d \in [action: Actions, target: 0..3, content: {"none", "fits", "grows"},
          confidence: {"none", "low", "middle", "high"}] :
     d.action # "UPDATE" => d.content = "none"}

=============================================================================
