---------------------------- MODULE ModelAnswers ----------------------------
(***************************************************************************)
(* What asks the models, in one process: calls for embeddings, extractions *)
(* and scans for first mentions.                                           *)
(***************************************************************************)
EXTENDS FactExtraction, FirstMentions

CONSTANT Meetings  \* bound: calls, extractions and scans of a behaviour

vars == <<modelVars, extractVars, mentionVars>>

Init == \E met \in Meetings :
  /\ InitModels(met.calls)
  /\ InitExtraction(met.extractions)
  /\ InitMentions(met.scans)

(* What was being extracted or scanned for is gone with the process.       *)
Restart ==
  /\ RestartProcess
  /\ extract' = [x \in Extractions |->
       IF extract[x].pc \in {"next", "asking"}
       THEN [extract[x] EXCEPT !.pc = "failed"] ELSE extract[x]]
  /\ scan' = [s \in Scans |->
       IF scan[s].pc \in {"asking", "store"}
       THEN [scan[s] EXCEPT !.pc = "failed"] ELSE scan[s]]
  /\ UNCHANGED <<answers, mentions, deleted>>

Next ==
  \/ NextModels /\ UNCHANGED <<extractVars, mentionVars>>
  \/ NextExtraction /\ UNCHANGED mentionVars
  \/ NextMentions /\ UNCHANGED extractVars
  \/ Restart

Spec == Init /\ [][Next]_vars
FairSpec == Spec /\ FairModels

=============================================================================
