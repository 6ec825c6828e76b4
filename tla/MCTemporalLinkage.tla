-------------------------- MODULE MCTemporalLinkage --------------------------
(* Model-checking instance of TemporalLinkage.                             *)
EXTENDS TemporalLinkage

CONSTANTS m1, m2, m3, m4, e1, e2, chat, mail

(* All memories mention e1, two of them e2 too.                            *)
MCMentions ==
  [m \in Memories |-> IF m \in {m1, m3} THEN {e1, e2} ELSE {e1}]

MCSource == [m \in Memories |-> IF m \in {m1, m2} THEN chat ELSE mail]

=============================================================================
