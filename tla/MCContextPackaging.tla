------------------------- MODULE MCContextPackaging -------------------------
(***************************************************************************)
(* Four rows about Ada and Bo: a statement of Ada's and an echo with the   *)
(* same print, a former state, and a composite of it and a row that is     *)
(* not found.                                                              *)
(***************************************************************************)
EXTENDS ContextPackaging

MCRow ==
  [ada |->
     [print |-> "pet", similarity |-> 700, words |-> {"Ada", "cat", "name"},
      signs |-> {"named", "pets", "current"}, months |-> {},
      created |-> 3, length |-> 160, members |-> {}, answer |-> 1,
      episode |-> "e1", namespace |-> "home",
      cost |-> [L0 |-> 1, L1 |-> 3, L2 |-> 4],
      shown |-> [L0 |-> {"Ada"}, L1 |-> {"Ada", "cat"},
                 L2 |-> {"Ada", "cat", "name"}]],
   echo |->
     [print |-> "pet", similarity |-> 500, words |-> {"Ada", "cat"},
      signs |-> {"planning", "pets"}, months |-> {"may"},
      created |-> 2, length |-> 40, members |-> {}, answer |-> 2,
      episode |-> "e2", namespace |-> "home",
      cost |-> [L0 |-> 2, L1 |-> 1, L2 |-> 1],
      shown |-> [L0 |-> {}, L1 |-> {"cat"}, L2 |-> {"Ada", "cat"}]],
   former |->
     [print |-> "job", similarity |-> 250, words |-> {"Bo", "bank"},
      signs |-> {"former", "transition", "attendance"}, months |-> {"may"},
      created |-> 1, length |-> 90, members |-> {}, answer |-> 3,
      episode |-> "e1", namespace |-> "work",
      cost |-> [L0 |-> 1, L1 |-> 2, L2 |-> 5],
      shown |-> [L0 |-> {"Bo"}, L1 |-> {"Bo"}, L2 |-> {"Bo", "bank"}]],
   whole |->
     [print |-> "both", similarity |-> 880, words |-> {"Ada", "Bo", "cat"},
      signs |-> {"quoted", "music"}, months |-> {},
      created |-> 2, length |-> 400, members |-> {"former", "gone"},
      answer |-> 2, episode |-> "e2", namespace |-> "home",
      cost |-> [L0 |-> 2, L1 |-> 4, L2 |-> 9],
      shown |-> [L0 |-> {"Ada"}, L1 |-> {"Ada", "Bo"},
                 L2 |-> {"Ada", "Bo", "cat"}]]]
MCIds == DOMAIN MCRow

MCSimilar ==
  [a \in MCIds |-> [b \in MCIds |->
     CASE a = b -> 1000
       [] {a, b} = {"ada", "echo"} -> 900
       [] {a, b} = {"echo", "former"} -> -100
       [] OTHER -> 300]]

Plain ==
  [label |-> "simple", tense |-> "plain", words |-> {"cat"}, subjects |-> {},
   wants |-> {}, literal |-> FALSE, event |-> FALSE, months |-> {},
   ordering |-> FALSE, complexWords |-> FALSE, asOf |-> FALSE,
   site |-> FALSE, limit |-> 2, threshold |-> -1, broad |-> FALSE,
   direct |-> FALSE, abstract |-> FALSE, mmr |-> TRUE]

MCQuestions ==
  {[Plain EXCEPT !.direct = TRUE],
   [Plain EXCEPT !.site = TRUE, !.words = {"Bo", "cat"}],
   [Plain EXCEPT !.site = TRUE, !.words = {"Bo", "cat"}, !.limit = 3],
   [Plain EXCEPT !.label = "complex", !.complexWords = TRUE, !.abstract = TRUE,
      !.limit = 3, !.words = {"cat", "Ada", "Bo"}, !.subjects = {"Ada"}, !.event = TRUE],
   [Plain EXCEPT !.tense = "now", !.limit = 0, !.threshold = 400,
      !.wants = {"pets", "music", "seen", "names"}, !.literal = TRUE,
      !.words = {"cat", "name"}],
   [Plain EXCEPT !.tense = "past", !.label = "aggregation", !.limit = 3, !.mmr = FALSE,
      !.words = {"Bo", "bank"}, !.subjects = {"Bo"}, !.months = {"may"}]}

MCSettings ==
  [order |-> <<"echo", "ada", "former", "whole">>, names |-> {"Ada", "Bo"},
   maxSearchResults |-> 3, rerankDepth |-> 3, adaptive |-> TRUE,
   limits |-> [simple |-> 2, medium |-> 2, complex |-> 3, aggregation |-> 4],
   repair |-> TRUE, repairLoopMinSimilarity |-> 800,
   repairDeltaThreshold |-> 0, repairConfidenceFloor |-> 0,
   repairPrimaryWeight |-> 100, repairRewriteWeight |-> 92,
   crossEncoder |-> TRUE, answers |-> {0, 1000},
   rerankSkipTopSimilarity |-> 850, rerankSkipMinGap |-> 50,
   literalMax |-> 2, temporalBoost |-> 1000,
   rankingMinSimilarity |-> 300, similarityThreshold |-> 350,
   lambda |-> 70, maxAnchors |-> 2]

MCScores == {300, 900}
MCBudgets == {0, 6, 12}

=============================================================================
