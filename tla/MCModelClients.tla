--------------------------- MODULE MCModelClients ---------------------------
(* Model-checking instance of ModelAnswers.                                *)
EXTENDS ModelAnswers, TLC

CONSTANTS c1, c2, c3, x1, x2, s1, s2, a, b

MCCalls == {c1, c2, c3}
MCCall ==
  c1 :> [kind |-> "single", task |-> "document", texts |-> <<a>>]
    @@ c2 :> [kind |-> "single", task |-> "query", texts |-> <<a>>]
    @@ c3 :> [kind |-> "batch", task |-> "document", texts |-> <<a, b, a>>]

MCSetups ==
  {[provider |-> "openai", model |-> "m", byTask |-> TRUE, disk |-> TRUE],
   [provider |-> "transformers", model |-> "m", byTask |-> FALSE,
    disk |-> FALSE]}
    \cup [provider : {"voyage"}, model : {"m", "n"}, byTask : {TRUE},
          disk : {TRUE}]

MCClients == {x1, x2, s1, s2}
MCExtractions == {x1, x2}

Turns(n) == [i \in 1..n |-> "turn"]

(* Two turns, the second behind a line that is none and, maybe, blanks.    *)
Mixed == {<<"turn", "other", "turn">>, <<"turn", "other", "indented">>}

(* Every size and overlap for the chunks, the other modes for one size.    *)
MCJobs ==
  [mode : {"chunked"}, lines : {Turns(n) : n \in 1..5}, size : 0..3,
   overlap : 0..3, runs : {1}, cached : {FALSE}, quotes : {<<>>}]
    \cup [mode : {"chunked"}, lines : Mixed, size : {1}, overlap : {1},
          runs : {1}, cached : {FALSE}, quotes : {<<>>, <<2>>}]
    \cup [mode : {"fallback"}, lines : {Turns(2)} \cup Mixed, size : {1},
          overlap : {1}, runs : {1}, cached : {TRUE}, quotes : {<<>>}]
    \cup [mode : {"single"}, lines : {Turns(3)}, size : {2}, overlap : {1},
          runs : {1}, cached : {TRUE}, quotes : {<<>>, <<1>>}]
    \cup [mode : {"consensus", "union"}, lines : {Turns(3)}, size : {2},
          overlap : {1}, runs : {2, 3}, cached : {TRUE}, quotes : {<<>>}]

(* 1 and 3 are each like 2 and not like each other.                        *)
MCSaid == <<1, 2, 3>>
MCImportance == <<4, 5, 5>>
MCAlike == {<<1, 2>>, <<2, 3>>}

MCScans == {s1, s2}
MCMemoryOf == <<"m1", "m2", "m1", "m3">>
MCReplies == {<<9>>, <<3, 1>>, <<4, 2, 1>>, <<3, 3, 4>>}

(* Who meets in one behaviour.                                             *)
MCMeetings ==
  {[calls |-> {c1, c2, c3}, extractions |-> {}, scans |-> {}],
   [calls |-> {}, extractions |-> {x1}, scans |-> {}],
   [calls |-> {}, extractions |-> {x1, x2}, scans |-> {}],
   [calls |-> {}, extractions |-> {}, scans |-> {s1, s2}]}

(* One configuration is enough for chats, and two extractions are about    *)
(* the cache they share.                                                   *)
MCInit ==
  /\ Init
  /\ (\A c \in Calls : call[c].pc = "none") =>
       setup.provider = "transformers"
  /\ (\A x \in Extractions : extract[x].pc = "new") =>
       \A x \in Extractions : Goal(x).mode \in {"single", "fallback"}

MCSpec == MCInit /\ [][Next]_vars /\ FairModels

=============================================================================
