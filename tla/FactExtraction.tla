--------------------------- MODULE FactExtraction ---------------------------
(***************************************************************************)
(* From a conversation to its facts (consensus-extraction.ts,              *)
(* chunked-extraction.ts, extraction-cache.ts): one prompt, one for each   *)
(* chunk of its turns, or several runs of the same prompt, and what is     *)
(* kept of all the answers.  A conversation is a list of lines, blank ones *)
(* and the header left out, and a prompt is a set of them; what the model  *)
(* finds in it is any part of what was said in those lines.                *)
(***************************************************************************)
EXTENDS ModelClients

CONSTANTS
  Extractions,  \* extractions, which are clients of llm.chat
  Jobs,         \* conversations, and how facts are extracted from each
  Said,         \* line of each fact, in the order of the lines
  Importance,   \* importance of each fact
  Alike         \* pairs of different facts above the threshold

(* "Speaker:" at the beginning of a line, behind blanks, or neither: more  *)
(* text of the turn before, or a speaker like "Mary-Ann" or "Dr. Chen".    *)
LineKinds == {"turn", "indented", "other"}

(* quotes are the facts that the rules of quoted-entity-extraction.ts find *)
(* in the text, none when they are switched off.                           *)
ExtractionJob ==
  [mode : {"single", "chunked", "fallback", "consensus", "union"},
   lines : Seq(LineKinds), size : Nat, overlap : Nat, runs : Nat \ {0},
   cached : BOOLEAN, quotes : Seq(DOMAIN Said)]

(* Nothing checks CHUNK_SIZE_TURNS, CHUNK_OVERLAP_TURNS and the number of  *)
(* runs (config.ts:338-341): that size and overlap are not negative and    *)
(* that there is a run is assumed.                                         *)
ASSUME JobsAssumption == Jobs \subseteq ExtractionJob
ASSUME SaidAssumption == Said \in Seq(Nat)

VARIABLES
  extract,   \* the state of each extraction
  answers    \* extract-<key>.json: answers by prompt

extractVars == <<extract, answers>>

InitExtraction(active) ==
  /\ \E job \in [active -> Jobs] :
       extract = [x \in Extractions |->
                    [pc |-> IF x \in active THEN "new" ELSE "none",
                     job |-> IF x \in active THEN job[x] ELSE None,
                     prompts |-> <<>>, heard |-> <<>>, kept |-> <<>>]]
  /\ answers = {}

Similar(f, g) == f = g \/ <<f, g>> \in Alike \/ <<g, f>> \in Alike

Greater(a, b) == IF a >= b THEN a ELSE b

-----------------------------------------------------------------------------
(* Windows of turns that overlap; the loop ends with the first window that *)
(* reaches the last turn.  Of a conversation that is not cut into chunks   *)
(* every line is in the prompt, of one that is the lines of turns.         *)
Whole(job) == DOMAIN job.lines

TurnLines(job) == {i \in DOMAIN job.lines : job.lines[i] = "turn"}
TurnNumber(job, i) == Cardinality({h \in TurnLines(job) : h <= i})

ChunkConversation(job) ==
  LET turns == Cardinality(TurnLines(job))
      step == Greater(1, job.size - job.overlap)
      Ends(n) == (n - 1) * step + job.size >= turns
      last == CHOOSE n \in 1..turns : Ends(n) /\ \A k \in 1..(n - 1) : ~Ends(k)
      Window(n) == ((n - 1) * step + 1)..((n - 1) * step + job.size)
  IN IF turns <= job.size \/ job.size = 0 THEN <<Whole(job)>>
     ELSE [n \in 1..last |->
             {i \in TurnLines(job) : TurnNumber(job, i) \in Window(n)}]

(* Both loops of markDuplicates and deduplicateFacts: what is in is        *)
(* compared with everything after it, and one of two that are alike loses. *)
Compared(facts, loser, in, i) ==
  LET left[j \in 0..Len(facts)] ==
        IF j = 0 THEN in
        ELSE IF /\ i < j /\ {i, j} \subseteq left[j - 1]
                /\ Similar(facts[i], facts[j])
        THEN left[j - 1] \ {loser[i][j]} ELSE left[j - 1]
  IN left[Len(facts)]

Remaining(facts, loser) ==
  LET left[i \in 0..Len(facts)] ==
        IF i = 0 THEN DOMAIN facts ELSE Compared(facts, loser, left[i - 1], i)
  IN left[Len(facts)]

DropOutranked(facts) ==
  Taken(facts, {i \in DOMAIN facts : ~\E j \in DOMAIN facts \ {i} :
     /\ Similar(facts[i], facts[j])
     /\ Importance[facts[j]] >= Importance[facts[i]]})
MarkDuplicates(facts) ==
  Taken(facts, Remaining(facts, [i \in DOMAIN facts |-> [j \in DOMAIN facts |->
    IF Importance[facts[j]] > Importance[facts[i]] THEN i ELSE j]]))

DeduplicateFacts(facts) ==
  Taken(facts, Remaining(facts,
    [i \in DOMAIN facts |-> [j \in DOMAIN facts |-> j]]))

(* Of the first run, what at least half of the runs have found.            *)
FilterByMajorityVote(runs) ==
  Taken(runs[1], {i \in DOMAIN runs[1] :
    2 * Cardinality({r \in DOMAIN runs :
          \E k \in DOMAIN runs[r] : Similar(runs[1][i], runs[r][k])})
      >= Len(runs)})

(* Facts by rule come on top, unless they were extracted word for word.    *)
MergeQuotedEntityFacts(facts, quotes) ==
  facts \o Taken(quotes, {i \in DOMAIN quotes :
                            quotes[i] \notin ToSet(facts)})

-----------------------------------------------------------------------------
Goal(x) == extract[x].job
Again(x) == Goal(x).mode \in {"consensus", "union"}

(* consensusExtractFacts: which prompts there are.                         *)
StartExtraction(x) ==
  /\ extract[x].pc = "new"
  /\ extract' = [extract EXCEPT ![x].pc = "next", ![x].prompts =
       IF Again(x) THEN [n \in 1..Goal(x).runs |-> Whole(Goal(x))]
       ELSE IF Goal(x).mode = "chunked" THEN ChunkConversation(Goal(x))
       ELSE <<Whole(Goal(x))>>]
  /\ UNCHANGED <<modelVars, answers>>

Left(x) == Len(extract[x].heard) < Len(extract[x].prompts)
Prompt(x) == extract[x].prompts[Len(extract[x].heard) + 1]

(* The cache is asked by prompt; runs that vote never use it.              *)
Known(x) ==
  {a \in answers : /\ Goal(x).cached /\ ~Again(x)
                   /\ a.lines = Goal(x).lines /\ a.prompt = Prompt(x)}

ReadCache(x) ==
  /\ extract[x].pc = "next" /\ Left(x)
  /\ \E a \in Known(x) :
       extract' = [extract EXCEPT ![x].heard = Append(@, a.facts)]
  /\ UNCHANGED <<modelVars, answers>>

AskModel(x) ==
  /\ extract[x].pc = "next" /\ Left(x) /\ Known(x) = {}
  /\ extract' = [extract EXCEPT ![x].pc = "asking"]
  /\ Chat(x, "plain", 0)
  /\ UNCHANGED answers

(* extractFacts: what was said in the lines of the prompt, or some of it,  *)
(* or nothing when the answer cannot be parsed.                            *)
Hearable(prompt) ==
  {Taken([f \in DOMAIN Said |-> f], F) :
     F \in SUBSET {f \in DOMAIN Said : Said[f] \in prompt}}

CachedExtractFacts(x) ==
  /\ extract[x].pc = "asking" /\ chat[x].state = "answered"
  /\ \E facts \in Hearable(Prompt(x)) :
       /\ extract' = [extract EXCEPT ![x].pc = "next",
                                     ![x].heard = Append(@, facts)]
       /\ answers' =
            IF Goal(x).cached /\ ~Again(x)
            THEN {a \in answers : \/ a.lines # Goal(x).lines
                                  \/ a.prompt # Prompt(x)}
                   \cup {[lines |-> Goal(x).lines, prompt |-> Prompt(x),
                          facts |-> facts]}
            ELSE answers
  /\ Chat(x, "idle", 0)

(* shouldUseChunkedFallback: nothing was found in a long conversation.     *)
(* Here turns behind blanks count.                                         *)
FallBack(x) ==
  /\ Goal(x).mode = "fallback"
  /\ extract[x].heard = <<<<>>>>
  /\ Cardinality({i \in DOMAIN Goal(x).lines :
                    Goal(x).lines[i] \in {"turn", "indented"}})
       > Goal(x).size

ChunkedFallback(x) ==
  /\ extract[x].pc = "next" /\ ~Left(x) /\ FallBack(x)
  /\ extract' = [extract EXCEPT ![x].job.mode = "chunked",
                                ![x].prompts = ChunkConversation(Goal(x)),
                                ![x].heard = <<>>]
  /\ UNCHANGED <<modelVars, answers>>

AllHeard(x) == FlattenSeq(extract[x].heard)

Agreed(x) ==
  CASE Goal(x).mode = "consensus" -> FilterByMajorityVote(extract[x].heard)
    [] Goal(x).mode = "union" -> DeduplicateFacts(AllHeard(x))
    [] OTHER -> IF Len(extract[x].heard) > 1 THEN MarkDuplicates(AllHeard(x))
                ELSE extract[x].heard[1]

Kept(x) == MergeQuotedEntityFacts(Agreed(x), Goal(x).quotes)

ConsensusExtractFacts(x) ==
  /\ extract[x].pc = "next" /\ ~Left(x) /\ ~FallBack(x)
  /\ extract' = [extract EXCEPT ![x].pc = "done", ![x].kept = Kept(x)]
  /\ UNCHANGED <<modelVars, answers>>

(* Facts are compared by their embeddings.                                 *)
Compares(x) ==
  IF Goal(x).mode = "consensus" THEN extract[x].heard[1] # <<>>
  ELSE /\ Goal(x).mode = "union" \/ Len(extract[x].heard) > 1
       /\ Len(AllHeard(x)) > 1

(* A chat or an embedding that fails ends the extraction, and the ingest   *)
(* with it.                                                                *)
FailExtraction(x) ==
  /\ \/ /\ extract[x].pc = "asking" /\ chat[x].state = "failed"
        /\ Chat(x, "idle", 0)
     \/ /\ extract[x].pc = "next" /\ ~Left(x) /\ ~FallBack(x) /\ Compares(x)
        /\ UNCHANGED modelVars
  /\ extract' = [extract EXCEPT ![x].pc = "failed"]
  /\ UNCHANGED answers

NextExtraction ==
  \E x \in Extractions :
    \/ StartExtraction(x) \/ ReadCache(x) \/ AskModel(x)
    \/ CachedExtractFacts(x) \/ ChunkedFallback(x)
    \/ ConsensusExtractFacts(x) \/ FailExtraction(x)

-----------------------------------------------------------------------------
(* No fact is like one in T and not in it.                                 *)
Closed(T, facts) == \A f \in facts, g \in T : Similar(f, g) => f \in T

(* Every line is in a prompt, unless chunks are made: they leave out no    *)
(* line that chunkConversation takes for a turn (and every other one: the  *)
(* second line of a turn, "Mary-Ann: ...").  Nothing is kept that neither  *)
(* an answer nor the rule for quoted entities names, and what the rule     *)
(* names is kept.  Of every fact that some answer names, it or what it was *)
(* a duplicate of, if need be by way of others, is kept.  Only a vote      *)
(* gives facts up.                                                         *)
EveryTurnIsHeard ==
  \A x \in Extractions : extract[x].pc = "done" =>
    LET prompts == extract[x].prompts
        heard == ToSet(AllHeard(x))
        quotes == ToSet(Goal(x).quotes)
        kept == ToSet(extract[x].kept) IN
    /\ \A i \in DOMAIN Goal(x).lines :
         i \in TurnLines(Goal(x)) \/ Len(prompts) = 1 \/ Again(x)
         => \E p \in ToSet(prompts) : i \in p
    /\ quotes \subseteq kept /\ kept \subseteq heard \cup quotes
    /\ Goal(x).mode # "consensus" =>
         \A T \in SUBSET heard :
           kept \cap heard \subseteq T /\ Closed(T, heard) => T = heard

=============================================================================
