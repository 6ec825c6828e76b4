---------------------------- MODULE ModelClients ----------------------------
(***************************************************************************)
(* How the server asks its models (embedding.ts, voyage-embedding.ts,      *)
(* llm.ts, api-retry.ts): embeddings with a cache in memory and one on     *)
(* disk, local inference in a queue, retries of rate-limited requests, and *)
(* chats that are sent once more when the provider cannot parse them.      *)
(*                                                                         *)
(* Node.js runs what stands between two awaits without interruption; one   *)
(* process uses the directory of the cache.  A process that restarts may   *)
(* come back with another configuration.                                   *)
(***************************************************************************)
EXTENDS Integers, FiniteSets, SequencesExt

CONSTANTS
  Calls,        \* calls of embedText and embedTexts
  Call,         \* texts, task and kind (single or batch) of each
  Setups,       \* provider, model, byTask and disk of a configuration
  Clients,      \* callers of llm.chat
  CacheMax,     \* EMBEDDING_CACHE_MAX
  MaxRetries,   \* MAX_RETRIES
  MaxRestarts,  \* bound: restarts of the process
  None          \* no vector yet

ASSUME BoundsAssumption ==
  /\ CacheMax \in Nat \ {0}
  /\ MaxRetries \in Nat \ {0}
ASSUME CallsAssumption ==
  \A c \in Calls :
    /\ Call[c].texts \in Seq(Range(Call[c].texts))
    /\ Call[c].kind = "single" => Len(Call[c].texts) = 1
(* Whether queries are embedded in their own way is up to the model.       *)
ASSUME SetupsAssumption ==
  \A s, t \in Setups :
    s.provider = t.provider /\ s.model = t.model => s.byTask = t.byTask

VARIABLES
  setup,     \* the configuration of the process
  cache,     \* embeddingCache in the order of its keys
  disk,      \* emb-<key>.json
  pipeline,  \* the provider, and pipelinePromise of the local model
  queue,     \* inferenceQueue: calls in front of the local model
  call,      \* the state of each call
  chat,      \* the state of each chat
  restarts

modelVars == <<setup, cache, disk, pipeline, queue, call, chat, restarts>>
embedVars == <<setup, cache, disk, pipeline, queue, call, restarts>>

InitModels(calls) ==
  /\ setup \in Setups
  /\ cache = <<>> /\ disk = {}
  /\ pipeline = "absent" /\ queue = <<>>
  /\ call = [c \in Calls |-> [pc |-> IF c \in calls THEN "new" ELSE "none",
                              under |-> setup, found |-> <<>>, tries |-> 0]]
  /\ chat = [k \in Clients |-> [state |-> "idle", tries |-> 0]]
  /\ restarts = 0

Local == setup.provider = "transformers"
Retries == setup.provider = "openai"

(* What a configuration answers: queries have a model or a prefix of their *)
(* own (effectiveModel, getInstructionPrefix), or none.                    *)
Vector(s, task, text) ==
  <<s.provider, s.model, IF s.byTask THEN task ELSE "document", text>>

KeyWithoutTask(task, text) == <<setup.provider, setup.model, text>>
EmbeddingCacheKey(task, text) ==
  <<setup.provider, setup.model, task, text>>

(* What is at the places, in its order.                                    *)
Taken(s, places) ==
  LET taken[i \in 0..Len(s)] ==
        IF i = 0 THEN <<>>
        ELSE IF i \in places THEN Append(taken[i - 1], s[i]) ELSE taken[i - 1]
  IN taken[Len(s)]

-----------------------------------------------------------------------------
(* A Map keeps the order of its insertions, and a key that is set again    *)
(* its place.                                                              *)
Held(entries, key) == {i \in DOMAIN entries : entries[i].key = key}
At(entries, key) == entries[CHOOSE i \in Held(entries, key) : TRUE]

GetCachedEmbedding(entries, key) ==
  IF Held(entries, key) = {} THEN entries
  ELSE LET i == CHOOSE i \in Held(entries, key) : TRUE
       IN Append(RemoveAt(entries, i), entries[i])

SetCachedEmbedding(entries, key, vector) ==
  LET room == IF Len(entries) >= CacheMax THEN Tail(entries) ELSE entries
      new  == [key |-> key, vector |-> vector]
  IN IF Held(room, key) = {} THEN Append(room, new)
     ELSE [i \in DOMAIN room |-> IF room[i].key = key THEN new ELSE room[i]]

Keys(c) == [i \in DOMAIN Call[c].texts |->
              EmbeddingCacheKey(Call[c].task, Call[c].texts[i])]
Missing(c) == {i \in DOMAIN call[c].found : call[c].found[i] = None}

Found(c) ==
  [i \in DOMAIN Keys(c) |-> IF Held(cache, Keys(c)[i]) = {} THEN None
                            ELSE At(cache, Keys(c)[i]).vector]

(* All that is cached moves to the end, text by text.                      *)
TouchCached(c) ==
  LET touched[i \in 0..Len(Call[c].texts)] ==
        IF i = 0 THEN cache
        ELSE GetCachedEmbedding(touched[i - 1], Keys(c)[i])
  IN touched[Len(Call[c].texts)]

(* Only these are asked for, and their vectors come in this order.         *)
UncachedIndices(c) == Taken([i \in DOMAIN call[c].found |-> i], Missing(c))

FreshEmbeddings(c) ==
  LET places == UncachedIndices(c)
  IN [j \in DOMAIN places |->
        Vector(setup, Call[c].task, Call[c].texts[places[j]])]

(* Each goes to the place of its text, and into the cache.                 *)
Results(c) ==
  LET places == UncachedIndices(c)
  IN [i \in DOMAIN call[c].found |->
        IF i \in Missing(c)
        THEN FreshEmbeddings(c)[CHOOSE j \in DOMAIN places : places[j] = i]
        ELSE call[c].found[i]]

CacheMissing(c) ==
  LET places == UncachedIndices(c)
      cached[j \in 0..Len(places)] ==
        IF j = 0 THEN cache
        ELSE SetCachedEmbedding(cached[j - 1], Keys(c)[places[j]],
                                FreshEmbeddings(c)[j])
  IN cached[Len(places)]

Answer(c, found) ==
  call' = [call EXCEPT ![c].pc = "answered", ![c].under = setup,
                       ![c].found = found]

(* embedText up to its await, embedTexts likewise: all that is cached is   *)
(* taken, and what is missing is asked for.  The first that asks creates   *)
(* the provider, and getProvider then empties the cache.                   *)
StartEmbed(c) ==
  LET found == Found(c)
      hits == TouchCached(c)
      kept == {e \in disk : /\ setup.disk /\ Call[c].kind = "single"
                            /\ e.key = Keys(c)[1]}
  IN
  /\ call[c].pc = "new"
  /\ IF \A i \in DOMAIN found : found[i] # None
     THEN /\ cache' = hits
          /\ Answer(c, found)
          /\ UNCHANGED queue
     ELSE IF kept # {}
     THEN \E e \in kept :
          /\ cache' = SetCachedEmbedding(hits, e.key, e.vector)
          /\ Answer(c, <<e.vector>>)
          /\ UNCHANGED queue
     ELSE /\ cache' = IF pipeline = "absent" THEN <<>> ELSE hits
          /\ call' = [call EXCEPT ![c].pc = "asking", ![c].under = setup,
                                  ![c].found = found]
          /\ queue' = IF Local THEN Append(queue, c) ELSE queue
  /\ pipeline' = IF pipeline = "absent" /\ call'[c].pc = "asking"
                 THEN "none" ELSE pipeline
  /\ UNCHANGED <<setup, disk, chat, restarts>>

(* TransformersEmbedding: one inference at a time, in the order of the     *)
(* calls.  A pipeline that could not be loaded stays broken.               *)
LoadPipeline ==
  /\ Local /\ queue # <<>> /\ pipeline = "none"
  /\ pipeline' \in {"ready", "broken"}
  /\ UNCHANGED <<setup, cache, disk, queue, call, chat, restarts>>

Turn(c) ==
  /\ call[c].pc = "asking"
  /\ Local => Head(queue) = c /\ pipeline # "none"

Served == queue' = IF Local THEN Tail(queue) ELSE queue

AnswerEmbed(c) ==
  LET vectors == Results(c)
      entry == [key |-> Keys(c)[1], vector |-> vectors[1]]
  IN
  /\ Turn(c) /\ pipeline # "broken"
  /\ cache' = CacheMissing(c)
  /\ disk' = IF setup.disk /\ Call[c].kind = "single"
             THEN {e \in disk : e.key # entry.key} \cup {entry} ELSE disk
  /\ Answer(c, vectors)
  /\ Served
  /\ UNCHANGED <<setup, pipeline, chat, restarts>>

(* retryOnRateLimit: only the clients of OpenAI's interface use it.        *)
RateLimitEmbed(c) ==
  /\ Turn(c) /\ Retries
  /\ call' = [call EXCEPT ![c].tries = @ + 1,
                          ![c].pc = IF call[c].tries + 1 = MaxRetries
                                    THEN "failed" ELSE "asking"]
  /\ UNCHANGED <<setup, cache, disk, pipeline, queue, chat, restarts>>

ErrorStopsQueue(c) ==
  /\ Turn(c)
  /\ call' = [call EXCEPT ![c].pc = "failed"]
  /\ UNCHANGED <<setup, cache, disk, pipeline, queue, chat, restarts>>
(* Any other error, a timeout included, ends this call and no other.       *)
FailEmbed(c) ==
  /\ Turn(c)
  /\ call' = [call EXCEPT ![c].pc = "failed"]
  /\ Served
  /\ UNCHANGED <<setup, cache, disk, pipeline, chat, restarts>>

EmbedStep(c) == AnswerEmbed(c) \/ RateLimitEmbed(c) \/ FailEmbed(c)

-----------------------------------------------------------------------------
(* llm.chat.  Chats of other requests are independent of each other.       *)
Chatting(k) == chat[k].state \in {"plain", "sanitized"}
Chat(k, state, tries) ==
  /\ chat' = [chat EXCEPT ![k] = [state |-> state, tries |-> tries]]
  /\ UNCHANGED embedVars

AnswerChat(k) == Chatting(k) /\ Chat(k, "answered", 0)

RateLimitChat(k) ==
  /\ Chatting(k)
  /\ IF chat[k].tries + 1 = MaxRetries THEN Chat(k, "failed", 0)
     ELSE Chat(k, chat[k].state, chat[k].tries + 1)

(* "could not parse the JSON body of your request": once more, with all    *)
(* unusual characters taken out.                                           *)
RejectBody(k) ==
  /\ Chatting(k)
  /\ Chat(k, IF chat[k].state = "plain" THEN "sanitized" ELSE "failed", 0)

FailChat(k) == Chatting(k) /\ Chat(k, "failed", 0)

ChatStep(k) ==
  AnswerChat(k) \/ RateLimitChat(k) \/ RejectBody(k) \/ FailChat(k)

-----------------------------------------------------------------------------
(* The process dies; what it held in memory is lost, calls included.       *)
RestartProcess ==
  /\ restarts < MaxRestarts
  /\ restarts' = restarts + 1
  /\ setup' \in Setups
  /\ cache' = <<>> /\ queue' = <<>> /\ pipeline' = "absent"
  /\ call' = [c \in Calls |-> IF call[c].pc = "asking"
                              THEN [call[c] EXCEPT !.pc = "lost"]
                              ELSE call[c]]
  /\ chat' = [k \in Clients |-> [state |-> IF chat[k].state = "idle"
                                           THEN "idle" ELSE "lost",
                                 tries |-> 0]]
  /\ UNCHANGED disk

NextModels ==
  \/ \E c \in Calls : StartEmbed(c) \/ EmbedStep(c)
  \/ LoadPipeline
  \/ \E k \in Clients : ChatStep(k)

(* Providers answer or time out, and so does the local model.              *)
FairModels ==
  /\ \A c \in Calls : WF_modelVars(EmbedStep(c))
  /\ WF_modelVars(LoadPipeline)

-----------------------------------------------------------------------------
(* Whatever was cached, by whom and under which configuration, a call gets *)
(* for each of its texts the vector of this text, task and model.          *)
AnswersBelongToTheirCall ==
  \A c \in Calls : call[c].pc = "answered" =>
    call[c].found =
      [i \in DOMAIN Call[c].texts |->
         Vector(call[c].under, Call[c].task, Call[c].texts[i])]

(* Every call that was begun ends, though others before it in the queue of *)
(* the local model fail.                                                   *)
EveryCallEnds ==
  \A c \in Calls : call[c].pc = "asking" ~> call[c].pc # "asking"

=============================================================================
