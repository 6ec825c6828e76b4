# A TLA+ model of AtomicMemory Core

AtomicMemory Core (`src/`) is a memory server for LLM agents: conversations come
in over HTTP, an LLM extracts facts, every fact is compared with the memories
already stored and is added, merged, superseded, deleted or ignored (AUDN), and
searches are answered from PostgreSQL with pgvector. This directory holds TLA+
modules that model the parts of the server where the *order* of database
statements, LLM calls and requests matters, TLC configurations that check them,
and TLAPS proofs. Paths below are relative to `src/`.

Every definition was written from the code, not from the documents about it;
`PROJECT.json` ("map") names the lines of code each definition stands for.

## The system

One Node.js process (several, in a deployment) serves requests concurrently.
**There are almost no transactions and no locks**: a repository call is one
auto-committed statement on a connection pool, so a service function that makes
five calls can be interleaved with, or abandoned, between any two of them. The
exceptions are `deleteBySource` and the TLL append, which takes an advisory lock.

| Component | State | Operations | What is hard | What makes it correct |
|---|---|---|---|---|
| Claim lineage and AUDN mutations (`services/memory-audn.ts`, `memory-lineage.ts`, `memory-storage.ts`, `db/repository-claims.ts`, `repository-write.ts`, `repository-representations.ts`) | `memories`, `memory_claims`, `memory_claim_versions`, `memory_evidence`, `canonical_memory_objects`, `memory_atomic_facts` | add, update, supersede, delete, noop, clarify, backfill, verbatim, DELETE, archive | 7-13 unprotected statements per mutation; ids read early and written through late; crashes half way | pointers stay in their claim; chains acyclic and complete; old and new fact never both served; tables agree |
| Conflict policy (`services/conflict-policy.ts`) | none (pure) | seven ordered overrides of the LLM's decision, then the atomic-fact rule | order of the policies; which candidate each looks at | critical conflicts are held for clarification; no merge without safe reuse |
| Deferred AUDN (`services/deferred-audn.ts`, `db/repository-deferred-audn.ts`) | `memories.deferred_audn`, `audn_candidates` | store and mark, reconcile a batch | a pass works on a snapshot while requests go on; two passes at once; a memory that always fails | nothing is lost to two passes; every marked memory is eventually reconciled |
| Ingest pipeline (`services/memory-ingest.ts`, `ingest-fact-pipeline.ts`, `ingest-post-write.ts`, `entropy-gate.ts`, `composite-grouping.ts`, write security) | per-request batch: superseded targets, entropy context, stored facts | full, quick, verbatim and workspace ingest; backdate, links, composites | fails between any two steps, is sent again over what it stored; overlaps with other ingests | what a row says word for word is not stored again by a retry; a conversation has its own date |
| Entity graph and slots (`db/repository-entities.ts`, `services/claim-slotting.ts`, `memory-storage.ts`) | `entities`, `memory_entities`, `entity_relations`, slots of claims | resolve or create, merge alias, relate, slot, backfill | check-then-insert without a unique constraint | one entity per name and type unless two ingests raced; a slot is about what its memory mentions |
| Consolidation, lifecycle, reset (`services/consolidation-service.ts`, `affinity-clustering.ts`, `memory-lifecycle.ts`, `memory-crud.ts`) | memories and their claims | cluster, synthesise, archive members; decay; reset of a source; DELETE | members change while the LLM writes; crash between store and archive | no fact in neither the summary nor a member |
| Opinions (`services/memory-network.ts`) | `memories.opinion_confidence` | reinforce, weaken, contradict | read-modify-write | no opinion is given up without a request for clarification |
| Temporal linkage list (`db/repository-tll.ts`, `services/tll-*.ts`) | `temporal_linkage_list` | append (locked), chain, event chains; cascades of hard deletes | appends nobody waits for, deletions in between | positions unique, predecessors one line, no lock left behind |
| Search and retrieval (`services/memory-search.ts`, `search-pipeline.ts`, `db/repository-vector-search.ts`, `repository-links.ts`, `ppr.ts`, expansions) | none: the pool of one request | a dozen reads and cuts, one after the other | each read sees another state of the table; links, entities and chains know no borders | what was gone, of others, or out of scope is in no answer |
| Ranking (`search-pipeline.ts`, `mmr`, `temporal-result-protection.ts`, ...) | none (pure) | rerank, boost, protect, select | every stage rescales the scores of the stages before | what a stage protects, no later one drops for something else |
| Context packaging (`services/retrieval-format.ts`, `tiered-loading.ts`, `composite-dedup.ts`, `query-term-visibility.ts`) | none (pure) | deduplicate, order, tiers, estimate | promotions one by one under one budget | budget kept; no word of the question withheld that there was room for |
| Embedding and LLM clients (`services/embedding.ts`, `llm.ts`, `api-retry.ts`) | cache in memory, cache on disk, queue of the local model | embed, chat, retry, sanitize and try again | keys of caches over restarts; a failure in a queue | the answer of the text, task and model that were asked |
| Fact extraction (`services/chunked-extraction.ts`, `consensus-extraction.ts`, `extraction-cache.ts`) | cache of answers | chunks, repeated runs, votes, duplicates, fallback | windows, lines that are no turns, duplicates that are not transitive | no line that counts as a turn and no fact but by a vote gets lost |
| First mentions (`services/first-mention-service.ts`, `db/repository-first-mentions.ts`) | `first_mention_events` | scan, store, list | repeated and overlapping scans, deletions | the earliest mention stands |
| Links (`db/repository-links.ts`) | `memory_links` | create, expand | - | one row per unordered pair |
| Lessons (`services/lesson-service.ts`) | `lessons` | record, match | - | a recorded lesson blocks what it was learnt from |
| Agent trust and conflicts (`db/agent-trust-repository.ts`) | `agent_trust`, `memory_conflicts` | set and look up trust | - | ratings of users stay apart (they do not, see the findings) |
| Observation network (`services/observation-service.ts`) | `observation_dirty` | mark dirty, regenerate, clear | nothing outside the tests constructs the service | not reachable in the server |
| HTTP, schemas, configuration, migrations (`routes/`, `schemas/`, `app/`, `config.ts`, `db/migrate.ts`) | - | - | pure I/O | not modelled |

Calls go from the routes to `MemoryService`, from there to the ingest pipeline,
the search pipeline or the CRUD functions, from the ingest pipeline to the AUDN
functions, and from these to the repositories. Components share state through the
`memories` table only: lineage, deferred reconciliation, consolidation, opinions,
the temporal list, links and every read of a search use rows of it, each under its
own assumptions about the others. The hazards this leads to are listed in
`PROJECT.json`, each at its line, with the properties that would notice them.

## Modules

| Module | Models | Extends |
|---|---|---|
| `ClaimLineage` | every AUDN mutation as the list of statements it runs, interleaved and abandoned | - |
| `ClaimHistory` | what claim versioning promises: a line of versions that only grows, and ends for good | - |
| `ClaimLineageHistory` | the refinement mapping from `ClaimLineage` to `ClaimHistory` | both |
| `ClaimLineageInvariant` | the inductive invariant for requests that overlap | `ClaimLineage` |
| `ClaimLineageSerial` | the inductive invariants for one request at a time: after crashes (`SInv`), of histories (`HistoryInv`), as long as none has died (`ClaimsInv`, `CmosInv`) | `ClaimLineageInvariant`, `ClaimLineageHistory` |
| `ClaimLineageProofs`, `ClaimLineageUndisturbedProofs` | theorems and proofs: for requests that overlap, then what holds after crashes one at a time and the refinement of `ClaimHistory`; what holds as long as none has died | `ClaimLineageSerial` |
| `ConflictPolicy` | what becomes of the LLM's decision: policies, entity check, execution | - |
| `DeferredAudn`, `DeferredAudnProofs` | facts stored at once, and the passes that decide about them later | - |
| `TemporalLinkage` | the chains of memories that mention an entity | - |
| `IngestBatch` | one ingest request from its facts to its composites, several on one table | - |
| `IngestProofs` | theorems and proofs of the policies, the chains and the requests, which share no state | `ConflictPolicy`, `TemporalLinkage`, `IngestBatch` |
| `EntityGraph` | entities, relations and slots of what ingests store | - |
| `MemoryUpkeep`, `MemoryUpkeepProofs` | consolidation, decay, reset, deletion, update in place and opinions beside those ingests | `EntityGraph` |
| `MemoryReads` | what each statement of the search services may return | - |
| `MemorySearch`, `MemorySearchProofs` | the stages of a search against a table that changes | `MemoryReads` |
| `SearchRanking` | the scores of the pool, stage by stage | - |
| `ContextPackaging`, `ContextPackagingProofs` | what the selected rows become; the theorems of both | `SearchRanking` |
| `ModelClients` | embeddings, chats, their caches, queue and retries | - |
| `FactExtraction`, `FirstMentions` | what is made of the answers of models | `ModelClients` |
| `ModelAnswers`, `ModelAnswersProofs` | the two and the calls for embeddings in one process that may restart | both |
| `MC...` | model-checking instances of the modules above | |

`IngestBatch` and `MemoryUpkeep` see a mutation of the claim tables as one step or
as the few steps that matter to them; `ClaimLineage` takes these apart. What one
module leaves to another is said in its header.

Operators that stand directly before a definition and differ from it in one
detail (`CloseOldLeftOpen` before `CloseOld`) are plausible mistakes; they are
listed under "mutants" in `PROJECT.json`, each with the property that notices it.

### ClaimLineage

A row is an element of a sequence and its id the index; `None` (0) is NULL. A
text is represented by the request that wrote it, which is enough to tell whether
two tables hold the text of the same write.

*State.* `memories` has the life of a row (`status`, `expired_at` and
`deleted_at` folded into one of active, needs_clarification, expired, deleted),
its content, its atomic facts and the canonical object its metadata names.
`claims`, `versions`, `evidence` and `cmos` are the other four tables with the
columns lineage uses. `versions[v].born` is the only history variable: the memory
a version was inserted for, because `memory_id` itself is released by an update.

*Actions.* `request[r]` is a running service function: `todo`, the statements it
still has to run, and its local variables. `StoreProgram`, `UpdateProgram`, ...
give the statements of each operation in the order of the code, and every
statement (`CloseOld` = `supersedeClaimVersion`, `PointClaim` =
`setClaimCurrentVersion`, ...) is an action. `ensureClaimTarget` is two reads and,
for a memory without a version, the statements of `emitBackfill` are put in front
of the rest. `RejectDuplicate` is the UNIQUE constraint on
`memory_claim_versions.memory_id`. `Fail` ends a request between two statements:
an exception and a crash are the same here, since nothing is rolled back. The
LLM's choice of operation and target is nondeterministic over the active
memories.

*Bounds.* `Requests` (each runs one operation), `MaxConcurrent` requests in
flight, `MaxFailures`. `Deletable` says for which memories the client sends
DELETE; the route has no state check, so it may be any.

| Run | Instance | Shows |
|---|---|---|
| `LineageRaces` | 3 requests at once, 1 failure, any DELETE | what no interleaving breaks: types, `LineageStaysInClaim`, `SupersessionMovesForward`, `ReplacedIsRetired`, `EvidenceCitesOwnMemory` |
| `LineageSerial` | 4 requests, one at a time, 2 failures | while none has failed the five tables agree after each request: `LiveProjectionIsCurrent`, `OneOpenVersion`, `ForwardChainComplete`, `ProjectionsAgree`, `CmoLineIsLinear`; and whatever fails, half a mutation never leaves two active memories in a claim, never revives a deleted claim, and claims implement `ClaimHistory` |
| `LineageTwoWriters` | 2 at once | *violated*: two supersessions of one memory leave two active memories in its claim |

Three requests at once suffice for the races: the hazards are a reader and a
writer, or two writers, of one claim, and the third request creates the memory
they share. Four serial requests reach every operation on a claim that was
already updated, superseded and backfilled. `LineageSerial` restricts `Deletable`
to memories that are not retired: DELETE of a memory that was superseded before
closes its version a second time, overwrites the successor with NULL and
invalidates a claim whose newer version is current (`services/memory-crud.ts:73`),
so `ForwardChainComplete` does not survive it. `LineageRaces` allows every DELETE.

`AuditTrailIsComplete` says what `getAuditTrail` promises and is refuted when an
update dies after releasing `memory_id`; it is in no run (see *Findings*).

### ConflictPolicy

*State.* One fact on its way through `resolveAndExecuteAudn`: the candidates, the
fact, the LLM's decision (`raw`, with the confidence `normalizeConfidence` gives
it), the decision so far, and the outcome. Texts are reduced to what the code
asks of them: a candidate is a record of `critical`, `words`, `keywords`,
`negated`, `risk` and a class of similarity, a fact one of six flags.
`NoTarget` is null, an index outside the list an id that names no candidate - the
LLM, and the AUDN cache, can answer one.

*Actions.* `ResolveAUDN` (any answer), `Override`
(`applyClarificationOverrides`), `EntityScopedDedup`, `ExecuteDecision`. The
order of the policies in `ApplyClarificationOverrides` is the order of
`conflict-policy.ts:52-75`, and each policy looks at the candidate its code looks
at: `TargetOf` falls back to the first candidate (`resolveDecisionTarget`), the
others do not. `applyTrustOverrides` is never called and not modelled.

| Run | Instance | Shows |
|---|---|---|
| `PolicyOverrides` | all answers, lists of 1-2 candidates of 7 kinds, facts with at most 2 of 6 features | merges only join near duplicates and never into a longer text (`OnlySafeReuseMerges`); facts are dropped without evidence only if the LLM names no memory (`DroppedOnlyUnnamed`); critical memories are protected (`CriticalIsProtected`) and hearsay replaces nothing (`HearsayReplacesNothing`) |

The list length matters only for "first critical candidate" and "first candidate
if none is named", which two candidates tell apart; the theorems are about lists
of any length.

`PassedAsIs` in the properties is a finding (`LowConfidenceIsHeld`):
`preserveLowConfidenceClarify` returns a decision of low confidence as it is, also
when it is a SUPERSEDE or DELETE, and the policies after it - critical memories,
uncertain facts, hearsay - are not asked. Two related disagreements: the test
"blocks SUPERSEDE of critical memory" (`conflict-policy.test.ts:216`) holds for its
confidence of 0.9 and not below 0.8; and an UPDATE that contradicts a critical
memory becomes a SUPERSEDE of it, because `isCriticalConflict` asks for words
about dangers when the decision is UPDATE (`conflict-policy.ts:190`).

### DeferredAudn

*State.* A memory is a number, its place in the order of `created_at`; `memory`
holds its status and flag, `found` the serialized candidates, `ingest` how far its
ingest has come, `pass` the locals of the calls of `/reconcile`. `storedAt`,
`replacedBy` and `settled` are history variables the properties are about.
Backdating makes the order of `created_at` independent of the order of storing,
which is why both occur.

*Actions.* `FindFilteredCandidates`, `StoreCanonicalFact`, `MarkMemoryDeferred` are
the three steps of an ingest, `FailIngest` a failure between the last two.
A pass reads a batch (`FindDeferredMemories`), takes memory by memory
(`ReconcileSingleMemory`), fetches the candidates one by one (`RefreshCandidate`),
asks the LLM or not (`Keep`, `ResolveAUDN`), writes (`ApplyDeferredDecision`) and
clears the flag. `FailReconciliation` is the catch block that counts an error.
`DeleteMemory` and `ExpireMemory` are what other requests do to the table. UPDATE
and NOOP do not occur, because `reconcileSingleMemory` passes no keywords and
`KeywordlessNeverMerges` is proved of the policies. The model is assumed to name a
memory it was shown, or an id that no memory has, which changes nothing (`Keep`):
`deferred-audn.ts:224-227` would soft-delete any memory of the user that an answer
names, and `extraction.ts:565` only looks at the form of the id. The properties of
the passes rest on this assumption.

| Run | Instance | Shows |
|---|---|---|
| `DeferredRaces` | 2 passes, 3 memories, batches of 2, failures, one memory that always fails, no DELETE answers | `SupersessionMovesBack`, `ReplacementSurvives`, `FlagClearedWhenSettled` |
| `DeferredFairness` | 1 pass, 3 memories, deletions by users, one memory that always fails | every other flagged memory is reconciled |

Two passes and three memories give the cycles the properties exclude: each pass
holds one memory and reads a candidate the other is deleting. With DELETE answers
and a failure between writing and clearing `ReplacementSurvives` does not hold:
the memory is decided on again after it replaced another.

`DeleteRemovesExisting` and `ReplacerIsLive` state two findings and are in no run.
Also met on the way: with as many memories that always fail as a batch
has places, the memories behind them are never reconciled; a process that dies
between storing and flagging leaves a memory no pass finds
(`services/memory-audn.ts:89`); and the header of `deferred-audn.ts` describes
effects of NOOP and UPDATE that cannot happen.

### TemporalLinkage

*State.* `chain` are the committed rows of `temporal_linkage_list`, `lock` the
advisory locks, `append[m]` the append that was started for memory `m` and is not
awaited: the entities still to do and the open transaction. `observation_date`
only sorts answers and is left out.

*Actions.* `StoreAndLink` is an ingest up to the call that nobody waits for,
`LockChain`, `InsertRow` and `Commit` the transaction of one entity.
`FailAppend` is an exception or a crash: the other entities are skipped.
`DeleteBySource` is the reset of a source, with the cascades of both foreign keys;
PostgreSQL makes it wait for open transactions that refer to a row it deletes.

| Run | Instance | Shows |
|---|---|---|
| `TemporalAppends` | 4 memories of 2 sources, 2 chains, failures, resets | `BackstopNeverFires`, `ChainIsLine`, `AppendsEnd` |

`BackwardTraversal` states what the comment in the schema says of the cascade, and
is refuted (see *Findings*). A wrong position needs a chain of three, a deletion in
it, and an append afterwards: four memories.

### IngestBatch

*State.* `rows` is the memories table in the order of the inserts: what a row
says, its status, date, slot, owner, workspace and, for composites, its members.
`links` is `memory_links`. `job[j]` holds the local state of a request: the fact
it is at, the candidates it read for it, the rows it reported, the context of the
entropy gate. A statement is a model value; how alike two of them are is a table of
percentages, and so are the words they have in common. `first`, `by` and `touched`
are history.

*Actions.* For each fact: `BlockFact` (write security), `GateFact`,
`FindCandidates` - a read - and then, on what was read, `StoreFact`, `SkipFact`,
`SkipDuplicate`, `ClarifyFact`, `UpdateTarget`, `DeleteTarget`, `SupersedeTarget` or
`MutateForeignTarget`. After the facts: `BackdateMemories`, `GenerateLinks`,
`GenerateAndStoreComposites`. `Fail` ends a request between any two of them and
`Start` is also the client sending it again. The LLM may choose any candidate, and
the text of an UPDATE is any text (`Composed`): `memory-audn.ts:317-322` writes what
the model composed, which need not say the fact.

The search has its three queries: near duplicates by likeness (3 rows, 10 in a
workspace), for full ingests up to 5 rows by common words, and a row of the same
slot; `MergeCandidates` takes the better likeness, and of equals the near duplicates
come first. Left out: that words have weights, that the query by words looks at the
20 most important of the rows it finds, and that the queries are statements of their
own (they are one read here, right before a decision that reads nothing again).

| Run | Instance | Shows |
|---|---|---|
| `IngestBatch` | pairs of a full, a quick, two workspace and a verbatim request; 4 statements, one suspicious; one of each pair is sent twice | `SentAgainStoredOnce`: no row is added for what a row of the same request still says word for word, unless that row is hidden from the search; `BatchIsDated`: backdating leaves no row of a dated conversation with another date |

Pairs suffice: a duplicate is two rows, and the only thing one request reads of
another are its rows. `SentAgainStoredOnce` is about rows, not about facts. After an
UPDATE whose text words the fact otherwise, or leaves it out, a retry may add it
(again), and so does a retry whose model extracts the facts in other words:
`IngestBatch` lets both attempts have the same facts, and says nothing of others.
Hidden is a row that this attempt stored in place of another one (next paragraph),
and any row when such rows fill the limit of the query before they are taken out.

Found while modelling: a workspace ingest stores its rows with
today's date and only backdating corrects that, so what failed before backdating
keeps it when the repeated request takes the rows for known; a row that replaced
another one is hidden from the later facts of its own conversation
(`memory-audn.ts:121-123` adds the id of the new row, `ingest-fact-pipeline.ts:42`
reads the set as ids of replaced ones); verbatim stores are neither checked by write
security nor compared.

### EntityGraph and MemoryUpkeep

*State.* `rows` again, with the claim of each row reduced to open or not, its
versions' sites and its slot; `entities` oldest first, `mentions`, `relations`;
`store[j]` and `upkeep[u]` are the local variables of ingests, backfills and the
other requests. `raced`, `retired` and `overtaken` are history variables.

*Actions.* An ingest first looks its entities up for the slot, in statements side by
side (`LookUpEntity`), and makes the slot of what these found. With the row stored it
resolves each mention by name, then by likeness, then merges
an alias or creates an entity - each its own statement - links it, relates the
entities and derives a slot if the deterministic one was missing. A consolidation
clusters a page (`FindConsolidationCandidates`), asks the model, reads the members
again, stores the summary, gives it a claim, a version and the pointer to it in three
statements, and deletes the members one by one;
decay lists and archives; the reset of a source is one step, as it is one
transaction; DELETE is three (find the version, delete the row, invalidate the claim),
an UPDATE in place three, an opinion up to three. An UPDATE writes the fact itself
here, where the code writes a text of the model; what the row said before counts as
replaced in any case, so that a text that keeps some of it loses less.
`AbortUpkeep` and `AbortLinking` are a failure or a crash between any two.

| Run | Instance | Shows |
|---|---|---|
| `Upkeep` | ten scenarios of two or three of: 4 ingests, a backfill, 2 consolidations, decay, reset, DELETE, UPDATE, 2 opinions | `KeptByConsolidation`, `NamesOnOneEntity`, `SlotEntitiesAreMentioned`, `OpinionCollapseIsFlagged` |

The scenarios are the pairs that share a row or a name. Their rows make the cases
happen: two rows of two sites that cluster, one that decays, an opinion 20 percent
above nothing; three names of which the middle one is like both others.
What the properties leave out is what the code does not give: text written by an
UPDATE into a row a consolidation has listed is archived and in no summary
(`consolidation-service.ts:111`), the content of a member deleted in between lives on
in one, and of two reinforcements at once one is lost.

### MemoryReads and MemorySearch

*State.* `pool` is the set of rows a request carries from stage to stage, `prints`
what later stages must not drop, `chained` the rows an event chain appended;
`status` of the rows is changed by others (`ChangeRow`) at any time. Scores are
abstracted: a read with a LIMIT returns any admitted rows of the right number
(`Top`), one that also asks for words or entities any part of them (`AtMost`). A
stage that a switch, a pattern or an answer can turn off may always leave the pool.

*Actions.* One for each stage of `runSearchPipelineWithTrace` and
`executeSearchStep`, in their order, for five kinds of requests: search, fast search,
as of an instant, workspace, and a query that is an address
(`atomicmem://...`), which `ResolveUri` answers at once. The repair loop is not run for
fast requests; that `performFastSearch` escalates to a search that has it is the
kind search.

| Run | Instance | Shows |
|---|---|---|
| `SearchAnswers` | 6 rows of two users, two sites, a workspace and three namespaces, a composite, links, entities and chains across all of them; 8 requests; up to 2 rows expire or are deleted at any time | `GoneStayHidden`, `AnswersStayInScope`, `CompositesAreFresh` |

Two changes are the ones a composite needs (its member and itself), and limits of
2 of 3 of 6 rows make every cut cut. The three properties are also proved, for any
instance.

Found while modelling: `namespace-retrieval.ts:4-5` calls its filter a pre-filter,
but it runs after the selection, so that a search in a namespace can return fewer
rows than exist; the namespace, `expired_at` and the instant are not applied to
rows that an event chain appends (hence `chained` in the properties);
`coRetrieveByEntityNames` and its kin take out the known rows after the LIMIT; and
the fusion in the expansions merges weighted rank scores with raw scores.

### SearchRanking and ContextPackaging

*State.* `candidates` is the pool with integer scores (thousandths), `protected` the
prints, `selected` the answer; then `package` and `tiers`. What the regular
expressions find in a question or a row is a field of its record.

*Actions.* The stages of `search-pipeline.ts` that change scores, protect or
select, as functions on sequences, and the two ways to package.

| Run | Instance | Shows |
|---|---|---|
| `SearchOrder` | 4 rows, every assignment of two scores, every set of up to two anchors, six kinds of questions, answers of the reranker 0 or 1, three budgets | `ProtectedOutrankOthers`, `WithinBudget`, `NoWordWithheld` |

Four rows are one more than a limit of three, two of them share a print, one is a
composite of a row that is there and one that is not. That deduplication loses no
statement is not claimed: a flat rule drops a composite as soon as one of its members
stays (`composite-dedup.ts:139-146`), and what the others say goes with it.

### ModelClients, FactExtraction, FirstMentions, ModelAnswers

*State.* The configuration (`setup`), both caches of embeddings in their order, the
queue in front of the local model and its lazily loaded pipeline; the state of each
call and chat; prompts, answers and kept facts of each extraction; the first
mentions of a user and the scans that write them.

*Actions.* `StartEmbed` runs up to the first await: it looks into the caches and
takes its place in the queue. `AnswerEmbed`, `RateLimitEmbed`, `FailEmbed` end or
repeat the call, `LoadPipeline` may fail. `RestartProcess` empties what is in memory
and may change the configuration; the disk stays (in `ModelAnswers`, `Restart` also
fails the extractions and scans that were under way). Chats are retried, and sent once
more with sanitized text. Of a batch only the texts that are not cached are asked for,
and their vectors are put back by index (`UncachedIndices`, `FreshEmbeddings`); the
first call of a process empties the cache in memory (`getProvider`).
`StartExtraction` makes the prompts, `ReadCache` and
`AskModel` fill them, `ConsensusExtractFacts` keeps facts by vote, union or rank and
puts the facts that rules find in quotes on top (`MergeQuotedEntityFacts`).
`FailExtraction` is a chat that failed, or an embedding that facts are compared by.
`ExtractMentions` maps any list of turns to events, `StoreMentions` is one INSERT.

| Run | Instance | Shows |
|---|---|---|
| `ModelAnswers` | 3 calls (one a batch with a text twice) and a cache of 2; conversations of up to 5 turns, or of lines of which some are no turns, chunks of up to 3 with any overlap, up to 3 runs; 2 scans with 4 possible answers and deletions; a restart into any of 4 configurations | `AnswersBelongToTheirCall`, `EveryTurnIsHeard`, `EarliestMentionStands`, `EveryCallEnds` |

A cache of two places under three keys evicts; a chunk of three in five turns has
a middle window; facts 1 and 3 are each like 2 and not like each other, which is
what makes the removal of duplicates interesting.

A conversation is a list of lines, and a line is a turn, a turn behind blanks, or
neither. `chunkConversation` takes only the first kind
(`/^\w[\w\s]*:/`, `chunked-extraction.ts:46`): the second line of a turn and the turns of
"Mary-Ann:" or "Dr. Chen:" are in no chunk, so that nothing is ever extracted from
them once a conversation is cut. `EveryTurnIsHeard` says it of the lines that count
as turns only; for the others see *Findings*. `countConversationTurns`, which decides
about the fallback, trims lines first (`consensus-extraction.ts:156`), and so
`FallBack` counts the second kind, too.

## Liveness and fairness

`ClaimLineage` and `ConflictPolicy` state safety only: a request may always be the
last one and may die, and the code promises nothing about progress beyond running
its statements.

`DeferredAudn!FairSpec` assumes weak fairness of the loop of a pass (the loop in
`processReconciliationBatch` goes on; calls of the LLM end, with a timeout if
need be) and of `FindDeferredMemories`: nothing in the server starts a pass, so
that some operator posts `/reconcile` again and again is an assumption about the
deployment. Users are under no fairness. `DeferredFairness` has no random failures,
because a pass that is killed each time reconciles nothing.

`TemporalLinkage!Fairness` assumes that a started append goes on. Nothing else is
needed: an append takes each lock once, so the lock cannot be taken from it for
ever. Failures are allowed.

`ModelClients!FairModels` assumes that a request to a provider, and the inference of
the local model, ends with an answer or an error, and so does loading the model:
requests to providers are abandoned after 300 seconds (`llm.ts:197`, `embedding.ts:178`,
`voyage-embedding.ts:71`) and Node.js resolves or rejects what
it awaits. With it `EveryCallEnds` says that neither an error in front of a call in
the queue nor an endless series of rate limits keeps it waiting.

`IngestBatch`, `MemoryUpkeep`, `MemorySearch` and `ContextPackaging` state safety
only. They, and the other models of requests that end, run without the deadlock
check: when every request is done nothing is left to do.

## What is proved

The theorems hold for every value of the constants.

| Module | Theorem | States |
|---|---|---|
| `ClaimLineageProofs` | `TypeCorrect` | `Spec => []TypeOK` |
| | `LineageSafe` | `Spec => []LineageStaysInClaim` |
| | `ChainSafe` | `Spec => []SupersessionMovesForward` |
| | `RetiredSafe` | `Spec => []ReplacedIsRetired` |
| | `EvidenceSafe` | `Spec => []EvidenceCitesOwnMemory` |
| | `LocalsSafe` | `Spec => []LocalsAgree` |
| | `SerialInvariance`, `HistoryInvariance` | `Serial => (Spec => []SInv)`, and `HistoryInv` with it |
| | `OneProjectionSafe` | `Serial => (Spec => []OneActiveProjectionPerClaim)` |
| | `DeletionIsFinal` | `Serial => (Spec => DeletedClaimStaysDeleted)`, an action property |
| | `HistorySafe` | `Serial => (Spec => HistoryIsAppendOnly)`: `ClaimLineage` implements `ClaimHistory` |
| `ClaimLineageUndisturbedProofs` | `ClaimsInvariance`, `CmosInvariance` | `ClaimsInv`, `CmosInv`, under `Serial` |
| | `LiveProjectionSafe`, `OneOpenVersionSafe`, `ForwardChainSafe`, `ProjectionsSafe`, `CmoLineSafe` | `LiveProjectionIsCurrent`, `OneOpenVersion`, `ForwardChainComplete`, `ProjectionsAgree`, `CmoLineIsLinear`, under `Serial` |
| `IngestProofs` | `TypeCorrect`, `MergesAreSafe`, `DropsAreUnnamed`, `KeywordlessSafe`, `CriticalSafe`, `UncertainSafe`, `HearsaySafe` | the four properties of `PolicyOverrides`, `TypeOK`, `KeywordlessNeverMerges` and `UncertainIsHeld`, for lists of any length |
| | `ChainTypeCorrect`, `BackstopSafe`, `LineSafe` | `ChainTypeOK`, `BackstopNeverFires`, `ChainIsLine` |
| | `BatchInvariance`, `BatchDatedSafe` | `BatchSpec => []BatchInv`, and `BatchIsDated` with it |
| | `SentAgainSafe` | `Settings.fastAudn => (BatchSpec => []SentAgainStoredOnce)` |
| `DeferredAudnProofs` | `TypeCorrect`, `OrderSafe`, `FlagSafe` | `TypeOK`, `SupersessionMovesBack`, `FlagClearedWhenSettled` |
| | `ReplacementSafe` | `OnlySupersession => (Spec => []ReplacementSurvives)` |
| `MemorySearchProofs` | `Invariance` | `Spec => []IInv` |
| | `GoneRowsStayHidden` | `Spec => []GoneStayHidden` |
| | `AnswersStayWhereAsked` | `Spec => []AnswersStayInScope` |
| | `StaleCompositesStayOut` | `Spec => []CompositesAreFresh` |
| `MemoryUpkeepProofs` | `NamesSafe` | `Spec => []NamesOnOneEntity` |
| | `SlotsSafe` | `Spec => []SlotEntitiesAreMentioned` |
| | `OpinionsSafe` | `Spec => []OpinionCollapseIsFlagged` |
| | `KeptSafe` | `Spec => []KeptByConsolidation` |
| `ContextPackagingProofs` | `ProtectedSafe` | `Spec => []ProtectedOutrankOthers` |
| | `WithinBudgetSafe` | `Spec => []WithinBudget` |
| | `NoWordWithheldSafe` | `Spec => []NoWordWithheld` |
| | `FlatOrderIsWhole` | `Spec => []FlatIsWhole`: a flat package has the rows that deduplication left, each once |
| `ModelAnswersProofs` | `EmbedInvariance`, `AnswersSafe` | `Spec => []EmbedInv`, `Spec => []AnswersBelongToTheirCall` |
| | `MentionInvariance`, `EarliestMentionSafe` | `Spec => []MentionInv`, `Spec => []EarliestMentionStands` |
| | `ExtractInvariance`, `TurnsHeardSafe` | `Spec => []ExtractInv`, `Spec => []EveryTurnIsHeard` |

*ClaimLineage.* None of the four safety properties is inductive: a pointer is
written from a local that was read several statements earlier, so the invariant
`IInv` (`ClaimLineageInvariant`) says what the locals of a request still mean -
`OldVersionKnown`, `NewVersionKnown`, `TargetRetiredFirst`, `CitedVersionKnown` -
and which statements can no longer be ahead of a request that has set them
(`ProgramOrder`). The proof is in four layers: types are preserved by every
statement; every statement *keeps rows* (versions keep their claim, birth and
previous version, retired memories stay retired: `StatementKept`), so the locals
of the other requests go on agreeing (`OtherLocal`); the request that moves agrees
again with its new locals (`StatementLocal`); and a statement of a request that
agrees keeps the tables in agreement (`RowsStatement`). Assumptions used:
`BoundsAssumption` and `DeletableAssumption`.

*ClaimLineage, one request at a time.* `Serial` says that `MaxConcurrent = 1` and
that DELETE is sent for memories that are still served (`Deletable` of
`LineageSerial.cfg`). Neither can be left out: two overlapping supersessions leave
two active memories (`LineageTwoWriters`), and DELETE of a superseded memory breaks
the forward chain. The number of requests, of failures and the operations stay
arbitrary. There are three layers, each on the ones before:

- `SInv`, whatever failed: what a request still has to run is a suffix of a program
  (`Track`), and if a statement that writes is still to come, the tables are as it
  needs them - its target is still served (`TargetServed`), nothing of its claim is
  served but the target and what it stored itself (`ClaimKnown`), and the memory it
  writes a version for has none (`ProjectionFree`). One served version per claim
  then is inductive; without the locals it is not.
- `HistoryInv`: the line of versions behind what a request is about to make current
  begins with the current line (`PointerExtends`), and so does that of every served
  version (`ServedContinues`, which is what a request that reads its target later
  relies on). `LineTo` is a recursive function; that it exists, is unique
  and stays what it is when versions are added is proved by induction on a set of
  numbers (`InSetInduction`). `HistorySafe` then goes statement by statement:
  `createClaim` is `Open` of the abstract history, `setCurrent` and
  `backfillCurrent` are `Extend`, `invalidateClaim` is `Close`, everything else is
  a stutter.
- `ClaimsInv` and `CmosInv`, as long as no request has died: every claim other than
  the one at hand agrees (`ClaimAgrees`: open version, served memory, forward chain,
  content), and of the one at hand it is said by what is still to run which versions
  are open, what is current, which link is missing and what the memory says
  (`AtHand`). Canonical objects have their own invariant: the ones memories show are
  tips of the line, but for the update that has stored the next one and not linked
  it yet (`Unlinked`).

*ConflictPolicy.* The invariant ties the stages together: an overridden decision
is `ApplyClarificationOverrides` of the answer, a checked one that or its
promotion to ADD. Each property is then a lemma about the operator, by cases on
the policy that applied. Assumptions: the types of the constants.

*DeferredAudn.* Candidates come before the memory they were found for in the order
of storing; the invariant adds that a pass remembers only such candidates and
that it remembers a decision only between making it and clearing the flag.
`ReplacementSafe` has a hypothesis, `OnlySupersession`: nobody deletes memories from
outside and no answer is DELETE, as in `DeferredRaces.cfg`. Without it the property
is false, see above. Its invariant `LastStands` says that what is no longer there
was replaced; replacements go to memories stored later, and there is one stored
last.

*TemporalLinkage.* `ChainIsLine` is not inductive, because deletions remove rows:
the invariant adds that no memory is appended to a chain twice (`RowsAreOver`),
that a transaction past the lock holds it (`LocksHeld`), and that a row which is
inserted and not committed comes last (`InsertedIsLast`).

*IngestBatch.* Every action of a request is shown to do two things: a step of the
table (`RowsStep`: rows keep their owner, workspace, slot and first request; what a
request rewrites is in its reach; a date only becomes the one of a request that has
reported the row) and a step of the request (`JobStep`). From the two alone follows
that `BatchInv` is kept (`BatchStepKeeps`): every row is in the reach of the request
that wrote it last (`RowOwned`), so are the candidates it read (`Reached`), and what
it reported is dated as soon as it has backdated (`BatchDated`). `BatchIsDated` says
this last part of requests that are done only. That composites are clusters with a
member, and texts finite, is proved about the loops that form them (`PlaceKeeps`,
`ClustersAreThere`), once more by induction on a set of numbers.

`SentAgainStoredOnce` is an action property, and says nothing about a request between
its search and its decision. `OnceInv` adds `FoundAgain` for that time: if a row of the
request says the fact word for word and is not hidden, the candidate the request
begins with is as alike as can be and quotes the same (`AsAlike`). Such a row is in the
reach of the request (`RowOwned`) and has the largest likeness there is
(`SameIsAlike`), so that the rows nearest to the fact include one like it, unless all
of them are hidden (`SayingIsFoundAgain`); what others write meanwhile does not change
what was read. Then the fast path, or the quick one, skips the fact before a model is
asked. Therefore the hypothesis `Settings.fastAudn`
(`FAST_AUDN_ENABLED`, on unless it is set to something else, `config.ts:378`): with
it off a model that answers ADD stores the fact again. Whether a quick ingest skips
does not depend on it. Nothing is assumed of the texts that updates write.
Assumptions used: `AlikeAssumption` (the cosine of a statement
with itself is 1, none is larger, and statements with one embedding quote the same),
`WordsAssumption` (a statement has finitely many words), `ComposedAssumption`,
`JobAssumption` (the modes, and that requests
of workspaces are those that name one) and `SettingsAssumption` (the candidate
threshold is below 1, the one for duplicates at most 1: the code accepts any number
for either, but with larger ones nothing would ever be found or skipped).

*MemorySearch.* None of the three properties says anything before the search is
done, so the invariant `IInv` says of every stage what its pool holds: rows of the
person that were live when the request came (`PersonPool`; of the workspace that
may be seen: `AgentPool`), after the namespace filter rows in scope (`ScopePool`),
after the staleness check fresh composites (`FreshPool`). `LiveBefore` carries the
argument: nothing becomes live again, so what is read as live during the search was
live before it. One lemma for every read says that it returns rows of the person
(`ReadsArePersonal`, `EntityRowsArePersonal`, `LinkedRowsArePersonal`, ...), and two
that a stage which only adds such rows, or only removes rows, keeps the invariant
(`EarlyStage`, `LateStage`). Assumptions used: `MembersAssumption`,
`ChainsAssumption`, that composites and chains hold memories.

*SearchRanking and ContextPackaging.* The three properties are about what loops over
lists compute, each in one step, so the invariant `PackagingInv` only adds that pool
and selection are lists of rows with integer scores; the work is in the loops.
They are recursive functions on the places of a list; that they exist and what they
keep is proved by induction on a set of numbers (`InSetInduction`), for each loop
with a loop invariant of its own:

- `ProtectedOutrankOthers`: putting protected rows back replaces the worst row
  that is not protected, so a print that was there is there afterwards, and a loop
  that runs to its end leaves no protected print out unless all rows are protected.
  Sorting keeps the rows (ranks are different numbers, a pigeonhole argument), and
  so do merging and rescoring; MMR selects rows of the pool.
- `WithinBudget`: after every promotion the sum of the tiers is at most the larger
  of the budget and the headlines (`Fits`). The sum changes by the difference of the
  costs at one place (`SumChanges`), and every promotion, the forced ones included,
  is to a tier that fits what is left.
- `NoWordWithheld`: the loop over the headlines offers each row what is left of the
  budget at its turn. A row that was refused stays refused (`Waits`): what is left
  only shrinks afterwards, unless a row further down gave tokens back, which the
  property excepts.
- `FlatIsWhole`: sections by namespace, timelines, sessions and the answer-bearing rows
  are a partition of the list (`FlatKeeps`), whatever their number.

Assumptions used: the types of rows, settings, scores and costs (`IdsAssumption`,
`RowAssumption`, `SimilarAssumption`, `QuestionsAssumption`, `ScoresAssumption`,
`SettingsAssumption`, `PackagingAssumption`).

*MemoryUpkeep.* The four properties are about every set of ingests, backfills and
other requests, the ones of each scenario meeting in any order and dying anywhere.
Each has its own invariant, on top of `Typed` (what the tables and locals are, and
that no two ingests work on one row):

- `NamesInv`: an ingest that looks a name up, and whose name is not marked as raced,
  is alone with that name, and only the entity it matched has it (`Alone`); an ingest
  that merges or links holds an entity of the right type and name (`Matches`). The
  property alone says nothing about an ingest between its look-up and its insert.
- `SlotsInv`: what is behind an ingest is linked (`Linked`); a slot that was found by
  name is about entities of that name (`FoundSlot`), one that was derived about
  entities the row is linked to (`DerivedSlot`); what an ingest has looked up for its slot
  so far has the name it was looked up by, also when it is used later (`LookedInv`); the
  slot in a row is one or the other (`RowSlot`). At the end both are the same because of `NamesOnOneEntity`.
- `OpinionInv`: a request that has read a confidence of zero has read it of an opinion
  that was flagged, or is being flagged (`Pending`, `Flagged`).
- `KeptInv`: what went away is said by a newer row (`Replaced`) - newer, because
  summaries are themselves consolidated, and only then somebody is the last to say
  it. For this the content of a cluster must keep containing what its rows say, but
  for what was overtaken (`Contained`), the members archived be of the cluster
  (`Chosen`) and be covered by the summary once it is stored (`Covered`). `SaysOnward`
  is what every step of others keeps.

Assumptions used: `UpkeepAssumption`, `StoresAssumption`, `JobsAssumption`,
`NoneAssumption`, and of the scenarios that they begin with live rows, opinions that
are not given up and one entity per name (`ScenarioRowsAssumption`,
`ScenarioEntitiesAssumption`). Nothing is assumed of the order in which clusters are
formed.

*ModelAnswers.* `EmbedInv` says of both caches that every entry is the vector of its
key (`Entries`; the one on disk may be of another configuration), and of a call that
waits that what it took from the cache before the await is right under the
configuration it still runs with. That a key decides the vector (`KeyDecides`) needs
all four parts of `EmbeddingCacheKey`. The loops over a batch are recursive
functions; that they exist and stay among sequences of entries is proved by
induction on a set of numbers (`LoopExists`, `LoopStays`). `MentionInv` says that the
events of a scan are sorted (`InOrder`) and that a row is the first event of its
memory in a scan that is over (`RowOf`). That `MapToEvents` sorts (`MapToEventsSorts`)
is a pigeonhole argument: ranks are different numbers below the number of events, so
each place has one event, and an event of an earlier turn has a lower rank.
`ExtractInv` says of an extraction that its prompts cover every line, or every line
that counts as a turn when they are chunks (`Covered`), that there is a
prompt for what it awaits, and of one that is over what
the property says. Four lemmas carry it. `ChunksCover`: the lines that are turns are numbered
without gaps (`TurnsAreNumbered`); of the windows take the first
that ends at or after a turn; it does not begin after that turn, because the window
before it ends before the turn and no step is longer than a window. `OneMayGo`: what
is in leads to all facts by way of those that are alike, and still does when one of
two that are in and alike goes, whichever it is; so each comparison of
`markDuplicates` and `deduplicateFacts` keeps this (`ComparedLeads`,
`RemainingLeads`), for any similarity, transitive or not. `FlattenKeeps`: what the
first run found is in what all runs found, so a vote, which picks from it, keeps
nothing unheard. `MergedKeeps`: the facts from quotes that are put on top take nothing
away. Assumptions used: `BoundsAssumption`, `CallsAssumption` (calls are lists of texts, and
`embedText` has one), `SetupsAssumption` (whether queries are embedded in a way of
their own depends on the provider and the models) and `RepliesAssumption` (turns are
integers). Extractions need `SaidAssumption` (what was said is a list) and
`JobsAssumption` of `FactExtraction`, about numbers from the environment that nothing
checks (`config.ts:338-341`): size and overlap of chunks are zero or more, and there is
at least one run. A negative overlap would skip turns, and no run would leave nothing
to vote on.

Model-checked only, and why:

- `EventuallyReconciled`, `AppendsEnd`, `EveryCallEnds`: properties under
  fairness; liveness and ENABLED are out of the prover's reach.

Every invariant that a passing run checks is stated by a theorem.

## Findings

`PROJECT.json` lists them with the quoted lines. One is a run of its own
(`LineageTwoWriters`, *violated*). The others that a property states are not in a
run; add the property to the INVARIANTS (PROPERTIES for an action property) of the
configuration to see TLC's counterexample.

| Property | Module | Add to | What it refutes |
|---|---|---|---|
| `AuditTrailIsComplete` | `ClaimLineage` | `LineageRaces.cfg` | the audit trail of a memory survives an update that dies half way |
| `LowConfidenceIsHeld` | `ConflictPolicy` | `PolicyOverrides.cfg` | DELETE needs more confidence than SUPERSEDE |
| `DeleteRemovesExisting` | `DeferredAudn` | `DeferredRaces.cfg`, with DELETE allowed | a deferred DELETE removes the existing memory |
| `ReplacerIsLive` | `DeferredAudn` | `DeferredFairness.cfg` | candidates are fetched again "to ensure accuracy" |
| `BackwardTraversal` | `TemporalLinkage` | `TemporalAppends.cfg` | the cascade leaves no broken predecessor |
| `GlobalAnswersArePersonal` | `MemorySearch` | `SearchAnswers.cfg` | no global search returns workspace rows |
| `ProtectedSurvive` | `MemorySearch` | `SearchAnswers.cfg` | protected rows are not dropped by the selection |
| `EstimateCoversText` | `ContextPackaging` | `SearchOrder.cfg` | the estimate counts what is appended |
| `DroppedIsDuplicate` | `IngestBatch` | `IngestBatch.cfg` | only near-duplicates are skipped |
| `PositionsAreASequence` | `FirstMentions` | `ModelAnswers.cfg` | positions are 0, 1, 2, ... whatever the runs |

The remaining findings are disagreements that reading showed and no property
states: `shouldAcceptRepair` with a threshold of 0; a reset that takes what others
stated along, or leaves what the source stated; an opinion that an UPDATE only
weakens; two ingests of one text that use two answers; the later of two similar
facts kept; the lines of a conversation that no chunk has
(`chunked-extraction.ts:46`); one trust rating per agent for all users.

Hazards without a property are those the code has no answer to, so that any
property about them would fail at once: a process that dies between storing a
memory and flagging it; a synchronous UPDATE of a memory whose old text a pass is
deciding about (`deferred-audn.ts:151`); the claim a deferred SUPERSEDE leaves open
(`deferred-audn.ts:226`), and that it deletes whatever memory is named; what
only the other members of a dropped composite say (`composite-dedup.ts:40`); the
correction of a slotted fact that counts as its duplicate (`memory-storage.ts:387`).
Two more are covered in part: the lines no chunk has (`chunked-extraction.ts:46`), and
the fact that an UPDATE words otherwise, so that a retry stores it again (`memory-audn.ts:317`).

## Not modelled

- The observation network: nothing outside the tests constructs its service, so
  that no subject is ever marked.
- Agent trust and conflicts: no conflict is ever recorded, and a trust level is one
  upsert (its finding is above).
- Lessons beyond the refusal of a search: single inserts and one lookup.
- `deleteAll`, which tests and tools call; validity times of claims, which only
  order what an as-of search returns.
- Access counts, traces, costs: no decision of the modelled code reads them, but
  for the access count in the retention score, which is a number of a row.
- What regular expressions find in texts, prompts, the parsing and repair of answers,
  formatting: they enter as data (features of questions, candidates and facts).
- Floating-point scores: `MemorySearch` allows any order, `SearchRanking` computes
  with integers.
- HTTP, schemas, configuration and migrations: input, output and wiring.

## What could follow

1. `DeferredAudn` over `ClaimLineage`: which of the lineage properties remain when
   the deferred passes write, too.
2. An abstract memory store (set of statements with removals) that `IngestBatch` and
   `MemoryUpkeep` implement while nothing fails.
3. That `TemporalLinkage` implements a list with deletions.
