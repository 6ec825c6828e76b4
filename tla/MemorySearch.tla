---------------------------- MODULE MemorySearch ----------------------------
(***************************************************************************)
(* One search request (memory-search.ts, search-pipeline.ts) against a     *)
(* table that other requests change while it runs.  Every stage reads the  *)
(* database, a provider or nothing, and hands a pool of rows to the next;  *)
(* rows stay in the pool as they were read.  A stage that the              *)
(* configuration, the words of the question or an answer of a model may    *)
(* turn off can always leave the pool as it is.                            *)
(*                                                                         *)
(* Scores are abstracted: a cut to n rows keeps any n.  Rows with the same *)
(* print have the same event text (buildTemporalFingerprint).              *)
(***************************************************************************)
EXTENDS MemoryReads

CONSTANTS
  Queries,       \* the requests: kind, user, site, scope, caller, select
  Limit,         \* rows asked for
  UriMax,        \* rows that a path of an address brings
  RerankDepth,   \* candidateDepth
  LinkMax,       \* linkExpansionMax
  MaxAnchors,    \* MAX_TEMPORAL_ANCHORS
  MaxProtected,  \* prints one ranking stage protects
  Chains,        \* temporal linkage lists: sets of memories
  MaxChanges     \* bound: rows that change during the search

ASSUME ChainsAssumption == Chains \subseteq SUBSET Memories

VARIABLES
  query,         \* the request
  step,          \* the next stage
  pool,          \* the rows carried from stage to stage
  prints,        \* prints that later stages protect
  chained,       \* rows that came from an event chain
  goneBefore     \* status of the table when the request came (history)

searchVars == <<query, step, pool, prints, chained, goneBefore>>
vars == <<status, query, step, pool, prints, chained, goneBefore>>

Steps ==
  {"idle", "initial", "fallback", "coRetrieval", "subject", "literal",
   "temporal", "expansion", "repair", "iterative", "agentic", "rank",
   "select", "links", "namespace", "stale", "consensus", "relevance",
   "chain", "package", "done", "asOf", "workspace", "workspaceStale",
   "workspaceRelevance"}

TypeOK ==
  /\ status \in [Memories -> {"live", "expired", "deleted"}]
  /\ query \in Queries
  /\ step \in Steps
  /\ pool \subseteq Memories
  /\ prints \subseteq {Row[m].print : m \in Memories}
  /\ chained \subseteq Memories
  /\ goneBefore \in [Memories -> {"live", "expired", "deleted"}]

Init ==
  /\ status = [m \in Memories |-> "live"]
  /\ query \in Queries
  /\ step = "idle"
  /\ pool = {} /\ prints = {} /\ chained = {}
  /\ goneBefore = status

-----------------------------------------------------------------------------
(* Other requests expire or delete rows, before and during the search.     *)
Changed == {m \in Memories : status[m] # "live"}
ChangeRow ==
  /\ Cardinality(Changed) < MaxChanges
  /\ step # "done"
  /\ \E m \in Memories \ Changed, s \in {"expired", "deleted"} :
       status' = [status EXCEPT ![m] = s]
  /\ UNCHANGED searchVars

(* One stage: the pool is replaced by one of the results.                  *)
Stage(from, to, Results) ==
  /\ step = from
  /\ step' = to
  /\ pool' \in Results
  /\ UNCHANGED <<status, query, prints, chained, goneBefore>>

Start ==
  /\ step = "idle"
  /\ query.kind # "uri"
  /\ step' = CASE query.kind = "asOf" -> "asOf"
               [] query.kind = "workspace" -> "workspace"
               [] OTHER -> "initial"
  /\ goneBefore' = status
  /\ UNCHANGED <<status, query, pool, prints, chained>>

(* checkSearchLessons: a question that a lesson flags gets no memories.    *)
RefuseByLesson ==
  /\ step = "idle"
  /\ query.kind # "workspace"
  /\ step' = "done"
  /\ goneBefore' = status
  /\ UNCHANGED <<status, query, pool, prints, chained>>

(* A question that is an atomicmem:// address gets the row it names, by    *)
(* its own name or a claim's, or the rows of a path, and no stage runs; an *)
(* address that names nothing is a question like any other.                *)
ResolveUri ==
  /\ step = "idle"
  /\ query.kind = "uri"
  /\ step' = "done"
  /\ goneBefore' = status
  /\ pool' \in {{m} : m \in {x \in Memories : GetMemory(query.user, x)}}
       \cup UNION {ListMemoriesByNamespace(query.user, Row[m].namespace, UriMax) :
                      m \in Memories}
  /\ pool' # {}
  /\ UNCHANGED <<status, query, prints, chained>>

(* Rank fusion of the semantic, the entity and the keyword channel.        *)
RunMemoryRrfRetrieval ==
  UNION {Top(S \cup E \cup K, RerankDepth) :
    S \in SearchVectors(query.user, query.site, RerankDepth),
    E \in ExpandViaEntities(query.user, {}, RerankDepth),
    K \in SearchKeyword(query.user, query.site, RerankDepth)}

Retrieve ==
  RunMemoryRrfRetrieval
    \cup SearchAtomicFacts(query.user, query.site, RerankDepth)

RunInitialRetrieval == Stage("initial", "fallback", Retrieve)

(* Only without hybrid search, and with the keyword channel this time.     *)
MaybeApplyAbstractHybridFallback ==
  Stage("fallback", "coRetrieval", {pool} \cup RunMemoryRrfRetrieval)

(* mergeStageResults, cut to the depth.                                    *)
MergeCut(found) == Top(pool \cup found, RerankDepth)

ApplyEntityNameCoRetrieval ==
  Stage("coRetrieval", "subject",
    UNION {MergeCut(F) :
      F \in CoRetrieveByEntityNames(query.user, pool, LinkMax)})

FetchAndBoostKeywordCandidates ==
  {FetchMemoriesByIds(query.user, F \ pool) :
     F \in FindKeywordCandidates(query.user, RerankDepth)}

(* Rows with the names or the words of the question; none without them.    *)
ExpandSubjectQuery == {{}} \cup FetchAndBoostKeywordCandidates
ExpandLiteralQuery == {{}} \cup FetchAndBoostKeywordCandidates

ApplySubjectQueryExpansion ==
  Stage("subject", "literal", {pool \cup F : F \in ExpandSubjectQuery})

ApplyLiteralQueryExpansion ==
  Stage("literal", "temporal", {pool \cup F : F \in ExpandLiteralQuery})

-----------------------------------------------------------------------------
PrintsOf(S) == {Row[m].print : m \in S}

(* Rows with different prints, as many as there are up to n.               *)
SelectAnchorIds(S, n) ==
  {A \in SUBSET S : /\ Cardinality(PrintsOf(A)) = Cardinality(A)
                    /\ Cardinality(A) = Least(n, Cardinality(PrintsOf(S)))}

(* preserveProtectedResults: prints of the candidates that the selection   *)
(* misses take the places of rows that nobody protects.                    *)
PreserveProtected(selected, candidates, protect) ==
  LET missing == (protect \cap PrintsOf(candidates)) \ PrintsOf(selected)
      free    == {m \in selected : Row[m].print \notin protect}
      n       == Least(Cardinality(missing), Cardinality(free))
      back    == SelectAnchorIds({m \in candidates :
                                    Row[m].print \in missing}, n)
  IN UNION {{(selected \ out) \cup new : new \in back} :
              out \in {S \in SUBSET free : Cardinality(S) = n}}

(* Anchors are hits that are known, then new ones; their temporal          *)
(* neighbours come with them, and their prints are protected from now on.  *)
ApplyTemporalQueryExpansion ==
  /\ step = "temporal"
  /\ step' = "expansion"
  /\ \E hits \in FindKeywordCandidates(query.user, RerankDepth) :
     \E known \in SelectAnchorIds(hits \cap pool, MaxAnchors) :
     \E new \in SelectAnchorIds(hits \ pool, MaxAnchors - Cardinality(known)) :
     \E near \in FindTemporalNeighbors(query.user,
                   FetchMemoriesByIds(query.user, known \cup new),
                   pool \cup known \cup new, RerankDepth) :
       LET merged == pool \cup new \cup near
           protect == PrintsOf(known \cup new)
       IN /\ prints' = protect
          /\ pool' \in UNION {PreserveProtected(cut, merged, protect) :
                                cut \in Top(merged, RerankDepth)}
  /\ UNCHANGED <<status, query, chained, goneBefore>>

SkipTemporalQueryExpansion == Stage("temporal", "expansion", {pool})

ApplyQueryExpansion ==
  Stage("expansion", "repair",
    UNION {MergeCut(F) :
      F \in ExpandQueryViaEntities(query.user, pool, LinkMax)})

(* A repair that is not accepted leaves the pool; fast searches skip it.   *)
ApplyRepairLoop ==
  Stage("repair", "iterative",
    {pool} \cup
    IF query.kind = "fast" THEN {} ELSE
      UNION {UNION {PreserveProtected(cut, pool \cup F, prints) :
                      cut \in Top(pool \cup F, RerankDepth)} :
             F \in Retrieve})

(* Neighbours of at most two seeds, cut without protection.                *)
ApplyIterativeRetrieval ==
  Stage("iterative", "agentic",
    {pool} \cup UNION {MergeCut(F) :
      F \in SearchVectors(query.user, query.site, RerankDepth)})

(* Sub-questions of the model, each a search of its own.                   *)
ApplyAgenticRetrieval ==
  Stage("agentic", "rank",
    {pool} \cup UNION {MergeCut(F) :
      F \in SearchHybrid(query.user, query.site, RerankDepth)})

-----------------------------------------------------------------------------
(* The ranking stages reorder the pool, drop rows below the eligibility    *)
(* threshold and may protect the prints of some of them.                   *)
ApplyRankingStages ==
  /\ step = "rank"
  /\ step' = "select"
  /\ pool' \in SUBSET pool
  /\ \E P \in AtMost(PrintsOf(pool), MaxProtected) : prints' = prints \cup P
  /\ UNCHANGED <<status, query, chained, goneBefore>>

(* Linked rows, temporal neighbours and rows of matching entities.         *)
ExpandWithLinks(S) ==
  {S} \cup
  UNION {AtMost(FetchMemoriesByIds(query.user, L) \cup N \cup E, LinkMax) :
    L \in FindLinkedMemoryIds(S, LinkMax) \cup ExpandViaPPR(S, LinkMax),
    N \in FindTemporalNeighbors(query.user, S, S, LinkMax),
    E \in ExpandViaEntities(query.user, S, LinkMax)}

SelectAndExpand ==
  /\ query.select = "last"
  /\ Stage("select", "links",
       UNION {PreserveProtected(cut, pool, prints) : cut \in Top(pool, Limit)})

ExpandSelection ==
  Stage("links", "namespace", {pool \cup X : X \in ExpandWithLinks(pool)})

(* linkExpansionBeforeMMR: the rest of the pool is no candidate any more.  *)
SelectWithPreMmrExpansion ==
  /\ query.select = "first"
  /\ Stage("select", "namespace",
       UNION {UNION {UNION {PreserveProtected(T, cut \cup X, prints) :
                              T \in Top(cut \cup X, Limit)} :
                     X \in ExpandWithLinks(cut)} :
              cut \in Top(pool, Limit)})

ApplyNamespaceScopeFilter ==
  Stage("namespace", "stale", {{m \in pool : InScope(m, query.scope)}})

-----------------------------------------------------------------------------
(* postProcessResults: a search as of an instant skips the staleness.      *)
HasOnlyStaleMembers(m) ==
  \A r \in Row[m].members : ~GetMemory(query.user, r)
HasStaleMember(m) ==
  \E r \in Row[m].members : ~GetMemory(query.user, r)

WithoutStaleComposites ==
  {m \in pool : IsComposite(m) => ~HasStaleMember(m)}

ExcludeStaleComposites ==
  Stage("stale", "consensus",
    {{m \in WithoutStaleComposites : Row[m].workspace = None}})

(* Rows that the judge calls divergent, where the validation is on.        *)
ValidateConsensus == Stage("consensus", "relevance", SUBSET pool)

ApplySearchRelevanceFilter == Stage("relevance", "chain", SUBSET pool)

(* The versions that were valid then, whatever became of their memories.   *)
(* Versions carry no workspace, so that the filter lets them pass.         *)
SearchClaimVersions ==
  Stage("asOf", "consensus",
    AtMost({m \in FromSite(query.site) : Row[m].user = query.user}, Limit))

(* For questions about an order: the chains of entities that the answer    *)
(* mentions; a failure leaves the answer as it is.                         *)
ChainIds == UNION {C \in Chains : C \cap pool # {}} \ pool

AppendTllAugmentation ==
  /\ step = "chain"
  /\ step' = "package"
  /\ \E ids \in Top(ChainIds, Limit) \cup {{}} :
       LET rows == HydrateChainMemories(query.user, ids)
       IN /\ pool' = pool \cup rows
          /\ chained' = rows
  /\ UNCHANGED <<status, query, prints, goneBefore>>

(* Flat packaging: composites whose members are there, all or any of them. *)
Atomic == {m \in pool : ~IsComposite(m)}
DeduplicateCompositeMembersSoft ==
  {m \in pool : IsComposite(m) =>
     10 * Cardinality(Row[m].members \cap Atomic)
       < 6 * Cardinality(Row[m].members)}
SuppressOverlappingComposites ==
  {m \in pool : IsComposite(m) => Row[m].members \cap Atomic = {}}

ApplyFlatPackagingPolicy ==
  Stage("package", "done",
    {pool, DeduplicateCompositeMembersSoft, SuppressOverlappingComposites})

-----------------------------------------------------------------------------
(* performWorkspaceSearch.                                                 *)
SearchWorkspace ==
  Stage("workspace", "workspaceStale",
    SearchVectorsInWorkspace(query.workspace, query.caller, query.agents,
                             Limit))

ExcludeStaleInWorkspace ==
  Stage("workspaceStale", "workspaceRelevance", {WithoutStaleComposites})

FilterInWorkspace == Stage("workspaceRelevance", "done", SUBSET pool)

Next ==
  \/ ChangeRow
  \/ Start \/ RefuseByLesson \/ ResolveUri
  \/ RunInitialRetrieval \/ MaybeApplyAbstractHybridFallback
  \/ ApplyEntityNameCoRetrieval
  \/ ApplySubjectQueryExpansion \/ ApplyLiteralQueryExpansion
  \/ ApplyTemporalQueryExpansion \/ SkipTemporalQueryExpansion
  \/ ApplyQueryExpansion \/ ApplyRepairLoop
  \/ ApplyIterativeRetrieval \/ ApplyAgenticRetrieval
  \/ ApplyRankingStages
  \/ SelectAndExpand \/ ExpandSelection \/ SelectWithPreMmrExpansion
  \/ ApplyNamespaceScopeFilter \/ ExcludeStaleComposites
  \/ ValidateConsensus \/ ApplySearchRelevanceFilter
  \/ SearchClaimVersions \/ AppendTllAugmentation \/ ApplyFlatPackagingPolicy
  \/ SearchWorkspace \/ ExcludeStaleInWorkspace \/ FilterInWorkspace

Spec == Init /\ [][Next]_vars

-----------------------------------------------------------------------------
Answered(kinds) == step = "done" /\ query.kind \in kinds

(* A memory that was gone when the request came is in no answer, whichever *)
(* of the dozen reads finds it; an expired one may come back through an    *)
(* event chain only (hydrateChainMemories does not look at expired_at).    *)
GoneStayHidden ==
  Answered({"search", "fast", "workspace", "uri"}) =>
    \A m \in pool : \/ goneBefore[m] = "live"
                    \/ goneBefore[m] = "expired" /\ m \in chained

(* The answer to a person holds rows of that person and of no workspace,   *)
(* and of the asked namespace unless a chain brought them; the answer to   *)
(* an agent holds rows of its workspace that the agent may see.  Links,    *)
(* entities and chains cross all of these borders.  An address is bound to *)
(* the person alone.                                                       *)
AnswersStayInScope ==
  /\ Answered({"search", "fast"}) => \A m \in pool :
       /\ Row[m].user = query.user
       /\ Row[m].workspace = None
       /\ m \in chained \/ InScope(m, query.scope)
  /\ Answered({"uri"}) => \A m \in pool : Row[m].user = query.user
  /\ Answered({"workspace"}) => \A m \in pool :
       /\ Row[m].workspace = query.workspace
       /\ \/ Row[m].visibility \in {"workspace", None}
          \/ query.caller \in Row[m].grants \cup {Row[m].agent}

(* A composite is not in an answer when one of its members was gone before *)
(* the request came: what it says of that member may no longer hold.  It   *)
(* can get into the pool by any read; a chain never holds composites.      *)
CompositesAreFresh ==
  Answered({"search", "fast", "workspace"}) =>
    \A m \in pool \ chained : \A r \in Row[m].members :
      goneBefore[r] = "live"

(* tll-augmentation.ts:132 "`performSearch` is the global retrieval path - *)
(* `postProcessResults` already drops workspace-scoped rows".              *)
GlobalAnswersArePersonal ==
  Answered({"search", "fast", "asOf"}) =>
    \A m \in pool : Row[m].workspace = None

(* temporal-result-protection.ts:2 "Protect exact temporal keyword hits    *)
(* from being dropped by late-stage reranking or MMR": the selection gives *)
(* up a protected print only when all it keeps are protected too.          *)
ProtectedSurvive ==
  [][step = "select" /\ step' # "select" =>
       \/ prints \cap PrintsOf(pool) \subseteq PrintsOf(pool')
       \/ \A m \in pool' : Row[m].print \in prints]_vars

=============================================================================
