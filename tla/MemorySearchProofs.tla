------------------------- MODULE MemorySearchProofs -------------------------
(***************************************************************************)
(* Proofs about MemorySearch for any rows, links, entities, chains, limits *)
(* and requests.  Every read but those of the event chains, of the claims  *)
(* and of the workspace returns rows that are live at that time and belong *)
(* to the person (ReadsArePersonal), and a row that is live during the     *)
(* search was live when it began.  The invariant follows the pool with     *)
(* these two facts from stage to stage.                                    *)
(***************************************************************************)
EXTENDS MemorySearch, TLAPS

States == {"live", "expired", "deleted"}
EarlySteps ==
  {"initial", "fallback", "coRetrieval", "subject", "literal", "temporal",
   "expansion", "repair", "iterative", "agentic", "rank", "select", "links"}
FreshSteps == {"consensus", "relevance", "chain", "package", "done"}
PersonSteps == EarlySteps \cup {"namespace", "stale"} \cup FreshSteps
AgentSteps == {"workspace", "workspaceStale", "workspaceRelevance"}

OfAgent == query.kind = "workspace"
OfPerson == query.kind \notin {"workspace", "asOf", "uri"}

LiveBefore ==
  /\ status \in [Memories -> States]
  /\ goneBefore \in [Memories -> States]
  /\ \A m \in Memories :
       /\ status[m] = "live" => goneBefore[m] = "live"
       /\ status[m] # "deleted" => goneBefore[m] # "deleted"

(* Which stages a kind of request passes, and when rows come from chains.  *)
Path ==
  /\ step \in {"idle", "asOf"} \cup PersonSteps \cup AgentSteps
  /\ step = "idle" => pool = {}
  /\ step = "asOf" => query.kind = "asOf"
  /\ query.kind = "uri" => step \in {"idle", "done"} /\ chained = {}
  /\ step \in AgentSteps => OfAgent
  /\ OfAgent => step \in {"idle", "done"} \cup AgentSteps
  /\ step \notin {"package", "done"} => chained = {}
  /\ OfAgent => chained = {}
  /\ chained \subseteq {m \in Memories : goneBefore[m] # "deleted"}

Known == {m \in Memories : goneBefore[m] = "live"}
Rows == {m \in Memories : Row[m].user = query.user /\ Row[m].workspace = None}
Shown == {m \in Memories :
            /\ Row[m].workspace = query.workspace
            /\ \/ Row[m].visibility \in {"workspace", None}
               \/ query.caller \in Row[m].grants \cup {Row[m].agent}}

PersonPool ==
  /\ OfPerson => pool \subseteq Rows /\ pool \ chained \subseteq Known
  /\ query.kind = "uri" => pool \subseteq {m \in Known : Row[m].user = query.user}
AgentPool == OfAgent => pool \subseteq Shown \cap Known
ScopePool ==
  OfPerson /\ step \in {"stale"} \cup FreshSteps =>
    \A m \in pool \ chained : InScope(m, query.scope)
FreshPool ==
  (OfPerson /\ step \in FreshSteps)
     \/ (OfAgent /\ step \in {"workspaceRelevance", "done"}) =>
    \A m \in pool \ chained : \A r \in Row[m].members : goneBefore[r] = "live"

IInv ==
  LiveBefore /\ Path /\ PersonPool /\ AgentPool /\ ScopePool /\ FreshPool

-----------------------------------------------------------------------------
(* What the reads return.                                                  *)

LEMMA CutsChoose ==
  ASSUME NEW S, NEW n
  PROVE  /\ \A T \in Top(S, n) : T \subseteq S
         /\ \A T \in AtMost(S, n) : T \subseteq S
BY DEF Top, AtMost

(* What is put back after a cut was a candidate.                           *)
LEMMA ProtectedAreCandidates ==
  ASSUME NEW S, NEW C, NEW protect,
         NEW T \in PreserveProtected(S, C, protect)
  PROVE  T \subseteq S \cup C
<1> DEFINE missing == (protect \cap PrintsOf(C)) \ PrintsOf(S)
           free    == {m \in S : Row[m].print \notin protect}
           n       == Least(Cardinality(missing), Cardinality(free))
           back    == SelectAnchorIds({m \in C : Row[m].print \in missing}, n)
<1>1. PICK out \in {U \in SUBSET free : Cardinality(U) = n} :
        T \in {(S \ out) \cup new : new \in back}
  BY DEF PreserveProtected
<1>2. PICK new \in back : T = (S \ out) \cup new
  BY <1>1
<1>3. new \subseteq C
  BY <1>2 DEF SelectAnchorIds
<1>. QED  BY <1>2, <1>3

LEMMA ReadsArePersonal ==
  ASSUME NEW user, NEW site, NEW n, NEW S
  PROVE  /\ \A T \in SearchVectors(user, site, n) : T \subseteq Personal(user)
         /\ \A T \in SearchKeyword(user, site, n) : T \subseteq Personal(user)
         /\ \A T \in SearchHybrid(user, site, n) : T \subseteq Personal(user)
         /\ \A T \in SearchAtomicFacts(user, site, n) : T \subseteq Personal(user)
         /\ \A T \in FindKeywordCandidates(user, n) : T \subseteq Personal(user)
         /\ FetchMemoriesByIds(user, S) \subseteq Personal(user)
BY CutsChoose DEF SearchVectors, SearchKeyword, SearchHybrid,
     SearchAtomicFacts, FindKeywordCandidates, FetchMemoriesByIds

LEMMA NeighboursArePersonal ==
  ASSUME NEW user, NEW A, NEW X, NEW n,
         NEW T \in FindTemporalNeighbors(user, A, X, n)
  PROVE  T \subseteq Personal(user)
BY CutsChoose DEF FindTemporalNeighbors

LEMMA EntityRowsArePersonal ==
  ASSUME NEW user, NEW X, NEW n
  PROVE  /\ \A T \in ExpandViaEntities(user, X, n) : T \subseteq Personal(user)
         /\ \A T \in ExpandQueryViaEntities(user, X, n) :
              T \subseteq Personal(user)
         /\ \A T \in CoRetrieveByEntityNames(user, X, n) :
              T \subseteq Personal(user)
<1>1. ASSUME NEW es, NEW T \in RowsAround(user, es, X, n)
      PROVE  T \subseteq Personal(user)
  <2>1. PICK R \in FindRelatedEntityIds(user, es, n) :
          T \in {FetchMemoriesByIds(user, ids) : ids \in
                   FindMemoryIdsByEntities(user, es \cup R, X, n)}
    BY DEF RowsAround
  <2>. QED  BY <2>1 DEF FetchMemoriesByIds
<1>2. \A T \in ExpandViaEntities(user, X, n) : T \subseteq Personal(user)
  BY <1>1 DEF ExpandViaEntities
<1>3. \A T \in ExpandQueryViaEntities(user, X, n) : T \subseteq Personal(user)
  BY <1>1 DEF ExpandQueryViaEntities
<1>4. \A T \in CoRetrieveByEntityNames(user, X, n) : T \subseteq Personal(user)
  BY DEF CoRetrieveByEntityNames, FetchMemoriesByIds
<1>. QED  BY <1>2, <1>3, <1>4

LEMMA LinkedRowsArePersonal ==
  ASSUME NEW S, NEW T \in ExpandWithLinks(S)
  PROVE  T \subseteq S \cup Personal(query.user)
<1>1. CASE T = S
  BY <1>1
<1>2. CASE T # S
  <2>1. PICK L \in FindLinkedMemoryIds(S, LinkMax) \cup ExpandViaPPR(S, LinkMax),
             N \in FindTemporalNeighbors(query.user, S, S, LinkMax),
             E \in ExpandViaEntities(query.user, S, LinkMax) :
          T \in AtMost(FetchMemoriesByIds(query.user, L) \cup N \cup E, LinkMax)
    BY <1>2 DEF ExpandWithLinks
  <2>2. /\ FetchMemoriesByIds(query.user, L) \subseteq Personal(query.user)
        /\ N \subseteq Personal(query.user)
        /\ E \subseteq Personal(query.user)
    BY ReadsArePersonal, NeighboursArePersonal, EntityRowsArePersonal
  <2>. QED  BY <2>1, <2>2, CutsChoose
<1>. QED  BY <1>1, <1>2

LEMMA RetrievedArePersonal ==
  /\ \A T \in RunMemoryRrfRetrieval : T \subseteq Personal(query.user)
  /\ \A T \in Retrieve : T \subseteq Personal(query.user)
<1>1. ASSUME NEW T \in RunMemoryRrfRetrieval
      PROVE  T \subseteq Personal(query.user)
  <2>1. PICK S \in SearchVectors(query.user, query.site, RerankDepth),
             E \in ExpandViaEntities(query.user, {}, RerankDepth),
             K \in SearchKeyword(query.user, query.site, RerankDepth) :
          T \in Top(S \cup E \cup K, RerankDepth)
    BY DEF RunMemoryRrfRetrieval
  <2>. QED
    BY <2>1, CutsChoose, ReadsArePersonal, EntityRowsArePersonal
<1>. QED  BY <1>1, ReadsArePersonal DEF Retrieve

-----------------------------------------------------------------------------
(* Rows that are live and the person's own were known before.              *)
LEMMA PersonalRowsWereKnown ==
  ASSUME IInv
  PROVE  Personal(query.user) \subseteq Rows \cap Known
BY DEF IInv, LiveBefore, Personal, Rows, Known

(* A stage before the namespace filter only adds personal rows.            *)
LEMMA EarlyStage ==
  ASSUME IInv, step \in EarlySteps, step' \in EarlySteps \cup {"namespace"},
         pool' \subseteq pool \cup Personal(query.user),
         UNCHANGED <<status, query, chained, goneBefore>>
  PROVE  IInv'
<1>1. LiveBefore'
  BY DEF IInv, LiveBefore
<1>2. ~OfAgent /\ chained = {}
  BY DEF IInv, Path, OfAgent, EarlySteps, AgentSteps
<1>3. Path'
  BY <1>2 DEF IInv, Path, OfAgent, EarlySteps, AgentSteps, PersonSteps
<1>4. PersonPool'
  BY <1>2, PersonalRowsWereKnown
  DEF IInv, PersonPool, OfPerson, Rows, Known
<1>5. AgentPool' /\ ScopePool' /\ FreshPool'
  BY <1>2 DEF AgentPool, ScopePool, FreshPool, OfAgent, OfPerson,
              EarlySteps, FreshSteps
<1>. QED  BY <1>1, <1>3, <1>4, <1>5 DEF IInv

(* A stage after it that only takes rows out keeps what holds of each.     *)
LEMMA LateStage ==
  ASSUME IInv, pool' \subseteq pool,
         \/ step \in {"consensus", "relevance", "package"}
              /\ step' \in {"relevance", "chain", "done"}
              /\ (step' = "done" <=> step = "package")
         \/ step = "workspaceRelevance" /\ step' = "done",
         UNCHANGED <<status, query, chained, goneBefore>>
  PROVE  IInv'
<1>1. LiveBefore'
  BY DEF IInv, LiveBefore
<1>2. Path'
  BY DEF IInv, Path, OfAgent, EarlySteps, FreshSteps, AgentSteps, PersonSteps
<1>3. PersonPool' /\ AgentPool'
  BY DEF IInv, PersonPool, AgentPool, OfPerson, OfAgent, Rows, Known, Shown
<1>4. ScopePool'
  BY DEF IInv, Path, ScopePool, OfPerson, OfAgent, FreshSteps, AgentSteps,
         InScope
<1>5. FreshPool'
  BY DEF IInv, Path, FreshPool, OfPerson, OfAgent, FreshSteps, AgentSteps
<1>. QED  BY <1>1, <1>2, <1>3, <1>4, <1>5 DEF IInv

(* No search has begun, and the table is as it was filled.                 *)
THEOREM Initial == Init => IInv
BY DEF Init, IInv, LiveBefore, States, Path, PersonPool, AgentPool,
   ScopePool, FreshPool, OfAgent, AgentSteps, FreshSteps

(* Expiring and deleting rows makes nothing live again.                    *)
LEMMA ChangesKeep ==
  ASSUME IInv, ChangeRow
  PROVE  IInv'
<1>1. UNCHANGED searchVars /\ step # "done"
  BY DEF ChangeRow
<1>2. PICK m \in Memories, s \in {"expired", "deleted"} :
        status' = [status EXCEPT ![m] = s] /\ status[m] = "live"
  BY DEF ChangeRow, Changed
<1>3. LiveBefore'
  <2>1. status' \in [Memories -> States] /\ goneBefore' = goneBefore
    BY <1>1, <1>2 DEF IInv, LiveBefore, States, searchVars
  <2>2. ASSUME NEW k \in Memories
        PROVE  /\ status'[k] = "live" => goneBefore'[k] = "live"
               /\ status'[k] # "deleted" => goneBefore'[k] # "deleted"
    BY <1>2, <2>1, <2>2 DEF IInv, LiveBefore
  <2>. QED  BY <2>1, <2>2 DEF IInv, LiveBefore
<1>4. Path' /\ PersonPool' /\ AgentPool' /\ ScopePool' /\ FreshPool'
  BY <1>1 DEF IInv, searchVars, Path, PersonPool, AgentPool, ScopePool,
     FreshPool, OfAgent, OfPerson, Rows, Known, Shown, InScope
<1>. QED  BY <1>3, <1>4 DEF IInv

(* The request comes: what is gone from now on was not gone before.        *)
LEMMA StartKeeps ==
  ASSUME IInv, Start \/ RefuseByLesson
  PROVE  IInv'
<1>1. /\ step = "idle" /\ pool = {} /\ chained = {}
      /\ goneBefore' = status /\ UNCHANGED <<status, query, pool, chained>>
  BY DEF IInv, Path, Start, RefuseByLesson
<1>2. LiveBefore'
  BY <1>1 DEF IInv, LiveBefore
<1>3. Path'
  <2>1. CASE Start
    BY <1>1, <2>1 DEF Start, Path, OfAgent, EarlySteps, AgentSteps,
       FreshSteps, PersonSteps
  <2>2. CASE RefuseByLesson
    BY <1>1, <2>2 DEF RefuseByLesson, Path, OfAgent, AgentSteps, FreshSteps,
       PersonSteps
  <2>. QED  BY <2>1, <2>2
<1>4. PersonPool' /\ AgentPool' /\ ScopePool' /\ FreshPool'
  BY <1>1 DEF PersonPool, AgentPool, ScopePool, FreshPool
<1>. QED  BY <1>2, <1>3, <1>4 DEF IInv

(* An address names rows that are live when they are read.                 *)
LEMMA AddressKeeps ==
  ASSUME IInv, ResolveUri
  PROVE  IInv'
<1>1. /\ step = "idle" /\ step' = "done" /\ query.kind = "uri" /\ chained = {}
      /\ goneBefore' = status /\ UNCHANGED <<status, query, chained>>
  BY DEF IInv, Path, ResolveUri
<1>2. pool' \subseteq {m \in Memories : GetMemory(query.user, m)}
  <2>1. CASE \E m \in {x \in Memories : GetMemory(query.user, x)} : pool' = {m}
    BY <2>1
  <2>2. CASE \E m \in Memories :
               pool' \in ListMemoriesByNamespace(query.user, Row[m].namespace, UriMax)
    BY <2>2, CutsChoose DEF ListMemoriesByNamespace
  <2>. QED  BY <2>1, <2>2 DEF ResolveUri
<1>3. LiveBefore'
  BY <1>1 DEF IInv, LiveBefore
<1>4. Path'
  BY <1>1 DEF Path, OfAgent, AgentSteps, PersonSteps, FreshSteps
<1>5. PersonPool'
  BY <1>1, <1>2 DEF PersonPool, OfPerson, Known, GetMemory
<1>6. AgentPool' /\ ScopePool' /\ FreshPool'
  BY <1>1 DEF AgentPool, ScopePool, FreshPool, OfAgent, OfPerson
<1>. QED  BY <1>3, <1>4, <1>5, <1>6 DEF IInv

-----------------------------------------------------------------------------
(* The stages before the namespace filter, by what they may add.           *)

LEMMA RetrievalKeeps ==
  ASSUME IInv, RunInitialRetrieval \/ MaybeApplyAbstractHybridFallback
  PROVE  IInv'
<1>1. CASE RunInitialRetrieval
  BY <1>1, EarlyStage, RetrievedArePersonal
  DEF RunInitialRetrieval, Stage, EarlySteps
<1>2. CASE MaybeApplyAbstractHybridFallback
  <2>1. pool' \subseteq pool \cup Personal(query.user)
    BY <1>2, RetrievedArePersonal DEF MaybeApplyAbstractHybridFallback, Stage
  <2>. QED
    BY <1>2, <2>1, EarlyStage
    DEF MaybeApplyAbstractHybridFallback, Stage, EarlySteps
<1>. QED  BY <1>1, <1>2

LEMMA MergedCutsArePersonal ==
  ASSUME NEW F, F \subseteq Personal(query.user), NEW T \in MergeCut(F)
  PROVE  T \subseteq pool \cup Personal(query.user)
BY CutsChoose DEF MergeCut

LEMMA MergesKeep ==
  ASSUME IInv,
         \/ ApplyEntityNameCoRetrieval \/ ApplyQueryExpansion
         \/ ApplyIterativeRetrieval \/ ApplyAgenticRetrieval
  PROVE  IInv'
<1>1. CASE ApplyEntityNameCoRetrieval
  <2>1. PICK F \in CoRetrieveByEntityNames(query.user, pool, LinkMax) :
          pool' \in MergeCut(F)
    BY <1>1 DEF ApplyEntityNameCoRetrieval, Stage
  <2>2. pool' \subseteq pool \cup Personal(query.user)
    BY <2>1, MergedCutsArePersonal, EntityRowsArePersonal
  <2>. QED
    BY <1>1, <2>2, EarlyStage DEF ApplyEntityNameCoRetrieval, Stage, EarlySteps
<1>2. CASE ApplyQueryExpansion
  <2>1. PICK F \in ExpandQueryViaEntities(query.user, pool, LinkMax) :
          pool' \in MergeCut(F)
    BY <1>2 DEF ApplyQueryExpansion, Stage
  <2>2. pool' \subseteq pool \cup Personal(query.user)
    BY <2>1, MergedCutsArePersonal, EntityRowsArePersonal
  <2>. QED
    BY <1>2, <2>2, EarlyStage DEF ApplyQueryExpansion, Stage, EarlySteps
<1>3. CASE ApplyIterativeRetrieval
  <2>1. \/ pool' = pool
        \/ \E F \in SearchVectors(query.user, query.site, RerankDepth) :
             pool' \in MergeCut(F)
    BY <1>3 DEF ApplyIterativeRetrieval, Stage
  <2>2. pool' \subseteq pool \cup Personal(query.user)
    BY <2>1, MergedCutsArePersonal, ReadsArePersonal
  <2>. QED
    BY <1>3, <2>2, EarlyStage DEF ApplyIterativeRetrieval, Stage, EarlySteps
<1>4. CASE ApplyAgenticRetrieval
  <2>1. \/ pool' = pool
        \/ \E F \in SearchHybrid(query.user, query.site, RerankDepth) :
             pool' \in MergeCut(F)
    BY <1>4 DEF ApplyAgenticRetrieval, Stage
  <2>2. pool' \subseteq pool \cup Personal(query.user)
    BY <2>1, MergedCutsArePersonal, ReadsArePersonal
  <2>. QED
    BY <1>4, <2>2, EarlyStage DEF ApplyAgenticRetrieval, Stage, EarlySteps
<1>. QED  BY <1>1, <1>2, <1>3, <1>4

LEMMA KeywordExpansionsKeep ==
  ASSUME IInv, ApplySubjectQueryExpansion \/ ApplyLiteralQueryExpansion
  PROVE  IInv'
<1>1. \A F \in {{}} \cup FetchAndBoostKeywordCandidates :
        F \subseteq Personal(query.user)
  BY ReadsArePersonal DEF FetchAndBoostKeywordCandidates
<1>2. pool' \subseteq pool \cup Personal(query.user)
  BY <1>1 DEF ApplySubjectQueryExpansion, ApplyLiteralQueryExpansion, Stage,
              ExpandSubjectQuery, ExpandLiteralQuery
<1>. QED
  BY <1>2, EarlyStage
  DEF ApplySubjectQueryExpansion, ApplyLiteralQueryExpansion, Stage, EarlySteps

(* New anchors are hits, and their neighbours personal rows.               *)
LEMMA TemporalExpansionKeeps ==
  ASSUME IInv, ApplyTemporalQueryExpansion \/ SkipTemporalQueryExpansion
  PROVE  IInv'
<1>1. CASE ApplyTemporalQueryExpansion
  <2> DEFINE Near(known, new) ==
               FindTemporalNeighbors(query.user,
                 FetchMemoriesByIds(query.user, known \cup new),
                 pool \cup known \cup new, RerankDepth)
             Kept(known, new, near) ==
               UNION {PreserveProtected(cut, pool \cup new \cup near,
                                        PrintsOf(known \cup new)) :
                        cut \in Top(pool \cup new \cup near, RerankDepth)}
             New(hits, known) ==
               SelectAnchorIds(hits \ pool, MaxAnchors - Cardinality(known))
  <2>1. PICK hits \in FindKeywordCandidates(query.user, RerankDepth) :
          \E known \in SelectAnchorIds(hits \cap pool, MaxAnchors) :
          \E new \in New(hits, known) : \E near \in Near(known, new) :
            pool' \in Kept(known, new, near)
    BY <1>1 DEF ApplyTemporalQueryExpansion
  <2>2. PICK known : \E new \in New(hits, known) :
                     \E near \in Near(known, new) :
                       pool' \in Kept(known, new, near)
    BY <2>1
  <2>3. PICK new \in New(hits, known) :
          \E near \in Near(known, new) : pool' \in Kept(known, new, near)
    BY <2>2
  <2>4. PICK near \in Near(known, new) : pool' \in Kept(known, new, near)
    BY <2>3
  <2>5. PICK cut \in Top(pool \cup new \cup near, RerankDepth) :
          pool' \in PreserveProtected(cut, pool \cup new \cup near,
                                      PrintsOf(known \cup new))
    BY <2>4
  <2>6. pool' \subseteq pool \cup new \cup near
    BY <2>5, CutsChoose, ProtectedAreCandidates
  <2>7. new \subseteq Personal(query.user)
    BY <2>1, <2>3, ReadsArePersonal DEF SelectAnchorIds
  <2>8. near \subseteq Personal(query.user)
    BY <2>4, NeighboursArePersonal
  <2>. QED
    BY <1>1, <2>6, <2>7, <2>8, EarlyStage
    DEF ApplyTemporalQueryExpansion, EarlySteps
<1>2. CASE SkipTemporalQueryExpansion
  BY <1>2, EarlyStage DEF SkipTemporalQueryExpansion, Stage, EarlySteps
<1>. QED  BY <1>1, <1>2

LEMMA RepairKeeps ==
  ASSUME IInv, ApplyRepairLoop
  PROVE  IInv'
<1>1. pool' \subseteq pool \cup Personal(query.user)
  <2>1. CASE pool' = pool
    BY <2>1
  <2>2. CASE pool' # pool
    <3>1. PICK F \in Retrieve :
            pool' \in UNION {PreserveProtected(cut, pool \cup F, prints) :
                               cut \in Top(pool \cup F, RerankDepth)}
      BY <2>2 DEF ApplyRepairLoop, Stage
    <3>2. PICK cut \in Top(pool \cup F, RerankDepth) :
            pool' \in PreserveProtected(cut, pool \cup F, prints)
      BY <3>1
    <3>. QED
      BY <3>1, <3>2, CutsChoose, ProtectedAreCandidates, RetrievedArePersonal
  <2>. QED  BY <2>1, <2>2
<1>. QED
  BY <1>1, EarlyStage DEF ApplyRepairLoop, Stage, EarlySteps

LEMMA RankingKeeps ==
  ASSUME IInv, ApplyRankingStages
  PROVE  IInv'
BY EarlyStage DEF ApplyRankingStages, EarlySteps

(* Before or after the cut, only links add rows to the selection.          *)
LEMMA SelectionKeeps ==
  ASSUME IInv, SelectAndExpand \/ ExpandSelection \/ SelectWithPreMmrExpansion
  PROVE  IInv'
<1>1. CASE SelectAndExpand
  <2>1. PICK cut \in Top(pool, Limit) :
          pool' \in PreserveProtected(cut, pool, prints)
    BY <1>1 DEF SelectAndExpand, Stage
  <2>2. pool' \subseteq pool
    BY <2>1, CutsChoose, ProtectedAreCandidates
  <2>. QED
    BY <1>1, <2>2, EarlyStage DEF SelectAndExpand, Stage, EarlySteps
<1>2. CASE ExpandSelection
  <2>1. PICK X \in ExpandWithLinks(pool) : pool' = pool \cup X
    BY <1>2 DEF ExpandSelection, Stage
  <2>2. pool' \subseteq pool \cup Personal(query.user)
    BY <2>1, LinkedRowsArePersonal
  <2>. QED
    BY <1>2, <2>2, EarlyStage DEF ExpandSelection, Stage, EarlySteps
<1>3. CASE SelectWithPreMmrExpansion
  <2>1. PICK cut \in Top(pool, Limit) :
          pool' \in UNION {UNION {PreserveProtected(T, cut \cup X, prints) :
                                    T \in Top(cut \cup X, Limit)} :
                           X \in ExpandWithLinks(cut)}
    BY <1>3 DEF SelectWithPreMmrExpansion, Stage
  <2>2. PICK X \in ExpandWithLinks(cut) :
          pool' \in UNION {PreserveProtected(T, cut \cup X, prints) :
                             T \in Top(cut \cup X, Limit)}
    BY <2>1
  <2>3. PICK T \in Top(cut \cup X, Limit) :
          pool' \in PreserveProtected(T, cut \cup X, prints)
    BY <2>2
  <2>4. pool' \subseteq cut \cup X
    BY <2>3, CutsChoose, ProtectedAreCandidates
  <2>5. cut \subseteq pool /\ X \subseteq cut \cup Personal(query.user)
    BY <2>1, <2>2, CutsChoose, LinkedRowsArePersonal
  <2>. QED
    BY <1>3, <2>4, <2>5, EarlyStage
    DEF SelectWithPreMmrExpansion, Stage, EarlySteps
<1>. QED  BY <1>1, <1>2, <1>3

-----------------------------------------------------------------------------
(* The stages after it.                                                    *)

LEMMA NamespaceFilterKeeps ==
  ASSUME IInv, ApplyNamespaceScopeFilter
  PROVE  IInv'
<1>1. /\ step = "namespace" /\ step' = "stale"
      /\ pool' = {m \in pool : InScope(m, query.scope)}
      /\ UNCHANGED <<status, query, chained, goneBefore>>
  BY DEF ApplyNamespaceScopeFilter, Stage
<1>2. ~OfAgent /\ chained = {}
  BY <1>1 DEF IInv, Path, OfAgent, AgentSteps
<1>3. LiveBefore' /\ Path'
  BY <1>1, <1>2 DEF IInv, LiveBefore, Path, OfAgent, AgentSteps, PersonSteps
<1>4. PersonPool'
  BY <1>1 DEF IInv, PersonPool, OfPerson, Rows, Known
<1>5. AgentPool' /\ FreshPool'
  BY <1>1, <1>2 DEF AgentPool, FreshPool, OfAgent, OfPerson, FreshSteps
<1>6. ScopePool'
  BY <1>1 DEF ScopePool, OfPerson, InScope
<1>. QED  BY <1>3, <1>4, <1>5, <1>6 DEF IInv

(* A member whose row is found now was live when the request came.         *)
LEMMA FreshMembersWereKnown ==
  ASSUME IInv, pool \subseteq Memories,
         NEW m \in WithoutStaleComposites, NEW r \in Row[m].members
  PROVE  goneBefore[r] = "live"
<1>1. m \in Memories /\ GetMemory(query.user, r)
  BY DEF WithoutStaleComposites, IsComposite, HasStaleMember
<1>2. r \in Memories
  BY <1>1, MembersAssumption
<1>. QED  BY <1>1, <1>2 DEF GetMemory, IInv, LiveBefore

LEMMA StaleFilterKeeps ==
  ASSUME IInv, ExcludeStaleComposites
  PROVE  IInv'
<1>1. /\ step = "stale" /\ step' = "consensus"
      /\ pool' = {m \in WithoutStaleComposites : Row[m].workspace = None}
      /\ UNCHANGED <<status, query, chained, goneBefore>>
  BY DEF ExcludeStaleComposites, Stage
<1>2. ~OfAgent /\ chained = {}
  BY <1>1 DEF IInv, Path, OfAgent, AgentSteps
<1>3. pool' \subseteq pool
  BY <1>1 DEF WithoutStaleComposites
<1>4. LiveBefore' /\ Path'
  BY <1>1, <1>2 DEF IInv, LiveBefore, Path, OfAgent, AgentSteps, PersonSteps,
     FreshSteps
<1>5. PersonPool'
  BY <1>1, <1>3 DEF IInv, PersonPool, OfPerson, Rows, Known
<1>6. AgentPool'
  BY <1>1, <1>2 DEF AgentPool, OfAgent
<1>7. ScopePool'
  BY <1>1, <1>3 DEF IInv, ScopePool, OfPerson, InScope
<1>8. FreshPool'
  <2>1. SUFFICES ASSUME OfPerson, NEW m \in pool', NEW r \in Row[m].members
                 PROVE  goneBefore[r] = "live"
    BY <1>1, <1>2 DEF FreshPool, OfPerson, OfAgent
  <2>2. pool \subseteq Memories
    BY <2>1 DEF IInv, PersonPool, Rows
  <2>. QED  BY <1>1, <2>2, FreshMembersWereKnown
<1>. QED  BY <1>4, <1>5, <1>6, <1>7, <1>8 DEF IInv

LEMMA NarrowingKeeps ==
  ASSUME IInv,
         \/ ValidateConsensus \/ ApplySearchRelevanceFilter
         \/ ApplyFlatPackagingPolicy \/ FilterInWorkspace
  PROVE  IInv'
<1>1. CASE ValidateConsensus
  BY <1>1, LateStage DEF ValidateConsensus, Stage
<1>2. CASE ApplySearchRelevanceFilter
  BY <1>2, LateStage DEF ApplySearchRelevanceFilter, Stage
<1>3. CASE ApplyFlatPackagingPolicy
  BY <1>3, LateStage
  DEF ApplyFlatPackagingPolicy, Stage, DeduplicateCompositeMembersSoft,
      SuppressOverlappingComposites
<1>4. CASE FilterInWorkspace
  BY <1>4, LateStage DEF FilterInWorkspace, Stage
<1>. QED  BY <1>1, <1>2, <1>3, <1>4

(* A search as of an instant is neither a person's nor an agent's here.    *)
LEMMA ClaimSearchKeeps ==
  ASSUME IInv, SearchClaimVersions
  PROVE  IInv'
<1>1. /\ step = "asOf" /\ step' = "consensus"
      /\ UNCHANGED <<status, query, chained, goneBefore>>
  BY DEF SearchClaimVersions, Stage
<1>2. query.kind = "asOf" /\ chained = {}
  BY <1>1 DEF IInv, Path
<1>3. LiveBefore' /\ Path'
  BY <1>1, <1>2 DEF IInv, LiveBefore, Path, OfAgent, AgentSteps, PersonSteps,
     FreshSteps
<1>4. PersonPool' /\ AgentPool' /\ ScopePool' /\ FreshPool'
  BY <1>1, <1>2 DEF PersonPool, AgentPool, ScopePool, FreshPool, OfPerson,
     OfAgent
<1>. QED  BY <1>3, <1>4 DEF IInv

(* A chain brings the person's own rows that are not deleted, no others.   *)
LEMMA ChainKeeps ==
  ASSUME IInv, AppendTllAugmentation
  PROVE  IInv'
<1>1. PICK ids \in Top(ChainIds, Limit) \cup {{}} :
        /\ step = "chain" /\ step' = "package"
        /\ pool' = pool \cup HydrateChainMemories(query.user, ids)
        /\ chained' = HydrateChainMemories(query.user, ids)
        /\ UNCHANGED <<status, query, goneBefore>>
  BY DEF AppendTllAugmentation
<1>2. ~OfAgent /\ chained = {} /\ query.kind # "uri"
  BY <1>1 DEF IInv, Path, OfAgent, AgentSteps
<1>3. ids \subseteq Memories
  BY <1>1, CutsChoose, ChainsAssumption DEF ChainIds
<1>4. /\ chained' \subseteq Rows
      /\ \A m \in chained' : status[m] # "deleted"
      /\ pool' \ chained' \subseteq pool \ chained
  BY <1>1, <1>2, <1>3 DEF HydrateChainMemories, Rows
<1>5. LiveBefore'
  BY <1>1 DEF IInv, LiveBefore
<1>6. Path'
  <2>1. chained' \subseteq {m \in Memories : goneBefore[m] # "deleted"}
    BY <1>4 DEF IInv, LiveBefore, Rows
  <2>. QED
    BY <1>1, <1>2, <2>1
    DEF Path, OfAgent, AgentSteps, PersonSteps, FreshSteps
<1>7. PersonPool'
  <2>1. Rows' = Rows /\ Known' = Known
    BY <1>1 DEF Rows, Known
  <2>. QED
    BY <1>1, <1>2, <1>4, <2>1 DEF IInv, PersonPool, OfPerson
<1>8. AgentPool'
  BY <1>1, <1>2 DEF AgentPool, OfAgent
<1>9. ScopePool' /\ FreshPool'
  BY <1>1, <1>2, <1>4 DEF IInv, ScopePool, FreshPool, OfPerson, OfAgent,
     FreshSteps, InScope
<1>. QED  BY <1>5, <1>6, <1>7, <1>8, <1>9 DEF IInv

LEMMA WorkspaceKeeps ==
  ASSUME IInv, SearchWorkspace \/ ExcludeStaleInWorkspace
  PROVE  IInv'
<1>1. CASE SearchWorkspace
  <2>1. /\ step = "workspace" /\ step' = "workspaceStale"
        /\ pool' \in SearchVectorsInWorkspace(query.workspace, query.caller,
                                             query.agents, Limit)
        /\ UNCHANGED <<status, query, chained, goneBefore>>
    BY <1>1 DEF SearchWorkspace, Stage
  <2>2. OfAgent /\ ~OfPerson /\ chained = {}
    BY <2>1 DEF IInv, Path, OfAgent, OfPerson, AgentSteps
  <2>3. LiveBefore' /\ Path'
    BY <2>1, <2>2 DEF IInv, LiveBefore, Path, OfAgent, AgentSteps
  <2>4. pool' \subseteq {m \in Memories : status[m] = "live"
                            /\ Row[m].workspace = query.workspace}
                         \cap VisibilityClause(query.caller)
    BY <2>1, CutsChoose DEF SearchVectorsInWorkspace
  <2>5. pool' \subseteq Shown \cap Known
    BY <2>4 DEF IInv, LiveBefore, VisibilityClause, Shown, Known
  <2>6. AgentPool'
    BY <2>1, <2>5 DEF AgentPool, Shown, Known
  <2>7. PersonPool' /\ ScopePool' /\ FreshPool'
    BY <2>1, <2>2 DEF PersonPool, ScopePool, FreshPool, OfPerson, OfAgent
  <2>. QED  BY <2>3, <2>6, <2>7 DEF IInv
<1>2. CASE ExcludeStaleInWorkspace
  <2>1. /\ step = "workspaceStale" /\ step' = "workspaceRelevance"
        /\ pool' = WithoutStaleComposites
        /\ UNCHANGED <<status, query, chained, goneBefore>>
    BY <1>2 DEF ExcludeStaleInWorkspace, Stage
  <2>2. OfAgent /\ ~OfPerson /\ chained = {}
    BY <2>1 DEF IInv, Path, OfAgent, OfPerson, AgentSteps
  <2>3. LiveBefore' /\ Path'
    BY <2>1, <2>2 DEF IInv, LiveBefore, Path, OfAgent, AgentSteps
  <2>4. pool \subseteq Shown \cap Known
    BY <2>2 DEF IInv, AgentPool
  <2>5. AgentPool'
    BY <2>1, <2>4 DEF AgentPool, WithoutStaleComposites, Shown, Known
  <2>6. \A m \in pool' : \A r \in Row[m].members : goneBefore'[r] = "live"
    BY <2>1, <2>4, FreshMembersWereKnown DEF Shown
  <2>7. PersonPool' /\ ScopePool' /\ FreshPool'
    BY <2>1, <2>2, <2>6 DEF PersonPool, ScopePool, FreshPool, OfPerson, OfAgent
  <2>. QED  BY <2>3, <2>5, <2>7 DEF IInv
<1>. QED  BY <1>1, <1>2

-----------------------------------------------------------------------------
(* Every step keeps what is known of the pool.                             *)
THEOREM StepKeeps == IInv /\ [Next]_vars => IInv'
<1>1. CASE Next /\ IInv
  BY <1>1, ChangesKeep, StartKeeps, AddressKeeps, RetrievalKeeps, MergesKeep,
     KeywordExpansionsKeep, TemporalExpansionKeeps, RepairKeeps, RankingKeeps,
     SelectionKeeps, NamespaceFilterKeeps, StaleFilterKeeps, NarrowingKeeps,
     ClaimSearchKeeps, ChainKeeps, WorkspaceKeeps
  DEF Next
<1>2. CASE UNCHANGED vars /\ IInv
  BY <1>2 DEF vars, IInv, LiveBefore, Path, PersonPool, AgentPool, ScopePool,
     FreshPool, OfAgent, OfPerson, Rows, Known, Shown, InScope
<1>. QED  BY <1>1, <1>2

(* The invariant holds in every search, whatever else happens meanwhile.   *)
THEOREM Invariance == Spec => []IInv
BY Initial, StepKeeps, PTL DEF Spec

(* No answer holds a memory that was gone when its request came, but for   *)
(* an expired one that an event chain brings.                              *)
THEOREM GoneRowsStayHidden == Spec => []GoneStayHidden
<1>1. IInv => GoneStayHidden
  BY DEF IInv, LiveBefore, Path, PersonPool, AgentPool, GoneStayHidden,
     Answered, OfPerson, OfAgent, Known, Rows, Shown, States
<1>. QED  BY <1>1, Invariance, PTL

(* Every answer stays with the person, or in the workspace, that asked.    *)
THEOREM AnswersStayWhereAsked == Spec => []AnswersStayInScope
<1>1. IInv => AnswersStayInScope
  BY DEF IInv, Path, PersonPool, AgentPool, ScopePool, AnswersStayInScope,
     Answered, OfPerson, OfAgent, Rows, Shown, FreshSteps
<1>. QED  BY <1>1, Invariance, PTL

(* No answer holds a composite of which a member was gone before.          *)
THEOREM StaleCompositesStayOut == Spec => []CompositesAreFresh
<1>1. IInv => CompositesAreFresh
  BY DEF IInv, Path, FreshPool, CompositesAreFresh, Answered, OfPerson,
     OfAgent, FreshSteps
<1>. QED  BY <1>1, Invariance, PTL

=============================================================================
