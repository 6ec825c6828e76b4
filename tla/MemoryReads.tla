----------------------------- MODULE MemoryReads -----------------------------
(***************************************************************************)
(* What the statements that read the memories table may return: for every  *)
(* query of the search services its WHERE clause and its LIMIT.  Scores    *)
(* are abstracted, so a read with a LIMIT returns any set of admitted rows *)
(* of the right size; a read that also asks for matching words or entities *)
(* returns any part of it.                                                 *)
(***************************************************************************)
EXTENDS Integers, FiniteSets, SequencesExt

CONSTANTS
  Memories,    \* rows of the memories table
  Row,         \* the columns of each row that never change
  Links,       \* memory_links: pairs of memories, either order
  Entity,      \* user and memories (memory_entities) of each entity
  Relations,   \* pairs of entities with a relation that still holds
  Window,      \* TEMPORAL_NEIGHBOR_WINDOW_MINUTES
  None         \* NULL

ASSUME NoneAssumption == None \notin Memories
ASSUME LinksAssumption == Links \subseteq Memories \X Memories
ASSUME MembersAssumption ==
  \A m \in Memories : Row[m].members \subseteq Memories

VARIABLE status   \* live, expired (expired_at) or deleted (deleted_at)

Least(a, b) == IF a <= b THEN a ELSE b

(* ORDER BY score LIMIT n, for every order of the rows.                    *)
Top(S, n) == {T \in SUBSET S : Cardinality(T) = Least(Cardinality(S), n)}

(* The same after a condition on words that any of the rows may meet.      *)
AtMost(S, n) == {T \in SUBSET S : Cardinality(T) <= n}

Personal(user) ==
  {m \in Memories : /\ status[m] = "live"
                    /\ Row[m].user = user
                    /\ Row[m].workspace = None}

FromSite(site) == {m \in Memories : site \in {None, Row[m].site}}

SearchVectors(user, site, n) == Top(Personal(user) \cap FromSite(site), n)

SearchKeyword(user, site, n) == AtMost(Personal(user) \cap FromSite(site), n)

(* Both channels, fused: at least as many rows as the semantic one finds.  *)
SearchHybrid(user, site, n) == SearchVectors(user, site, n)

(* Parents of the facts that match; not every memory has facts.            *)
SearchAtomicFacts(user, site, n) ==
  AtMost(Personal(user) \cap FromSite(site), n)

FindKeywordCandidates(user, n) == AtMost(Personal(user), n)

FetchWhateverStatus(user, ids) ==
  {m \in ids : Row[m].user = user /\ Row[m].workspace = None}
FetchMemoriesByIds(user, ids) == ids \cap Personal(user)

FindTemporalNeighbors(user, anchors, exclude, n) ==
  Top({m \in Personal(user) \ exclude :
         \E a \in anchors : Row[m].created \in
           (Row[a].created - Window)..(Row[a].created + Window)}, n)

Linked(S) ==
  {m \in Memories : \E r \in S : <<r, m>> \in Links \/ <<m, r>> \in Links}

(* Neither the user nor the status is looked at, and the rows already      *)
(* known are taken out after the LIMIT.                                    *)
FindLinkedMemoryIds(S, n) ==
  UNION {AtMost(T \ S, n) : T \in
    Top({m \in Linked(S) : Row[m].workspace = None}, 2 * n)}

(* memory_links as they are, up to the hops that PageRank walks.           *)
ExpandViaPPR(S, n) ==
  AtMost((Linked(S) \cup Linked(Linked(S))) \ S, n)

-----------------------------------------------------------------------------
(* The entity graph.  Which entities a question names, or resembles, is    *)
(* abstracted; what is known already is taken out after the LIMIT.         *)
EntitiesOf(user) == {e \in DOMAIN Entity : Entity[e].user = user}

SearchEntities(user, n) == AtMost(EntitiesOf(user), n)
FindEntitiesByTerms(user) == SUBSET EntitiesOf(user)
FindEntitiesByName(user) == SUBSET EntitiesOf(user)

FindRelatedEntityIds(user, es, n) ==
  {T \ es : T \in
     Top({e \in EntitiesOf(user) : \E d \in es :
            <<d, e>> \in Relations \/ <<e, d>> \in Relations}, n)}

FindMemoryIdsByEntities(user, es, exclude, n) ==
  {T \ exclude : T \in
     Top(Personal(user) \cap UNION {Entity[e].memories : e \in es}, n)}

(* The entities, those related to them, and the memories of all of them.   *)
RowsAround(user, es, exclude, n) ==
  UNION {{FetchMemoriesByIds(user, ids) : ids \in
            FindMemoryIdsByEntities(user, es \cup R, exclude, n)} :
         R \in FindRelatedEntityIds(user, es, n)}

ExpandViaEntities(user, exclude, n) ==
  UNION {RowsAround(user, E, exclude, n) : E \in SearchEntities(user, 5)}

ExpandQueryViaEntities(user, exclude, n) ==
  UNION {RowsAround(user, E, exclude, n) : E \in FindEntitiesByTerms(user)}

CoRetrieveByEntityNames(user, exclude, n) ==
  UNION {{FetchMemoriesByIds(user, ids) : ids \in
            FindMemoryIdsByEntities(user, E, exclude, n)} :
         E \in FindEntitiesByName(user)}

-----------------------------------------------------------------------------
HydrateFromAnyWorkspace(user, ids) ==
  {m \in ids : /\ status[m] # "deleted"
               /\ Row[m].user = user}
(* The rows of an event chain, without a look at expired_at.               *)
HydrateChainMemories(user, ids) ==
  {m \in ids : /\ status[m] # "deleted"
               /\ Row[m].user = user
               /\ Row[m].workspace = None}

GetMemory(user, m) == status[m] = "live" /\ Row[m].user = user

(* Rows that a path names; neither read looks at workspaces.               *)
ListMemoriesByNamespace(user, path, n) ==
  Top({m \in Memories : /\ GetMemory(user, m)
                        /\ Row[m].namespace = path /\ path # <<>>}, n)

-----------------------------------------------------------------------------
(* Workspaces: which agents a caller asks for, and what it may see.        *)
AgentScopeClause(scope, caller) ==
  {m \in Memories :
     CASE scope = "all" -> TRUE
       [] scope = "others" -> Row[m].agent # caller
       [] scope = "self" -> Row[m].agent = caller
       [] OTHER -> Row[m].agent = scope}

VisibilityClause(caller) ==
  {m \in Memories :
     \/ Row[m].visibility \in {"workspace", None}
     \/ Row[m].agent = caller
     \/ Row[m].visibility = "restricted" /\ caller \in Row[m].grants}

SearchVectorsInWorkspace(workspace, caller, scope, n) ==
  Top({m \in Memories : status[m] = "live" /\ Row[m].workspace = workspace}
        \cap AgentScopeClause(scope, caller) \cap VisibilityClause(caller), n)

(* isInScope: rows without a namespace are in every scope.                 *)
InScope(m, scope) ==
  \/ scope = <<>> \/ Row[m].namespace = <<>>
  \/ IsPrefix(scope, Row[m].namespace)

IsComposite(m) == Row[m].members # {}

=============================================================================
