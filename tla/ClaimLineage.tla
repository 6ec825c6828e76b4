---------------------------- MODULE ClaimLineage ----------------------------
(***************************************************************************)
(* Claim lineage of the AUDN (Add / Update / Delete / Noop) write path.    *)
(*                                                                         *)
(* The tables memories, memory_claims, memory_claim_versions,              *)
(* memory_evidence and canonical_memory_objects are append-only sequences  *)
(* whose rows are later updated in place; a row's id is its index and      *)
(* None (0) is SQL NULL.  The server runs no transaction around a          *)
(* mutation: every repository call is one auto-committed statement on the  *)
(* connection pool.  A request is therefore a list of statements still to  *)
(* be run (todo) and a few locals; one step runs one statement, so other   *)
(* requests interleave, and an error or a crash can drop the rest of the   *)
(* list, between any two statements.                                       *)
(*                                                                         *)
(* A text (content, atomic facts) is represented by the request that       *)
(* wrote it.                                                               *)
(***************************************************************************)
EXTENDS Integers, Sequences, FiniteSets

CONSTANTS
  Requests,       \* requests the server may receive, each runs one operation
  MaxConcurrent,  \* bound: requests in flight at the same time
  MaxFailures,    \* bound: requests that die between two statements
  Deletable       \* lives of the memories that DELETE /v1/memories/:id is sent for

Lives == {"active", "needs_clarification", "expired", "deleted"}

ASSUME BoundsAssumption == MaxConcurrent \in Nat /\ MaxFailures \in Nat
ASSUME DeletableAssumption == Deletable \subseteq Lives

None == 0

VARIABLES
  memories,   \* rows of memories
  claims,     \* rows of memory_claims
  versions,   \* rows of memory_claim_versions
  evidence,   \* rows of memory_evidence: <<claim version, memory>>
  cmos,       \* rows of canonical_memory_objects
  request,    \* what every request is doing
  failures    \* number of requests that died half way

tables == <<memories, claims, versions, evidence, cmos>>
vars == <<memories, claims, versions, evidence, cmos, request, failures>>

-----------------------------------------------------------------------------
(* The operations, as the statements they run.  A program or statement     *)
(* whose name says what it gets wrong is a mutant of the one after it: the *)
(* slip that a property is shown to catch.                                 *)

(* emitCanonicalAdd with storeProjection as its createProjection callback. *)
StoreProgram ==
  <<"storeCmo", "storeMemory", "storeFacts", "createClaim", "createVersion",
    "setCurrent", "addEvidence">>

(* ensureClaimTarget reads the target, then the version of the target.     *)
EnsureProgram == <<"getMemory", "ensureClaimTarget">>

(* updateCanonicalFact, emitCanonicalUpdate and createUpdateVersion.       *)
UpdateProgramUnlinked ==
  EnsureProgram \o
  <<"updateContent", "deleteFacts", "storeFacts", "closeOld", "releaseOld",
    "createVersion", "setCurrent", "addEvidence", "storeCmo", "relinkCmo">>
UpdateProgramKeepFacts ==
  EnsureProgram \o
  <<"updateContent", "storeFacts", "closeOld", "releaseOld", "createVersion",
    "linkOld", "setCurrent", "addEvidence", "storeCmo", "relinkCmo">>
UpdateProgramNoRelink ==
  EnsureProgram \o
  <<"updateContent", "deleteFacts", "storeFacts", "closeOld", "releaseOld",
    "createVersion", "linkOld", "setCurrent", "addEvidence", "storeCmo">>
UpdateProgram ==
  EnsureProgram \o
  <<"updateContent", "deleteFacts", "storeFacts", "closeOld", "releaseOld",
    "createVersion", "linkOld", "setCurrent", "addEvidence", "storeCmo",
    "relinkCmo">>

(* supersedeCanonicalFact and emitCanonicalSupersede.                      *)
SupersedeProgramExpireLast ==
  EnsureProgram \o
  <<"storeMemory", "storeFacts", "createVersion", "closeOld", "setCurrent",
    "addEvidence", "storeCmo", "relinkCmo", "expireMemory">>
SupersedeProgramNoExpire ==
  EnsureProgram \o
  <<"storeMemory", "storeFacts", "createVersion", "closeOld", "setCurrent",
    "addEvidence", "storeCmo", "relinkCmo">>
SupersedeProgramNewClaim ==
  EnsureProgram \o
  <<"expireMemory", "storeMemory", "storeFacts", "createClaim",
    "createVersion", "closeOld", "setCurrent", "addEvidence", "storeCmo",
    "relinkCmo">>
SupersedeProgram ==
  EnsureProgram \o
  <<"expireMemory", "storeMemory", "storeFacts", "createVersion", "closeOld",
    "setCurrent", "addEvidence", "storeCmo", "relinkCmo">>

(* deleteCanonicalFact and emitCanonicalDelete.                            *)
DeleteProgramMemoryLast ==
  EnsureProgram \o
  <<"createTombstone", "closeOld", "invalidateClaim", "storeCmo",
    "softDelete">>
DeleteProgram ==
  EnsureProgram \o
  <<"softDelete", "createTombstone", "closeOld", "invalidateClaim",
    "storeCmo">>

(* recordNoop; its catch block turns an error into a skipped fact.         *)
NoopProgram == EnsureProgram \o <<"citeTarget">>

(* deleteMemory behind DELETE /v1/memories/:id.                            *)
RemoveProgram == <<"getClaimVersion", "softDelete">>
RemoveClaim == <<"closeOld", "invalidateClaim">>

(* The writers that bypass lineage: archiveDecayed, deleteMemoryInWorkspace *)
(* and the members a consolidation archives only soft-delete; storeVerbatim *)
(* and storeClarification only insert a memory.                            *)
ArchiveProgram == <<"softDelete">>
VerbatimProgram == <<"storeMemory">>
ClarifyProgram == <<"storeClarification">>

(* emitBackfill, run by ensureClaimTarget for a memory without a version.  *)
BackfillProgram ==
  <<"createClaim", "backfillVersion", "backfillCurrent", "citeTarget">>

Operations ==
  {"add", "update", "supersede", "delete", "noop", "remove", "archive",
   "verbatim", "clarify"}

Program ==
  [ add       |-> StoreProgram,
    update    |-> UpdateProgram,
    supersede |-> SupersedeProgram,
    delete    |-> DeleteProgram,
    noop      |-> NoopProgram,
    remove    |-> RemoveProgram,
    archive   |-> ArchiveProgram,
    verbatim  |-> VerbatimProgram,
    clarify   |-> ClarifyProgram ]

Statements ==
  {"storeCmo", "storeMemory", "storeFacts", "createClaim", "createVersion",
   "setCurrent", "addEvidence", "getMemory", "ensureClaimTarget",
   "updateContent", "deleteFacts", "closeOld", "releaseOld", "linkOld", "relinkCmo",
   "expireMemory", "softDelete", "createTombstone", "invalidateClaim",
   "citeTarget", "getClaimVersion", "storeClarification", "backfillVersion",
   "backfillCurrent"}

-----------------------------------------------------------------------------
(* Rows and locals.                                                        *)

Writer == Requests \cup {None}

MemoryRow ==
  [life: Lives, content: Requests, facts: SUBSET Requests, cmo: Nat]

ClaimRow ==
  [status: {"active", "deleted"}, current: Nat, invalidatedBy: Nat]

Kind == Operations \cup {"none", "backfill"}

(* born remembers the memory a version was created for; the column         *)
(* memory_id itself (memory) is released by an update of that memory.      *)
VersionRow ==
  [claim: Nat, memory: Nat, born: Nat, content: Writer, kind: Kind,
   previous: Nat, supersededBy: Nat, open: BOOLEAN]

CmoRow == [kind: Kind, previous: Nat, version: Nat]

(* The locals of a request: the memory its decision targets, the claim and *)
(* version ensureClaimTarget returned with the content and CMO read there, *)
(* the memory the new version projects, the new version and the new CMO.   *)
Local ==
  [op: Operations \cup {"none"}, todo: Seq(Statements), target: Nat,
   claim: Nat, version: Nat, seen: Writer, cmo: Nat, projection: Nat,
   newVersion: Nat, newCmo: Nat]

Idle ==
  [op |-> "none", todo |-> <<>>, target |-> None, claim |-> None,
   version |-> None, seen |-> None, cmo |-> None, projection |-> None,
   newVersion |-> None, newCmo |-> None]

Running == {r \in Requests : request[r].todo # <<>>}
Quiescent == Running = {}

At(r, s) == request[r].todo # <<>> /\ Head(request[r].todo) = s

(* Memories that the conflict search can return as candidates.             *)
Candidates == {m \in DOMAIN memories : memories[m].life = "active"}

(* Versions whose memory_id is m; the column is UNIQUE.                    *)
VersionsOf(m) == {v \in DOMAIN versions : versions[v].memory = m}

-----------------------------------------------------------------------------
Init ==
  /\ memories = <<>>
  /\ claims = <<>>
  /\ versions = <<>>
  /\ evidence = {}
  /\ cmos = <<>>
  /\ request = [r \in Requests |-> Idle]
  /\ failures = 0

(* A request starts one operation; the memory it targets was read before.  *)
Admit(r, op, m) ==
  /\ request[r].op = "none"
  /\ Cardinality(Running) < MaxConcurrent
  /\ request' = [request EXCEPT ![r] =
                   [@ EXCEPT !.op = op, !.target = m, !.todo = Program[op]]]
  /\ UNCHANGED <<tables, failures>>

StoreCanonicalFact(r) == Admit(r, "add", None)
UpdateCanonicalFact(r) == \E m \in Candidates : Admit(r, "update", m)
SupersedeCanonicalFact(r) == \E m \in Candidates : Admit(r, "supersede", m)
DeleteCanonicalFact(r) == \E m \in Candidates : Admit(r, "delete", m)
RecordNoop(r) == \E m \in Candidates : Admit(r, "noop", m)
StoreClarification(r) == Admit(r, "clarify", None)
StoreVerbatim(r) == Admit(r, "verbatim", None)
ArchiveMemory(r) == \E m \in Candidates : Admit(r, "archive", m)
DeleteMemory(r) ==
  \E m \in DOMAIN memories :
    memories[m].life \in Deletable /\ Admit(r, "remove", m)

-----------------------------------------------------------------------------
(* Statements.                                                             *)

(* A statement is done: the locals it leaves, and the statements that      *)
(* remain.                                                                 *)
Continue(r, local, rest) ==
  /\ request' = [request EXCEPT ![r] = [local EXCEPT !.todo = rest]]
  /\ UNCHANGED failures

Proceed(r, local) == Continue(r, local, Tail(request[r].todo))

StoreCmo(r) ==
  /\ At(r, "storeCmo")
  /\ cmos' = Append(cmos, [kind |-> request[r].op,
                           previous |-> request[r].cmo,
                           version |-> request[r].newVersion])
  /\ Proceed(r, [request[r] EXCEPT !.newCmo = Len(cmos) + 1])
  /\ UNCHANGED <<memories, claims, versions, evidence>>

InsertMemory(r, life) ==
  /\ memories' = Append(memories, [life |-> life, content |-> r, facts |-> {},
                                   cmo |-> request[r].newCmo])
  /\ Proceed(r, [request[r] EXCEPT !.projection = Len(memories) + 1])
  /\ UNCHANGED <<claims, versions, evidence, cmos>>

StoreMemory(r) == At(r, "storeMemory") /\ InsertMemory(r, "active")

InsertClarificationUnknownStatus(r) ==
  At(r, "storeClarification") /\ InsertMemory(r, "clarification")
InsertClarification(r) ==
  At(r, "storeClarification") /\ InsertMemory(r, "needs_clarification")

StoreFacts(r) ==
  /\ At(r, "storeFacts")
  /\ memories' = [memories EXCEPT ![request[r].projection].facts = @ \cup {r}]
  /\ Proceed(r, request[r])
  /\ UNCHANGED <<claims, versions, evidence, cmos>>

DeleteFacts(r) ==
  /\ At(r, "deleteFacts")
  /\ memories' = [memories EXCEPT ![request[r].projection].facts = {}]
  /\ Proceed(r, request[r])
  /\ UNCHANGED <<claims, versions, evidence, cmos>>

(* UPDATE ... WHERE deleted_at IS NULL: silently nothing for a deleted row. *)
UpdateContent(r) ==
  LET m == request[r].target IN
  /\ At(r, "updateContent")
  /\ memories' = IF memories[m].life = "deleted" THEN memories
                 ELSE [memories EXCEPT ![m].content = r]
  /\ Proceed(r, request[r])
  /\ UNCHANGED <<claims, versions, evidence, cmos>>

ExpireMemory(r) ==
  LET m == request[r].target IN
  /\ At(r, "expireMemory")
  /\ memories' = IF memories[m].life \in {"expired", "deleted"} THEN memories
                 ELSE [memories EXCEPT ![m].life = "expired"]
  /\ Proceed(r, request[r])
  /\ UNCHANGED <<claims, versions, evidence, cmos>>

SoftDelete(r) ==
  /\ At(r, "softDelete")
  /\ memories' = [memories EXCEPT ![request[r].target].life = "deleted"]
  /\ Proceed(r, request[r])
  /\ UNCHANGED <<claims, versions, evidence, cmos>>

RelinkCmo(r) ==
  /\ At(r, "relinkCmo")
  /\ memories' = [memories EXCEPT ![request[r].projection].cmo =
                                                        request[r].newCmo]
  /\ Proceed(r, request[r])
  /\ UNCHANGED <<claims, versions, evidence, cmos>>

(* ensureClaimTarget, first read: the target, deleted or not.              *)
GetMemory(r) ==
  LET m == request[r].target IN
  /\ At(r, "getMemory")
  /\ Proceed(r, [request[r] EXCEPT !.seen = memories[m].content,
                                   !.cmo = memories[m].cmo,
                                   !.projection = m])
  /\ UNCHANGED tables

(* ensureClaimTarget, second read: the version of the target; without one, *)
(* the backfill statements give it a claim first.                          *)
EnsureClaimTarget(r) ==
  LET m == request[r].target IN
  /\ At(r, "ensureClaimTarget")
  /\ \/ \E v \in VersionsOf(m) :
          Proceed(r, [request[r] EXCEPT !.claim = versions[v].claim,
                                        !.version = v])
     \/ /\ VersionsOf(m) = {}
        /\ Continue(r, request[r], BackfillProgram \o Tail(request[r].todo))
  /\ UNCHANGED tables

(* deleteMemory reads the version first and deletes the claim only if      *)
(* there is one.                                                           *)
GetClaimVersion(r) ==
  LET m == request[r].target IN
  /\ At(r, "getClaimVersion")
  /\ \/ \E v \in VersionsOf(m) :
          Continue(r, [request[r] EXCEPT !.claim = versions[v].claim,
                                         !.version = v],
                      Tail(request[r].todo) \o RemoveClaim)
     \/ VersionsOf(m) = {} /\ Proceed(r, request[r])
  /\ UNCHANGED tables

CreateClaim(r) ==
  /\ At(r, "createClaim")
  /\ claims' = Append(claims, [status |-> "active", current |-> None,
                               invalidatedBy |-> None])
  /\ Proceed(r, [request[r] EXCEPT !.claim = Len(claims) + 1])
  /\ UNCHANGED <<memories, versions, evidence, cmos>>

InsertVersion(r, m, content, kind, previous) ==
  versions' = Append(versions,
                [claim |-> request[r].claim, memory |-> m, born |-> m,
                 content |-> content, kind |-> kind, previous |-> previous,
                 supersededBy |-> None, open |-> TRUE])

CreateVersionUnlinked(r) ==
  LET m == request[r].projection IN
  /\ At(r, "createVersion")
  /\ VersionsOf(m) = {}
  /\ InsertVersion(r, m, r, request[r].op, None)
  /\ Proceed(r, [request[r] EXCEPT !.newVersion = Len(versions) + 1])
  /\ UNCHANGED <<memories, claims, evidence, cmos>>
CreateVersion(r) ==
  LET m == request[r].projection IN
  /\ At(r, "createVersion")
  /\ VersionsOf(m) = {}
  /\ InsertVersion(r, m, r, request[r].op, request[r].version)
  /\ Proceed(r, [request[r] EXCEPT !.newVersion = Len(versions) + 1])
  /\ UNCHANGED <<memories, claims, evidence, cmos>>

CreateTombstone(r) ==
  /\ At(r, "createTombstone")
  /\ InsertVersion(r, None, r, "delete", request[r].version)
  /\ Proceed(r, [request[r] EXCEPT !.newVersion = Len(versions) + 1])
  /\ UNCHANGED <<memories, claims, evidence, cmos>>

BackfillVersion(r) ==
  LET m == request[r].target IN
  /\ At(r, "backfillVersion")
  /\ VersionsOf(m) = {}
  /\ InsertVersion(r, m, request[r].seen, "backfill", None)
  /\ Proceed(r, [request[r] EXCEPT !.version = Len(versions) + 1])
  /\ UNCHANGED <<memories, claims, evidence, cmos>>

(* The UNIQUE constraint on memory_id rejects the INSERT and the error     *)
(* ends the request.                                                       *)
RejectDuplicate(r) ==
  /\ \/ At(r, "createVersion") /\ VersionsOf(request[r].projection) # {}
     \/ At(r, "backfillVersion") /\ VersionsOf(request[r].target) # {}
  /\ request' = [request EXCEPT ![r].todo = <<>>]
  /\ UNCHANGED <<tables, failures>>

(* supersedeClaimVersion: valid_to is set and superseded_by_version_id is  *)
(* overwritten, with NULL where the caller has no successor yet.           *)
CloseOldLeftOpen(r) ==
  /\ At(r, "closeOld")
  /\ versions' = [versions EXCEPT ![request[r].version].supersededBy =
                                                      request[r].newVersion]
  /\ Proceed(r, request[r])
  /\ UNCHANGED <<memories, claims, evidence, cmos>>
CloseOld(r) ==
  LET v == request[r].version IN
  /\ At(r, "closeOld")
  /\ versions' = [versions EXCEPT ![v] =
                    [@ EXCEPT !.open = FALSE,
                              !.supersededBy = request[r].newVersion]]
  /\ Proceed(r, request[r])
  /\ UNCHANGED <<memories, claims, evidence, cmos>>

ReleaseOld(r) ==
  /\ At(r, "releaseOld")
  /\ versions' = [versions EXCEPT ![request[r].version].memory = None]
  /\ Proceed(r, request[r])
  /\ UNCHANGED <<memories, claims, evidence, cmos>>

LinkOldReversed(r) ==
  /\ At(r, "linkOld")
  /\ versions' = [versions EXCEPT ![request[r].newVersion].supersededBy =
                                                      request[r].version]
  /\ Proceed(r, request[r])
  /\ UNCHANGED <<memories, claims, evidence, cmos>>
LinkOld(r) ==
  /\ At(r, "linkOld")
  /\ versions' = [versions EXCEPT ![request[r].version].supersededBy =
                                                      request[r].newVersion]
  /\ Proceed(r, request[r])
  /\ UNCHANGED <<memories, claims, evidence, cmos>>

(* setClaimCurrentVersion also re-activates the claim and clears the       *)
(* invalidation.                                                           *)
PointClaim(r, v) ==
  /\ claims' = [claims EXCEPT ![request[r].claim] =
                  [status |-> "active", current |-> v, invalidatedBy |-> None]]
  /\ Proceed(r, request[r])
  /\ UNCHANGED <<memories, versions, evidence, cmos>>

SetCurrent(r) == At(r, "setCurrent") /\ PointClaim(r, request[r].newVersion)

BackfillCurrent(r) ==
  At(r, "backfillCurrent") /\ PointClaim(r, request[r].version)

InvalidateClaim(r) ==
  /\ At(r, "invalidateClaim")
  /\ claims' = [claims EXCEPT ![request[r].claim] =
                  [status |-> "deleted", current |-> None,
                   invalidatedBy |-> request[r].newVersion]]
  /\ Proceed(r, request[r])
  /\ UNCHANGED <<memories, versions, evidence, cmos>>

Cite(r, v, m) ==
  /\ evidence' = evidence \cup {<<v, m>>}
  /\ Proceed(r, request[r])
  /\ UNCHANGED <<memories, claims, versions, cmos>>

AddEvidenceOfTarget(r) ==
  /\ At(r, "addEvidence")
  /\ Cite(r, request[r].newVersion, request[r].target)
AddEvidence(r) ==
  /\ At(r, "addEvidence")
  /\ Cite(r, request[r].newVersion, request[r].projection)

CiteTarget(r) ==
  /\ At(r, "citeTarget")
  /\ Cite(r, request[r].version, request[r].target)

(* A statement, an embedding or an LLM call fails, or the process dies:    *)
(* nothing is rolled back.                                                 *)
Fail(r) ==
  /\ request[r].todo # <<>>
  /\ failures < MaxFailures
  /\ failures' = failures + 1
  /\ request' = [request EXCEPT ![r].todo = <<>>]
  /\ UNCHANGED tables

Start(r) ==
  \/ StoreCanonicalFact(r) \/ UpdateCanonicalFact(r)
  \/ SupersedeCanonicalFact(r) \/ DeleteCanonicalFact(r)
  \/ RecordNoop(r) \/ StoreClarification(r) \/ StoreVerbatim(r)
  \/ ArchiveMemory(r) \/ DeleteMemory(r)

Statement(r) ==
  \/ StoreCmo(r) \/ StoreMemory(r) \/ InsertClarification(r)
  \/ StoreFacts(r) \/ DeleteFacts(r) \/ UpdateContent(r)
  \/ ExpireMemory(r) \/ SoftDelete(r) \/ RelinkCmo(r)
  \/ GetMemory(r) \/ EnsureClaimTarget(r) \/ GetClaimVersion(r) \/ CreateClaim(r)
  \/ CreateVersion(r) \/ CreateTombstone(r) \/ BackfillVersion(r)
  \/ RejectDuplicate(r) \/ CloseOld(r) \/ ReleaseOld(r) \/ LinkOld(r)
  \/ SetCurrent(r) \/ BackfillCurrent(r) \/ InvalidateClaim(r)
  \/ AddEvidence(r) \/ CiteTarget(r)

Next == \E r \in Requests : Start(r) \/ Statement(r) \/ Fail(r)

Spec == Init /\ [][Next]_vars

-----------------------------------------------------------------------------
(* Properties.                                                             *)

TypeOK ==
  /\ memories \in Seq(MemoryRow)
  /\ claims \in Seq(ClaimRow)
  /\ versions \in Seq(VersionRow)
  /\ evidence \subseteq Nat \X Nat
  /\ cmos \in Seq(CmoRow)
  /\ request \in [Requests -> Local]
  /\ failures \in Nat

(* Every pointer of a claim and of a version stays inside one claim: the   *)
(* current version, the tombstone that invalidated the claim, the previous *)
(* version and the successor.  No foreign key enforces it: the pointers    *)
(* are copied from what a request read several statements earlier.         *)
LineageStaysInClaim ==
  /\ \A c \in DOMAIN claims :
       \A v \in {claims[c].current, claims[c].invalidatedBy} \ {None} :
         v \in DOMAIN versions /\ versions[v].claim = c
  /\ \A v \in DOMAIN versions :
       \A w \in {versions[v].previous, versions[v].supersededBy} \ {None} :
         w \in DOMAIN versions /\ versions[w].claim = versions[v].claim

(* getReversalChain follows superseded_by_version_id until it is NULL: the *)
(* chain only ever moves to a younger version, so it cannot cycle, and the *)
(* version it moves to names the one it came from as its previous version. *)
SupersessionMovesForward ==
  \A v \in DOMAIN versions :
    LET w == versions[v].supersededBy IN
    w # None => w > v /\ w \in DOMAIN versions /\ versions[w].previous = v

(* Once a superseding version or a tombstone is in the lineage, the memory *)
(* of the version it replaces can no longer be retrieved: whatever fails   *)
(* and whoever interleaves, the old and the new fact are never both served *)
(* by the request that replaced one with the other.                        *)
ReplacedIsRetired ==
  \A v \in DOMAIN versions :
    versions[v].kind \in {"supersede", "delete"} /\ versions[v].previous # None
      => memories[versions[versions[v].previous].born].life
           \in {"expired", "deleted"}

(* An evidence row cites a memory for a version: it is the memory that     *)
(* version was written for, although memory_id may have been released or   *)
(* given to a later version between the read and the INSERT.               *)
EvidenceCitesOwnMemory ==
  \A e \in evidence :
    e[1] \in DOMAIN versions /\ versions[e[1]].born = e[2]

(* A claim has at most one memory that searches return.                    *)
OneActiveProjectionPerClaim ==
  \A v, w \in DOMAIN versions :
    /\ versions[v].claim = versions[w].claim
    /\ versions[v].memory \in Candidates
    /\ versions[w].memory \in Candidates
    => versions[v].memory = versions[w].memory

(* No request is half way and none has died half way.                     *)
Undisturbed == Quiescent /\ failures = 0

(* A memory that searches return and that has a version is what its claim  *)
(* currently says: the claim is active and points at that version.         *)
LiveProjectionIsCurrent ==
  Undisturbed =>
    \A v \in DOMAIN versions :
      versions[v].memory \in Candidates =>
        LET c == versions[v].claim IN
        claims[c].status = "active" /\ claims[c].current = v

(* The versions of a claim without valid_to: the current one of an active  *)
(* claim, and nothing but the tombstone of a deleted claim.                *)
OpenVersions(c) ==
  {v \in DOMAIN versions : versions[v].claim = c /\ versions[v].open}

OneOpenVersion ==
  Undisturbed =>
    \A c \in DOMAIN claims :
      OpenVersions(c) = IF claims[c].status = "active"
                          THEN {claims[c].current}
                          ELSE {claims[c].invalidatedBy} \ {None}

(* previous_version_id and superseded_by_version_id are inverse: the chain *)
(* getReversalChain traces reaches every version that replaced another.    *)
ForwardChainComplete ==
  Undisturbed =>
    \A v \in DOMAIN versions :
      LET p == versions[v].previous IN
      p # None => versions[p].supersededBy = v

(* The current version, the memory it projects, its atomic facts and the   *)
(* canonical object the memory names all hold the text of the same write.  *)
ProjectionsAgree ==
  Undisturbed =>
    \A c \in DOMAIN claims :
      LET v == claims[c].current
          m == versions[v].memory
      IN
      claims[c].status = "active" =>
        /\ memories[m].content = versions[v].content
        /\ versions[v].kind # "backfill" =>
             memories[m].facts = {versions[v].content}
        /\ versions[v].kind \in {"update", "supersede"} =>
             cmos[memories[m].cmo].version = v

(* A canonical object is succeeded at most once: the objects of a fact     *)
(* form one line (lineage.previousObjectId).                               *)
CmoLineIsLinear ==
  failures = 0 =>
    \A i, j \in DOMAIN cmos :
      cmos[i].previous = cmos[j].previous /\ cmos[i].previous # None => i = j

(* getAuditTrail of a memory: the versions of the claim findClaimByMemoryId *)
(* finds for it.                                                           *)
TrailClaims(m) ==
  LET previous == {versions[w].previous : w \in VersionsOf(m)} \ {None}
  IN  {versions[v].claim : v \in VersionsOf(m) \cup previous}

(* The audit trail of a memory shows every version written for it.         *)
AuditTrailIsComplete ==
  Quiescent =>
    \A m \in DOMAIN memories :
      \A v \in DOMAIN versions :
        versions[v].born = m /\ VersionsOf(m) # {}
          => versions[v].claim \in TrailClaims(m)

(* A deleted claim stays deleted: no statement of a request that read the  *)
(* claim earlier re-activates it.                                          *)
DeletedClaimStaysDeleted ==
  [][\A c \in DOMAIN claims :
       claims[c].status = "deleted" => claims'[c].status = "deleted"]_vars

=============================================================================
