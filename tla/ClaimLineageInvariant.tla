------------------------ MODULE ClaimLineageInvariant ------------------------
(***************************************************************************)
(* The inductive invariant behind the safety of ClaimLineage.              *)
(*                                                                         *)
(* The tables alone do not explain why their pointers are right: a pointer *)
(* is written from the locals of a request, read several statements        *)
(* earlier.  The invariant says what those locals still mean, and which    *)
(* statements can no longer be ahead of a request that has set them.       *)
(***************************************************************************)
EXTENDS ClaimLineage

(* The statements that set newVersion, and those that set version.         *)
NewVersionStatements == {"createVersion", "createTombstone"}
OldVersionStatements ==
  {"ensureClaimTarget", "getClaimVersion", "backfillVersion"}

(* The statements that may not follow one that sets version / newVersion.  *)
BeforeOldVersion == OldVersionStatements \cup {"createClaim"}
BeforeNewVersion ==
  NewVersionStatements \cup BeforeOldVersion
    \cup {"storeMemory", "storeClarification", "getMemory"}

Targeted == {"update", "supersede", "delete", "noop", "remove", "archive"}
Replacing == {"supersede", "delete"}

Retired(m) ==
  m \in DOMAIN memories /\ memories[m].life \in {"expired", "deleted"}

(* todo has a statement of S at some place.                                *)
Has(todo, S) == \E i \in DOMAIN todo : todo[i] \in S

(* In todo no statement of T comes after a statement of S.                 *)
NoneAfter(todo, S, T) ==
  \A i, j \in DOMAIN todo : i < j /\ todo[i] \in S => todo[j] \notin T

(* In todo every statement of S comes after some statement of T.           *)
AllAfter(todo, S, T) ==
  \A i \in DOMAIN todo :
    todo[i] \in S => \E j \in DOMAIN todo : j < i /\ todo[j] \in T

-----------------------------------------------------------------------------
(* The order of the statements that a request still has to run.            *)
ProgramOrder(todo) ==
  /\ NoneAfter(todo, OldVersionStatements, BeforeOldVersion)
  /\ NoneAfter(todo, NewVersionStatements, BeforeNewVersion)

(* What an operation never has to run.                                     *)
ProgramOf(op, todo) ==
  /\ op \notin Targeted =>
       ~Has(todo, {"getMemory", "ensureClaimTarget", "getClaimVersion"})
  /\ op = "delete" => ~Has(todo, {"createVersion", "addEvidence"})
  /\ op # "delete" => ~Has(todo, {"createTombstone"})

(* The version a request read or backfilled belongs to the claim it will   *)
(* write to and was written for its target.                                *)
OldVersionKnown(l) ==
  l.version # None =>
    /\ l.version \in DOMAIN versions
    /\ versions[l.version].claim = l.claim
    /\ versions[l.version].born = l.target
    /\ ~Has(l.todo, BeforeOldVersion)

(* The version a request wrote follows the one it read, in the same claim. *)
NewVersionKnown(l) ==
  l.newVersion # None =>
    /\ l.newVersion \in DOMAIN versions
    /\ l.newVersion > l.version
    /\ versions[l.newVersion].claim = l.claim
    /\ versions[l.newVersion].previous = l.version
    /\ l.op # "delete" => versions[l.newVersion].born = l.projection
    /\ ~Has(l.todo, BeforeNewVersion)

(* A superseding version or a tombstone is never written before the memory *)
(* it replaces is retired.                                                 *)
TargetRetiredFirst(l) ==
  l.op \in Replacing =>
    \/ Retired(l.target)
    \/ AllAfter(l.todo, NewVersionStatements, {"expireMemory", "softDelete"})

(* Evidence is written for a version that exists by then.                  *)
CitedVersionKnown(l) ==
  /\ l.newVersion # None \/ AllAfter(l.todo, {"addEvidence"}, NewVersionStatements)
  /\ l.version # None
       \/ AllAfter(l.todo, {"citeTarget"}, {"ensureClaimTarget", "backfillVersion"})

(* What the locals of a request mean, whatever the other requests did in   *)
(* the meantime.                                                           *)
LocalAgrees(l) ==
  /\ l.op = "none" => l = Idle
  /\ l.op \in Targeted => l.target \in DOMAIN memories
  /\ ProgramOrder(l.todo)
  /\ ProgramOf(l.op, l.todo)
  /\ OldVersionKnown(l)
  /\ NewVersionKnown(l)
  /\ TargetRetiredFirst(l)
  /\ CitedVersionKnown(l)

(* The locals copied from rows read statements ago still agree with the    *)
(* tables, for every request in flight.                                    *)
LocalsAgree == \A r \in Requests : LocalAgrees(request[r])

(* memory_id is the memory a version was written for, or was released.     *)
MemoryOrReleased ==
  \A v \in DOMAIN versions : versions[v].memory \in {versions[v].born, None}

(* ReplacedIsRetired with the memory known to exist.                       *)
ReplacedRow(v) ==
  versions[v].kind \in Replacing /\ versions[v].previous # None =>
    /\ versions[v].previous \in DOMAIN versions
    /\ Retired(versions[versions[v].previous].born)

RowsAgree ==
  /\ MemoryOrReleased
  /\ LineageStaysInClaim
  /\ SupersessionMovesForward
  /\ EvidenceCitesOwnMemory
  /\ \A v \in DOMAIN versions : ReplacedRow(v)

IInv == TypeOK /\ LocalsAgree /\ RowsAgree

=============================================================================
