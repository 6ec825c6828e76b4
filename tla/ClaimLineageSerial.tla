------------------------- MODULE ClaimLineageSerial -------------------------
(***************************************************************************)
(* The inductive invariant behind what ClaimLineage guarantees as long as  *)
(* requests do not overlap: what the tables say about each claim while a   *)
(* request is half way, by what it still has to run.                       *)
(***************************************************************************)
EXTENDS ClaimLineageInvariant, ClaimLineageHistory, SequencesExt

(* One request at a time, and deletions of memories that are still served. *)
Serial ==
  MaxConcurrent = 1 /\ Deletable \subseteq {"active", "needs_clarification"}

-----------------------------------------------------------------------------
(* What a request has run and what is ahead of it.                         *)

Ahead(todo) == {todo[i] : i \in DOMAIN todo}

(* The statements of an operation after ensureClaimTarget.                 *)
Decided(op) == SubSeq(Program[op], 3, Len(Program[op]))

Track(op) ==
  Suffixes(Program[op])
    \cup (IF op \in {"update", "supersede", "delete", "noop"}
          THEN Suffixes(BackfillProgram \o Decided(op)) ELSE {})
    \cup (IF op = "remove" THEN Suffixes(<<"softDelete">> \o RemoveClaim)
          ELSE {})

OneAtATime == \A r, s \in Running : r = s

-----------------------------------------------------------------------------
(* Whatever fails.                                                         *)

Served(v) == versions[v].memory \in Candidates

VersionRowsAgree ==
  \A v \in DOMAIN versions :
    /\ versions[v].claim \in DOMAIN claims
    /\ versions[v].memory # None =>
         /\ versions[v].memory \in DOMAIN memories
         /\ memories[versions[v].memory].life # "needs_clarification"

(* The UNIQUE constraint on memory_id.                                     *)
MemoryIdIsUnique ==
  \A v, w \in DOMAIN versions :
    versions[v].memory = versions[w].memory /\ versions[v].memory # None
      => v = w

OneServedVersion ==
  \A v, w \in DOMAIN versions :
    versions[v].claim = versions[w].claim /\ Served(v) /\ Served(w) => v = w

DeletedServesNothing ==
  \A v \in DOMAIN versions :
    claims[versions[v].claim].status = "deleted" => ~Served(v)

TablesSerial ==
  /\ VersionRowsAgree
  /\ MemoryIdIsUnique
  /\ OneServedVersion
  /\ DeletedServesNothing

PointClaimStatements == {"setCurrent", "backfillCurrent", "invalidateClaim"}
ClaimReads == {"ensureClaimTarget", "createClaim", "getClaimVersion"}
ClaimStatements ==
  PointClaimStatements \cup {"backfillVersion"} \cup NewVersionStatements

(* The target is still what it was when the request was decided on.        *)
TargetServed(l) ==
  /\ l.op \notin Targeted => l.target = None
  /\ Ahead(l.todo) \cap {"ensureClaimTarget", "backfillVersion"} # {}
       => l.target \in Candidates
  /\ "getClaimVersion" \in Ahead(l.todo)
       => \/ l.target \in Candidates
          \/ memories[l.target].life = "needs_clarification"
  /\ l.op = "update" => l.target \in Candidates
  /\ "invalidateClaim" \in Ahead(l.todo) /\ "softDelete" \notin Ahead(l.todo)
       => l.target \notin Candidates

(* The claim a request writes to can be written to, and nothing of it is   *)
(* served but the target and what the request itself has put there.        *)
ClaimKnown(l) ==
  /\ Ahead(l.todo) \cap ClaimReads # {} => l.claim = None
  /\ l.claim = None /\ Ahead(l.todo) \cap ClaimStatements # {}
       => Ahead(l.todo) \cap {"ensureClaimTarget", "createClaim"} # {}
  /\ l.claim # None =>
       /\ l.claim \in DOMAIN claims
       /\ Ahead(l.todo) \cap PointClaimStatements # {}
            => claims[l.claim].status = "active"
       /\ \A v \in DOMAIN versions :
            versions[v].claim = l.claim /\ Served(v)
              => versions[v].memory = l.target \/ v = l.newVersion
  /\ "invalidateClaim" \in Ahead(l.todo) /\ l.newVersion # None
       => versions[l.newVersion].memory = None

(* The memory the next version is for has no version by the time.          *)
ProjectionFree(l) ==
  /\ l.op # "clarify" /\ l.projection # None =>
       /\ l.projection \in DOMAIN memories
       /\ memories[l.projection].life # "needs_clarification"
  /\ l.op = "update" /\ "getMemory" \notin Ahead(l.todo)
       => l.projection = l.target
  /\ /\ "createVersion" \in Ahead(l.todo)
     /\ Ahead(l.todo) \cap {"getMemory", "storeMemory", "releaseOld"} = {}
     => l.projection # None /\ VersionsOf(l.projection) = {}
  /\ "backfillVersion" \in Ahead(l.todo) => VersionsOf(l.target) = {}
  /\ "releaseOld" \in Ahead(l.todo) =>
       IF l.version = None
         THEN Ahead(l.todo) \cap {"ensureClaimTarget", "backfillVersion"} # {}
         ELSE versions[l.version].memory = l.target

LocalSerial(l) ==
  /\ l.op # "none" => l.todo \in Track(l.op)
  /\ l.todo # <<>> => TargetServed(l) /\ ClaimKnown(l) /\ ProjectionFree(l)

SInv ==
  /\ OneAtATime
  /\ TablesSerial
  /\ \A r \in Requests : LocalSerial(request[r])

-----------------------------------------------------------------------------
(* Histories, whatever fails.                                              *)

Current(c) == claims[c].current

(* The line of version v begins with the line of version u.                *)
Leads(u, v) == IsPrefix(LineTo[u], LineTo[v])

(* What a request will make current continues what is current, and nothing *)
(* else of its claim is served by then.                                    *)
PointerExtends(l) ==
  l.claim # None /\ Ahead(l.todo) \cap {"setCurrent", "backfillCurrent"} # {} =>
    /\ Leads(Current(l.claim), l.version)
    /\ \A v \in DOMAIN versions :
         versions[v].claim = l.claim /\ Served(v) =>
           /\ l.newVersion # None => v = l.newVersion
           /\ l.version # None /\ "backfillCurrent" \in Ahead(l.todo)
                => v = l.version

PreviousIsOlder ==
  \A v \in DOMAIN versions : versions[v].previous \in 0..(v - 1)

ServedContinues ==
  \A v \in DOMAIN versions : Served(v) => Leads(Current(versions[v].claim), v)

HistoryInv ==
  /\ PreviousIsOlder
  /\ ServedContinues
  /\ \A r \in Running : PointerExtends(request[r])

-----------------------------------------------------------------------------
(* As long as nothing has failed.                                          *)

(* What a claim that no request is at work on says.                        *)
ClaimOpen(c) ==
  OpenVersions(c) = IF claims[c].status = "active" THEN {Current(c)}
                    ELSE {claims[c].invalidatedBy} \ {None}

ClaimServed(c) ==
  \A v \in DOMAIN versions :
    versions[v].claim = c /\ Served(v) =>
      claims[c].status = "active" /\ Current(c) = v

(* The versions of a claim other than open are linked back from their      *)
(* previous one.                                                           *)
ChainOf(c, open) ==
  \A v \in DOMAIN versions :
    versions[v].claim = c /\ versions[v].previous # None /\ v # open
      => versions[versions[v].previous].supersededBy = v

Projected(v, m) ==
  /\ m \in DOMAIN memories
  /\ memories[m].content = versions[v].content
  /\ versions[v].kind # "backfill" => memories[m].facts = {versions[v].content}
  /\ versions[v].kind \in {"update", "supersede"} =>
       memories[m].cmo \in DOMAIN cmos /\ cmos[memories[m].cmo].version = v

ClaimAgrees(c) ==
  /\ ClaimOpen(c)
  /\ ClaimServed(c)
  /\ ChainOf(c, None)
  /\ claims[c].status = "active" =>
       Projected(Current(c), versions[Current(c)].memory)

(* A version without valid_to has no successor.                            *)
OpenIsLast ==
  \A v \in DOMAIN versions : versions[v].open => versions[v].supersededBy = None

(* The statements that put a claim, or what it projects, right.            *)
Touching ==
  ClaimStatements \cup
  {"updateContent", "deleteFacts", "storeFacts", "expireMemory", "softDelete",
   "closeOld", "releaseOld", "linkOld", "relinkCmo"}

Busy(l) == l.claim # None /\ Ahead(l.todo) \cap Touching # {}

(* Versions of the claim at hand.                                          *)
OpenAtHand(l) ==
  OpenVersions(l.claim) =
    {v \in {l.version, l.newVersion} \ {None} :
       v = l.version => "closeOld" \in Ahead(l.todo) \/ l.op = "noop"}

CurrentAtHand(l) ==
  /\ claims[l.claim].status = "active"
  /\ Current(l.claim) =
       IF "backfillCurrent" \in Ahead(l.todo) THEN None
       ELSE IF Ahead(l.todo) \cap PointClaimStatements # {} THEN l.version
       ELSE l.newVersion

ChainAtHand(l) ==
  /\ ChainOf(l.claim, l.newVersion)
  /\ /\ l.newVersion # None /\ l.version # None
     /\ Ahead(l.todo) \cap {"linkOld", "closeOld"} = {}
     => versions[l.version].supersededBy = l.newVersion
  /\ l.version # None =>
       \A v \in DOMAIN versions :
         versions[v].previous = l.version => v = l.newVersion

(* The text the request writes.                                            *)
WrittenText(r, l) ==
  /\ l.op \in {"add", "supersede", "update"}
  /\ Ahead(l.todo) \cap {"getMemory", "storeMemory", "updateContent"} = {}
  => /\ l.projection # None
     /\ memories[l.projection].content = r
     /\ "deleteFacts" \notin Ahead(l.todo) =>
          memories[l.projection].facts =
            IF "storeFacts" \in Ahead(l.todo) THEN {} ELSE {r}

WrittenVersion(r, l) ==
  l.newVersion # None =>
    /\ versions[l.newVersion].content = r
    /\ versions[l.newVersion].kind = l.op
    /\ l.op # "delete" => versions[l.newVersion].memory = l.projection

WrittenCmo(l) ==
  l.op \in {"update", "supersede"} =>
    IF "storeCmo" \in Ahead(l.todo) THEN l.newCmo = None
    ELSE l.newCmo \in DOMAIN cmos /\ cmos[l.newCmo].version = l.newVersion

(* A version that is backfilled has the text of its memory.                *)
Backfilled(l) ==
  Ahead(l.todo) \cap {"backfillVersion", "backfillCurrent"} # {} =>
    /\ l.seen = memories[l.target].content
    /\ l.version # None =>
         /\ versions[l.version].memory = l.target
         /\ versions[l.version].content = l.seen
         /\ versions[l.version].kind = "backfill"

(* Which locals are set by now.                                            *)
LocalsSet(l) ==
  /\ "ensureClaimTarget" \in Ahead(l.todo) /\ "getMemory" \notin Ahead(l.todo)
       => l.seen = memories[l.target].content
  /\ l.op \notin Targeted => l.version = None
  /\ l.op \in Targeted /\ l.claim # None
       => l.version # None \/ "backfillVersion" \in Ahead(l.todo)
  /\ l.op \in {"noop", "remove"} => l.newVersion = None
  /\ l.op \in {"add", "update", "supersede", "delete"} /\ l.newVersion = None
       => Ahead(l.todo) \cap NewVersionStatements # {}
  /\ "softDelete" \in Ahead(l.todo) /\ "invalidateClaim" \notin Ahead(l.todo)
       => l.claim = None

AtHand(r, l) ==
  /\ LocalsSet(l)
  /\ Backfilled(l)
  /\ WrittenText(r, l)
  /\ WrittenVersion(r, l)
  /\ WrittenCmo(l)
  /\ Busy(l) => OpenAtHand(l) /\ CurrentAtHand(l) /\ ChainAtHand(l)

(* The claims and the locals as request r, the only one running, left them. *)
ClaimsWith(r) ==
  /\ \A c \in DOMAIN claims :
       (c = request[r].claim /\ Busy(request[r])) \/ ClaimAgrees(c)
  /\ OpenIsLast
  /\ AtHand(r, request[r])

ClaimsInv ==
  failures = 0 =>
    /\ Quiescent => (\A c \in DOMAIN claims : ClaimAgrees(c)) /\ OpenIsLast
    /\ \A r \in Running : ClaimsWith(r)

-----------------------------------------------------------------------------
(* Canonical objects, as long as nothing has failed.                       *)

Succeeded(k) == \E i \in DOMAIN cmos : cmos[i].previous = k

(* An object is of an earlier one, and a memory names none or one there is.  *)
CmoRowsAgree ==
  /\ \A i \in DOMAIN cmos : cmos[i].previous \in 0..(i - 1)
  /\ \A m \in DOMAIN memories : memories[m].cmo \in {None} \cup DOMAIN cmos

(* An update has stored the object that succeeds its target's and not yet  *)
(* linked it.                                                              *)
Unlinked(l, m) ==
  /\ l.op = "update" /\ l.target = m
  /\ "relinkCmo" \in Ahead(l.todo)
  /\ "storeCmo" \notin Ahead(l.todo)

CmoTips(l) ==
  \A m \in Candidates : memories[m].cmo # None =>
    /\ Unlinked(l, m) \/ ~Succeeded(memories[m].cmo)
    /\ \A n \in Candidates : memories[n].cmo = memories[m].cmo => n = m

CmoAtHand(l) ==
  /\ {l.cmo, l.newCmo} \subseteq {None} \cup DOMAIN cmos
  /\ "getMemory" \in Ahead(l.todo) => l.newCmo = None
  /\ l.op \notin Targeted
     /\ Ahead(l.todo) \cap {"storeMemory", "storeClarification"} # {}
     => l.projection = None
  /\ l.cmo # None /\ "storeCmo" \in Ahead(l.todo) =>
       /\ ~Succeeded(l.cmo)
       /\ \A n \in Candidates : memories[n].cmo = l.cmo => n = l.target
  /\ l.newCmo # None =>
       /\ ~Succeeded(l.newCmo)
       /\ \A n \in Candidates : memories[n].cmo = l.newCmo => n = l.projection

CmoLine ==
  \A i, j \in DOMAIN cmos :
    cmos[i].previous = cmos[j].previous /\ cmos[i].previous # None => i = j

(* The canonical objects as a request with locals l left them.             *)
CmosWith(l) == CmoRowsAgree /\ CmoLine /\ CmoTips(l) /\ CmoAtHand(l)

CmosInv ==
  failures = 0 =>
    /\ Quiescent => CmosWith(Idle)
    /\ \A r \in Running : CmosWith(request[r])

=============================================================================
