-------------------- MODULE ClaimLineageUndisturbedProofs --------------------
(***************************************************************************)
(* What ClaimLineage guarantees as long as requests do not overlap and     *)
(* none dies half way, for any number of requests: what claims, versions,  *)
(* memories and canonical objects say of each other.                       *)
(***************************************************************************)
EXTENDS ClaimLineageProofs

-----------------------------------------------------------------------------
(* As long as nothing has failed: what every statement leaves alone.       *)

(* What is known of the locals of a request that runs a statement while    *)
(* nothing has failed.                                                     *)
LEMMA HandFacts ==
  ASSUME NEW r, AtWork(r), ClaimsWith(r)
  PROVE  LET l == request[r] IN
         /\ LocalsSet(l) /\ Backfilled(l) /\ WrittenText(r, l)
         /\ WrittenVersion(r, l) /\ WrittenCmo(l)
         /\ Busy(l) => OpenAtHand(l) /\ CurrentAtHand(l) /\ ChainAtHand(l)
         /\ \A c \in DOMAIN claims : (c = l.claim /\ Busy(l)) \/ ClaimAgrees(c)
         /\ OpenIsLast
         /\ l.version # None =>
              /\ l.version \in DOMAIN versions
              /\ versions[l.version].claim = l.claim
         /\ l.newVersion # None =>
              /\ l.newVersion \in DOMAIN versions
              /\ versions[l.newVersion].claim = l.claim
              /\ versions[l.newVersion].previous = l.version
              /\ l.newVersion # l.version
<1>1. LocalAgrees(request[r]) /\ request[r].version \in Nat
  BY WorkFacts
<1>2. request[r].newVersion # None =>
        /\ request[r].newVersion > request[r].version
        /\ request[r].newVersion \in Nat
  BY <1>1, WorkFacts DEF LocalAgrees, NewVersionKnown
<1> QED
  BY <1>1, <1>2
     DEF ClaimsWith, AtHand, LocalAgrees, OldVersionKnown, NewVersionKnown

(* Rows and their ids.                                                     *)
LEMMA RowFacts ==
  ASSUME NEW r, AtWork(r)
  PROVE  /\ \A m \in DOMAIN memories : memories[m] \in MemoryRow /\ m # None
         /\ \A c \in DOMAIN claims : claims[c] \in ClaimRow /\ c # None
         /\ \A v \in DOMAIN versions : versions[v] \in VersionRow /\ v # None
         /\ \A i \in DOMAIN cmos : cmos[i] \in CmoRow /\ i # None
         /\ None \notin Candidates
         /\ LineageStaysInClaim
         /\ VersionRowsAgree /\ MemoryIdIsUnique /\ OneServedVersion
         /\ DeletedServesNothing
<1>1. TypeOK
  BY WorkFacts
<1>2. \A i \in DOMAIN cmos : cmos[i] \in CmoRow /\ i # None
  BY <1>1 DEF TypeOK, None
<1>3. None \notin DOMAIN memories
  BY <1>1, TableFacts DEF None
<1> QED
  BY <1>1, <1>2, <1>3, TableFacts
     DEF AtWork, IInv, RowsAgree, TablesSerial, None, Candidates

(* A step that leaves alone every claim but the one at hand, its versions, *)
(* and the memories that are projected.                                    *)
Spared(r) ==
  LET mine(c) == c = request[r].claim /\ Busy(request[r]) IN
  /\ \A c \in DOMAIN claims :
       c \in DOMAIN claims' /\ (mine(c) \/ claims'[c] = claims[c])
  /\ \A v \in DOMAIN versions :
       /\ v \in DOMAIN versions'
       /\ versions'[v].claim = versions[v].claim
       /\ mine(versions[v].claim) \/ versions'[v] = versions[v]
       /\ versions[v].memory \in Candidates' => Served(v)
  /\ \A v \in DOMAIN versions' :
       v \in DOMAIN versions \/ mine(versions'[v].claim)
         \/ versions'[v].claim \notin DOMAIN claims
  /\ \A m \in DOMAIN memories :
       /\ m \in DOMAIN memories'
       /\ \/ \A v \in DOMAIN versions :
               versions[v].memory = m => mine(versions[v].claim)
          \/ /\ memories'[m].content = memories[m].content
             /\ memories'[m].facts = memories[m].facts
             /\ memories'[m].cmo = memories[m].cmo
  /\ \A i \in DOMAIN cmos : i \in DOMAIN cmos' /\ cmos'[i] = cmos[i]

(* Claims that are not at hand say what they said.                         *)
LEMMA OthersAgree ==
  ASSUME NEW r, AtWork(r), ClaimsWith(r), Spared(r),
         NEW c \in DOMAIN claims, ~(c = request[r].claim /\ Busy(request[r]))
  PROVE  ClaimAgrees(c)'
<1>1. ClaimAgrees(c) /\ claims'[c] = claims[c]
  BY DEF ClaimsWith, Spared
<1>2. /\ \A v \in DOMAIN versions :
           versions[v].claim = c => v \in DOMAIN versions' /\ versions'[v] = versions[v]
      /\ \A v \in DOMAIN versions' :
           versions'[v].claim = c => v \in DOMAIN versions /\ versions[v].claim = c
  BY DEF Spared
<1>3. OpenVersions(c)' = OpenVersions(c)
  BY <1>2 DEF OpenVersions
<1>4. ClaimOpen(c)'
  BY <1>1, <1>3 DEF ClaimAgrees, ClaimOpen, Current
<1>5. ClaimServed(c)'
  <2>1. ASSUME NEW v \in DOMAIN versions', versions'[v].claim = c, Served(v)'
        PROVE  Served(v)
    <3>1. v \in DOMAIN versions /\ versions'[v] = versions[v]
      BY <1>2, <2>1
    <3> QED
      BY <2>1, <3>1 DEF Served, Spared
  <2> QED
    BY <1>1, <1>2, <2>1 DEF ClaimAgrees, ClaimServed, Current
<1>6. ChainOf(c, None)'
  <2>1. ASSUME NEW v \in DOMAIN versions, versions[v].claim = c,
               versions[v].previous # None
        PROVE  versions[v].previous \in DOMAIN versions
                 /\ versions[versions[v].previous].claim = c
    BY <2>1, RowFacts DEF LineageStaysInClaim
  <2> QED
    BY <1>1, <1>2, <2>1 DEF ClaimAgrees, ChainOf
<1>7. ASSUME claims'[c].status = "active"
      PROVE  Projected(Current(c), versions[Current(c)].memory)'
  <2>0. PICK v : v = claims[c].current
    OBVIOUS
  <2>1. v \in DOMAIN versions /\ versions[v].claim = c
    BY <1>1, <1>7, <2>0 DEF ClaimAgrees, ClaimOpen, Current, OpenVersions
  <2>2. Projected(v, versions[v].memory)
    BY <1>1, <1>7, <2>0 DEF ClaimAgrees, Current
  <2>3. v \in DOMAIN versions' /\ versions'[v] = versions[v]
    BY <1>2, <2>1
  <2> DEFINE m == versions[v].memory
  <2>m. /\ m \in DOMAIN memories /\ m \in DOMAIN memories'
        /\ memories'[m].content = memories[m].content
        /\ memories'[m].facts = memories[m].facts
        /\ memories'[m].cmo = memories[m].cmo
    BY <2>1, <2>2 DEF Projected, Spared
  <2> HIDE DEF m
  <2>c. \A i \in DOMAIN cmos : i \in DOMAIN cmos' /\ cmos'[i] = cmos[i]
    BY DEF Spared
  <2>4. Projected(v, versions[v].memory)'
    BY <2>2, <2>3, <2>m, <2>c DEF Projected, m
  <2> QED
    BY <1>1, <2>0, <2>4 DEF Current
<1> QED
  BY <1>4, <1>5, <1>6, <1>7 DEF ClaimAgrees

(* The statements that set no local and write no text.                     *)
Steady ==
  {"expireMemory", "softDelete", "closeOld", "releaseOld", "linkOld",
   "relinkCmo", "setCurrent", "backfillCurrent", "invalidateClaim",
   "addEvidence", "citeTarget"}

(* They come after the backfill.                                           *)
LEMMA SteadyAhead ==
  ASSUME NEW r, AtWork(r), Head(request[r].todo) \in Steady
  PROVE  LET l == request[r]
             B == Ahead(Tail(l.todo))
         IN
         /\ B \cap {"getMemory", "ensureClaimTarget", "getClaimVersion",
                    "createClaim", "backfillVersion", "backfillCurrent"} = {}
         /\ Head(l.todo) = "invalidateClaim" => "softDelete" \notin B
<1> DEFINE l == request[r]
<1>1. l.todo \in Track(l.op) /\ l.todo # <<>> /\ l.op \in Operations
  BY WorkFacts DEF AtWork
<1>2. CASE l.op \in {"add", "remove", "archive", "verbatim", "clarify"}
  BY <1>1, <1>2, AddTrack, RemoveTrack, ShortTrack DEF Steady
<1>3. CASE l.op = "update"
  BY <1>1, <1>3, UpdateTrack DEF Steady
<1>4. CASE l.op = "supersede"
  BY <1>1, <1>4, SupersedeTrack DEF Steady
<1>5. CASE l.op = "delete"
  BY <1>1, <1>5, DeleteTrack DEF Steady
<1>6. CASE l.op = "noop"
  BY <1>1, <1>6, NoopTrack DEF Steady
<1> QED
  BY <1>1, <1>2, <1>3, <1>4, <1>5, <1>6 DEF Operations

(* What the locals say of rows is kept by them.                            *)
LEMMA LocalsKept ==
  ASSUME NEW r, AtWork(r), ClaimsWith(r), Head(request[r].todo) \in Steady,
         request'[r] = [request[r] EXCEPT !.todo = Tail(request[r].todo)],
         \A m \in DOMAIN memories :
           /\ memories'[m].content = memories[m].content
           /\ memories'[m].facts = memories[m].facts,
         \A v \in DOMAIN versions :
           /\ versions'[v].content = versions[v].content
           /\ versions'[v].kind = versions[v].kind
           /\ \/ versions'[v].memory = versions[v].memory
              \/ v = request[r].version,
         UNCHANGED cmos
  PROVE  /\ LocalsSet(request[r])' /\ Backfilled(request[r])'
         /\ WrittenText(r, request[r])' /\ WrittenVersion(r, request[r])'
         /\ WrittenCmo(request[r])'
<1> DEFINE l == request[r]
           k == request'[r]
           A == Ahead(l.todo)
           B == Ahead(Tail(l.todo))
<1>f. /\ l \in Local /\ A = {Head(l.todo)} \cup B /\ ProjectionFree(l)
      /\ l.projection \in Nat
  BY WorkFacts
<1>h. /\ LocalsSet(l) /\ WrittenText(r, l) /\ WrittenVersion(r, l)
      /\ WrittenCmo(l)
      /\ l.newVersion # None =>
           l.newVersion \in DOMAIN versions /\ l.newVersion # l.version
  BY HandFacts
<1>1. /\ k.op = l.op /\ k.target = l.target /\ k.claim = l.claim
      /\ k.version = l.version /\ k.projection = l.projection
      /\ k.newVersion = l.newVersion /\ k.newCmo = l.newCmo
      /\ k.todo = Tail(l.todo)
  BY <1>f DEF Local
<1>2. /\ B \cap {"getMemory", "ensureClaimTarget", "getClaimVersion",
                 "createClaim", "backfillVersion", "backfillCurrent"} = {}
      /\ Head(l.todo) = "invalidateClaim" => "softDelete" \notin B
  BY SteadyAhead
<1> HIDE DEF A, B
<1>3. LocalsSet(request[r])'
  BY <1>f, <1>h, <1>1, <1>2 DEF LocalsSet, NewVersionStatements, Steady, A, B
<1>4. Backfilled(request[r])'
  BY <1>1, <1>2 DEF Backfilled, B
<1>5. WrittenText(r, request[r])'
  BY <1>f, <1>h, <1>1, <1>2 DEF WrittenText, ProjectionFree, Steady, A, B
<1>6. WrittenVersion(r, request[r])'
  BY <1>f, <1>h, <1>1 DEF WrittenVersion
<1>7. WrittenCmo(request[r])'
  BY <1>f, <1>h, <1>1 DEF WrittenCmo, Steady, A, B
<1> QED
  BY <1>3, <1>4, <1>5, <1>6, <1>7

(* The claim at hand is described by what is ahead: a statement that writes *)
(* neither claims nor versions leaves the description true.                *)
LEMMA BusyKept ==
  ASSUME NEW r, AtWork(r), ClaimsWith(r), UNCHANGED <<claims, versions>>,
         request'[r].op = request[r].op,
         request'[r].claim = request[r].claim,
         request'[r].version = request[r].version,
         request'[r].newVersion = request[r].newVersion,
         request'[r].todo = Tail(request[r].todo),
         Head(request[r].todo) \notin
           {"closeOld", "linkOld"} \cup PointClaimStatements
  PROVE  Busy(request[r])' =>
           /\ OpenAtHand(request[r])' /\ CurrentAtHand(request[r])'
           /\ ChainAtHand(request[r])'
<1> DEFINE l == request[r]
           A == Ahead(l.todo)
           B == Ahead(Tail(l.todo))
<1>f. A = {Head(l.todo)} \cup B
  BY WorkFacts
<1>1. SUFFICES ASSUME Busy(request[r])'
               PROVE  /\ OpenAtHand(request[r])' /\ CurrentAtHand(request[r])'
                      /\ ChainAtHand(request[r])'
  OBVIOUS
<1> HIDE DEF A, B
<1>2. Busy(l)
  BY <1>1, <1>f DEF Busy, A, B
<1>3. OpenAtHand(l) /\ CurrentAtHand(l) /\ ChainAtHand(l)
  BY <1>2, HandFacts
<1>4. OpenAtHand(request[r])'
  BY <1>3, <1>f DEF OpenAtHand, OpenVersions, A, B
<1>5. CurrentAtHand(request[r])'
  BY <1>3, <1>f DEF CurrentAtHand, Current, PointClaimStatements, A, B
<1>6. ChainAtHand(request[r])'
  BY <1>3, <1>f DEF ChainAtHand, ChainOf, A, B
<1> QED
  BY <1>4, <1>5, <1>6

(* What has to be shown of a statement that stays with its claim.          *)
LEMMA ClaimsKept ==
  ASSUME NEW r, AtWork(r), ClaimsWith(r), Spared(r),
         DOMAIN claims' = DOMAIN claims,
         request'[r].claim = request[r].claim,
         LocalsSet(request[r])', Backfilled(request[r])',
         WrittenText(r, request[r])', WrittenVersion(r, request[r])',
         WrittenCmo(request[r])',
         Busy(request[r])' =>
           /\ OpenAtHand(request[r])' /\ CurrentAtHand(request[r])'
           /\ ChainAtHand(request[r])',
         OpenIsLast',
         Busy(request[r]) =>
           \/ Busy(request[r])'
           \/ \A c \in DOMAIN claims : c = request[r].claim => ClaimAgrees(c)'
  PROVE  ClaimsWith(r)'
<1>1. ASSUME NEW c \in DOMAIN claims'
      PROVE  \/ c = request'[r].claim /\ Busy(request[r])'
             \/ ClaimAgrees(c)'
  BY <1>1, OthersAgree
<1>2. AtHand(r, request[r])'
  BY DEF AtHand
<1> QED
  BY <1>1, <1>2 DEF ClaimsWith

(* Once a version of the memory a request writes to exists, it is of the   *)
(* claim at hand.                                                          *)
LEMMA ProjectionAtHand ==
  ASSUME NEW r, AtWork(r), ClaimsWith(r),
         Head(request[r].todo) \in
           {"updateContent", "deleteFacts", "storeFacts", "relinkCmo"}
  PROVE  LET l == request[r] IN
         /\ l.op \in {"add", "update", "supersede"}
         /\ l.projection \in DOMAIN memories
         /\ l.op = "update" => l.projection = l.target
         /\ \A v \in DOMAIN versions :
              versions[v].memory = l.projection =>
                versions[v].claim = l.claim /\ Busy(l)
<1> DEFINE l == request[r]
           A == Ahead(l.todo)
           B == Ahead(Tail(l.todo))
<1>f. /\ A = {Head(l.todo)} \cup B /\ l.todo \in Track(l.op)
      /\ TargetServed(l) /\ ClaimKnown(l) /\ ProjectionFree(l)
  BY WorkFacts
<1>h. /\ LocalsSet(l) /\ WrittenText(r, l) /\ WrittenVersion(r, l)
      /\ l.version # None =>
           l.version \in DOMAIN versions /\ versions[l.version].claim = l.claim
      /\ l.newVersion # None =>
           l.newVersion \in DOMAIN versions /\ versions[l.newVersion].claim = l.claim
  BY HandFacts
<1>m. /\ MemoryIdIsUnique /\ \A m \in DOMAIN memories : m # None
  BY RowFacts
<1>o. l.op \in {"add", "update", "supersede"}
  BY <1>f, DeleteTrack, NoopTrack, RemoveTrack, ShortTrack DEF AtWork, Operations
<1>2. CASE l.op = "add"
  <2>1. Head(l.todo) = "storeFacts" /\ B = {"createClaim", "createVersion", "setCurrent", "addEvidence"}
    BY <1>f, <1>2, AddTrack DEF AtWork
  <2> HIDE DEF A, B
  <2>2. l.projection # None /\ VersionsOf(l.projection) = {}
    BY <1>f, <2>1 DEF ProjectionFree, A
  <2> QED
    BY <1>f, <1>2, <2>2 DEF ProjectionFree, VersionsOf
<1>3. CASE l.op = "update"
  <2>1. \/ B = {"deleteFacts", "storeFacts", "closeOld", "releaseOld",
                "createVersion", "linkOld", "setCurrent", "addEvidence",
                "storeCmo", "relinkCmo"}
        \/ B = {"storeFacts", "closeOld", "releaseOld", "createVersion",
                "linkOld", "setCurrent", "addEvidence", "storeCmo", "relinkCmo"}
        \/ B = {"closeOld", "releaseOld", "createVersion", "linkOld",
                "setCurrent", "addEvidence", "storeCmo", "relinkCmo"}
        \/ Head(l.todo) = "relinkCmo" /\ B = {}
    BY <1>f, <1>3, UpdateTrack DEF AtWork
  <2> HIDE DEF A, B
  <2>2. l.projection = l.target /\ l.target \in DOMAIN memories
    BY <1>f, <1>3, <2>1 DEF ProjectionFree, TargetServed, Candidates, A
  <2>3. CASE "releaseOld" \in B
    <3>1. l.version # None /\ versions[l.version].memory = l.target
      BY <1>f, <2>1, <2>3 DEF ProjectionFree, A
    <3>2. \A v \in DOMAIN versions : versions[v].memory = l.target => v = l.version
      BY <1>h, <1>m, <2>2, <3>1 DEF MemoryIdIsUnique
    <3>3. l.claim # None
      BY <1>f, <2>1, <2>3 DEF ClaimKnown, ClaimStatements, NewVersionStatements, A
    <3>4. "closeOld" \in A
      BY <1>f, <2>1, <2>3
    <3>5. Busy(l)
      BY <3>3, <3>4 DEF Busy, Touching, A
    <3> QED
      BY <1>h, <1>3, <2>2, <3>1, <3>2, <3>5
  <2>4. CASE Head(l.todo) = "relinkCmo" /\ B = {}
    <3>1. l.newVersion # None
      BY <1>f, <1>h, <1>3, <2>4 DEF LocalsSet, NewVersionStatements, A
    <3>2. versions[l.newVersion].memory = l.projection
      BY <1>h, <1>3, <3>1 DEF WrittenVersion
    <3>3. \A v \in DOMAIN versions : versions[v].memory = l.target => v = l.newVersion
      BY <1>h, <1>m, <2>2, <3>1, <3>2 DEF MemoryIdIsUnique
    <3>4. l.claim # None
      BY <1>h, <3>1, RowFacts DEF VersionRowsAgree
    <3> QED
      BY <1>f, <1>h, <1>3, <2>2, <2>4, <3>1, <3>3, <3>4 DEF Busy, Touching, A
  <2> QED
    BY <2>1, <2>3, <2>4
<1>4. CASE l.op = "supersede"
  <2>1. \/ /\ Head(l.todo) = "storeFacts"
           /\ B = {"createVersion", "closeOld", "setCurrent", "addEvidence",
                   "storeCmo", "relinkCmo"}
        \/ Head(l.todo) = "relinkCmo" /\ B = {}
    BY <1>f, <1>4, SupersedeTrack DEF AtWork
  <2> HIDE DEF A, B
  <2>2. CASE Head(l.todo) = "storeFacts"
    <3>2. l.projection # None /\ VersionsOf(l.projection) = {}
      BY <1>f, <2>1, <2>2 DEF ProjectionFree, A
    <3> QED
      BY <1>f, <1>4, <3>2 DEF ProjectionFree, VersionsOf
  <2>4. CASE Head(l.todo) = "relinkCmo" /\ B = {}
    <3>1. l.newVersion # None
      BY <1>f, <1>h, <1>4, <2>4 DEF LocalsSet, NewVersionStatements, A
    <3>2. versions[l.newVersion].memory = l.projection /\ l.projection # None
      BY <1>f, <1>h, <1>4, <2>4, <3>1 DEF WrittenVersion, WrittenText, A
    <3>5. l.projection \in DOMAIN memories
      BY <1>f, <1>4, <3>2 DEF ProjectionFree
    <3>3. \A v \in DOMAIN versions : versions[v].memory = l.projection => v = l.newVersion
      BY <1>h, <1>m, <3>1, <3>2 DEF MemoryIdIsUnique
    <3>4. l.claim # None
      BY <1>h, <3>1, RowFacts DEF VersionRowsAgree
    <3> QED
      BY <1>f, <1>h, <1>4, <2>4, <3>5, <3>1, <3>3, <3>4 DEF Busy, Touching, A
  <2> QED
    BY <2>1, <2>2, <2>4
<1> QED
  BY <1>o, <1>2, <1>3, <1>4

-----------------------------------------------------------------------------
(* As long as nothing has failed: statement by statement.                  *)

(* A memory is retired.                                                    *)
LEMMA ClaimsRetire ==
  ASSUME NEW r, AtWork(r), ClaimsWith(r), ExpireMemory(r) \/ SoftDelete(r)
  PROVE  ClaimsWith(r)'
<1> DEFINE l == request[r]
           A == Ahead(l.todo)
           B == Ahead(Tail(l.todo))
<1>f. /\ l \in Local /\ request \in [Requests -> Local]
      /\ A = {Head(l.todo)} \cup B /\ l.todo \in Track(l.op)
      /\ l.op \in Targeted => l.target \in DOMAIN memories
  BY WorkFacts
<1>h. LocalsSet(l) /\ OpenIsLast
  BY HandFacts
<1>t. \A m \in DOMAIN memories : memories[m] \in MemoryRow
  BY RowFacts
<1>1. Head(l.todo) \in {"expireMemory", "softDelete"}
  BY DEF ExpireMemory, SoftDelete, At
<1>o. /\ l.op \in Targeted
      /\ \/ "invalidateClaim" \in B
         \/ Head(l.todo) = "softDelete" /\ B = {}
         \/ "setCurrent" \in B
  BY <1>1, <1>f, AddTrack, UpdateTrack, SupersedeTrack, DeleteTrack, NoopTrack,
     RemoveTrack, ShortTrack DEF AtWork, Operations, Targeted
<1>2. /\ UNCHANGED <<claims, versions, cmos>>
      /\ request'[r] = [l EXCEPT !.todo = Tail(l.todo)]
      /\ DOMAIN memories' = DOMAIN memories
      /\ \A m \in DOMAIN memories :
           /\ memories'[m].content = memories[m].content
           /\ memories'[m].facts = memories[m].facts
           /\ memories'[m].cmo = memories[m].cmo
           /\ memories'[m].life = "active" => memories[m].life = "active"
  <2>1. CASE ExpireMemory(r)
    <3>1. CASE memories' = memories
      BY <2>1, <1>f, <3>1 DEF ExpireMemory, Proceed, Continue, AtWork
    <3>2. CASE memories' = [memories EXCEPT ![l.target] =
                              [memories[l.target] EXCEPT !.life = "expired"]]
      BY <2>1, <1>f, <1>t, <3>2 DEF ExpireMemory, Proceed, Continue, AtWork, MemoryRow
    <3> QED
      BY <2>1, <3>1, <3>2 DEF ExpireMemory
  <2>2. CASE SoftDelete(r)
    BY <2>2, <1>f, <1>t DEF SoftDelete, Proceed, Continue, MemoryRow, AtWork
  <2> QED
    BY <2>1, <2>2
<1>3. /\ request'[r].op = l.op /\ request'[r].claim = l.claim
      /\ request'[r].version = l.version
      /\ request'[r].newVersion = l.newVersion
      /\ request'[r].todo = Tail(l.todo)
  BY <1>2, <1>f DEF Local
<1>4. Spared(r)
  BY <1>2 DEF Spared, Candidates, Served
<1>5. /\ LocalsSet(request[r])' /\ Backfilled(request[r])'
      /\ WrittenText(r, request[r])' /\ WrittenVersion(r, request[r])'
      /\ WrittenCmo(request[r])'
  BY <1>1, <1>2, LocalsKept DEF Steady
<1>6. Busy(request[r])' =>
        /\ OpenAtHand(request[r])' /\ CurrentAtHand(request[r])'
        /\ ChainAtHand(request[r])'
  BY <1>1, <1>2, <1>3, BusyKept DEF PointClaimStatements
<1>7. OpenIsLast'
  BY <1>2, <1>h DEF OpenIsLast
<1> HIDE DEF A, B
<1>8. Busy(l) => Busy(request[r])'
  <2>1. "invalidateClaim" \in B \/ "setCurrent" \in B \/ l.claim = None
    BY <1>f, <1>o, <1>h DEF LocalsSet, A
  <2> QED
    BY <1>3, <2>1 DEF Busy, Touching, ClaimStatements, PointClaimStatements, B
<1> QED
  BY <1>2, <1>3, <1>4, <1>5, <1>6, <1>7, <1>8, ClaimsKept

(* Evidence is cited.                                                      *)
LEMMA ClaimsCite ==
  ASSUME NEW r, AtWork(r), ClaimsWith(r), AddEvidence(r) \/ CiteTarget(r)
  PROVE  ClaimsWith(r)'
<1> DEFINE l == request[r]
           A == Ahead(l.todo)
           B == Ahead(Tail(l.todo))
<1>f. /\ l \in Local /\ request \in [Requests -> Local]
      /\ A = {Head(l.todo)} \cup B
  BY WorkFacts
<1>1. /\ Head(l.todo) \in {"addEvidence", "citeTarget"}
      /\ UNCHANGED <<memories, claims, versions, cmos>>
      /\ request'[r] = [l EXCEPT !.todo = Tail(l.todo)]
  BY <1>f DEF AddEvidence, CiteTarget, Cite, At, Proceed, Continue, AtWork
<1>3. /\ request'[r].op = l.op /\ request'[r].claim = l.claim
      /\ request'[r].version = l.version
      /\ request'[r].newVersion = l.newVersion
      /\ request'[r].todo = Tail(l.todo)
  BY <1>1, <1>f DEF Local
<1>4. Spared(r)
  BY <1>1 DEF Spared, Candidates, Served
<1>5. /\ LocalsSet(request[r])' /\ Backfilled(request[r])'
      /\ WrittenText(r, request[r])' /\ WrittenVersion(r, request[r])'
      /\ WrittenCmo(request[r])'
  BY <1>1, LocalsKept DEF Steady
<1>6. Busy(request[r])' =>
        /\ OpenAtHand(request[r])' /\ CurrentAtHand(request[r])'
        /\ ChainAtHand(request[r])'
  BY <1>1, <1>3, BusyKept DEF PointClaimStatements
<1>7. OpenIsLast'
  BY <1>1, HandFacts DEF OpenIsLast
<1> HIDE DEF A, B
<1>8. Busy(l) => Busy(request[r])'
  BY <1>1, <1>3, <1>f
     DEF Busy, Touching, ClaimStatements, PointClaimStatements,
         NewVersionStatements, A, B
<1> QED
  BY <1>1, <1>3, <1>4, <1>5, <1>6, <1>7, <1>8, ClaimsKept

(* A canonical object is stored.                                           *)
LEMMA ClaimsStoreCmo ==
  ASSUME NEW r, AtWork(r), ClaimsWith(r), StoreCmo(r)
  PROVE  ClaimsWith(r)'
<1> DEFINE l == request[r]
           A == Ahead(l.todo)
           B == Ahead(Tail(l.todo))
<1>f. /\ l \in Local /\ request \in [Requests -> Local] /\ TypeOK
      /\ A = {Head(l.todo)} \cup B /\ l.todo \in Track(l.op)
      /\ l.newVersion \in Nat
  BY WorkFacts
<1>h. /\ LocalsSet(l) /\ Backfilled(l) /\ WrittenText(r, l)
      /\ WrittenVersion(r, l) /\ WrittenCmo(l) /\ OpenIsLast
  BY HandFacts
<1>1. /\ Head(l.todo) = "storeCmo"
      /\ UNCHANGED <<memories, claims, versions>>
      /\ cmos' = Append(cmos, [kind |-> l.op, previous |-> l.cmo,
                               version |-> l.newVersion])
      /\ request'[r] = [[l EXCEPT !.newCmo = Len(cmos) + 1]
                          EXCEPT !.todo = Tail(l.todo)]
  BY <1>f DEF StoreCmo, At, Proceed, Continue, AtWork
<1>2. /\ DOMAIN cmos' = DOMAIN cmos \cup {Len(cmos) + 1}
      /\ \A i \in DOMAIN cmos : cmos'[i] = cmos[i]
      /\ cmos'[Len(cmos) + 1].version = l.newVersion
  BY <1>f, <1>1 DEF TypeOK
<1>3. /\ request'[r].op = l.op /\ request'[r].claim = l.claim
      /\ request'[r].target = l.target /\ request'[r].seen = l.seen
      /\ request'[r].version = l.version
      /\ request'[r].projection = l.projection
      /\ request'[r].newVersion = l.newVersion
      /\ request'[r].newCmo = Len(cmos) + 1
      /\ request'[r].todo = Tail(l.todo)
  BY <1>1, <1>f DEF Local
<1>o. /\ l.op \in {"update", "supersede", "delete", "add"}
      /\ "storeCmo" \notin B
  BY <1>1, <1>f, AddTrack, UpdateTrack, SupersedeTrack, DeleteTrack, NoopTrack,
     RemoveTrack, ShortTrack DEF AtWork, Operations
<1>4. Spared(r)
  BY <1>1, <1>2 DEF Spared, Candidates, Served
<1>6. Busy(request[r])' =>
        /\ OpenAtHand(request[r])' /\ CurrentAtHand(request[r])'
        /\ ChainAtHand(request[r])'
  BY <1>1, <1>3, BusyKept DEF PointClaimStatements
<1>7. OpenIsLast'
  BY <1>1, <1>h DEF OpenIsLast
<1> HIDE DEF A, B
<1>8. Busy(l) => Busy(request[r])'
  BY <1>1, <1>3, <1>f
     DEF Busy, Touching, ClaimStatements, PointClaimStatements,
         NewVersionStatements, A, B
<1>9. LocalsSet(request[r])' /\ Backfilled(request[r])'
  BY <1>1, <1>3, <1>f, <1>h DEF LocalsSet, NewVersionStatements, Backfilled, A, B
<1>10. WrittenText(r, request[r])' /\ WrittenVersion(r, request[r])'
  BY <1>1, <1>3, <1>f, <1>h DEF WrittenText, WrittenVersion, A, B
<1>11. WrittenCmo(request[r])'
  BY <1>2, <1>3, <1>o DEF WrittenCmo, B
<1> QED
  BY <1>1, <1>3, <1>4, <1>6, <1>7, <1>8, <1>9, <1>10, <1>11, ClaimsKept

(* A memory is inserted.                                                   *)
LEMMA ClaimsStoreMemory ==
  ASSUME NEW r, AtWork(r), ClaimsWith(r), StoreMemory(r) \/ InsertClarification(r)
  PROVE  ClaimsWith(r)'
<1> DEFINE l == request[r]
           A == Ahead(l.todo)
           B == Ahead(Tail(l.todo))
           n == Len(memories) + 1
<1>f. /\ l \in Local /\ request \in [Requests -> Local] /\ TypeOK
      /\ A = {Head(l.todo)} \cup B /\ l.todo \in Track(l.op)
      /\ l.todo \in Seq(Statements) /\ LocalAgrees(l)
  BY WorkFacts
<1>t. /\ VersionRowsAgree /\ DOMAIN memories = 1..Len(memories)
      /\ Len(memories) \in Nat
  BY <1>f, RowFacts DEF TypeOK
<1>h. LocalsSet(l) /\ WrittenCmo(l) /\ OpenIsLast
  BY HandFacts
<1>1. PICK life \in {"active", "needs_clarification"} :
        /\ InsertMemory(r, life)
        /\ Head(l.todo) = IF life = "active" THEN "storeMemory"
                          ELSE "storeClarification"
        /\ l.todo # <<>>
  BY DEF StoreMemory, InsertClarification, At
<1>2. /\ DOMAIN memories' = DOMAIN memories \cup {n}
      /\ n \notin DOMAIN memories /\ n # None
      /\ \A m \in DOMAIN memories : memories'[m] = memories[m]
      /\ memories'[n].content = r /\ memories'[n].facts = {}
      /\ UNCHANGED <<claims, versions, cmos>>
  BY <1>1, <1>f, <1>t DEF InsertMemory, TypeOK, None
<1>3. /\ request'[r].op = l.op /\ request'[r].target = l.target
      /\ request'[r].claim = l.claim /\ request'[r].version = l.version
      /\ request'[r].newVersion = l.newVersion
      /\ request'[r].seen = l.seen /\ request'[r].newCmo = l.newCmo
      /\ request'[r].projection = n /\ request'[r].todo = Tail(l.todo)
  BY <1>1, <1>f DEF InsertMemory, Proceed, Continue, Local, AtWork
<1>o. /\ l.op \in {"add", "supersede", "verbatim", "clarify"}
      /\ B \cap {"ensureClaimTarget", "backfillVersion", "backfillCurrent",
                 "getMemory", "storeMemory", "updateContent", "deleteFacts",
                 "softDelete"} = {}
      /\ l.op \in {"add", "supersede"} => "storeFacts" \in B /\ "createVersion" \in B
  BY <1>1, <1>f, AddTrack, UpdateTrack, SupersedeTrack, DeleteTrack, NoopTrack,
     RemoveTrack, ShortTrack DEF AtWork, Operations
<1>4. Spared(r)
  <2>1. \A v \in DOMAIN versions : versions[v].memory # n
    BY <1>2, <1>t DEF VersionRowsAgree
  <2> HIDE DEF n
  <2>2. ASSUME NEW v \in DOMAIN versions, versions[v].memory \in Candidates'
        PROVE  Served(v)
    BY <1>2, <2>1, <2>2 DEF Candidates, Served
  <2> QED
    BY <1>2, <2>2 DEF Spared
<1>6. Busy(request[r])' =>
        /\ OpenAtHand(request[r])' /\ CurrentAtHand(request[r])'
        /\ ChainAtHand(request[r])'
  BY <1>1, <1>2, <1>3, BusyKept DEF PointClaimStatements
<1>7. OpenIsLast'
  BY <1>2, <1>h DEF OpenIsLast
<1>v. l.newVersion = None
  <2>1. Has(l.todo, BeforeNewVersion)
    BY <1>1, <1>f, TailFacts DEF Has, BeforeNewVersion
  <2> QED
    BY <1>f, <2>1 DEF LocalAgrees, NewVersionKnown
<1> HIDE DEF A, B, n
<1>8. Busy(l) => Busy(request[r])'
  BY <1>1, <1>3, <1>f
     DEF Busy, Touching, ClaimStatements, PointClaimStatements,
         NewVersionStatements, A, B
<1>9. LocalsSet(request[r])' /\ Backfilled(request[r])'
  BY <1>1, <1>3, <1>f, <1>h, <1>o
     DEF LocalsSet, NewVersionStatements, Targeted, Backfilled, A, B
<1>10. WrittenText(r, request[r])'
  BY <1>2, <1>3, <1>o DEF WrittenText, B
<1>11. WrittenVersion(r, request[r])'
  BY <1>3, <1>v DEF WrittenVersion
<1>12. WrittenCmo(request[r])'
  BY <1>1, <1>2, <1>3, <1>f, <1>h DEF WrittenCmo, A, B
<1> QED
  BY <1>2, <1>3, <1>4, <1>6, <1>7, <1>8, <1>9, <1>10, <1>11, <1>12, ClaimsKept

(* The target is read.                                                     *)
LEMMA ClaimsGetMemory ==
  ASSUME NEW r, AtWork(r), ClaimsWith(r), GetMemory(r)
  PROVE  ClaimsWith(r)'
<1> DEFINE l == request[r]
           A == Ahead(l.todo)
           B == Ahead(Tail(l.todo))
<1>f. /\ l \in Local /\ request \in [Requests -> Local]
      /\ A = {Head(l.todo)} \cup B /\ l.todo \in Track(l.op)
      /\ l.todo \in Seq(Statements) /\ LocalAgrees(l)
  BY WorkFacts
<1>h. LocalsSet(l) /\ WrittenCmo(l) /\ OpenIsLast
  BY HandFacts
<1>1. /\ Head(l.todo) = "getMemory" /\ l.todo # <<>>
      /\ UNCHANGED <<memories, claims, versions, cmos>>
      /\ request'[r].op = l.op /\ request'[r].target = l.target
      /\ request'[r].claim = l.claim /\ request'[r].version = l.version
      /\ request'[r].newVersion = l.newVersion
      /\ request'[r].newCmo = l.newCmo
      /\ request'[r].seen = memories[l.target].content
      /\ request'[r].todo = Tail(l.todo)
  BY <1>f DEF GetMemory, At, Proceed, Continue, tables, Local, AtWork
<1>o. /\ l.op \in {"update", "supersede", "delete", "noop"}
      /\ "backfillVersion" \notin B /\ "backfillCurrent" \notin B
      /\ "getMemory" \notin B
      /\ l.op = "update" => "updateContent" \in B
      /\ l.op = "supersede" => "storeMemory" \in B
      /\ "softDelete" \in B => "invalidateClaim" \in B
  BY <1>1, <1>f, AddTrack, UpdateTrack, SupersedeTrack, DeleteTrack, NoopTrack,
     RemoveTrack, ShortTrack DEF AtWork, Operations
<1>v. l.newVersion = None
  <2>1. Has(l.todo, BeforeNewVersion)
    BY <1>1, <1>f, TailFacts DEF Has, BeforeNewVersion
  <2> QED
    BY <1>f, <2>1 DEF LocalAgrees, NewVersionKnown
<1>4. Spared(r)
  BY <1>1 DEF Spared, Candidates, Served
<1>6. Busy(request[r])' =>
        /\ OpenAtHand(request[r])' /\ CurrentAtHand(request[r])'
        /\ ChainAtHand(request[r])'
  BY <1>1, BusyKept DEF PointClaimStatements
<1>7. OpenIsLast'
  BY <1>1, <1>h DEF OpenIsLast
<1> HIDE DEF A, B
<1>8. Busy(l) => Busy(request[r])'
  BY <1>1, <1>f
     DEF Busy, Touching, ClaimStatements, PointClaimStatements,
         NewVersionStatements, A, B
<1>9. LocalsSet(request[r])' /\ Backfilled(request[r])'
  BY <1>1, <1>f, <1>h, <1>o DEF LocalsSet, NewVersionStatements, Backfilled, A, B
<1>10. WrittenText(r, request[r])'
  BY <1>1, <1>o DEF WrittenText, B
<1>11. WrittenVersion(r, request[r])'
  BY <1>1, <1>v DEF WrittenVersion
<1>12. WrittenCmo(request[r])'
  BY <1>1, <1>f, <1>h DEF WrittenCmo, A, B
<1> QED
  BY <1>1, <1>4, <1>6, <1>7, <1>8, <1>9, <1>10, <1>11, <1>12, ClaimsKept

(* The text or the atomic facts of the memory at hand are written.         *)
LEMMA ClaimsText ==
  ASSUME NEW r, AtWork(r), ClaimsWith(r),
         StoreFacts(r) \/ DeleteFacts(r) \/ UpdateContent(r)
  PROVE  ClaimsWith(r)'
<1> DEFINE l == request[r]
           A == Ahead(l.todo)
           B == Ahead(Tail(l.todo))
           p == l.projection
<1>f. /\ l \in Local /\ request \in [Requests -> Local]
      /\ A = {Head(l.todo)} \cup B /\ l.todo \in Track(l.op)
      /\ TargetServed(l) /\ ProjectionFree(l)
  BY WorkFacts
<1>h. /\ LocalsSet(l) /\ Backfilled(l) /\ WrittenText(r, l)
      /\ WrittenVersion(r, l) /\ WrittenCmo(l) /\ OpenIsLast
  BY HandFacts
<1>t. \A m \in DOMAIN memories : memories[m] \in MemoryRow /\ m # None
  BY RowFacts
<1>1. Head(l.todo) \in {"storeFacts", "deleteFacts", "updateContent"}
  BY DEF StoreFacts, DeleteFacts, UpdateContent, At
<1>p. /\ l.op \in {"add", "update", "supersede"}
      /\ p \in DOMAIN memories
      /\ l.op = "update" => p = l.target
      /\ \A v \in DOMAIN versions :
           versions[v].memory = p => versions[v].claim = l.claim /\ Busy(l)
  BY <1>1, ProjectionAtHand
<1>o. /\ B \cap {"ensureClaimTarget", "backfillVersion", "backfillCurrent",
                 "getMemory", "storeMemory", "updateContent", "softDelete"} = {}
      /\ "setCurrent" \in B
      /\ Head(l.todo) # "storeFacts" =>
           /\ "storeFacts" \in B /\ l.op = "update"
           /\ "deleteFacts" \in B <=> Head(l.todo) = "updateContent"
      /\ Head(l.todo) = "storeFacts" => {"storeFacts", "deleteFacts"} \cap B = {}
  BY <1>1, <1>p, <1>f, AddTrack, UpdateTrack, SupersedeTrack DEF AtWork
<1>2. /\ UNCHANGED <<claims, versions, cmos>>
      /\ request'[r] = [l EXCEPT !.todo = Tail(l.todo)]
      /\ DOMAIN memories' = DOMAIN memories
      /\ \A m \in DOMAIN memories :
           /\ memories'[m].life = memories[m].life
           /\ m # p => memories'[m] = memories[m]
      /\ memories'[p].content = IF Head(l.todo) = "updateContent" THEN r
                                ELSE memories[p].content
      /\ memories'[p].facts =
           CASE Head(l.todo) = "updateContent" -> memories[p].facts
             [] Head(l.todo) = "deleteFacts"   -> {}
             [] Head(l.todo) = "storeFacts"    -> memories[p].facts \cup {r}
  <2>1. CASE StoreFacts(r)
    <3>1. memories' = [memories EXCEPT ![p] =
                         [memories[p] EXCEPT !.facts = memories[p].facts \cup {r}]]
      BY <2>1 DEF StoreFacts
    <3> QED
      BY <2>1, <3>1, <1>f, <1>t, <1>p
         DEF StoreFacts, At, Proceed, Continue, MemoryRow, AtWork
  <2>2. CASE DeleteFacts(r)
    <3>1. memories' = [memories EXCEPT ![p] = [memories[p] EXCEPT !.facts = {}]]
      BY <2>2 DEF DeleteFacts
    <3> QED
      BY <2>2, <3>1, <1>f, <1>t, <1>p
         DEF DeleteFacts, At, Proceed, Continue, MemoryRow, AtWork
  <2>3. CASE UpdateContent(r)
    <3>1. p = l.target /\ memories[p].life = "active" /\ Head(l.todo) = "updateContent"
      BY <2>3, <1>f, <1>o, <1>p DEF UpdateContent, At, TargetServed, Candidates
    <3>2. memories' = [memories EXCEPT ![p] = [memories[p] EXCEPT !.content = r]]
      BY <2>3, <3>1 DEF UpdateContent
    <3> QED
      BY <2>3, <3>1, <3>2, <1>f, <1>t, <1>p
         DEF UpdateContent, Proceed, Continue, MemoryRow, AtWork
  <2> QED
    BY <2>1, <2>2, <2>3
<1>3. /\ request'[r].op = l.op /\ request'[r].target = l.target
      /\ request'[r].claim = l.claim /\ request'[r].version = l.version
      /\ request'[r].seen = l.seen /\ request'[r].newCmo = l.newCmo
      /\ request'[r].newVersion = l.newVersion
      /\ request'[r].projection = l.projection
      /\ request'[r].todo = Tail(l.todo)
  BY <1>2, <1>f DEF Local
<1>4. Spared(r)
  BY <1>2, <1>p DEF Spared, Candidates, Served
<1>6. Busy(request[r])' =>
        /\ OpenAtHand(request[r])' /\ CurrentAtHand(request[r])'
        /\ ChainAtHand(request[r])'
  BY <1>1, <1>2, <1>3, BusyKept DEF PointClaimStatements
<1>7. OpenIsLast'
  BY <1>2, <1>h DEF OpenIsLast
<1> HIDE DEF A, B, p
<1>8. Busy(l) => Busy(request[r])'
  BY <1>3, <1>o DEF Busy, Touching, ClaimStatements, PointClaimStatements, B
<1>9. LocalsSet(request[r])' /\ Backfilled(request[r])'
  BY <1>1, <1>3, <1>f, <1>h, <1>o
     DEF LocalsSet, NewVersionStatements, Backfilled, A, B
<1>10. WrittenText(r, request[r])'
  <2>1. CASE Head(l.todo) = "updateContent"
    BY <2>1, <1>2, <1>3, <1>o, <1>p, <1>t DEF WrittenText, B, p
  <2>2. CASE Head(l.todo) # "updateContent"
    <3>1. /\ p # None /\ memories[p].content = r
          /\ "deleteFacts" \notin A =>
               memories[p].facts = IF "storeFacts" \in A THEN {} ELSE {r}
      BY <2>2, <1>1, <1>f, <1>h, <1>o, <1>p DEF WrittenText, A, p
    <3> QED
      BY <2>2, <3>1, <1>1, <1>2, <1>3, <1>f, <1>o DEF WrittenText, A, B, p
  <2> QED
    BY <2>1, <2>2
<1>11. WrittenVersion(r, request[r])' /\ WrittenCmo(request[r])'
  BY <1>1, <1>2, <1>3, <1>f, <1>h DEF WrittenVersion, WrittenCmo, A, B
<1> QED
  BY <1>2, <1>3, <1>4, <1>6, <1>7, <1>8, <1>9, <1>10, <1>11, ClaimsKept

(* The memory names its canonical object: nothing is left to put right.    *)
LEMMA ClaimsRelink ==
  ASSUME NEW r, AtWork(r), ClaimsWith(r), RelinkCmo(r)
  PROVE  ClaimsWith(r)'
<1> DEFINE l == request[r]
           A == Ahead(l.todo)
           B == Ahead(Tail(l.todo))
           p == l.projection
<1>f. /\ l \in Local /\ request \in [Requests -> Local]
      /\ A = {Head(l.todo)} \cup B /\ l.todo \in Track(l.op)
      /\ TargetServed(l) /\ ClaimKnown(l)
  BY WorkFacts
<1>h. /\ LocalsSet(l) /\ WrittenText(r, l)
      /\ WrittenVersion(r, l) /\ WrittenCmo(l) /\ OpenIsLast
      /\ Busy(l) => OpenAtHand(l) /\ CurrentAtHand(l) /\ ChainAtHand(l)
      /\ l.version # None =>
           l.version \in DOMAIN versions /\ versions[l.version].claim = l.claim
      /\ l.newVersion # None =>
           /\ l.newVersion \in DOMAIN versions
           /\ versions[l.newVersion].claim = l.claim
           /\ versions[l.newVersion].previous = l.version
           /\ l.newVersion # l.version
  BY HandFacts
<1>t. /\ \A m \in DOMAIN memories : memories[m] \in MemoryRow /\ m # None
      /\ \A v \in DOMAIN versions : v # None
      /\ MemoryIdIsUnique /\ VersionRowsAgree /\ None \notin Candidates
  BY RowFacts
<1>1. Head(l.todo) = "relinkCmo"
  BY DEF RelinkCmo, At
<1>p. /\ l.op \in {"update", "supersede"}
      /\ p \in DOMAIN memories /\ B = {}
      /\ l.op = "update" => p = l.target
      /\ \A v \in DOMAIN versions :
           versions[v].memory = p => versions[v].claim = l.claim /\ Busy(l)
  <2>1. l.op # "add"
    BY <1>1, <1>f, AddTrack DEF AtWork
  <2>2. l.op \in {"update", "supersede"} => B = {}
    BY <1>1, <1>f, UpdateTrack, SupersedeTrack DEF AtWork
  <2> QED
    BY <1>1, <2>1, <2>2, ProjectionAtHand
<1>2. /\ UNCHANGED <<claims, versions, cmos>>
      /\ request'[r] = [l EXCEPT !.todo = Tail(l.todo)]
      /\ DOMAIN memories' = DOMAIN memories
      /\ \A m \in DOMAIN memories :
           /\ memories'[m].life = memories[m].life
           /\ memories'[m].content = memories[m].content
           /\ memories'[m].facts = memories[m].facts
           /\ memories'[m].cmo = IF m = p THEN l.newCmo ELSE memories[m].cmo
  <2>1. memories' = [memories EXCEPT ![p] = [memories[p] EXCEPT !.cmo = l.newCmo]]
    BY DEF RelinkCmo
  <2> QED
    BY <2>1, <1>f, <1>t, <1>p DEF RelinkCmo, Proceed, Continue, MemoryRow, AtWork
<1>3. /\ request'[r].op = l.op /\ request'[r].claim = l.claim
      /\ request'[r].version = l.version
      /\ request'[r].newVersion = l.newVersion
      /\ request'[r].todo = Tail(l.todo)
  BY <1>2, <1>f DEF Local
<1>4. Spared(r)
  BY <1>2, <1>p DEF Spared, Candidates, Served
<1>5. /\ LocalsSet(request[r])' /\ Backfilled(request[r])'
      /\ WrittenText(r, request[r])' /\ WrittenVersion(r, request[r])'
      /\ WrittenCmo(request[r])'
  BY <1>1, <1>2, LocalsKept DEF Steady
<1>7. OpenIsLast'
  BY <1>2, <1>h DEF OpenIsLast
<1> HIDE DEF A, B, p
<1>6. ~Busy(request[r])'
  BY <1>3, <1>p DEF Busy, B
<1>8. ASSUME NEW c \in DOMAIN claims, c = l.claim
      PROVE  ClaimAgrees(c)'
  <2>0. PICK n \in DOMAIN versions :
          /\ n = l.newVersion /\ versions[n].memory = p
          /\ versions[n].content = r /\ versions[n].kind = l.op
          /\ versions[n].claim = c /\ versions[n].previous = l.version
          /\ n # l.version /\ n # None
    <3>1. l.newVersion # None
      BY <1>f, <1>1, <1>h, <1>p DEF LocalsSet, NewVersionStatements, A
    <3> QED
      BY <3>1, <1>h, <1>p, <1>8, <1>t DEF WrittenVersion, p
  <2>1. l.claim # None /\ Busy(l)
    BY <1>p, <2>0 DEF Busy
  <2>2. /\ OpenVersions(c) = {n}
        /\ claims[c].status = "active" /\ claims[c].current = n
        /\ ChainOf(c, n)
        /\ versions[n].previous # None => versions[versions[n].previous].supersededBy = n
    <3>1. OpenAtHand(l) /\ CurrentAtHand(l) /\ ChainAtHand(l)
      BY <2>1, <1>h
    <3>2. A = {"relinkCmo"}
      BY <1>f, <1>1, <1>p
    <3>3. OpenVersions(c) = {n}
      BY <3>1, <3>2, <2>0, <1>8, <1>p DEF OpenAtHand, A
    <3>4. claims[c].status = "active" /\ claims[c].current = n
      BY <3>1, <3>2, <2>0, <1>8 DEF CurrentAtHand, Current, PointClaimStatements, A
    <3> QED
      BY <3>1, <3>2, <3>3, <3>4, <2>0, <1>8 DEF ChainAtHand, A
  <2>3. \A v \in DOMAIN versions :
          versions[v].claim = c /\ versions[v].memory \in Candidates => v = n
    <3>1. SUFFICES ASSUME NEW v \in DOMAIN versions, versions[v].claim = c,
                          versions[v].memory \in Candidates, v # n
                   PROVE  FALSE
      OBVIOUS
    <3>2. versions[v].memory = l.target
      BY <3>1, <2>0, <2>1, <1>f, <1>8 DEF ClaimKnown, Served
    <3>3. CASE l.op = "update"
      BY <3>1, <3>2, <3>3, <2>0, <1>p, <1>t DEF MemoryIdIsUnique
    <3>4. CASE l.op = "supersede"
      <4>1. l.version # None /\ Retired(versions[l.version].born)
        <5>1. l.version # None
          BY <3>4, <1>f, <1>1, <1>p, <1>h, <2>1 DEF LocalsSet, Targeted, A
        <5>2. ReplacedRow(n)
          BY <2>0 DEF AtWork, IInv, RowsAgree
        <5> QED
          BY <5>1, <5>2, <2>0, <3>4 DEF ReplacedRow, Replacing
      <4>2. versions[l.version].born = l.target
        BY <4>1, WorkFacts DEF LocalAgrees, OldVersionKnown
      <4> QED
        BY <4>1, <4>2, <3>1, <3>2 DEF Retired, Candidates
    <3> QED
      BY <1>p, <3>3, <3>4
  <2>4. OpenVersions(c)' = {n} /\ claims'[c] = claims[c] /\ Candidates' = Candidates
    BY <1>2, <2>2 DEF OpenVersions, Candidates
  <2>5. ClaimOpen(c)' /\ ClaimServed(c)'
    BY <1>2, <2>2, <2>3, <2>4 DEF ClaimOpen, ClaimServed, Served, Current
  <2>6. ChainOf(c, None)'
    BY <1>2, <2>2 DEF ChainOf
  <2>7. Projected(n, versions[n].memory)'
    <3>1. /\ memories[p].content = r /\ memories[p].facts = {r}
          /\ l.newCmo \in DOMAIN cmos /\ cmos[l.newCmo].version = n
      BY <1>f, <1>1, <1>p, <1>h, <2>0 DEF WrittenText, WrittenCmo, A, p
    <3> QED
      BY <3>1, <1>2, <1>p, <2>0 DEF Projected
  <2> QED
    BY <2>2, <2>4, <2>5, <2>6, <2>7 DEF ClaimAgrees, Current
<1> QED
  BY <1>2, <1>3, <1>4, <1>5, <1>6, <1>7, <1>8, ClaimsKept

(* The version the request read is known when its row is edited.           *)
LEMMA OldAtHand ==
  ASSUME NEW r, AtWork(r), ClaimsWith(r),
         Head(request[r].todo) \in {"closeOld", "releaseOld", "linkOld"}
  PROVE  LET l == request[r]
             B == Ahead(Tail(l.todo))
         IN
         /\ l.op \in {"update", "supersede", "delete", "remove"}
         /\ {"setCurrent", "invalidateClaim"} \cap B # {}
         /\ B \cap {"closeOld", "backfillVersion", "backfillCurrent"} = {}
         /\ Head(l.todo) # "closeOld" =>
              l.op = "update" /\ ("linkOld" \in B <=> Head(l.todo) = "releaseOld")
         /\ Head(l.todo) = "closeOld" =>
              IF l.op = "update" THEN "linkOld" \in B ELSE "linkOld" \notin B
         /\ l.claim # None /\ Busy(l)
         /\ l.version # None /\ l.version \in DOMAIN versions
         /\ versions[l.version].claim = l.claim
         /\ Head(l.todo) = "linkOld" => l.newVersion # None
<1> DEFINE l == request[r]
           A == Ahead(l.todo)
           B == Ahead(Tail(l.todo))
<1>f. /\ A = {Head(l.todo)} \cup B /\ l.todo \in Track(l.op) /\ ClaimKnown(l)
  BY WorkFacts
<1>h. /\ LocalsSet(l)
      /\ l.version # None =>
           l.version \in DOMAIN versions /\ versions[l.version].claim = l.claim
  BY HandFacts
<1>o. /\ l.op \in {"update", "supersede", "delete", "remove"}
      /\ {"setCurrent", "invalidateClaim"} \cap B # {}
      /\ B \cap {"closeOld", "backfillVersion", "backfillCurrent",
                 "ensureClaimTarget", "createClaim"} = {}
      /\ Head(l.todo) # "closeOld" =>
           l.op = "update" /\ ("linkOld" \in B <=> Head(l.todo) = "releaseOld")
      /\ Head(l.todo) = "closeOld" =>
           IF l.op = "update" THEN "linkOld" \in B ELSE "linkOld" \notin B
      /\ Head(l.todo) = "linkOld" =>
           l.op = "update" /\ B \cap NewVersionStatements = {}
  <2>1. CASE l.op \in {"add", "noop", "archive", "verbatim", "clarify"}
    BY <2>1, <1>f, AddTrack, NoopTrack, ShortTrack DEF AtWork
  <2>2. CASE l.op = "update"
    BY <2>2, <1>f, UpdateTrack DEF AtWork, NewVersionStatements
  <2>3. CASE l.op = "supersede"
    BY <2>3, <1>f, SupersedeTrack DEF AtWork
  <2>4. CASE l.op = "delete"
    BY <2>4, <1>f, DeleteTrack DEF AtWork
  <2>5. CASE l.op = "remove"
    BY <2>5, <1>f, RemoveTrack DEF AtWork
  <2> QED
    BY <2>1, <2>2, <2>3, <2>4, <2>5 DEF AtWork, Operations
<1> HIDE DEF A, B
<1>1. l.claim # None
  BY <1>f, <1>o DEF ClaimKnown, ClaimStatements, PointClaimStatements, A, B
<1>2. Busy(l)
  BY <1>f, <1>1 DEF Busy, Touching, A
<1>3. l.version # None
  BY <1>f, <1>h, <1>o, <1>1 DEF LocalsSet, Targeted, A
<1>4. Head(l.todo) = "linkOld" => l.newVersion # None
  BY <1>f, <1>h, <1>o DEF LocalsSet, NewVersionStatements, A
<1> QED
  BY <1>h, <1>o, <1>1, <1>2, <1>3, <1>4 DEF B

(* The row of the version the request read is edited: it is closed, it     *)
(* lets go of its memory, or it is linked to its successor.                *)
LEMMA ClaimsOld ==
  ASSUME NEW r, AtWork(r), ClaimsWith(r), CloseOld(r) \/ ReleaseOld(r) \/ LinkOld(r)
  PROVE  ClaimsWith(r)'
<1> DEFINE l == request[r]
           A == Ahead(l.todo)
           B == Ahead(Tail(l.todo))
           u == l.version
<1>f. /\ l \in Local /\ request \in [Requests -> Local]
      /\ A = {Head(l.todo)} \cup B
  BY WorkFacts
<1>h. /\ OpenIsLast
      /\ Busy(l) => OpenAtHand(l) /\ CurrentAtHand(l) /\ ChainAtHand(l)
      /\ l.newVersion # None =>
           /\ l.newVersion \in DOMAIN versions
           /\ versions[l.newVersion].claim = l.claim
           /\ l.newVersion # l.version
  BY HandFacts
<1>t. /\ \A v \in DOMAIN versions : versions[v] \in VersionRow /\ v # None
      /\ None \notin Candidates /\ LineageStaysInClaim
  BY RowFacts
<1>1. Head(l.todo) \in {"closeOld", "releaseOld", "linkOld"}
  BY DEF CloseOld, ReleaseOld, LinkOld, At
<1>u. /\ l.op \in {"update", "supersede", "delete", "remove"}
      /\ {"setCurrent", "invalidateClaim"} \cap B # {}
      /\ B \cap {"closeOld", "backfillVersion", "backfillCurrent"} = {}
      /\ Head(l.todo) # "closeOld" =>
           l.op = "update" /\ ("linkOld" \in B <=> Head(l.todo) = "releaseOld")
      /\ Head(l.todo) = "closeOld" =>
           IF l.op = "update" THEN "linkOld" \in B ELSE "linkOld" \notin B
      /\ l.claim # None /\ Busy(l)
      /\ u # None /\ u \in DOMAIN versions /\ versions[u].claim = l.claim
      /\ Head(l.todo) = "linkOld" => l.newVersion # None
  BY <1>1, OldAtHand
<1>2. /\ UNCHANGED <<memories, claims, cmos>>
      /\ request'[r] = [l EXCEPT !.todo = Tail(l.todo)]
      /\ DOMAIN versions' = DOMAIN versions
      /\ \A v \in DOMAIN versions : v # u => versions'[v] = versions[v]
      /\ versions'[u].claim = versions[u].claim
      /\ versions'[u].previous = versions[u].previous
      /\ versions'[u].content = versions[u].content
      /\ versions'[u].kind = versions[u].kind
      /\ versions'[u].memory = IF Head(l.todo) = "releaseOld" THEN None
                               ELSE versions[u].memory
      /\ versions'[u].open = IF Head(l.todo) = "closeOld" THEN FALSE
                             ELSE versions[u].open
      /\ versions'[u].supersededBy =
           IF Head(l.todo) = "releaseOld" THEN versions[u].supersededBy
           ELSE l.newVersion
  <2>1. CASE CloseOld(r)
    <3>1. versions' = [versions EXCEPT ![u] =
                         [versions[u] EXCEPT !.open = FALSE,
                            !.supersededBy = l.newVersion]]
      BY <2>1 DEF CloseOld
    <3>2. /\ versions'[u] = [versions[u] EXCEPT !.open = FALSE,
                               !.supersededBy = l.newVersion]
          /\ versions[u] \in VersionRow
      BY <3>1, <1>t, <1>u
    <3>3. /\ versions'[u].claim = versions[u].claim
          /\ versions'[u].previous = versions[u].previous
          /\ versions'[u].content = versions[u].content
          /\ versions'[u].kind = versions[u].kind
          /\ versions'[u].memory = versions[u].memory
          /\ versions'[u].open = FALSE
          /\ versions'[u].supersededBy = l.newVersion
      BY <3>2 DEF VersionRow
    <3>4. /\ DOMAIN versions' = DOMAIN versions
          /\ \A v \in DOMAIN versions : v # u => versions'[v] = versions[v]
      BY <3>1
    <3>5. /\ UNCHANGED <<memories, claims, cmos>>
          /\ request'[r] = [l EXCEPT !.todo = Tail(l.todo)]
          /\ Head(l.todo) = "closeOld"
      BY <2>1, <1>f DEF CloseOld, At, Proceed, Continue, AtWork
    <3> QED
      BY <3>3, <3>4, <3>5
  <2>2. CASE ReleaseOld(r)
    <3>1. versions' = [versions EXCEPT ![u] = [versions[u] EXCEPT !.memory = None]]
      BY <2>2 DEF ReleaseOld
    <3> QED
      BY <2>2, <3>1, <1>f, <1>t, <1>u
         DEF ReleaseOld, At, Proceed, Continue, VersionRow, AtWork
  <2>3. CASE LinkOld(r)
    <3>1. versions' = [versions EXCEPT ![u] =
                         [versions[u] EXCEPT !.supersededBy = l.newVersion]]
      BY <2>3 DEF LinkOld
    <3>2. /\ versions'[u] = [versions[u] EXCEPT !.supersededBy = l.newVersion]
          /\ versions[u] \in VersionRow
      BY <3>1, <1>t, <1>u
    <3>3. /\ versions'[u].claim = versions[u].claim
          /\ versions'[u].previous = versions[u].previous
          /\ versions'[u].content = versions[u].content
          /\ versions'[u].kind = versions[u].kind
          /\ versions'[u].memory = versions[u].memory
          /\ versions'[u].open = versions[u].open
          /\ versions'[u].supersededBy = l.newVersion
      BY <3>2 DEF VersionRow
    <3>4. /\ DOMAIN versions' = DOMAIN versions
          /\ \A v \in DOMAIN versions : v # u => versions'[v] = versions[v]
      BY <3>1
    <3>5. /\ UNCHANGED <<memories, claims, cmos>>
          /\ request'[r] = [l EXCEPT !.todo = Tail(l.todo)]
          /\ Head(l.todo) = "linkOld"
      BY <2>3, <1>f DEF LinkOld, At, Proceed, Continue, AtWork
    <3> QED
      BY <3>3, <3>4, <3>5
  <2> QED
    BY <2>1, <2>2, <2>3
<1>3. /\ request'[r].op = l.op /\ request'[r].claim = l.claim
      /\ request'[r].version = l.version
      /\ request'[r].newVersion = l.newVersion
      /\ request'[r].todo = Tail(l.todo)
  BY <1>2, <1>f DEF Local
<1>4. Spared(r)
  <2>1. Candidates' = Candidates
    BY <1>2 DEF Candidates
  <2>2. ASSUME NEW v \in DOMAIN versions, versions[v].memory \in Candidates'
        PROVE  Served(v)
    BY <2>1, <2>2 DEF Served
  <2>3. ASSUME NEW v \in DOMAIN versions
        PROVE  /\ versions'[v].claim = versions[v].claim
               /\ \/ versions[v].claim = l.claim /\ Busy(l)
                  \/ versions'[v] = versions[v]
    BY <1>2, <1>u
  <2> QED
    BY <1>2, <2>2, <2>3 DEF Spared
<1>5. /\ LocalsSet(request[r])' /\ Backfilled(request[r])'
      /\ WrittenText(r, request[r])' /\ WrittenVersion(r, request[r])'
      /\ WrittenCmo(request[r])'
  BY <1>1, <1>2, LocalsKept DEF Steady
<1> HIDE DEF A, B
<1>c. OpenAtHand(l) /\ CurrentAtHand(l) /\ ChainAtHand(l)
  BY <1>h, <1>u
<1>6. OpenAtHand(request[r])'
  <2>1. CASE Head(l.todo) = "closeOld"
    <3>1. OpenVersions(l.claim)' = OpenVersions(l.claim) \ {u}
      BY <2>1, <1>2, <1>3 DEF OpenVersions
    <3>2. OpenVersions(l.claim) = {l.version, l.newVersion} \ {None}
      BY <2>1, <1>c, <1>f DEF OpenAtHand, A
    <3>3. OpenVersions(l.claim)' = {l.newVersion} \ {None}
      BY <3>1, <3>2, <1>h
    <3> QED
      BY <3>3, <1>3, <1>h, <1>u DEF OpenAtHand, B
  <2>2. CASE Head(l.todo) # "closeOld"
    <3>1. OpenVersions(l.claim)' = OpenVersions(l.claim)
      BY <2>2, <1>2, <1>3 DEF OpenVersions
    <3> QED
      BY <2>2, <3>1, <1>c, <1>3, <1>f DEF OpenAtHand, A, B
  <2> QED
    BY <2>1, <2>2
<1>7. CurrentAtHand(request[r])'
  <2>1. Head(l.todo) \notin PointClaimStatements \cup {"backfillCurrent"}
    BY <1>1 DEF PointClaimStatements
  <2> QED
    BY <2>1, <1>c, <1>2, <1>3, <1>f DEF CurrentAtHand, Current, A, B
<1>8. ChainAtHand(request[r])'
  <2>1. ASSUME NEW v \in DOMAIN versions, versions[v].claim = l.claim,
               versions[v].previous # None, v # l.newVersion
        PROVE  versions'[versions[v].previous].supersededBy = v
    <3>1. versions[v].previous # u
      BY <2>1, <1>c, <1>u DEF ChainAtHand
    <3>2. versions[v].previous \in DOMAIN versions
      BY <2>1, <1>t DEF LineageStaysInClaim
    <3>3. versions[versions[v].previous].supersededBy = v
      BY <2>1, <1>c DEF ChainAtHand, ChainOf
    <3> QED
      BY <3>1, <3>2, <3>3, <1>2
  <2>2. \A v \in DOMAIN versions :
          /\ versions'[v].previous = versions[v].previous
          /\ versions'[v].claim = versions[v].claim
    BY <1>2
  <2>3. ChainOf(request[r].claim, request[r].newVersion)'
    BY <2>1, <2>2, <1>2, <1>3 DEF ChainOf
  <2>4. \A v \in DOMAIN versions' : versions'[v].previous = u => v = l.newVersion
    BY <2>2, <1>2, <1>c, <1>u DEF ChainAtHand
  <2>5. l.newVersion # None /\ B \cap {"linkOld", "closeOld"} = {}
          => versions'[u].supersededBy = l.newVersion
    BY <1>1, <1>2, <1>u
  <2> QED
    BY <2>3, <2>4, <2>5, <1>3 DEF ChainAtHand, B
<1>9. OpenIsLast'
  <2>1. CASE Head(l.todo) = "linkOld"
    <3>1. u \notin OpenVersions(l.claim)
      BY <2>1, <1>c, <1>f, <1>u DEF OpenAtHand, A
    <3>2. versions[u].open = FALSE
      BY <3>1, <1>u, <1>t DEF OpenVersions, VersionRow
    <3> QED
      BY <2>1, <3>2, <1>2, <1>h DEF OpenIsLast
  <2>2. CASE Head(l.todo) # "linkOld"
    BY <2>2, <1>1, <1>2, <1>h DEF OpenIsLast
  <2> QED
    BY <2>1, <2>2
<1>10. Busy(request[r])'
  BY <1>3, <1>u DEF Busy, Touching, ClaimStatements, PointClaimStatements, B
<1> QED
  BY <1>2, <1>3, <1>4, <1>5, <1>6, <1>7, <1>8, <1>9, <1>10, ClaimsKept

(* What is known when a version is inserted.                               *)
LEMMA InsertAtHand ==
  ASSUME NEW r, AtWork(r), ClaimsWith(r),
         Head(request[r].todo) \in
           {"createVersion", "createTombstone", "backfillVersion"}
  PROVE  LET l == request[r]
             B == Ahead(Tail(l.todo))
         IN
         /\ l.claim # None /\ l.claim \in DOMAIN claims /\ Busy(l)
         /\ l.newVersion = None
         /\ Head(l.todo) = "createVersion" =>
              /\ l.op \in {"add", "update", "supersede"}
              /\ "setCurrent" \in B
              /\ l.op # "add" => B \cap {"linkOld", "closeOld"} # {}
              /\ l.op = "update" => "closeOld" \notin B
              /\ "getMemory" \notin B /\ "softDelete" \notin B
         /\ Head(l.todo) = "createTombstone" =>
              l.op = "delete" /\ {"closeOld", "invalidateClaim"} \subseteq B
         /\ Head(l.todo) = "backfillVersion" =>
              /\ l.op \in {"update", "supersede", "delete", "noop"}
              /\ "backfillCurrent" \in B /\ l.version = None
              /\ l.op # "noop" => "closeOld" \in B
              /\ "softDelete" \in B => "invalidateClaim" \in B
         /\ l.op \in {"update", "supersede", "delete", "noop"} =>
              Head(l.todo) = "backfillVersion" \/ l.version # None
         /\ B \cap {"ensureClaimTarget", "getClaimVersion", "getMemory",
                    "createClaim", "backfillVersion"} = {}
         /\ Head(l.todo) # "backfillVersion" => "backfillCurrent" \notin B
<1> DEFINE l == request[r]
           A == Ahead(l.todo)
           B == Ahead(Tail(l.todo))
<1>f. /\ A = {Head(l.todo)} \cup B /\ l.todo \in Track(l.op) /\ ClaimKnown(l)
      /\ l.todo \in Seq(Statements) /\ LocalAgrees(l)
  BY WorkFacts
<1>h. LocalsSet(l)
  BY HandFacts
<1>o. /\ Head(l.todo) = "createVersion" =>
           /\ l.op \in {"add", "update", "supersede"}
           /\ "setCurrent" \in B
           /\ l.op # "add" => B \cap {"linkOld", "closeOld"} # {}
           /\ l.op = "update" => "closeOld" \notin B
           /\ "getMemory" \notin B /\ "softDelete" \notin B
      /\ Head(l.todo) = "createTombstone" =>
           l.op = "delete" /\ {"closeOld", "invalidateClaim"} \subseteq B
      /\ Head(l.todo) = "backfillVersion" =>
           /\ l.op \in {"update", "supersede", "delete", "noop"}
           /\ "backfillCurrent" \in B
           /\ l.op # "noop" => "closeOld" \in B
           /\ "softDelete" \in B => "invalidateClaim" \in B
      /\ B \cap {"ensureClaimTarget", "getClaimVersion", "getMemory",
                 "createClaim", "backfillVersion"} = {}
      /\ Head(l.todo) # "backfillVersion" => "backfillCurrent" \notin B
  <2>1. CASE l.op \in {"remove", "archive", "verbatim", "clarify"}
    BY <2>1, <1>f, RemoveTrack, ShortTrack DEF AtWork
  <2>2. CASE l.op = "update"
    <3>1. /\ Head(l.todo) = "createVersion" =>
               B = {"linkOld", "setCurrent", "addEvidence", "storeCmo", "relinkCmo"}
          /\ Head(l.todo) = "backfillVersion" =>
               B = {"backfillCurrent", "citeTarget", "updateContent",
                    "deleteFacts", "storeFacts", "closeOld", "releaseOld",
                    "createVersion", "linkOld", "setCurrent", "addEvidence",
                    "storeCmo", "relinkCmo"}
          /\ Head(l.todo) # "createTombstone"
      BY <2>2, <1>f, UpdateTrack DEF AtWork
    <3> QED
      BY <2>2, <3>1
  <2>3. CASE l.op = "supersede"
    BY <2>3, <1>f, SupersedeTrack DEF AtWork
  <2>4. CASE l.op = "delete"
    BY <2>4, <1>f, DeleteTrack DEF AtWork
  <2>5. CASE l.op \in {"add", "noop"}
    BY <2>5, <1>f, AddTrack, NoopTrack DEF AtWork
  <2> QED
    BY <2>1, <2>2, <2>3, <2>4, <2>5 DEF AtWork, Operations
<1>1. l.newVersion = None
  <2>1. Has(l.todo, BeforeNewVersion)
    BY <1>f, TailFacts DEF Has, BeforeNewVersion, NewVersionStatements,
       BeforeOldVersion, OldVersionStatements, AtWork
  <2> QED
    BY <1>f, <2>1 DEF LocalAgrees, NewVersionKnown
<1>2. Head(l.todo) = "backfillVersion" => l.version = None
  <2>1. Head(l.todo) = "backfillVersion" => Has(l.todo, BeforeOldVersion)
    BY <1>f, TailFacts DEF Has, BeforeOldVersion, OldVersionStatements, AtWork
  <2> QED
    BY <1>f, <2>1 DEF LocalAgrees, OldVersionKnown
<1> HIDE DEF A, B
<1>3. l.claim # None
  BY <1>f, <1>o DEF ClaimKnown, ClaimStatements, NewVersionStatements, A
<1>4. Busy(l)
  BY <1>f, <1>3 DEF Busy, Touching, ClaimStatements, NewVersionStatements, A
<1>5. l.op \in {"update", "supersede", "delete", "noop"} =>
        Head(l.todo) = "backfillVersion" \/ l.version # None
  BY <1>f, <1>h, <1>o, <1>3 DEF LocalsSet, Targeted, A
<1> QED
  BY <1>f, <1>o, <1>1, <1>2, <1>3, <1>4, <1>5 DEF ClaimKnown, B

(* A version is inserted for the memory the request writes, or a tombstone. *)
LEMMA ClaimsCreateVersion ==
  ASSUME NEW r, AtWork(r), ClaimsWith(r), CreateVersion(r) \/ CreateTombstone(r)
  PROVE  ClaimsWith(r)'
<1> DEFINE l == request[r]
           A == Ahead(l.todo)
           B == Ahead(Tail(l.todo))
<1>f. /\ l \in Local /\ request \in [Requests -> Local] /\ TypeOK
      /\ A = {Head(l.todo)} \cup B
  BY WorkFacts
<1>h. /\ LocalsSet(l) /\ Backfilled(l) /\ WrittenText(r, l)
      /\ WrittenCmo(l) /\ OpenIsLast
      /\ Busy(l) => OpenAtHand(l) /\ CurrentAtHand(l) /\ ChainAtHand(l)
      /\ l.version # None => l.version \in DOMAIN versions
  BY HandFacts
<1>t. /\ \A v \in DOMAIN versions : v # None
      /\ None \notin Candidates /\ LineageStaysInClaim
  BY RowFacts
<1>1. Head(l.todo) \in {"createVersion", "createTombstone"}
  BY DEF CreateVersion, CreateTombstone, At
<1>2. PICK m, kind, n :
        /\ m = IF Head(l.todo) = "createVersion" THEN l.projection ELSE None
        /\ kind = IF Head(l.todo) = "createVersion" THEN l.op ELSE "delete"
        /\ n = Len(versions) + 1
        /\ InsertVersion(r, m, r, kind, l.version)
  <2>1. CASE CreateVersion(r)
    BY <2>1 DEF CreateVersion, At
  <2>2. CASE CreateTombstone(r)
    BY <2>2 DEF CreateTombstone, At
  <2> QED
    BY <2>1, <2>2
<1>3. /\ UNCHANGED <<memories, claims, cmos>>
      /\ request'[r].op = l.op /\ request'[r].target = l.target
      /\ request'[r].claim = l.claim /\ request'[r].version = l.version
      /\ request'[r].seen = l.seen /\ request'[r].newCmo = l.newCmo
      /\ request'[r].newVersion = n
      /\ request'[r].projection = l.projection
      /\ request'[r].todo = Tail(l.todo)
  <2>1. /\ UNCHANGED <<memories, claims, cmos>>
        /\ request'[r] = [[l EXCEPT !.newVersion = n] EXCEPT !.todo = Tail(l.todo)]
    BY <1>f, <1>2 DEF CreateVersion, CreateTombstone, Proceed, Continue, AtWork
  <2> QED
    BY <2>1, <1>f DEF Local
<1>u. /\ l.claim # None /\ l.claim \in DOMAIN claims /\ Busy(l)
      /\ l.newVersion = None
      /\ Head(l.todo) = "createVersion" =>
           /\ l.op \in {"add", "update", "supersede"}
           /\ "setCurrent" \in B
           /\ l.op # "add" => B \cap {"linkOld", "closeOld"} # {}
           /\ l.op = "update" => "closeOld" \notin B
           /\ "getMemory" \notin B /\ "softDelete" \notin B
      /\ Head(l.todo) = "createTombstone" =>
           l.op = "delete" /\ {"closeOld", "invalidateClaim"} \subseteq B
      /\ l.op \in {"update", "supersede", "delete", "noop"} => l.version # None
      /\ B \cap {"ensureClaimTarget", "getClaimVersion", "getMemory",
                 "createClaim", "backfillVersion"} = {}
      /\ "backfillCurrent" \notin B
  BY <1>1, InsertAtHand
<1>4. /\ DOMAIN versions' = DOMAIN versions \cup {n}
      /\ n \notin DOMAIN versions /\ n # None
      /\ \A v \in DOMAIN versions : versions'[v] = versions[v]
      /\ versions'[n].claim = l.claim /\ versions'[n].memory = m
      /\ versions'[n].content = r /\ versions'[n].kind = l.op
      /\ versions'[n].previous = l.version
      /\ versions'[n].supersededBy = None /\ versions'[n].open = TRUE
  <2>1. kind = l.op
    BY <1>1, <1>2, <1>u
  <2>2. InsertVersion(r, m, r, kind, l.version) /\ n = Len(versions) + 1
    BY <1>2
  <2> QED
    BY <1>f, <2>1, <2>2, VersionAppended
<1>5. Spared(r)
  <2>1. Candidates' = Candidates
    BY <1>3 DEF Candidates
  <2> QED
    BY <1>3, <1>4, <1>u, <2>1 DEF Spared, Served
<1> HIDE DEF A, B
<1>c. OpenAtHand(l) /\ CurrentAtHand(l) /\ ChainAtHand(l)
  BY <1>h, <1>u
<1>n. n # l.version
  BY <1>4, <1>h, <1>f DEF None
<1>6. OpenAtHand(request[r])'
  <2>1. OpenVersions(l.claim)' = OpenVersions(l.claim) \cup {n}
    BY <1>3, <1>4 DEF OpenVersions
  <2>2. OpenVersions(l.claim) =
          {v \in {l.version} \ {None} : "closeOld" \in B \/ l.op = "noop"}
    BY <1>c, <1>f, <1>1, <1>u DEF OpenAtHand, A
  <2> QED
    BY <2>1, <2>2, <1>3, <1>4, <1>n DEF OpenAtHand, B
<1>7. CurrentAtHand(request[r])'
  <2>1. claims[l.claim].status = "active" /\ claims[l.claim].current = l.version
    BY <1>c, <1>f, <1>1, <1>u
       DEF CurrentAtHand, Current, PointClaimStatements, A
  <2> QED
    BY <2>1, <1>1, <1>3, <1>u DEF CurrentAtHand, Current, PointClaimStatements, B
<1>8. ChainAtHand(request[r])'
  <2>1. ASSUME NEW v \in DOMAIN versions, versions[v].claim = l.claim,
               versions[v].previous # None
        PROVE  versions'[versions[v].previous].supersededBy = v
    <3>1. versions[v].previous \in DOMAIN versions
      BY <2>1, <1>t DEF LineageStaysInClaim
    <3>2. versions[versions[v].previous].supersededBy = v
      BY <2>1, <1>c, <1>u, <1>t DEF ChainAtHand, ChainOf
    <3> QED
      BY <3>1, <3>2, <1>4
  <2>2. ChainOf(request[r].claim, request[r].newVersion)'
    BY <2>1, <1>4, <1>3 DEF ChainOf
  <2>3. l.version # None =>
          \A v \in DOMAIN versions' : versions'[v].previous = l.version => v = n
    BY <1>4, <1>c, <1>u, <1>t DEF ChainAtHand
  <2>4. l.version # None => B \cap {"linkOld", "closeOld"} # {}
    BY <1>1, <1>u, <1>h DEF LocalsSet, Targeted
  <2> QED
    BY <2>2, <2>3, <2>4, <1>3 DEF ChainAtHand, B
<1>9. OpenIsLast'
  BY <1>4, <1>h DEF OpenIsLast
<1>10. Busy(request[r])'
  BY <1>1, <1>3, <1>u DEF Busy, Touching, ClaimStatements, PointClaimStatements, B
<1>11. LocalsSet(request[r])'
  BY <1>1, <1>3, <1>4, <1>f, <1>h, <1>u DEF LocalsSet, Targeted, A, B
<1>12. Backfilled(request[r])'
  BY <1>3, <1>u DEF Backfilled, B
<1>13. WrittenText(r, request[r])'
  BY <1>1, <1>3, <1>f, <1>h DEF WrittenText, A, B
<1>14. WrittenVersion(r, request[r])'
  BY <1>1, <1>2, <1>3, <1>4, <1>u DEF WrittenVersion
<1>15. WrittenCmo(request[r])'
  <2>1. l.op \in {"update", "supersede"} => "storeCmo" \in B
    BY <1>1, <1>u, WorkFacts, UpdateTrack, SupersedeTrack DEF AtWork, B
  <2> QED
    BY <2>1, <1>1, <1>3, <1>f, <1>h DEF WrittenCmo, A, B
<1> QED
  BY <1>3, <1>5, <1>6, <1>7, <1>8, <1>9, <1>10, <1>11, <1>12, <1>13, <1>14,
     <1>15, ClaimsKept

(* A version is inserted for a memory that had none.                       *)
LEMMA ClaimsBackfillVersion ==
  ASSUME NEW r, AtWork(r), ClaimsWith(r), BackfillVersion(r)
  PROVE  ClaimsWith(r)'
<1> DEFINE l == request[r]
           A == Ahead(l.todo)
           B == Ahead(Tail(l.todo))
<1>f. /\ l \in Local /\ request \in [Requests -> Local] /\ TypeOK
      /\ A = {Head(l.todo)} \cup B
  BY WorkFacts
<1>h. /\ LocalsSet(l) /\ Backfilled(l) /\ WrittenText(r, l)
      /\ WrittenCmo(l) /\ OpenIsLast
      /\ Busy(l) => OpenAtHand(l) /\ CurrentAtHand(l) /\ ChainAtHand(l)
  BY HandFacts
<1>t. /\ \A v \in DOMAIN versions : v # None
      /\ None \notin Candidates /\ LineageStaysInClaim
  BY RowFacts
<1>1. Head(l.todo) = "backfillVersion"
  BY DEF BackfillVersion, At
<1>2. PICK n : /\ n = Len(versions) + 1
               /\ InsertVersion(r, l.target, l.seen, "backfill", None)
  BY DEF BackfillVersion
<1>3. /\ UNCHANGED <<memories, claims, cmos>>
      /\ request'[r].op = l.op /\ request'[r].target = l.target
      /\ request'[r].claim = l.claim /\ request'[r].version = n
      /\ request'[r].seen = l.seen /\ request'[r].newCmo = l.newCmo
      /\ request'[r].newVersion = l.newVersion
      /\ request'[r].projection = l.projection
      /\ request'[r].todo = Tail(l.todo)
  BY <1>f, <1>2 DEF BackfillVersion, Proceed, Continue, Local, AtWork
<1>u. /\ l.claim # None /\ l.claim \in DOMAIN claims /\ Busy(l)
      /\ l.newVersion = None
      /\ l.op \in {"update", "supersede", "delete", "noop"}
      /\ "backfillCurrent" \in B /\ l.version = None
      /\ l.op # "noop" => "closeOld" \in B
      /\ "softDelete" \in B => "invalidateClaim" \in B
      /\ B \cap {"ensureClaimTarget", "getClaimVersion", "getMemory",
                 "createClaim", "backfillVersion"} = {}
  BY <1>1, InsertAtHand
<1>4. /\ DOMAIN versions' = DOMAIN versions \cup {n}
      /\ n \notin DOMAIN versions /\ n # None
      /\ \A v \in DOMAIN versions : versions'[v] = versions[v]
      /\ versions'[n].claim = l.claim /\ versions'[n].memory = l.target
      /\ versions'[n].content = l.seen /\ versions'[n].kind = "backfill"
      /\ versions'[n].previous = None
      /\ versions'[n].supersededBy = None /\ versions'[n].open = TRUE
  BY <1>f, <1>2, VersionAppended
<1>5. Spared(r)
  <2>1. Candidates' = Candidates
    BY <1>3 DEF Candidates
  <2> QED
    BY <1>3, <1>4, <1>u, <2>1 DEF Spared, Served
<1> HIDE DEF A, B
<1>c. OpenAtHand(l) /\ CurrentAtHand(l) /\ ChainAtHand(l)
  BY <1>h, <1>u
<1>6. OpenAtHand(request[r])'
  <2>1. OpenVersions(l.claim)' = OpenVersions(l.claim) \cup {n}
    BY <1>3, <1>4 DEF OpenVersions
  <2>2. OpenVersions(l.claim) = {}
    BY <1>c, <1>u DEF OpenAtHand
  <2> QED
    BY <2>1, <2>2, <1>3, <1>4, <1>u DEF OpenAtHand, B
<1>7. CurrentAtHand(request[r])'
  BY <1>c, <1>3, <1>f, <1>u DEF CurrentAtHand, Current, A, B
<1>8. ChainAtHand(request[r])'
  <2>1. ASSUME NEW v \in DOMAIN versions, versions[v].claim = l.claim,
               versions[v].previous # None
        PROVE  versions'[versions[v].previous].supersededBy = v
    <3>1. versions[v].previous \in DOMAIN versions
      BY <2>1, <1>t DEF LineageStaysInClaim
    <3>2. versions[versions[v].previous].supersededBy = v
      BY <2>1, <1>c, <1>u, <1>t DEF ChainAtHand, ChainOf
    <3> QED
      BY <3>1, <3>2, <1>4
  <2>2. ChainOf(request[r].claim, request[r].newVersion)'
    BY <2>1, <1>4, <1>3 DEF ChainOf
  <2>3. \A v \in DOMAIN versions' : versions'[v].previous # n
    BY <1>4, <1>t DEF LineageStaysInClaim
  <2> QED
    BY <2>2, <2>3, <1>3, <1>u DEF ChainAtHand
<1>9. OpenIsLast'
  BY <1>4, <1>h DEF OpenIsLast
<1>10. Busy(request[r])'
  BY <1>3, <1>u DEF Busy, Touching, ClaimStatements, PointClaimStatements, B
<1>11. LocalsSet(request[r])'
  BY <1>1, <1>3, <1>4, <1>f, <1>h, <1>u
     DEF LocalsSet, Targeted, NewVersionStatements, A, B
<1>12. Backfilled(request[r])'
  BY <1>1, <1>3, <1>4, <1>f, <1>h DEF Backfilled, A, B
<1>13. WrittenText(r, request[r])'
  BY <1>1, <1>3, <1>f, <1>h DEF WrittenText, A, B
<1>14. WrittenVersion(r, request[r])'
  BY <1>3, <1>u DEF WrittenVersion
<1>15. WrittenCmo(request[r])'
  BY <1>1, <1>3, <1>f, <1>h, <1>u DEF WrittenCmo, A, B
<1> QED
  BY <1>3, <1>5, <1>6, <1>7, <1>8, <1>9, <1>10, <1>11, <1>12, <1>13, <1>14,
     <1>15, ClaimsKept

(* A claim is created.                                                     *)
LEMMA ClaimsCreateClaim ==
  ASSUME NEW r, AtWork(r), ClaimsWith(r), CreateClaim(r)
  PROVE  ClaimsWith(r)'
<1> DEFINE l == request[r]
           A == Ahead(l.todo)
           B == Ahead(Tail(l.todo))
<1>f. /\ l \in Local /\ request \in [Requests -> Local] /\ TypeOK
      /\ A = {Head(l.todo)} \cup B /\ l.todo \in Track(l.op) /\ ClaimKnown(l)
      /\ l.todo \in Seq(Statements) /\ LocalAgrees(l)
  BY WorkFacts
<1>h. /\ LocalsSet(l) /\ Backfilled(l) /\ WrittenText(r, l)
      /\ WrittenCmo(l) /\ OpenIsLast
  BY HandFacts
<1>t. VersionRowsAgree
  BY RowFacts
<1>1. Head(l.todo) = "createClaim"
  BY DEF CreateClaim, At
<1>2. PICK n :
        /\ n = Len(claims) + 1
        /\ claims' = Append(claims, [status |-> "active", current |-> None,
                                     invalidatedBy |-> None])
        /\ request'[r] = [[l EXCEPT !.claim = n] EXCEPT !.todo = Tail(l.todo)]
        /\ UNCHANGED <<memories, versions, cmos>>
  BY <1>f DEF CreateClaim, Proceed, Continue, AtWork
<1>3. /\ request'[r].op = l.op /\ request'[r].target = l.target
      /\ request'[r].claim = n /\ request'[r].version = l.version
      /\ request'[r].seen = l.seen /\ request'[r].newCmo = l.newCmo
      /\ request'[r].newVersion = l.newVersion
      /\ request'[r].projection = l.projection
      /\ request'[r].todo = Tail(l.todo)
  BY <1>f, <1>2 DEF Local
<1>4. /\ DOMAIN claims' = DOMAIN claims \cup {n} /\ n \notin DOMAIN claims
      /\ n # None
      /\ \A c \in DOMAIN claims : claims'[c] = claims[c]
      /\ claims'[n].status = "active" /\ claims'[n].current = None
  BY <1>f, <1>2 DEF TypeOK, None
<1>o. /\ B \cap {"ensureClaimTarget", "getMemory", "createClaim"} = {}
      /\ \/ /\ l.op = "add" /\ B = {"createVersion", "setCurrent", "addEvidence"}
         \/ "backfillVersion" \in B /\ "backfillCurrent" \in B
      /\ l.op = "supersede" => "storeMemory" \in B
      /\ l.op = "update" => "updateContent" \in B
      /\ "softDelete" \in B => "invalidateClaim" \in B
  <2>1. CASE l.op \in {"remove", "archive", "verbatim", "clarify"}
    BY <2>1, <1>f, <1>1, RemoveTrack, ShortTrack DEF AtWork
  <2>2. CASE l.op \in {"add", "noop"}
    BY <2>2, <1>f, <1>1, AddTrack, NoopTrack DEF AtWork
  <2>3. CASE l.op \in {"update", "supersede", "delete"}
    BY <2>3, <1>f, <1>1, UpdateTrack, SupersedeTrack, DeleteTrack DEF AtWork
  <2> QED
    BY <2>1, <2>2, <2>3 DEF AtWork, Operations
<1>u. l.newVersion = None /\ l.version = None
  <2>1. Has(l.todo, BeforeNewVersion) /\ Has(l.todo, BeforeOldVersion)
    BY <1>f, <1>1, TailFacts DEF Has, BeforeNewVersion, BeforeOldVersion, AtWork
  <2> QED
    BY <1>f, <2>1 DEF LocalAgrees, NewVersionKnown, OldVersionKnown
<1>5. Spared(r)
  <2>1. Candidates' = Candidates
    BY <1>2 DEF Candidates
  <2> QED
    BY <1>2, <1>4, <2>1 DEF Spared, Served
<1> HIDE DEF A, B
<1>6. Busy(request[r])'
  BY <1>3, <1>4, <1>o
     DEF Busy, Touching, ClaimStatements, PointClaimStatements, B
<1>c. l.claim = None /\ ~Busy(l)
  BY <1>f, <1>1 DEF ClaimKnown, ClaimReads, Busy, A
<1>7. \A v \in DOMAIN versions : versions[v].claim # n
  BY <1>t, <1>4 DEF VersionRowsAgree
<1>8. OpenAtHand(request[r])' /\ ChainAtHand(request[r])'
  BY <1>2, <1>3, <1>7, <1>u DEF OpenAtHand, OpenVersions, ChainAtHand, ChainOf
<1>9. CurrentAtHand(request[r])'
  BY <1>3, <1>4, <1>u, <1>o DEF CurrentAtHand, Current, PointClaimStatements, B
<1>10. OpenIsLast'
  BY <1>2, <1>h DEF OpenIsLast
<1>11. LocalsSet(request[r])'
  <2>1. l.op \notin Targeted => l.op = "add"
    BY <1>f, <1>1, ShortTrack DEF AtWork, Operations, Targeted
  <2> QED
    BY <2>1, <1>1, <1>2, <1>3, <1>f, <1>h, <1>u, <1>o
       DEF LocalsSet, Targeted, NewVersionStatements, A, B
<1>12. Backfilled(request[r])'
  BY <1>1, <1>2, <1>3, <1>f, <1>h, <1>u, <1>o DEF Backfilled, A, B
<1>13. WrittenText(r, request[r])'
  BY <1>1, <1>2, <1>3, <1>f, <1>h DEF WrittenText, A, B
<1>14. WrittenVersion(r, request[r])'
  BY <1>3, <1>u DEF WrittenVersion
<1>15. WrittenCmo(request[r])'
  BY <1>1, <1>2, <1>3, <1>f, <1>h, <1>u DEF WrittenCmo, A, B
<1>16. AtHand(r, request[r])'
  BY <1>8, <1>9, <1>11, <1>12, <1>13, <1>14, <1>15 DEF AtHand
<1>17. ASSUME NEW c \in DOMAIN claims', c # n
       PROVE  ClaimAgrees(c)'
  BY <1>4, <1>5, <1>c, <1>17, OthersAgree
<1> QED
  BY <1>3, <1>6, <1>10, <1>16, <1>17 DEF ClaimsWith

(* What is known when the claim at hand is written.                        *)
LEMMA PointAtHand ==
  ASSUME NEW r, AtWork(r), ClaimsWith(r),
         Head(request[r].todo) \in PointClaimStatements
  PROVE  LET l == request[r]
             B == Ahead(Tail(l.todo))
         IN
         /\ l.claim # None /\ l.claim \in DOMAIN claims /\ Busy(l)
         /\ B \cap {"ensureClaimTarget", "createClaim", "backfillVersion"} = {}
         /\ "backfillCurrent" \notin B
         /\ Head(l.todo) = "setCurrent" =>
              /\ l.op \in {"add", "update", "supersede"}
              /\ B \cap ({"closeOld", "linkOld"} \cup PointClaimStatements) = {}
              /\ l.op # "add" => "relinkCmo" \in B
              /\ l.op = "add" => B = {"addEvidence"}
              /\ l.newVersion # None
         /\ Head(l.todo) = "backfillCurrent" =>
              /\ l.op \in {"update", "supersede", "delete", "noop"}
              /\ l.op # "noop" =>
                   "closeOld" \in B /\ B \cap PointClaimStatements # {}
              /\ l.op = "noop" => B = {"citeTarget"}
              /\ l.version # None
         /\ Head(l.todo) = "invalidateClaim" =>
              l.op \in {"delete", "remove"} /\ B \subseteq {"storeCmo"}
<1> DEFINE l == request[r]
           A == Ahead(l.todo)
           B == Ahead(Tail(l.todo))
<1>f. /\ A = {Head(l.todo)} \cup B /\ l.todo \in Track(l.op) /\ ClaimKnown(l)
  BY WorkFacts
<1>h. LocalsSet(l)
  BY HandFacts
<1>o. /\ B \cap {"ensureClaimTarget", "createClaim", "backfillVersion"} = {}
      /\ "backfillCurrent" \notin B
      /\ Head(l.todo) = "setCurrent" =>
           /\ l.op \in {"add", "update", "supersede"}
           /\ B \cap {"closeOld", "linkOld", "setCurrent", "invalidateClaim",
                      "createVersion", "createTombstone"} = {}
           /\ l.op # "add" => "relinkCmo" \in B
           /\ l.op = "add" => B = {"addEvidence"}
      /\ Head(l.todo) = "backfillCurrent" =>
           /\ l.op \in {"update", "supersede", "delete", "noop"}
           /\ l.op # "noop" =>
                "closeOld" \in B /\ {"setCurrent", "invalidateClaim"} \cap B # {}
           /\ l.op = "noop" => B = {"citeTarget"}
      /\ Head(l.todo) = "invalidateClaim" =>
           l.op \in {"delete", "remove"} /\ B \subseteq {"storeCmo"}
  <2>1. CASE l.op \in {"remove", "archive", "verbatim", "clarify"}
    BY <2>1, <1>f, RemoveTrack, ShortTrack DEF AtWork, PointClaimStatements
  <2>2. CASE l.op = "update"
    <3>1. /\ Head(l.todo) = "setCurrent" => B = {"addEvidence", "storeCmo", "relinkCmo"}
          /\ Head(l.todo) = "backfillCurrent" =>
               B = {"citeTarget", "updateContent", "deleteFacts", "storeFacts",
                    "closeOld", "releaseOld", "createVersion", "linkOld",
                    "setCurrent", "addEvidence", "storeCmo", "relinkCmo"}
          /\ Head(l.todo) # "invalidateClaim"
      BY <2>2, <1>f, UpdateTrack DEF AtWork
    <3> QED
      BY <2>2, <3>1 DEF PointClaimStatements
  <2>3. CASE l.op = "supersede"
    <3>1. /\ Head(l.todo) = "setCurrent" => B = {"addEvidence", "storeCmo", "relinkCmo"}
          /\ Head(l.todo) = "backfillCurrent" =>
               B = {"citeTarget", "expireMemory", "storeMemory", "storeFacts",
                    "createVersion", "closeOld", "setCurrent", "addEvidence",
                    "storeCmo", "relinkCmo"}
          /\ Head(l.todo) # "invalidateClaim"
      BY <2>3, <1>f, SupersedeTrack DEF AtWork
    <3> QED
      BY <2>3, <3>1 DEF PointClaimStatements
  <2>4. CASE l.op = "delete"
    BY <2>4, <1>f, DeleteTrack DEF AtWork, PointClaimStatements
  <2>5. CASE l.op \in {"add", "noop"}
    BY <2>5, <1>f, AddTrack, NoopTrack DEF AtWork, PointClaimStatements
  <2> QED
    BY <2>1, <2>2, <2>3, <2>4, <2>5 DEF AtWork, Operations
<1> HIDE DEF A, B
<1>3. l.claim # None
  BY <1>f, <1>o DEF ClaimKnown, ClaimStatements, PointClaimStatements, A
<1>4. Busy(l)
  BY <1>f, <1>3 DEF Busy, Touching, ClaimStatements, A
<1>5. Head(l.todo) = "setCurrent" => l.newVersion # None
  BY <1>f, <1>h, <1>o DEF LocalsSet, NewVersionStatements, A
<1>6. Head(l.todo) = "backfillCurrent" => l.version # None
  BY <1>f, <1>h, <1>o, <1>3 DEF LocalsSet, Targeted, A
<1> QED
  BY <1>f, <1>o, <1>3, <1>4, <1>5, <1>6 DEF ClaimKnown, PointClaimStatements, B

(* The claim at hand is pointed at the version the request wrote, at the   *)
(* backfilled version, or is deleted.                                      *)
LEMMA ClaimsPoint ==
  ASSUME NEW r, AtWork(r), ClaimsWith(r), TablesSerial',
         SetCurrent(r) \/ BackfillCurrent(r) \/ InvalidateClaim(r)
  PROVE  ClaimsWith(r)'
<1> DEFINE l == request[r]
           A == Ahead(l.todo)
           B == Ahead(Tail(l.todo))
<1>f. /\ l \in Local /\ request \in [Requests -> Local] /\ TypeOK
      /\ A = {Head(l.todo)} \cup B /\ ClaimKnown(l) /\ TargetServed(l)
      /\ ProjectionFree(l)
  BY WorkFacts
<1>h. /\ LocalsSet(l) /\ Backfilled(l) /\ WrittenText(r, l)
      /\ WrittenVersion(r, l) /\ OpenIsLast
      /\ Busy(l) => OpenAtHand(l) /\ CurrentAtHand(l) /\ ChainAtHand(l)
      /\ l.version # None =>
           l.version \in DOMAIN versions /\ versions[l.version].claim = l.claim
      /\ l.newVersion # None =>
           /\ l.newVersion \in DOMAIN versions
           /\ versions[l.newVersion].claim = l.claim
           /\ versions[l.newVersion].previous = l.version
           /\ l.newVersion # l.version
  BY HandFacts
<1>t. /\ \A v \in DOMAIN versions : v # None
      /\ None \notin Candidates /\ MemoryIdIsUnique /\ VersionRowsAgree
  BY RowFacts
<1>1. Head(l.todo) \in PointClaimStatements
  BY DEF SetCurrent, BackfillCurrent, InvalidateClaim, At, PointClaimStatements
<1>u. /\ l.claim # None /\ l.claim \in DOMAIN claims /\ Busy(l)
      /\ B \cap {"ensureClaimTarget", "createClaim", "backfillVersion"} = {}
      /\ "backfillCurrent" \notin B
      /\ Head(l.todo) = "setCurrent" =>
           /\ l.op \in {"add", "update", "supersede"}
           /\ B \cap ({"closeOld", "linkOld"} \cup PointClaimStatements) = {}
           /\ l.op # "add" => "relinkCmo" \in B
           /\ l.op = "add" => B = {"addEvidence"}
           /\ l.newVersion # None
      /\ Head(l.todo) = "backfillCurrent" =>
           /\ l.op \in {"update", "supersede", "delete", "noop"}
           /\ l.op # "noop" =>
                "closeOld" \in B /\ B \cap PointClaimStatements # {}
           /\ l.op = "noop" => B = {"citeTarget"}
           /\ l.version # None
      /\ Head(l.todo) = "invalidateClaim" =>
           l.op \in {"delete", "remove"} /\ B \subseteq {"storeCmo"}
  BY <1>1, PointAtHand
<1>2. /\ UNCHANGED <<memories, versions, cmos>>
      /\ request'[r] = [l EXCEPT !.todo = Tail(l.todo)]
      /\ DOMAIN claims' = DOMAIN claims
      /\ \A c \in DOMAIN claims : c # l.claim => claims'[c] = claims[c]
      /\ claims'[l.claim] =
           CASE Head(l.todo) = "setCurrent" ->
                  [status |-> "active", current |-> l.newVersion,
                   invalidatedBy |-> None]
             [] Head(l.todo) = "backfillCurrent" ->
                  [status |-> "active", current |-> l.version,
                   invalidatedBy |-> None]
             [] Head(l.todo) = "invalidateClaim" ->
                  [status |-> "deleted", current |-> None,
                   invalidatedBy |-> l.newVersion]
  <2>1. CASE SetCurrent(r)
    BY <2>1, <1>f, <1>u DEF SetCurrent, PointClaim, At, Proceed, Continue, AtWork
  <2>2. CASE BackfillCurrent(r)
    BY <2>2, <1>f, <1>u DEF BackfillCurrent, PointClaim, At, Proceed, Continue, AtWork
  <2>3. CASE InvalidateClaim(r)
    BY <2>3, <1>f, <1>u DEF InvalidateClaim, At, Proceed, Continue, AtWork
  <2> QED
    BY <2>1, <2>2, <2>3
<1>3. /\ request'[r].op = l.op /\ request'[r].claim = l.claim
      /\ request'[r].version = l.version
      /\ request'[r].newVersion = l.newVersion
      /\ request'[r].todo = Tail(l.todo)
  BY <1>2, <1>f DEF Local
<1>4. Spared(r)
  <2>1. Candidates' = Candidates
    BY <1>2 DEF Candidates
  <2> QED
    BY <1>2, <1>u, <2>1 DEF Spared, Served
<1>5. /\ LocalsSet(request[r])' /\ Backfilled(request[r])'
      /\ WrittenText(r, request[r])' /\ WrittenVersion(r, request[r])'
      /\ WrittenCmo(request[r])'
  BY <1>1, <1>2, LocalsKept DEF Steady, PointClaimStatements
<1> HIDE DEF A, B
<1>c. OpenAtHand(l) /\ CurrentAtHand(l) /\ ChainAtHand(l)
  BY <1>h, <1>u
<1>6. OpenIsLast'
  BY <1>2, <1>h DEF OpenIsLast
<1>e. Busy(request[r])' <=>
        Head(l.todo) # "invalidateClaim" /\ l.op \notin {"add", "noop"}
  BY <1>1, <1>3, <1>u
     DEF Busy, Touching, ClaimStatements, PointClaimStatements,
         NewVersionStatements, B
<1>7. Busy(request[r])' =>
        /\ OpenAtHand(request[r])' /\ CurrentAtHand(request[r])'
        /\ ChainAtHand(request[r])'
  <2> SUFFICES ASSUME Busy(request[r])'
               PROVE  /\ OpenAtHand(request[r])' /\ CurrentAtHand(request[r])'
                      /\ ChainAtHand(request[r])'
    OBVIOUS
  <2>1. OpenAtHand(request[r])'
    BY <1>c, <1>1, <1>2, <1>3, <1>f
       DEF OpenAtHand, OpenVersions, PointClaimStatements, A, B
  <2>2. ChainAtHand(request[r])'
    BY <1>c, <1>1, <1>2, <1>3, <1>f
       DEF ChainAtHand, ChainOf, PointClaimStatements, A, B
  <2>3. CurrentAtHand(request[r])'
    BY <1>e, <1>1, <1>2, <1>3, <1>u
       DEF CurrentAtHand, Current, PointClaimStatements, B
  <2> QED
    BY <2>1, <2>2, <2>3
<1>8. ASSUME ~Busy(request[r])', NEW c \in DOMAIN claims, c = l.claim
      PROVE  ClaimAgrees(c)'
  <2>1. OpenVersions(c)' = OpenVersions(c) /\ Candidates' = Candidates
    BY <1>2 DEF OpenVersions, Candidates
  <2>2. ChainOf(c, None)'
    <3>1. l.newVersion # None /\ l.version # None =>
            versions[l.version].supersededBy = l.newVersion
      BY <1>c, <1>1, <1>8, <1>e, <1>f, <1>u, <1>h
         DEF ChainAtHand, PointClaimStatements, LocalsSet, A
    <3>2. ChainOf(c, l.newVersion)
      BY <1>c, <1>8 DEF ChainAtHand
    <3> QED
      BY <3>1, <3>2, <1>2, <1>h, <1>8 DEF ChainOf
  <2>3. CASE Head(l.todo) = "invalidateClaim"
    <3>1. /\ claims'[c].status = "deleted" /\ claims'[c].invalidatedBy = l.newVersion
      BY <2>3, <1>2, <1>8
    <3>2. OpenVersions(c) = {l.newVersion} \ {None}
      BY <2>3, <1>c, <1>f, <1>h, <1>u, <1>8 DEF OpenAtHand, A
    <3>3. ClaimOpen(c)'
      BY <3>1, <3>2, <2>1 DEF ClaimOpen
    <3>4. ClaimServed(c)'
      BY <3>1 DEF ClaimServed, TablesSerial, DeletedServesNothing
    <3> QED
      BY <3>1, <3>3, <3>4, <2>2 DEF ClaimAgrees
  <2>4. CASE Head(l.todo) = "setCurrent" /\ l.op = "add"
    <3>0. PICK n \in DOMAIN versions :
            /\ n = l.newVersion /\ n # None /\ versions[n].memory = l.projection
            /\ versions[n].content = r /\ versions[n].kind = "add"
      BY <2>4, <1>u, <1>h DEF WrittenVersion
    <3>1. claims'[c].status = "active" /\ claims'[c].current = n
      BY <2>4, <3>0, <1>2, <1>8
    <3>2. OpenVersions(c) = {n}
      BY <2>4, <3>0, <1>c, <1>h, <1>8 DEF OpenAtHand, LocalsSet, Targeted
    <3>3. ClaimOpen(c)'
      BY <3>1, <3>2, <2>1 DEF ClaimOpen, Current
    <3>4. ClaimServed(c)'
      <4>1. l.target = None
        BY <2>4, <1>f DEF TargetServed, Targeted
      <4>2. \A v \in DOMAIN versions :
              versions[v].claim = c /\ versions[v].memory \in Candidates => v = n
        BY <4>1, <1>f, <1>t, <1>u, <1>8, <3>0 DEF ClaimKnown, Served
      <4> QED
        BY <4>2, <3>1, <2>1, <1>2 DEF ClaimServed, Served, Current
    <3>5. Projected(n, versions[n].memory)'
      <4>1. /\ l.projection \in DOMAIN memories
            /\ memories[l.projection].content = r
            /\ memories[l.projection].facts = {r}
        BY <2>4, <1>f, <1>h, <1>u DEF WrittenText, ProjectionFree, A
      <4> QED
        BY <4>1, <3>0, <1>2 DEF Projected
    <3> QED
      BY <3>1, <3>3, <3>4, <3>5, <2>2 DEF ClaimAgrees, Current
  <2>5. CASE Head(l.todo) = "backfillCurrent" /\ l.op = "noop"
    <3>0. PICK n \in DOMAIN versions :
            /\ n = l.version /\ n # None /\ versions[n].memory = l.target
            /\ versions[n].content = l.seen /\ versions[n].kind = "backfill"
      BY <2>5, <1>u, <1>h, <1>f DEF Backfilled, A
    <3>1. claims'[c].status = "active" /\ claims'[c].current = n
      BY <2>5, <3>0, <1>2, <1>8
    <3>2. OpenVersions(c) = {n} /\ l.newVersion = None
      BY <2>5, <3>0, <1>c, <1>h, <1>8 DEF OpenAtHand, LocalsSet
    <3>3. ClaimOpen(c)'
      BY <3>1, <3>2, <2>1 DEF ClaimOpen, Current
    <3>4. ClaimServed(c)'
      <4>2. \A v \in DOMAIN versions :
              versions[v].claim = c /\ versions[v].memory \in Candidates => v = n
        BY <3>2, <1>f, <1>t, <1>u, <1>8, <3>0 DEF ClaimKnown, Served, MemoryIdIsUnique
      <4> QED
        BY <4>2, <3>1, <2>1, <1>2 DEF ClaimServed, Served, Current
    <3>5. Projected(n, versions[n].memory)'
      <4>1. versions[n].memory \in DOMAIN memories
        BY <3>0, <2>5, <1>f, WorkFacts DEF Targeted
      <4>2. memories[versions[n].memory].content = versions[n].content
        BY <2>5, <3>0, <1>f, <1>h DEF Backfilled, A
      <4> QED
        BY <4>1, <4>2, <3>0, <1>2 DEF Projected
    <3> QED
      BY <3>1, <3>3, <3>4, <3>5, <2>2 DEF ClaimAgrees, Current
  <2> QED
    BY <2>3, <2>4, <2>5, <1>8, <1>e, <1>1, <1>u DEF PointClaimStatements
<1> QED
  BY <1>2, <1>3, <1>4, <1>5, <1>6, <1>7, <1>8, ClaimsKept

(* What a version that is served says of its claim, while none is at hand. *)
LEMMA FoundAtHand ==
  ASSUME NEW r, AtWork(r), ClaimsWith(r), request[r].claim = None,
         NEW v \in DOMAIN versions, Served(v)
  PROVE  LET c == versions[v].claim IN
         /\ c \in DOMAIN claims /\ c # None /\ v # None
         /\ claims[c].status = "active" /\ claims[c].current = v
         /\ OpenVersions(c) = {v} /\ ChainOf(c, None)
         /\ \A w \in DOMAIN versions : versions[w].previous # v
<1> DEFINE c == versions[v].claim
<1>t. /\ \A u \in DOMAIN versions : u # None
      /\ \A d \in DOMAIN claims : d # None
      /\ VersionRowsAgree /\ LineageStaysInClaim
  BY RowFacts
<1>1. c \in DOMAIN claims /\ c # None /\ v # None
  BY <1>t DEF VersionRowsAgree
<1>2. ClaimAgrees(c) /\ OpenIsLast
  BY <1>1, HandFacts
<1>3. /\ claims[c].status = "active" /\ claims[c].current = v
      /\ OpenVersions(c) = {v} /\ ChainOf(c, None)
  BY <1>2 DEF ClaimAgrees, ClaimOpen, ClaimServed, Current
<1>4. ASSUME NEW w \in DOMAIN versions, versions[w].previous = v
      PROVE  FALSE
  <2>1. versions[w].claim = c /\ versions[w].previous # None
    BY <1>1, <1>4, <1>t DEF LineageStaysInClaim
  <2>2. versions[v].supersededBy = w
    BY <1>3, <1>4, <2>1, <1>t DEF ChainOf
  <2>3. versions[v].supersededBy = None
    BY <1>2, <1>3 DEF OpenIsLast, OpenVersions
  <2> QED
    BY <2>2, <2>3, <1>t
<1> QED
  BY <1>1, <1>3, <1>4

(* The version of the target is read: its claim comes to hand.             *)
LEMMA ClaimsFound ==
  ASSUME NEW r, AtWork(r), ClaimsWith(r),
         Head(request[r].todo) \in {"ensureClaimTarget", "getClaimVersion"},
         request[r].claim = None, request[r].newVersion = None,
         request[r].op \in {"update", "supersede", "delete", "noop", "remove"},
         UNCHANGED <<memories, claims, versions, cmos>>,
         NEW v \in DOMAIN versions, versions[v].memory = request[r].target,
         Served(v),
         request'[r].op = request[r].op,
         request'[r].target = request[r].target,
         request'[r].claim = versions[v].claim, request'[r].version = v,
         request'[r].newVersion = None,
         request'[r].projection = request[r].projection,
         request'[r].newCmo = request[r].newCmo,
         LET B == Ahead(request'[r].todo) IN
         /\ B \cap {"ensureClaimTarget", "getClaimVersion", "getMemory",
                    "createClaim", "backfillVersion", "backfillCurrent"} = {}
         /\ request[r].op # "noop" => {"closeOld"} \subseteq B
         /\ request[r].op \in {"update", "supersede"} => {"setCurrent", "createVersion"} \subseteq B
         /\ request[r].op \in {"remove", "delete"} => "invalidateClaim" \in B
         /\ request[r].op = "update" => "updateContent" \in B
         /\ request[r].op = "delete" => "createTombstone" \in B
         /\ request[r].op = "noop" => B = {"citeTarget"}
         /\ request[r].op = "supersede" => "storeMemory" \in B
         /\ "softDelete" \in B => "invalidateClaim" \in B
         /\ request[r].op \in {"update", "supersede"} => "storeCmo" \in B
  PROVE  ClaimsWith(r)'
<1> DEFINE l == request[r]
           A == Ahead(l.todo)
<1>f. A = {Head(l.todo)} \cup Ahead(Tail(l.todo)) /\ l.todo \in Track(l.op)
  BY WorkFacts
<1>h. LocalsSet(l) /\ WrittenCmo(l) /\ OpenIsLast
  BY HandFacts
<1>1. PICK c : c = versions[v].claim
  OBVIOUS
<1>2. /\ c \in DOMAIN claims /\ c # None /\ v # None
      /\ claims[c].status = "active" /\ claims[c].current = v
      /\ OpenVersions(c) = {v} /\ ChainOf(c, None)
      /\ \A w \in DOMAIN versions : versions[w].previous # v
  BY <1>1, FoundAtHand
<1>3. /\ OpenVersions(c)' = OpenVersions(c) /\ ChainOf(c, None)'
  BY <1>2 DEF OpenVersions, ChainOf
<1>b. ~Busy(l)
  BY DEF Busy
<1>4. Spared(r)
  BY DEF Spared, Served, Candidates
<1>5. ASSUME NEW d \in DOMAIN claims'
      PROVE  ClaimAgrees(d)'
  BY <1>4, <1>b, OthersAgree
<1>6. OpenIsLast'
  BY <1>h DEF OpenIsLast
<1>7. LocalsSet(request[r])'
  BY <1>2, <1>h DEF LocalsSet, Targeted, NewVersionStatements
<1>8. Backfilled(request[r])'
  BY DEF Backfilled
<1>9. WrittenText(r, request[r])'
  BY DEF WrittenText
<1>10. WrittenVersion(r, request[r])'
  BY DEF WrittenVersion
<1>11. WrittenCmo(request[r])'
  <2>1. l.op \in {"update", "supersede"} => "storeCmo" \in A
    BY <1>f, UpdateTrack, SupersedeTrack DEF AtWork
  <2> QED
    BY <2>1, <1>h DEF WrittenCmo
<1>12. Busy(request[r])' => OpenAtHand(request[r])'
  <2>1. Busy(request[r])' => l.op # "noop"
    BY DEF Busy, Touching, ClaimStatements, PointClaimStatements,
           NewVersionStatements
  <2> QED
    BY <2>1, <1>1, <1>2, <1>3 DEF OpenAtHand
<1>13. Busy(request[r])' => CurrentAtHand(request[r])'
  <2>1. Busy(request[r])' => l.op # "noop"
    BY DEF Busy, Touching, ClaimStatements, PointClaimStatements,
           NewVersionStatements
  <2> QED
    BY <2>1, <1>1, <1>2 DEF CurrentAtHand, Current, PointClaimStatements
<1>14. ChainAtHand(request[r])'
  BY <1>1, <1>2, <1>3 DEF ChainAtHand
<1> QED
  BY <1>5, <1>6, <1>7, <1>8, <1>9, <1>10, <1>11, <1>12, <1>13, <1>14
     DEF ClaimsWith, AtHand

(* The version of the target is read, or its backfill begins.              *)
LEMMA ClaimsEnsure ==
  ASSUME NEW r, AtWork(r), ClaimsWith(r), EnsureClaimTarget(r)
  PROVE  ClaimsWith(r)'
<1> DEFINE l == request[r]
           A == Ahead(l.todo)
           B == Ahead(Tail(l.todo))
           b == BackfillProgram \o Tail(l.todo)
<1>f. /\ l \in Local /\ request \in [Requests -> Local]
      /\ l.todo \in Track(l.op)
      /\ l.todo \in Seq(Statements) /\ Tail(l.todo) \in Seq(Statements)
      /\ A = {Head(l.todo)} \cup B
      /\ TargetServed(l) /\ ClaimKnown(l) /\ LocalAgrees(l)
  BY WorkFacts
<1>h. LocalsSet(l) /\ WrittenCmo(l) /\ OpenIsLast
  BY HandFacts
<1>1. /\ Head(l.todo) = "ensureClaimTarget" /\ l.todo # <<>>
      /\ UNCHANGED <<memories, claims, versions, cmos>>
  BY DEF EnsureClaimTarget, At, tables
<1>o. /\ l.op \in {"update", "supersede", "delete", "noop"}
      /\ B \cap {"ensureClaimTarget", "getClaimVersion", "getMemory",
                 "createClaim", "backfillVersion", "backfillCurrent"} = {}
      /\ l.op # "noop" => "closeOld" \in B
      /\ l.op \in {"update", "supersede"} => {"setCurrent", "createVersion"} \subseteq B
      /\ l.op = "delete" => "invalidateClaim" \in B /\ "createTombstone" \in B
      /\ l.op = "update" => "updateContent" \in B
      /\ l.op = "noop" => B = {"citeTarget"}
      /\ l.op = "supersede" => "storeMemory" \in B
      /\ "softDelete" \in B => "invalidateClaim" \in B
      /\ l.op \in {"update", "supersede"} => "storeCmo" \in B
  <2>1. CASE l.op \in {"add", "remove", "archive", "verbatim", "clarify"}
    BY <2>1, <1>1, <1>f, AddTrack, RemoveTrack, ShortTrack DEF AtWork
  <2>2. CASE l.op = "update"
    BY <2>2, <1>1, <1>f, UpdateTrack DEF AtWork
  <2>3. CASE l.op = "supersede"
    BY <2>3, <1>1, <1>f, SupersedeTrack DEF AtWork
  <2>4. CASE l.op \in {"delete", "noop"}
    BY <2>4, <1>1, <1>f, DeleteTrack, NoopTrack DEF AtWork
  <2> QED
    BY <2>1, <2>2, <2>3, <2>4 DEF AtWork, Operations
<1>4. l.target \in Candidates /\ l.claim = None
  BY <1>f, <1>1, <1>o DEF TargetServed, ClaimKnown, ClaimReads, Targeted
<1>5. l.newVersion = None /\ l.version = None
  <2>1. Has(l.todo, BeforeOldVersion) /\ Has(l.todo, BeforeNewVersion)
    BY <1>f, <1>1, TailFacts
       DEF Has, BeforeOldVersion, BeforeNewVersion, OldVersionStatements
  <2> QED
    BY <1>f, <2>1 DEF LocalAgrees, OldVersionKnown, NewVersionKnown
<1>6. CASE VersionsOf(l.target) # {}
  <2>1. PICK v \in VersionsOf(l.target) :
          Proceed(r, [l EXCEPT !.claim = versions[v].claim, !.version = v])
    BY <1>6 DEF EnsureClaimTarget
  <2>2. /\ request'[r].op = l.op /\ request'[r].target = l.target
        /\ request'[r].claim = versions[v].claim /\ request'[r].version = v
        /\ request'[r].newVersion = None /\ request'[r].newCmo = l.newCmo
        /\ request'[r].projection = l.projection
        /\ request'[r].todo = Tail(l.todo)
    BY <2>1, <1>f, <1>5 DEF Proceed, Continue, Local, AtWork
  <2>3. v \in DOMAIN versions /\ versions[v].memory = l.target /\ Served(v)
    BY <1>4 DEF VersionsOf, Served
  <2> HIDE DEF A, B
  <2>4. LET C == Ahead(request'[r].todo) IN
         /\ C \cap {"ensureClaimTarget", "getClaimVersion", "getMemory",
                    "createClaim", "backfillVersion", "backfillCurrent"} = {}
         /\ l.op # "noop" => {"closeOld"} \subseteq C
         /\ l.op \in {"update", "supersede"} => {"setCurrent", "createVersion"} \subseteq C
         /\ l.op \in {"remove", "delete"} => "invalidateClaim" \in C
         /\ l.op = "update" => "updateContent" \in C
         /\ l.op = "delete" => "createTombstone" \in C
         /\ l.op = "noop" => C = {"citeTarget"}
         /\ l.op = "supersede" => "storeMemory" \in C
         /\ "softDelete" \in C => "invalidateClaim" \in C
         /\ l.op \in {"update", "supersede"} => "storeCmo" \in C
    BY <1>o, <2>2 DEF B
  <2> QED
    BY <1>1, <1>o, <1>4, <1>5, <2>2, <2>3, <2>4, ClaimsFound
<1>7. CASE VersionsOf(l.target) = {}
  <2>1. Continue(r, l, b)
    BY <1>7 DEF EnsureClaimTarget
  <2>2. /\ request'[r].op = l.op /\ request'[r].target = l.target
        /\ request'[r].claim = None /\ request'[r].version = None
        /\ request'[r].seen = l.seen /\ request'[r].newCmo = l.newCmo
        /\ request'[r].newVersion = None
        /\ request'[r].projection = l.projection
        /\ request'[r].todo = b
    BY <2>1, <1>f, <1>4, <1>5 DEF Continue, Local, AtWork
  <2> DEFINE C == Ahead(b)
  <2>4. C = {"createClaim", "backfillVersion", "backfillCurrent", "citeTarget"}
             \cup B
    BY <1>f, AheadBackfill
  <2> HIDE DEF A, B, C, b
  <2>5. Spared(r)
    BY <1>1 DEF Spared, Served, Candidates
  <2>6. ASSUME NEW d \in DOMAIN claims'
        PROVE  ClaimAgrees(d)'
    BY <1>1, <1>4, <2>5, OthersAgree DEF Busy
  <2>7. OpenIsLast'
    BY <1>1, <1>h DEF OpenIsLast
  <2>8. LocalsSet(request[r])'
    BY <1>o, <2>2, <2>4 DEF LocalsSet, Targeted, NewVersionStatements, C
  <2>9. Backfilled(request[r])'
    BY <1>1, <1>f, <1>h, <1>o, <2>2 DEF Backfilled, LocalsSet, A
  <2>10. WrittenText(r, request[r])'
    BY <1>o, <2>2, <2>4 DEF WrittenText, C
  <2>11. WrittenVersion(r, request[r])'
    BY <2>2 DEF WrittenVersion
  <2>12. WrittenCmo(request[r])'
    BY <1>o, <1>f, <1>h, <2>2, <2>4 DEF WrittenCmo, A, C
  <2>13. ~Busy(request[r])'
    BY <2>2 DEF Busy
  <2> QED
    BY <2>6, <2>7, <2>8, <2>9, <2>10, <2>11, <2>12, <2>13 DEF ClaimsWith, AtHand
<1> QED
  BY <1>6, <1>7

(* deleteMemory reads the version of its target.                           *)
LEMMA ClaimsGetClaimVersion ==
  ASSUME NEW r, AtWork(r), ClaimsWith(r), GetClaimVersion(r)
  PROVE  ClaimsWith(r)'
<1> DEFINE l == request[r]
           A == Ahead(l.todo)
           B == Ahead(Tail(l.todo))
           b == Tail(l.todo) \o RemoveClaim
<1>f. /\ l \in Local /\ request \in [Requests -> Local]
      /\ l.todo \in Track(l.op)
      /\ l.todo \in Seq(Statements) /\ Tail(l.todo) \in Seq(Statements)
      /\ A = {Head(l.todo)} \cup B
      /\ TargetServed(l) /\ ClaimKnown(l) /\ LocalAgrees(l)
  BY WorkFacts
<1>h. LocalsSet(l) /\ WrittenCmo(l) /\ OpenIsLast
  BY HandFacts
<1>1. /\ Head(l.todo) = "getClaimVersion" /\ l.todo # <<>>
      /\ UNCHANGED <<memories, claims, versions, cmos>>
  BY DEF GetClaimVersion, At, tables
<1>o. l.op = "remove" /\ B = {"softDelete"}
  BY <1>1, <1>f, AddTrack, UpdateTrack, SupersedeTrack, DeleteTrack, NoopTrack,
     RemoveTrack, ShortTrack DEF AtWork, Operations
<1>4. l.claim = None
  BY <1>f, <1>1 DEF ClaimKnown, ClaimReads
<1>5. l.newVersion = None /\ l.version = None
  <2>1. Has(l.todo, BeforeOldVersion) /\ Has(l.todo, BeforeNewVersion)
    BY <1>f, <1>1, TailFacts
       DEF Has, BeforeOldVersion, BeforeNewVersion, OldVersionStatements
  <2> QED
    BY <1>f, <2>1 DEF LocalAgrees, OldVersionKnown, NewVersionKnown
<1>6. CASE VersionsOf(l.target) # {}
  <2>1. PICK v \in VersionsOf(l.target) :
          Continue(r, [l EXCEPT !.claim = versions[v].claim, !.version = v], b)
    BY <1>6, <1>1 DEF GetClaimVersion
  <2>2. /\ request'[r].op = l.op /\ request'[r].target = l.target
        /\ request'[r].claim = versions[v].claim /\ request'[r].version = v
        /\ request'[r].newVersion = None /\ request'[r].newCmo = l.newCmo
        /\ request'[r].projection = l.projection
        /\ request'[r].todo = b
    BY <2>1, <1>f, <1>5 DEF Continue, Local, AtWork
  <2>3. v \in DOMAIN versions /\ versions[v].memory = l.target /\ Served(v)
    <3>1. l.target \in DOMAIN memories
      BY <1>o, WorkFacts DEF Targeted
    <3>2. memories[l.target].life # "needs_clarification"
      BY <2>1, <3>1, RowFacts DEF VersionsOf, VersionRowsAgree
    <3> QED
      BY <1>f, <1>1, <2>1, <3>2 DEF VersionsOf, Served, TargetServed
  <2>4. Ahead(b) = {"softDelete", "closeOld", "invalidateClaim"}
    BY <1>f, <1>o, AheadRemoveClaim
  <2> QED
    BY <1>1, <1>o, <1>4, <1>5, <2>2, <2>3, <2>4, ClaimsFound
<1>7. CASE Proceed(r, l)
  <2>1. request'[r] = [l EXCEPT !.todo = Tail(l.todo)]
    BY <1>7, <1>f DEF Proceed, Continue, AtWork
  <2>2. /\ request'[r].op = l.op /\ request'[r].target = l.target
        /\ request'[r].claim = None /\ request'[r].version = None
        /\ request'[r].newVersion = None
        /\ request'[r].todo = Tail(l.todo)
    BY <2>1, <1>f, <1>4, <1>5 DEF Local
  <2>5. Spared(r)
    BY <1>1 DEF Spared, Served, Candidates
  <2>6. ASSUME NEW d \in DOMAIN claims'
        PROVE  ClaimAgrees(d)'
    BY <1>1, <1>4, <2>5, OthersAgree DEF Busy
  <2>7. OpenIsLast'
    BY <1>1, <1>h DEF OpenIsLast
  <2> HIDE DEF B
  <2>8. LocalsSet(request[r])'
    BY <1>o, <2>2 DEF LocalsSet, Targeted, B
  <2>9. Backfilled(request[r])' /\ WrittenText(r, request[r])'
    BY <1>o, <2>2 DEF Backfilled, WrittenText, B
  <2>11. WrittenVersion(r, request[r])' /\ WrittenCmo(request[r])'
    BY <1>o, <2>2 DEF WrittenVersion, WrittenCmo
  <2>13. ~Busy(request[r])'
    BY <2>2 DEF Busy
  <2> QED
    BY <2>6, <2>7, <2>8, <2>9, <2>11, <2>13 DEF ClaimsWith, AtHand
<1> QED
  BY <1>6, <1>7 DEF GetClaimVersion
(* No INSERT of a version is rejected: the memory it is for has none.      *)
LEMMA NoDuplicate ==
  ASSUME NEW r, AtWork(r)
  PROVE  ~RejectDuplicate(r)
<1> DEFINE l == request[r]
           A == Ahead(l.todo)
           B == Ahead(Tail(l.todo))
<1>f. /\ A = {Head(l.todo)} \cup B /\ l.todo \in Track(l.op)
      /\ ProjectionFree(l)
  BY WorkFacts
<1>1. CASE Head(l.todo) = "createVersion"
  <2>1. B \cap {"getMemory", "storeMemory", "releaseOld"} = {}
    BY <1>f, <1>1, AddTrack, UpdateTrack, SupersedeTrack, DeleteTrack,
       NoopTrack, RemoveTrack, ShortTrack DEF AtWork, Operations
  <2> HIDE DEF A, B
  <2>2. VersionsOf(l.projection) = {}
    BY <1>f, <1>1, <2>1 DEF ProjectionFree, A
  <2> QED
    BY <1>1, <2>2 DEF RejectDuplicate, At
<1>2. CASE Head(l.todo) = "backfillVersion"
  <2> HIDE DEF A, B
  <2>1. VersionsOf(l.target) = {}
    BY <1>f, <1>2 DEF ProjectionFree, A
  <2> QED
    BY <1>2, <2>1 DEF RejectDuplicate, At
<1> QED
  BY <1>1, <1>2 DEF RejectDuplicate, At

(* Every statement leaves the claims as ClaimsWith says.                   *)
LEMMA ClaimsStatement ==
  ASSUME NEW r, AtWork(r), ClaimsWith(r), Statement(r)
  PROVE  ClaimsWith(r)'
<1>1. TablesSerial'
  BY SerialStatement
<1> QED
  BY <1>1, ClaimsRetire, ClaimsCite, ClaimsStoreCmo, ClaimsStoreMemory,
     ClaimsGetMemory, ClaimsText, ClaimsRelink, ClaimsOld, ClaimsCreateVersion,
     ClaimsBackfillVersion, ClaimsCreateClaim, ClaimsPoint, ClaimsEnsure,
     ClaimsGetClaimVersion, NoDuplicate DEF Statement

-----------------------------------------------------------------------------
(* The invariant about claims.                                             *)

(* A statement that runs is no failure.                                    *)
LEMMA KeepsFailures ==
  ASSUME NEW r, Statement(r)
  PROVE  UNCHANGED failures
  BY DEF Statement, StoreCmo, StoreMemory, InsertClarification, InsertMemory,
     StoreFacts, DeleteFacts, UpdateContent, ExpireMemory, SoftDelete,
     RelinkCmo, GetMemory, EnsureClaimTarget, GetClaimVersion, CreateClaim,
     CreateVersion, CreateTombstone, BackfillVersion, RejectDuplicate,
     CloseOld, ReleaseOld, LinkOld, SetCurrent, BackfillCurrent, PointClaim,
     InvalidateClaim, AddEvidence, CiteTarget, Cite, Proceed, Continue

(* A statement keeps the invariant.                                        *)
LEMMA ClaimsRun ==
  ASSUME IInv, SInv, ClaimsInv, NEW r \in Requests, Statement(r)
  PROVE  ClaimsInv'
<1>1. SUFFICES ASSUME failures' = 0
               PROVE  /\ Quiescent' => /\ \A c \in DOMAIN claims' : ClaimAgrees(c)'
                                       /\ OpenIsLast'
                      /\ \A q \in Running' : ClaimsWith(q)'
  BY DEF ClaimsInv
<1>2. request[r].todo # <<>> /\ AtWork(r)
  BY StatementRuns, RunningAtWork
<1>3. failures = 0
  BY <1>1, KeepsFailures
<1>4. ClaimsWith(r)
  BY <1>2, <1>3 DEF ClaimsInv, Running
<1>5. ClaimsWith(r)'
  BY <1>2, <1>4, ClaimsStatement
<1>6. ASSUME NEW q \in Running'
      PROVE  q = r
  <2>1. SUFFICES ASSUME q # r PROVE FALSE
    OBVIOUS
  <2>2. q \in Requests /\ request'[q].todo # <<>>
    BY <1>6 DEF Running
  <2>3. request'[q] = request[q]
    BY <2>1, <2>2, OnlyOwnLocal DEF IInv
  <2> QED
    BY <1>2, <2>1, <2>2, <2>3 DEF SInv, OneAtATime, Running
<1>7. CASE request'[r].todo = <<>>
  <2>1. ~Busy(request[r])'
    BY <1>7 DEF Busy, Ahead
  <2>2. r \notin Running'
    BY <1>7 DEF Running
  <2> QED
    BY <1>5, <1>6, <2>1, <2>2 DEF ClaimsWith
<1>8. CASE request'[r].todo # <<>>
  <2>1. r \in Running'
    BY <1>8 DEF Running
  <2> QED
    BY <1>5, <1>6, <2>1 DEF Quiescent
<1> QED
  BY <1>7, <1>8

(* What is ahead when a request starts leaves its locals to be set.        *)
LEMMA AheadStart ==
  ASSUME NEW op \in Operations
  PROVE  LET A == Ahead(Program[op]) IN
         /\ "ensureClaimTarget" \in A => "getMemory" \in A
         /\ A \cap {"backfillVersion", "backfillCurrent"} = {}
         /\ op \in {"add", "update", "supersede", "delete"} =>
              A \cap NewVersionStatements # {}
         /\ op \in {"add", "supersede", "update"} =>
              A \cap {"getMemory", "storeMemory"} # {}
         /\ op \in {"update", "supersede"} => "storeCmo" \in A
<1> DEFINE p == Program[op]
           A == Ahead(p)
           B == Ahead(Tail(p))
<1>1. p \in Track(op) /\ p \in Seq(Statements) /\ p # <<>> /\ A = {Head(p)} \cup B
  BY TrackStart, ProgramTyped, AheadTail
<1>2. CASE op \in {"add", "remove"}
  <2>1. Head(p) = IF op = "add" THEN "storeCmo" ELSE "getClaimVersion"
    BY <1>2 DEF Program, StoreProgram, RemoveProgram
  <2> HIDE DEF p
  <2>2. CASE op = "add"
    <3>1. A = {"storeCmo", "storeMemory", "storeFacts", "createClaim",
               "createVersion", "setCurrent", "addEvidence"}
      BY <1>1, <2>1, <2>2, AddTrack
    <3> HIDE DEF A
    <3> QED
      BY <2>2, <3>1 DEF A, p, NewVersionStatements
  <2>3. CASE op = "remove"
    <3>1. A = {"getClaimVersion", "softDelete"}
      BY <1>1, <2>1, <2>3, RemoveTrack
    <3> HIDE DEF A
    <3> QED
      BY <2>3, <3>1 DEF A, p
  <2> QED
    BY <1>2, <2>2, <2>3
<1>3. CASE op \in {"update", "supersede", "delete", "noop"}
  <2>1. Head(p) = "getMemory"
    <3>1. CASE op = "update"
      BY <3>1 DEF Program, EnsureProgram, UpdateProgram
    <3>2. CASE op = "supersede"
      BY <3>2 DEF Program, EnsureProgram, SupersedeProgram
    <3>3. CASE op = "delete"
      BY <3>3 DEF Program, EnsureProgram, DeleteProgram
    <3>4. CASE op = "noop"
      BY <3>4 DEF Program, EnsureProgram, NoopProgram
    <3> QED
      BY <1>3, <3>1, <3>2, <3>3, <3>4
  <2>2. /\ "getMemory" \in A
        /\ A \cap {"backfillVersion", "backfillCurrent"} = {}
        /\ op # "noop" => A \cap NewVersionStatements # {}
        /\ op \in {"update", "supersede"} => "storeCmo" \in A
    <3>1. CASE op = "update"
      <4>1. {"createVersion", "storeCmo"} \subseteq B
              /\ B \cap {"backfillVersion", "backfillCurrent"} = {}
        BY <1>1, <2>1, <3>1, UpdateTrack
      <4> HIDE DEF B
      <4> QED
        BY <1>1, <2>1, <3>1, <4>1 DEF NewVersionStatements
    <3>2. CASE op = "supersede"
      <4>1. {"createVersion", "storeCmo"} \subseteq B
              /\ B \cap {"backfillVersion", "backfillCurrent"} = {}
        BY <1>1, <2>1, <3>2, SupersedeTrack
      <4> HIDE DEF B
      <4> QED
        BY <1>1, <2>1, <3>2, <4>1 DEF NewVersionStatements
    <3>3. CASE op = "delete"
      <4>1. "createTombstone" \in B
              /\ B \cap {"backfillVersion", "backfillCurrent"} = {}
        BY <1>1, <2>1, <3>3, DeleteTrack
      <4> HIDE DEF B
      <4> QED
        BY <1>1, <2>1, <3>3, <4>1 DEF NewVersionStatements
    <3>4. CASE op = "noop"
      BY <1>1, <2>1, <3>4, NoopTrack
    <3> QED
      BY <1>3, <3>1, <3>2, <3>3, <3>4
  <2> HIDE DEF A
  <2> QED
    BY <1>3, <2>2 DEF A
<1>4. CASE op \in {"archive", "verbatim", "clarify"}
  <2>1. B = {} /\ Head(p) \in {"softDelete", "storeMemory", "storeClarification"}
    BY <1>1, <1>4, ShortTrack
  <2> QED
    BY <1>1, <1>4, <2>1
<1> QED
  BY <1>2, <1>3, <1>4 DEF Operations

(* A request starts when no other is running, with its locals still to be  *)
(* set.                                                                    *)
LEMMA StartFacts ==
  ASSUME Serial, IInv, SInv, NEW r \in Requests, Start(r)
  PROVE  /\ Running = {}
         /\ \A q \in Requests \ {r} : request'[q] = request[q]
         /\ UNCHANGED <<memories, claims, versions, cmos, failures>>
         /\ request'[r].op \in Operations
         /\ request'[r].todo = Program[request'[r].op]
         /\ request'[r].claim = None /\ request'[r].version = None
         /\ request'[r].newVersion = None /\ request'[r].projection = None
         /\ request'[r].cmo = None /\ request'[r].newCmo = None
<1>1. PICK op, m : op \in Operations /\ Admit(r, op, m)
  BY DEF Start, StoreCanonicalFact, UpdateCanonicalFact, SupersedeCanonicalFact,
     DeleteCanonicalFact, RecordNoop, StoreClarification, StoreVerbatim,
     ArchiveMemory, DeleteMemory, Operations
<1>2. Running = {}
  BY <1>1, StartsAlone DEF Admit, SInv
<1>3. request[r] = Idle
  BY <1>1 DEF Admit, IInv, LocalsAgree, LocalAgrees
<1>4. /\ request' = [request EXCEPT ![r] =
                       [Idle EXCEPT !.op = op, !.target = m, !.todo = Program[op]]]
      /\ UNCHANGED <<memories, claims, versions, cmos, failures>>
      /\ request \in [Requests -> Local]
  BY <1>1, <1>3 DEF Admit, tables, IInv, TypeOK
<1>5. request'[r] = [Idle EXCEPT !.op = op, !.target = m, !.todo = Program[op]]
  BY <1>4
<1> QED
  BY <1>1, <1>2, <1>4, <1>5 DEF Idle

(* Starting a request keeps the invariant.                                 *)
LEMMA ClaimsStart ==
  ASSUME Serial, IInv, SInv, ClaimsInv, NEW r \in Requests, Start(r)
  PROVE  ClaimsInv'
<1>1. SUFFICES ASSUME failures' = 0
               PROVE  /\ Quiescent' => /\ \A c \in DOMAIN claims' : ClaimAgrees(c)'
                                       /\ OpenIsLast'
                      /\ \A q \in Running' : ClaimsWith(q)'
  BY DEF ClaimsInv
<1>2. /\ Running = {}
      /\ \A q \in Requests \ {r} : request'[q] = request[q]
      /\ UNCHANGED <<memories, claims, versions, cmos, failures>>
      /\ request'[r].op \in Operations
      /\ request'[r].todo = Program[request'[r].op]
      /\ request'[r].claim = None /\ request'[r].version = None
      /\ request'[r].newVersion = None /\ request'[r].newCmo = None
  BY StartFacts
<1>3. /\ \A c \in DOMAIN claims : ClaimAgrees(c)
      /\ OpenIsLast
  BY <1>1, <1>2 DEF ClaimsInv, Quiescent
<1>4. OpenIsLast' /\ \A c \in DOMAIN claims' : ClaimAgrees(c)'
  <2>1. OpenIsLast'
    BY <1>2, <1>3 DEF OpenIsLast
  <2>2. ASSUME NEW c \in DOMAIN claims PROVE ClaimAgrees(c)'
    BY <1>2, <1>3, <2>2
       DEF ClaimAgrees, ClaimOpen, Current, OpenVersions, ClaimServed, Served,
           Candidates, ChainOf, Projected
  <2> QED
    BY <1>2, <2>1, <2>2
<1>5. AtHand(r, request[r])'
  <2> DEFINE op == request'[r].op
             A == Ahead(Program[op])
  <2>1. /\ "ensureClaimTarget" \in A => "getMemory" \in A
        /\ A \cap {"backfillVersion", "backfillCurrent"} = {}
        /\ op \in {"add", "update", "supersede", "delete"} =>
             A \cap NewVersionStatements # {}
        /\ op \in {"add", "supersede", "update"} =>
             A \cap {"getMemory", "storeMemory"} # {}
        /\ op \in {"update", "supersede"} => "storeCmo" \in A
    BY <1>2, AheadStart
  <2>2. Ahead(request'[r].todo) = A
    BY <1>2
  <2> HIDE DEF A
  <2>3. LocalsSet(request[r])'
    BY <1>2, <2>1, <2>2 DEF LocalsSet
  <2>4. Backfilled(request[r])'
    BY <2>1, <2>2 DEF Backfilled
  <2>5. WrittenText(r, request[r])'
    BY <2>1, <2>2 DEF WrittenText
  <2>6. WrittenVersion(r, request[r])' /\ WrittenCmo(request[r])'
    BY <1>2, <2>1, <2>2 DEF WrittenVersion, WrittenCmo
  <2>7. ~Busy(request[r])'
    BY <1>2 DEF Busy
  <2> QED
    BY <2>3, <2>4, <2>5, <2>6, <2>7 DEF AtHand
<1>6. ASSUME NEW q \in Running'
      PROVE  q = r
  BY <1>2, <1>6 DEF Running
<1> QED
  BY <1>4, <1>5, <1>6 DEF ClaimsWith

(* Every step keeps the invariant.                                         *)
LEMMA ClaimsNext ==
  ASSUME Serial, IInv, SInv, ClaimsInv, [Next]_vars
  PROVE  ClaimsInv'
<1>1. ASSUME NEW r \in Requests, Fail(r)
      PROVE  ClaimsInv'
  <2>1. failures \in Nat /\ failures' = failures + 1
    BY <1>1 DEF Fail, IInv, TypeOK
  <2> QED
    BY <2>1 DEF ClaimsInv
<1>2. CASE UNCHANGED vars
  <2>1. UNCHANGED <<memories, claims, versions, cmos, request, failures>>
    BY <1>2 DEF vars
  <2>2. ASSUME NEW c \in DOMAIN claims PROVE ClaimAgrees(c)' <=> ClaimAgrees(c)
    BY <2>1 DEF ClaimAgrees, ClaimOpen, Current, OpenVersions, ClaimServed,
       Served, Candidates, ChainOf, Projected
  <2>3. (OpenIsLast' <=> OpenIsLast) /\ Running' = Running
    BY <2>1 DEF OpenIsLast, Running
  <2>4. ASSUME NEW r \in Requests, AtHand(r, request[r])
        PROVE  AtHand(r, request[r])'
    <3>1. /\ LocalsSet(request[r])' /\ Backfilled(request[r])'
          /\ WrittenText(r, request[r])' /\ WrittenVersion(r, request[r])'
          /\ WrittenCmo(request[r])'
      BY <2>1, <2>4 DEF AtHand, LocalsSet, Backfilled, WrittenText,
         WrittenVersion, WrittenCmo
    <3>2. Busy(request[r])' => Busy(request[r])
      BY <2>1 DEF Busy
    <3>3. OpenAtHand(request[r]) => OpenAtHand(request[r])'
      BY <2>1 DEF OpenAtHand, OpenVersions
    <3>4. CurrentAtHand(request[r]) => CurrentAtHand(request[r])'
      BY <2>1 DEF CurrentAtHand, Current
    <3>5. ChainAtHand(request[r]) => ChainAtHand(request[r])'
      BY <2>1 DEF ChainAtHand, ChainOf
    <3> QED
      BY <2>4, <3>1, <3>2, <3>3, <3>4, <3>5 DEF AtHand
  <2>5. ASSUME NEW r \in Requests, ClaimsWith(r)
        PROVE  ClaimsWith(r)'
    <3>1. Busy(request[r])' <=> Busy(request[r])
      BY <2>1 DEF Busy
    <3> QED
      BY <2>1, <2>2, <2>3, <2>4, <2>5, <3>1 DEF ClaimsWith
  <2> QED
    BY <2>1, <2>2, <2>3, <2>5 DEF ClaimsInv, Quiescent, Running
<1> QED
  BY <1>1, <1>2, ClaimsStart, ClaimsRun DEF Next

(* ClaimsInv holds in empty tables.                                        *)
LEMMA ClaimsInit == Init => ClaimsInv
<1> SUFFICES ASSUME Init PROVE ClaimsInv
  OBVIOUS
<1>1. Running = {}
  BY DEF Init, Running, Idle
<1> QED
  BY <1>1 DEF Init, ClaimsInv, OpenIsLast

(* As long as requests do not overlap and none has died half way, what the *)
(* tables say of each claim is what its last request left.                 *)
THEOREM ClaimsInvariance ==
  ASSUME Serial PROVE Spec => [](IInv /\ SInv /\ ClaimsInv)
<1>1. Init => IInv /\ SInv /\ ClaimsInv
  BY InvInit, SerialInit, ClaimsInit
<1>2. (IInv /\ SInv /\ ClaimsInv) /\ [Next]_vars => (IInv /\ SInv /\ ClaimsInv)'
  BY InvNext, SerialNext, ClaimsNext
<1> QED
  BY <1>1, <1>2, PTL DEF Spec

-----------------------------------------------------------------------------
(* What follows for the tables between two requests.                       *)

(* What the invariant says when no request is half way or died half way.   *)
LEMMA AllClaimsAgree ==
  ASSUME ClaimsInv, Undisturbed
  PROVE  OpenIsLast /\ \A c \in DOMAIN claims : ClaimAgrees(c)
  BY DEF ClaimsInv, Undisturbed

(* A memory that searches return is what its claim currently says.         *)
THEOREM LiveProjectionSafe ==
  ASSUME Serial PROVE Spec => []LiveProjectionIsCurrent
<1>1. SInv /\ ClaimsInv => LiveProjectionIsCurrent
  BY AllClaimsAgree
     DEF LiveProjectionIsCurrent, ClaimAgrees, ClaimServed, Served, Current,
         SInv, TablesSerial, VersionRowsAgree
<1> QED
  BY <1>1, ClaimsInvariance, PTL

(* A claim has one version without valid_to, its current one or its        *)
(* tombstone.                                                              *)
THEOREM OneOpenVersionSafe ==
  ASSUME Serial PROVE Spec => []OneOpenVersion
<1>1. ClaimsInv => OneOpenVersion
  BY AllClaimsAgree DEF OneOpenVersion, ClaimAgrees, ClaimOpen, Current
<1> QED
  BY <1>1, ClaimsInvariance, PTL

(* The reversal chain reaches every version that replaced another.         *)
THEOREM ForwardChainSafe ==
  ASSUME Serial PROVE Spec => []ForwardChainComplete
<1>1. IInv /\ SInv /\ ClaimsInv => ForwardChainComplete
  <2> SUFFICES ASSUME IInv, SInv, ClaimsInv, Undisturbed,
                      NEW v \in DOMAIN versions, versions[v].previous # None
               PROVE  versions[versions[v].previous].supersededBy = v
    BY DEF ForwardChainComplete
  <2>1. versions[v].claim \in DOMAIN claims
    BY DEF SInv, TablesSerial, VersionRowsAgree
  <2>2. v # None
    BY TableFacts DEF IInv, None
  <2> QED
    BY <2>1, <2>2, AllClaimsAgree DEF ClaimAgrees, ChainOf
<1> QED
  BY <1>1, ClaimsInvariance, PTL

(* Version, memory, atomic facts and canonical object hold one text.       *)
THEOREM ProjectionsSafe ==
  ASSUME Serial PROVE Spec => []ProjectionsAgree
<1>1. ClaimsInv => ProjectionsAgree
  BY AllClaimsAgree DEF ProjectionsAgree, ClaimAgrees, Projected, Current
<1> QED
  BY <1>1, ClaimsInvariance, PTL

-----------------------------------------------------------------------------
(* Canonical objects, as long as nothing has failed.                       *)

(* The statements that write or read canonical objects or insert memories. *)
CmoStatements ==
  {"storeCmo", "relinkCmo", "storeMemory", "storeClarification", "getMemory"}

(* A step that leaves the canonical objects, and who names them, alone.    *)
LEMMA CmosKept ==
  ASSUME NEW r, AtWork(r), CmosWith(request[r]), UNCHANGED cmos,
         DOMAIN memories' = DOMAIN memories,
         \A m \in DOMAIN memories :
           /\ memories'[m].cmo = memories[m].cmo
           /\ memories'[m].life = "active" => memories[m].life = "active",
         request'[r].op = request[r].op,
         request'[r].target = request[r].target,
         request'[r].cmo = request[r].cmo,
         request'[r].newCmo = request[r].newCmo,
         request'[r].projection = request[r].projection,
         Ahead(request'[r].todo) \cap CmoStatements =
           Ahead(request[r].todo) \cap CmoStatements
  PROVE  CmosWith(request[r])'
<1> DEFINE l == request[r]
           A == Ahead(l.todo)
           B == Ahead(request'[r].todo)
<1>1. Candidates' \subseteq Candidates /\ Candidates \subseteq DOMAIN memories
  BY DEF Candidates
<1>2. \A k : Succeeded(k)' <=> Succeeded(k)
  BY DEF Succeeded
<1>3. \A s \in CmoStatements : s \in A <=> s \in B
  OBVIOUS
<1> HIDE DEF A, B
<1>4. CmoRowsAgree' /\ CmoLine'
  BY DEF CmosWith, CmoRowsAgree, CmoLine
<1>5. ASSUME NEW m \in Candidates'
      PROVE  Unlinked(l, m) => Unlinked(request[r], m)'
  BY <1>3 DEF Unlinked, CmoStatements, A, B
<1>6. CmoTips(request[r])'
  BY <1>1, <1>2, <1>5 DEF CmosWith, CmoTips
<1>7. CmoAtHand(request[r])'
  BY <1>1, <1>2, <1>3 DEF CmosWith, CmoAtHand, CmoStatements, A, B
<1> QED
  BY <1>4, <1>6, <1>7 DEF CmosWith

(* The statements that write a text or retire a memory.                    *)
LEMMA CmosMemory ==
  ASSUME NEW r, AtWork(r), CmosWith(request[r]),
         \/ StoreFacts(r) \/ DeleteFacts(r) \/ UpdateContent(r)
         \/ ExpireMemory(r) \/ SoftDelete(r)
  PROVE  CmosWith(request[r])'
<1> DEFINE l == request[r]
           A == Ahead(l.todo)
           B == Ahead(Tail(l.todo))
           p == l.projection
           m == l.target
<1>f. /\ l \in Local /\ request \in [Requests -> Local]
      /\ A = {Head(l.todo)} \cup B
  BY WorkFacts
<1>t. \A i \in DOMAIN memories : memories[i] \in MemoryRow
  BY RowFacts
<1>1. /\ Head(l.todo) \notin CmoStatements
      /\ Proceed(r, l) /\ UNCHANGED cmos
  BY DEF StoreFacts, DeleteFacts, UpdateContent, ExpireMemory, SoftDelete, At,
     CmoStatements
<1>2. /\ request'[r].op = l.op /\ request'[r].target = l.target
      /\ request'[r].cmo = l.cmo /\ request'[r].newCmo = l.newCmo
      /\ request'[r].projection = l.projection
      /\ request'[r].todo = Tail(l.todo)
  BY <1>1, <1>f DEF Proceed, Continue, Local, AtWork
<1>3. /\ DOMAIN memories' = DOMAIN memories
      /\ \A i \in DOMAIN memories :
           /\ memories'[i].cmo = memories[i].cmo
           /\ memories'[i].life = "active" => memories[i].life = "active"
  <2> SUFFICES ASSUME NEW i, NEW e, memories' \in {memories, [memories EXCEPT ![i] = e]},
                      i \in DOMAIN memories =>
                        /\ e.cmo = memories[i].cmo
                        /\ e.life = "active" => memories[i].life = "active"
               PROVE  /\ DOMAIN memories' = DOMAIN memories
                      /\ \A j \in DOMAIN memories :
                           /\ memories'[j].cmo = memories[j].cmo
                           /\ memories'[j].life = "active" =>
                                memories[j].life = "active"
    <3>1. CASE StoreFacts(r)
      <4> DEFINE e == [memories[p] EXCEPT !.facts = memories[p].facts \cup {r}]
      <4>1. memories' = [memories EXCEPT ![p] = e]
        BY <3>1 DEF StoreFacts
      <4>2. p \in DOMAIN memories =>
              e.cmo = memories[p].cmo /\ e.life = memories[p].life
        BY <1>t DEF MemoryRow
      <4> HIDE DEF e
      <4> QED
        BY <4>1, <4>2
    <3>2. CASE DeleteFacts(r)
      <4> DEFINE e == [memories[p] EXCEPT !.facts = {}]
      <4>1. memories' = [memories EXCEPT ![p] = e]
        BY <3>2 DEF DeleteFacts
      <4>2. p \in DOMAIN memories =>
              e.cmo = memories[p].cmo /\ e.life = memories[p].life
        BY <1>t DEF MemoryRow
      <4> HIDE DEF e
      <4> QED
        BY <4>1, <4>2
    <3>3. CASE UpdateContent(r)
      <4> DEFINE e == [memories[m] EXCEPT !.content = r]
      <4>1. memories' \in {memories, [memories EXCEPT ![m] = e]}
        BY <3>3 DEF UpdateContent
      <4>2. m \in DOMAIN memories =>
              e.cmo = memories[m].cmo /\ e.life = memories[m].life
        BY <1>t DEF MemoryRow
      <4> HIDE DEF e
      <4> QED
        BY <4>1, <4>2
    <3>4. CASE ExpireMemory(r)
      <4> DEFINE e == [memories[m] EXCEPT !.life = "expired"]
      <4>1. memories' \in {memories, [memories EXCEPT ![m] = e]}
        BY <3>4 DEF ExpireMemory
      <4>2. m \in DOMAIN memories =>
              e.cmo = memories[m].cmo /\ e.life = "expired"
        BY <1>t DEF MemoryRow
      <4> HIDE DEF e
      <4> QED
        BY <4>1, <4>2
    <3>5. CASE SoftDelete(r)
      <4> DEFINE e == [memories[m] EXCEPT !.life = "deleted"]
      <4>1. memories' = [memories EXCEPT ![m] = e]
        BY <3>5 DEF SoftDelete
      <4>2. m \in DOMAIN memories =>
              e.cmo = memories[m].cmo /\ e.life = "deleted"
        BY <1>t DEF MemoryRow
      <4> HIDE DEF e
      <4> QED
        BY <4>1, <4>2
    <3> QED
      BY <3>1, <3>2, <3>3, <3>4, <3>5
  <2> QED
    OBVIOUS
<1> HIDE DEF A, B
<1>4. Ahead(request'[r].todo) \cap CmoStatements = A \cap CmoStatements
  BY <1>1, <1>2, <1>f DEF A, B
<1> QED
  BY <1>1, <1>2, <1>3, <1>4, CmosKept DEF A

(* The statements that write claims, versions and evidence, or read them.  *)
LEMMA CmosLineage ==
  ASSUME NEW r, AtWork(r), CmosWith(request[r]),
         \/ EnsureClaimTarget(r) \/ GetClaimVersion(r) \/ CreateClaim(r)
         \/ CreateVersion(r) \/ CreateTombstone(r) \/ BackfillVersion(r)
         \/ CloseOld(r) \/ ReleaseOld(r) \/ LinkOld(r) \/ SetCurrent(r)
         \/ BackfillCurrent(r) \/ InvalidateClaim(r) \/ AddEvidence(r)
         \/ CiteTarget(r)
  PROVE  CmosWith(request[r])'
<1> DEFINE l == request[r]
           A == Ahead(l.todo)
           B == Ahead(Tail(l.todo))
           t == Tail(l.todo)
<1>f. /\ l \in Local /\ request \in [Requests -> Local] /\ r \in Requests
      /\ A = {Head(l.todo)} \cup B /\ t \in Seq(Statements)
  BY WorkFacts DEF AtWork
<1>1. UNCHANGED <<memories, cmos>> /\ Head(l.todo) \notin CmoStatements
  BY DEF EnsureClaimTarget, GetClaimVersion, CreateClaim, CreateVersion,
     CreateTombstone, BackfillVersion, CloseOld, ReleaseOld, LinkOld,
     SetCurrent, BackfillCurrent, PointClaim, InvalidateClaim, AddEvidence,
     CiteTarget, Cite, tables, At, CmoStatements
<1>2. PICK k, todo :
        /\ Continue(r, k, todo)
        /\ \E c, v, w :
             k \in {l, [l EXCEPT !.claim = c], [l EXCEPT !.version = v],
                    [l EXCEPT !.newVersion = w],
                    [l EXCEPT !.claim = c, !.version = v]}
        /\ todo \in {t, BackfillProgram \o t, t \o RemoveClaim}
  <2>1. CASE EnsureClaimTarget(r)
    <3>1. CASE VersionsOf(l.target) = {}
      <4>1. Continue(r, l, BackfillProgram \o t)
        BY <2>1, <3>1 DEF EnsureClaimTarget
      <4> QED
        BY <4>1
    <3>2. CASE VersionsOf(l.target) # {}
      <4>1. PICK v \in VersionsOf(l.target) :
              Proceed(r, [l EXCEPT !.claim = versions[v].claim, !.version = v])
        BY <2>1, <3>2 DEF EnsureClaimTarget
      <4> QED
        BY <4>1 DEF Proceed
    <3> QED
      BY <3>1, <3>2
  <2>2. CASE GetClaimVersion(r)
    <3>1. CASE VersionsOf(l.target) = {}
      <4>1. Continue(r, l, t)
        BY <2>2, <3>1 DEF GetClaimVersion, Proceed
      <4> QED
        BY <4>1
    <3>2. CASE VersionsOf(l.target) # {}
      <4>1. PICK v \in VersionsOf(l.target) :
              Continue(r, [l EXCEPT !.claim = versions[v].claim, !.version = v],
                       t \o RemoveClaim)
        BY <2>2, <3>2 DEF GetClaimVersion
      <4> QED
        BY <4>1
    <3> QED
      BY <3>1, <3>2
  <2>3. CASE CreateClaim(r)
    BY <2>3 DEF CreateClaim, Proceed
  <2>4. CASE CreateVersion(r) \/ CreateTombstone(r)
    BY <2>4 DEF CreateVersion, CreateTombstone, Proceed
  <2>5. CASE BackfillVersion(r)
    BY <2>5 DEF BackfillVersion, Proceed
  <2>6. ASSUME Proceed(r, l)
        PROVE  \E k, todo :
                 /\ Continue(r, k, todo)
                 /\ \E c, v, w :
                      k \in {l, [l EXCEPT !.claim = c], [l EXCEPT !.version = v],
                             [l EXCEPT !.newVersion = w],
                             [l EXCEPT !.claim = c, !.version = v]}
                 /\ todo \in {t, BackfillProgram \o t, t \o RemoveClaim}
    BY <2>6 DEF Proceed
  <2> QED
    BY <2>1, <2>2, <2>3, <2>4, <2>5, <2>6
       DEF CloseOld, ReleaseOld, LinkOld, SetCurrent, BackfillCurrent,
           PointClaim, InvalidateClaim, AddEvidence, CiteTarget, Cite
<1>3. request'[r] = [k EXCEPT !.todo = todo]
  BY <1>2, <1>f DEF Continue
<1>4. /\ request'[r].op = l.op /\ request'[r].target = l.target
      /\ request'[r].cmo = l.cmo /\ request'[r].newCmo = l.newCmo
      /\ request'[r].projection = l.projection
      /\ request'[r].todo = todo
  BY <1>2, <1>3, <1>f DEF Local
<1>5. B \cap CmoStatements = Ahead(todo) \cap CmoStatements
  <2>1. CASE todo = BackfillProgram \o t
    BY <1>f, <2>1, AheadBackfill DEF CmoStatements
  <2>2. CASE todo = t \o RemoveClaim
    BY <1>f, <2>2, AheadRemoveClaim DEF CmoStatements
  <2>3. CASE todo = t
    BY <2>3
  <2> QED
    BY <1>2, <2>1, <2>2, <2>3
<1> HIDE DEF A, B
<1>6. Ahead(request'[r].todo) \cap CmoStatements = A \cap CmoStatements
  BY <1>1, <1>4, <1>5, <1>f
<1> QED
  BY <1>1, <1>4, <1>6, CmosKept DEF A

(* When the object of a superseding fact or a tombstone is stored, the     *)
(* memory it replaces is retired.                                          *)
LEMMA ReplacedAtHand ==
  ASSUME NEW r, AtWork(r), ClaimsWith(r), Head(request[r].todo) = "storeCmo",
         request[r].op \in Replacing
  PROVE  request[r].target \notin Candidates
<1> DEFINE l == request[r]
           A == Ahead(l.todo)
           B == Ahead(Tail(l.todo))
<1>f. /\ A = {Head(l.todo)} \cup B /\ l.todo \in Track(l.op) /\ LocalAgrees(l)
  BY WorkFacts
<1>h. /\ LocalsSet(l) /\ WrittenVersion(r, l)
      /\ l.newVersion # None =>
           /\ l.newVersion \in DOMAIN versions
           /\ versions[l.newVersion].claim = l.claim
           /\ versions[l.newVersion].previous = l.version
  BY HandFacts
<1>1. B \cap {"createVersion", "createTombstone", "backfillVersion"} = {}
  BY <1>f, SupersedeTrack, DeleteTrack DEF Replacing, AtWork
<1> HIDE DEF A, B
<1>2. l.newVersion # None
  BY <1>f, <1>h, <1>1 DEF LocalsSet, Replacing, NewVersionStatements, A
<1>3. l.claim # None
  BY <1>h, <1>2, RowFacts DEF VersionRowsAgree
<1>4. l.version # None
  BY <1>f, <1>h, <1>1, <1>3 DEF LocalsSet, Replacing, Targeted, A
<1>5. ReplacedRow(l.newVersion)
  BY <1>h, <1>2 DEF AtWork, IInv, RowsAgree
<1>6. Retired(versions[l.version].born)
  BY <1>h, <1>2, <1>4, <1>5 DEF ReplacedRow, WrittenVersion
<1>7. versions[l.version].born = l.target
  BY <1>f, <1>4 DEF LocalAgrees, OldVersionKnown
<1> QED
  BY <1>6, <1>7 DEF Retired, Candidates

(* A canonical object is stored, as the one that succeeds the target's.    *)
LEMMA CmosStore ==
  ASSUME NEW r, AtWork(r), ClaimsWith(r), CmosWith(request[r]), StoreCmo(r)
  PROVE  CmosWith(request[r])'
<1> DEFINE l == request[r]
           A == Ahead(l.todo)
           B == Ahead(Tail(l.todo))
           n == Len(cmos) + 1
<1>f. /\ l \in Local /\ request \in [Requests -> Local] /\ TypeOK
      /\ A = {Head(l.todo)} \cup B /\ l.todo \in Track(l.op)
      /\ ProjectionFree(l)
  BY WorkFacts
<1>t. None \notin Candidates /\ Candidates \subseteq DOMAIN memories
  BY RowFacts DEF Candidates
<1>1. /\ Head(l.todo) = "storeCmo"
      /\ UNCHANGED <<memories, claims, versions>>
      /\ cmos' = Append(cmos, [kind |-> l.op, previous |-> l.cmo,
                               version |-> l.newVersion])
      /\ request'[r] = [[l EXCEPT !.newCmo = n] EXCEPT !.todo = Tail(l.todo)]
  BY <1>f DEF StoreCmo, At, Proceed, Continue, AtWork
<1>2. /\ DOMAIN cmos' = DOMAIN cmos \cup {n} /\ n \notin DOMAIN cmos
      /\ n \in Nat /\ n # None /\ DOMAIN cmos = 1..(n - 1)
      /\ \A i \in DOMAIN cmos : cmos'[i] = cmos[i]
      /\ cmos'[n].previous = l.cmo
  BY <1>f, <1>1 DEF TypeOK, None
<1>3. /\ request'[r].op = l.op /\ request'[r].target = l.target
      /\ request'[r].cmo = l.cmo /\ request'[r].projection = l.projection
      /\ request'[r].newCmo = n /\ request'[r].todo = Tail(l.todo)
  BY <1>1, <1>f DEF Local
<1>o. /\ B \cap {"storeCmo", "getMemory"} = {}
      /\ l.op = "update" => "relinkCmo" \in B
      /\ l.op \in {"update", "supersede", "delete", "add"}
  BY <1>1, <1>f, AddTrack, UpdateTrack, SupersedeTrack, DeleteTrack, NoopTrack,
     RemoveTrack, ShortTrack DEF AtWork, Operations
<1> HIDE DEF A, B, n
<1>4. /\ CmoRowsAgree /\ CmoLine /\ CmoTips(l) /\ CmoAtHand(l)
      /\ l.cmo \in {None} \cup DOMAIN cmos
      /\ l.cmo # None =>
           /\ ~Succeeded(l.cmo)
           /\ \A m \in Candidates : memories[m].cmo = l.cmo => m = l.target
  BY <1>f, <1>1 DEF CmosWith, CmoAtHand, A
<1>5. \A k : Succeeded(k)' => Succeeded(k) \/ k = l.cmo
  BY <1>2 DEF Succeeded
<1>6. \A i \in DOMAIN cmos' : cmos'[i].previous # n
  <2>1. ASSUME NEW i \in DOMAIN cmos
        PROVE  cmos[i].previous # n
    <3>1. cmos[i].previous \in 0..(i - 1) /\ i \in 1..(n - 1)
      BY <1>2, <1>4 DEF CmoRowsAgree
    <3> QED
      BY <1>2, <3>1
  <2>2. l.cmo # n
    BY <1>2, <1>4
  <2> QED
    BY <1>2, <2>1, <2>2
<1>7. CmoRowsAgree'
  <2>1. cmos'[n].previous \in 0..(n - 1)
    BY <1>2, <1>4 DEF None
  <2>2. \A i \in DOMAIN cmos : cmos'[i].previous \in 0..(i - 1)
    BY <1>2, <1>4 DEF CmoRowsAgree
  <2> QED
    BY <1>1, <1>2, <1>4, <2>1, <2>2 DEF CmoRowsAgree
<1>8. CmoLine'
  <2>1. \A i \in DOMAIN cmos : l.cmo # None => cmos[i].previous # l.cmo
    BY <1>4 DEF Succeeded
  <2> QED
    BY <1>2, <1>4, <2>1 DEF CmoLine
<1>9. CmoTips(request[r])'
  <2>1. SUFFICES ASSUME NEW m \in Candidates, memories[m].cmo # None
                 PROVE  /\ Unlinked(request[r], m)' \/ ~Succeeded(memories[m].cmo)'
                        /\ \A k \in Candidates :
                             memories[k].cmo = memories[m].cmo => k = m
    BY <1>1 DEF CmoTips, Candidates
  <2>2. ~Unlinked(l, m)
    BY <1>1, <1>f DEF Unlinked, A
  <2>3. /\ ~Succeeded(memories[m].cmo)
        /\ \A k \in Candidates : memories[k].cmo = memories[m].cmo => k = m
    BY <1>4, <2>1, <2>2 DEF CmoTips
  <2>4. CASE memories[m].cmo = l.cmo
    <3>1. m = l.target
      BY <1>4, <2>1, <2>4
    <3>2. l.op \notin Replacing
      BY <1>1, <3>1, ReplacedAtHand
    <3>3. l.op # "add"
      <4>1. SUFFICES ASSUME l.op = "add" PROVE FALSE
        OBVIOUS
      <4>2. l.target = None
        BY <4>1, WorkFacts DEF TargetServed, Targeted
      <4> QED
        BY <1>t, <3>1, <4>2
    <3>4. Unlinked(request[r], m)'
      BY <1>3, <1>o, <3>1, <3>2, <3>3 DEF Unlinked, Replacing, B
    <3> QED
      BY <2>3, <3>4
  <2>5. CASE memories[m].cmo # l.cmo
    <3>1. ~Succeeded(memories[m].cmo)'
      <4>1. PICK k : k = memories[m].cmo
        OBVIOUS
      <4>2. ~Succeeded(k)'
        BY <1>5, <2>3, <2>5, <4>1
      <4> QED
        BY <1>1, <4>1, <4>2 DEF Succeeded
    <3> QED
      BY <2>3, <3>1
  <2> QED
    BY <2>4, <2>5
<1>10. CmoAtHand(request[r])'
  <2>1. \A m \in Candidates' : memories'[m].cmo # n
    BY <1>1, <1>2, <1>4 DEF CmoRowsAgree, Candidates
  <2>2. ~Succeeded(request[r].newCmo)'
    BY <1>3, <1>6 DEF Succeeded
  <2>3. Ahead(request'[r].todo) = B
    BY <1>3 DEF B
  <2>4. B \subseteq A
    BY <1>f
  <2>5. l.op \notin Targeted
        /\ A \cap {"storeMemory", "storeClarification"} # {}
        => l.projection = None
    BY <1>4 DEF CmoAtHand, A
  <2> QED
    BY <1>2, <1>3, <1>4, <1>o, <2>1, <2>2, <2>3, <2>4, <2>5 DEF CmoAtHand
<1> QED
  BY <1>7, <1>8, <1>9, <1>10 DEF CmosWith

(* A memory is inserted and names the object that was stored for it.       *)
LEMMA CmosStoreMemory ==
  ASSUME NEW r, AtWork(r), ClaimsWith(r), CmosWith(request[r]),
         StoreMemory(r) \/ InsertClarification(r)
  PROVE  CmosWith(request[r])'
<1> DEFINE l == request[r]
           A == Ahead(l.todo)
           B == Ahead(Tail(l.todo))
           n == Len(memories) + 1
<1>f. /\ l \in Local /\ request \in [Requests -> Local] /\ TypeOK
      /\ A = {Head(l.todo)} \cup B /\ l.todo \in Track(l.op)
      /\ ProjectionFree(l)
  BY WorkFacts
<1>t. /\ DOMAIN memories = 1..Len(memories) /\ Len(memories) \in Nat
      /\ None \notin Candidates /\ Candidates \subseteq DOMAIN memories
      /\ None \notin DOMAIN cmos
  BY <1>f, RowFacts DEF TypeOK, Candidates
<1>h. WrittenCmo(l)
  BY HandFacts
<1>1. PICK life \in {"active", "needs_clarification"} :
        /\ InsertMemory(r, life)
        /\ Head(l.todo) = IF life = "active" THEN "storeMemory"
                          ELSE "storeClarification"
        /\ l.todo # <<>>
  BY DEF StoreMemory, InsertClarification, At
<1>2. /\ DOMAIN memories' = DOMAIN memories \cup {n}
      /\ n \notin DOMAIN memories /\ n # None
      /\ \A m \in DOMAIN memories : memories'[m] = memories[m]
      /\ memories'[n].life = life /\ memories'[n].cmo = l.newCmo
      /\ UNCHANGED cmos
  BY <1>1, <1>f, <1>t DEF InsertMemory, TypeOK, None
<1>3. /\ request'[r].op = l.op /\ request'[r].target = l.target
      /\ request'[r].cmo = l.cmo /\ request'[r].newCmo = l.newCmo
      /\ request'[r].projection = n /\ request'[r].todo = Tail(l.todo)
  BY <1>1, <1>f DEF InsertMemory, Proceed, Continue, Local, AtWork
<1>o. \/ l.op = "supersede" /\ "storeCmo" \in B /\ "getMemory" \notin B
      \/ /\ l.op \in {"add", "verbatim", "clarify"}
         /\ B \cap {"storeCmo", "getMemory", "storeMemory", "storeClarification"} = {}
  BY <1>1, <1>f, AddTrack, UpdateTrack, SupersedeTrack, DeleteTrack, NoopTrack,
     RemoveTrack, ShortTrack DEF AtWork, Operations
<1> HIDE DEF A, B, n
<1>4. /\ CmoRowsAgree /\ CmoLine /\ CmoTips(l) /\ CmoAtHand(l)
      /\ {l.cmo, l.newCmo} \subseteq {None} \cup DOMAIN cmos
  BY DEF CmosWith, CmoAtHand
<1>5. \A m \in Candidates : l.newCmo # None => memories[m].cmo # l.newCmo
  <2>1. CASE l.op = "supersede"
    BY <1>h, <1>f, <1>o, <2>1 DEF WrittenCmo, A, B
  <2>2. CASE l.op # "supersede"
    <3>1. l.projection = None
      BY <1>1, <1>4, <1>f, <1>o, <2>2 DEF CmoAtHand, Targeted, A
    <3> QED
      BY <1>4, <1>t, <3>1 DEF CmoAtHand
  <2> QED
    BY <2>1, <2>2
<1>6. \A k : Succeeded(k)' <=> Succeeded(k)
  BY <1>2 DEF Succeeded
<1>7. Candidates \subseteq Candidates' /\ Candidates' \subseteq Candidates \cup {n}
  BY <1>2 DEF Candidates
<1>8. CmoRowsAgree' /\ CmoLine'
  BY <1>2, <1>4 DEF CmoRowsAgree, CmoLine
<1>9. CmoTips(request[r])'
  <2>1. ASSUME NEW m \in Candidates, memories[m].cmo # None
        PROVE  /\ ~Succeeded(memories[m].cmo)
               /\ \A k \in Candidates : memories[k].cmo = memories[m].cmo => k = m
    BY <1>4, <1>o, <2>1 DEF CmoTips, Unlinked
  <2>2. ASSUME NEW m \in Candidates', memories'[m].cmo # None
        PROVE  /\ ~Succeeded(memories'[m].cmo)
               /\ \A k \in Candidates' : memories'[k].cmo = memories'[m].cmo => k = m
    <3>1. CASE m \in Candidates
      BY <1>2, <1>5, <1>7, <1>t, <2>1, <2>2, <3>1
    <3>2. CASE m = n
      <4>1. ~Succeeded(l.newCmo)
        BY <1>2, <1>4, <2>2, <3>2 DEF CmoAtHand
      <4>2. \A k \in Candidates : memories'[k].cmo # l.newCmo
        BY <1>2, <1>5, <1>t, <2>2, <3>2
      <4> QED
        BY <1>2, <1>7, <2>2, <3>2, <4>1, <4>2
    <3> QED
      BY <1>7, <3>1, <3>2
  <2> QED
    BY <1>6, <2>2 DEF CmoTips
<1>10. CmoAtHand(request[r])'
  <2>1. Ahead(request'[r].todo) = B
    BY <1>3 DEF B
  <2>2. l.newCmo # None =>
          /\ ~Succeeded(l.newCmo)
          /\ \A m \in Candidates' : memories'[m].cmo = l.newCmo => m = n
    BY <1>2, <1>4, <1>5, <1>7, <1>t DEF CmoAtHand
  <2>3. l.cmo # None /\ "storeCmo" \in B =>
          /\ ~Succeeded(l.cmo)
          /\ \A m \in Candidates' : memories'[m].cmo = l.cmo => m = l.target
    <3>1. SUFFICES ASSUME l.cmo # None, "storeCmo" \in B
                   PROVE  /\ ~Succeeded(l.cmo)
                          /\ \A m \in Candidates' :
                               memories'[m].cmo = l.cmo => m = l.target
      OBVIOUS
    <3>2. l.op = "supersede" /\ "storeCmo" \in A
      BY <1>f, <1>o, <3>1
    <3>3. l.newCmo = None
      BY <1>h, <3>2 DEF WrittenCmo, A
    <3> QED
      BY <1>2, <1>4, <1>7, <1>t, <3>1, <3>2, <3>3 DEF CmoAtHand, A
  <2>4. UNCHANGED cmos
    BY <1>2
  <2>5. l.op \notin Targeted => B \cap {"storeMemory", "storeClarification"} = {}
    BY <1>o DEF Targeted
  <2>6. "getMemory" \notin B
    BY <1>o
  <2> HIDE DEF l
  <2> QED
    BY <1>3, <1>4, <1>6, <2>1, <2>2, <2>3, <2>4, <2>5, <2>6 DEF CmoAtHand
<1> QED
  BY <1>8, <1>9, <1>10 DEF CmosWith

(* The target's object is read.                                            *)
LEMMA CmosGetMemory ==
  ASSUME NEW r, AtWork(r), ClaimsWith(r), CmosWith(request[r]), GetMemory(r)
  PROVE  CmosWith(request[r])'
<1> DEFINE l == request[r]
           A == Ahead(l.todo)
           B == Ahead(Tail(l.todo))
           m == l.target
<1>f. /\ l \in Local /\ request \in [Requests -> Local] /\ TypeOK
      /\ A = {Head(l.todo)} \cup B /\ l.todo \in Track(l.op)
      /\ TargetServed(l)
  BY WorkFacts
<1>t. Candidates \subseteq DOMAIN memories
  BY DEF Candidates
<1>1. /\ Head(l.todo) = "getMemory" /\ UNCHANGED <<memories, cmos>>
      /\ request'[r] = [[l EXCEPT !.seen = memories[m].content,
                                  !.cmo = memories[m].cmo, !.projection = m]
                          EXCEPT !.todo = Tail(l.todo)]
  BY <1>f DEF GetMemory, At, Proceed, Continue, AtWork, tables
<1>3. /\ request'[r].op = l.op /\ request'[r].target = m
      /\ request'[r].cmo = memories[m].cmo /\ request'[r].newCmo = l.newCmo
      /\ request'[r].projection = m /\ request'[r].todo = Tail(l.todo)
  BY <1>1, <1>f DEF Local
<1>o. /\ l.op \in {"update", "supersede", "delete", "noop"}
      /\ "ensureClaimTarget" \in B /\ "getMemory" \notin B
      /\ l.op = "update" => "storeCmo" \in B
  BY <1>1, <1>f, AddTrack, UpdateTrack, SupersedeTrack, DeleteTrack, NoopTrack,
     RemoveTrack, ShortTrack DEF AtWork, Operations
<1> HIDE DEF A, B, m
<1>4. /\ CmoRowsAgree /\ CmoLine /\ CmoTips(l) /\ CmoAtHand(l)
  BY DEF CmosWith
<1>5. m \in Candidates /\ l.newCmo = None
  BY <1>f, <1>1, <1>4, <1>o DEF TargetServed, CmoAtHand, A, m
<1>6. \A k : Succeeded(k)' <=> Succeeded(k)
  BY <1>1 DEF Succeeded
<1>7. ASSUME NEW k \in Candidates, memories[k].cmo # None
      PROVE  /\ ~Succeeded(memories[k].cmo)
             /\ \A j \in Candidates : memories[j].cmo = memories[k].cmo => j = k
  BY <1>4, <1>f, <1>o, <1>7 DEF CmoTips, Unlinked, A
<1>8. CmoRowsAgree' /\ CmoLine' /\ Candidates' = Candidates
  BY <1>1, <1>4 DEF CmoRowsAgree, CmoLine, Candidates
<1>9. CmoTips(request[r])'
  BY <1>1, <1>6, <1>7, <1>8 DEF CmoTips
<1>10. CmoAtHand(request[r])'
  <2>1. Ahead(request'[r].todo) = B
    BY <1>3 DEF B
  <2>2. memories[m].cmo \in {None} \cup DOMAIN cmos
    BY <1>4, <1>5, <1>t DEF CmoRowsAgree
  <2>3. l.op \in Targeted
    BY <1>o DEF Targeted
  <2> QED
    BY <1>1, <1>3, <1>5, <1>6, <1>7, <1>8, <1>o, <2>1, <2>2, <2>3 DEF CmoAtHand
<1> QED
  BY <1>8, <1>9, <1>10 DEF CmosWith

(* The memory is linked to the object that was stored for it.              *)
LEMMA CmosRelink ==
  ASSUME NEW r, AtWork(r), ClaimsWith(r), CmosWith(request[r]), RelinkCmo(r)
  PROVE  CmosWith(request[r])'
<1> DEFINE l == request[r]
           A == Ahead(l.todo)
           B == Ahead(Tail(l.todo))
           p == l.projection
<1>f. /\ l \in Local /\ request \in [Requests -> Local] /\ TypeOK
      /\ A = {Head(l.todo)} \cup B /\ l.todo \in Track(l.op)
      /\ ProjectionFree(l)
  BY WorkFacts
<1>t. /\ \A m \in DOMAIN memories : memories[m] \in MemoryRow
      /\ Candidates \subseteq DOMAIN memories /\ None \notin DOMAIN cmos
  BY RowFacts DEF Candidates
<1>h. WrittenCmo(l)
  BY HandFacts
<1>1. /\ Head(l.todo) = "relinkCmo" /\ UNCHANGED cmos
      /\ memories' = [memories EXCEPT ![p] = [memories[p] EXCEPT !.cmo = l.newCmo]]
      /\ request'[r] = [l EXCEPT !.todo = Tail(l.todo)]
  BY <1>f DEF RelinkCmo, At, Proceed, Continue, AtWork
<1>3. /\ request'[r].op = l.op /\ request'[r].target = l.target
      /\ request'[r].cmo = l.cmo /\ request'[r].newCmo = l.newCmo
      /\ request'[r].projection = p /\ request'[r].todo = Tail(l.todo)
  BY <1>1, <1>f DEF Local
<1>o. l.op \in {"update", "supersede"} /\ B = {}
  BY <1>1, <1>f, AddTrack, UpdateTrack, SupersedeTrack, DeleteTrack, NoopTrack,
     RemoveTrack, ShortTrack DEF AtWork, Operations
<1>2. /\ DOMAIN memories' = DOMAIN memories
      /\ \A m \in DOMAIN memories :
           /\ memories'[m].life = memories[m].life
           /\ memories'[m].cmo = IF m = p THEN l.newCmo ELSE memories[m].cmo
  BY <1>1, <1>t DEF MemoryRow
<1> HIDE DEF A, B, p
<1>4. /\ CmoRowsAgree /\ CmoLine /\ CmoTips(l) /\ CmoAtHand(l)
      /\ l.cmo \in {None} \cup DOMAIN cmos
      /\ l.newCmo \in DOMAIN cmos /\ l.newCmo # None
      /\ ~Succeeded(l.newCmo)
      /\ \A k \in Candidates : memories[k].cmo = l.newCmo => k = p
  BY <1>1, <1>f, <1>h, <1>o, <1>t DEF CmosWith, WrittenCmo, CmoAtHand, A, p
<1>5. ASSUME NEW m \in Candidates, m # p, memories[m].cmo # None
      PROVE  /\ ~Succeeded(memories[m].cmo)
             /\ \A k \in Candidates : memories[k].cmo = memories[m].cmo => k = m
  <2>1. l.op = "update" => p = l.target
    BY <1>1, <1>f, <1>o DEF ProjectionFree, A, p
  <2> QED
    BY <1>4, <1>5, <2>1 DEF CmoTips, Unlinked
<1>6. \A k : Succeeded(k)' <=> Succeeded(k)
  BY <1>1 DEF Succeeded
<1>7. Candidates' = Candidates
  BY <1>2 DEF Candidates
<1>8. CmoRowsAgree' /\ CmoLine'
  BY <1>1, <1>2, <1>4 DEF CmoRowsAgree, CmoLine
<1>9. CmoTips(request[r])'
  <2>1. ASSUME NEW m \in Candidates, memories'[m].cmo # None
        PROVE  /\ ~Succeeded(memories'[m].cmo)
               /\ \A k \in Candidates : memories'[k].cmo = memories'[m].cmo => k = m
    <3>1. CASE m = p
      BY <1>2, <1>4, <1>t, <2>1, <3>1
    <3>2. CASE m # p
      BY <1>2, <1>4, <1>5, <1>t, <2>1, <3>2
    <3> QED
      BY <3>1, <3>2
  <2> QED
    BY <1>6, <1>7, <2>1 DEF CmoTips
<1>10. CmoAtHand(request[r])'
  <2>1. Ahead(request'[r].todo) = {}
    BY <1>3, <1>o DEF B
  <2>2. \A k \in Candidates : memories'[k].cmo = l.newCmo => k = p
    BY <1>2, <1>4, <1>t
  <2> QED
    BY <1>1, <1>3, <1>4, <1>6, <1>7, <2>1, <2>2 DEF CmoAtHand
<1> QED
  BY <1>8, <1>9, <1>10 DEF CmosWith

(* Every statement leaves the canonical objects as CmosWith says.          *)
LEMMA CmosStatement ==
  ASSUME NEW r, AtWork(r), ClaimsWith(r), CmosWith(request[r]), Statement(r)
  PROVE  CmosWith(request[r])'
  BY CmosMemory, CmosLineage, CmosStore, CmosStoreMemory, CmosGetMemory,
     CmosRelink, NoDuplicate DEF Statement

-----------------------------------------------------------------------------
(* The invariant about canonical objects.                                  *)


(* What CmosWith says depends on nothing else.                             *)
LEMMA CmosSame ==
  ASSUME NEW l, CmosWith(l), UNCHANGED <<memories, cmos>>
  PROVE  \A k : k = l => /\ CmoRowsAgree' /\ CmoLine'
                         /\ \A m : Succeeded(m)' <=> Succeeded(m)
                         /\ Candidates' = Candidates
  BY DEF CmosWith, CmoRowsAgree, CmoLine, Succeeded, Candidates

(* Every step keeps the invariant.                                         *)
LEMMA CmosNext ==
  ASSUME Serial, IInv, SInv, ClaimsInv, CmosInv, [Next]_vars
  PROVE  CmosInv'
<1>0. SUFFICES ASSUME failures' = 0
               PROVE  /\ Quiescent' => CmosWith(Idle)'
                      /\ \A q \in Running' : CmosWith(request[q])'
  BY DEF CmosInv
<1>i. Ahead(Idle.todo) = {} /\ Idle.op = "none" /\ Idle.cmo = None /\ Idle.newCmo = None
  BY DEF Ahead, Idle
<1>1. ASSUME NEW r \in Requests, Statement(r)
      PROVE  /\ Quiescent' => CmosWith(Idle)'
             /\ \A q \in Running' : CmosWith(request[q])'
  <2>1. request[r].todo # <<>> /\ AtWork(r)
    BY <1>1, StatementRuns, RunningAtWork
  <2>2. failures = 0
    BY <1>0, <1>1, KeepsFailures
  <2>3. ClaimsWith(r) /\ CmosWith(request[r])
    BY <2>1, <2>2 DEF ClaimsInv, CmosInv, Running
  <2>4. CmosWith(request[r])'
    BY <1>1, <2>1, <2>3, CmosStatement
  <2>5. ASSUME NEW q \in Running'
        PROVE  q = r
    <3>1. SUFFICES ASSUME q # r PROVE FALSE
      OBVIOUS
    <3>2. q \in Requests /\ request'[q].todo # <<>>
      BY <2>5 DEF Running
    <3>3. request'[q] = request[q]
      BY <1>1, <3>1, <3>2, OnlyOwnLocal DEF IInv
    <3> QED
      BY <2>1, <3>1, <3>2, <3>3 DEF SInv, OneAtATime, Running
  <2>6. Quiescent' => request'[r].todo = <<>>
    BY DEF Quiescent, Running
  <2>7. request'[r].todo = <<>> => CmosWith(Idle)'
    BY <2>4, <1>i DEF CmosWith, CmoTips, Unlinked, CmoAtHand, Ahead, None
  <2> QED
    BY <2>4, <2>5, <2>6, <2>7
<1>2. ASSUME NEW r \in Requests, Start(r)
      PROVE  /\ Quiescent' => CmosWith(Idle)'
             /\ \A q \in Running' : CmosWith(request[q])'
  <2>1. /\ Running = {}
        /\ \A q \in Requests \ {r} : request'[q] = request[q]
        /\ UNCHANGED <<memories, cmos, failures>>
        /\ request'[r].projection = None
        /\ request'[r].cmo = None /\ request'[r].newCmo = None
    BY <1>2, StartFacts
  <2>2. CmosWith(Idle)
    BY <1>0, <2>1 DEF CmosInv, Quiescent
  <2>3. /\ CmoRowsAgree' /\ CmoLine' /\ Candidates' = Candidates
        /\ \A m : Succeeded(m)' <=> Succeeded(m)
    BY <2>1, <2>2, CmosSame
  <2>4. /\ CmoTips(request[r])' /\ CmoTips(Idle)'
    BY <1>i, <2>1, <2>2, <2>3 DEF CmosWith, CmoTips, Unlinked
  <2>5. CmoAtHand(request[r])' /\ CmoAtHand(Idle)'
    BY <1>i, <2>1 DEF CmoAtHand
  <2>6. ASSUME NEW q \in Running'
        PROVE  q = r
    BY <2>1, <2>6 DEF Running
  <2> QED
    BY <2>3, <2>4, <2>5, <2>6 DEF CmosWith
<1>3. ASSUME NEW r \in Requests, Fail(r)
      PROVE  FALSE
  <2>1. failures \in Nat /\ failures' = failures + 1
    BY <1>3 DEF Fail, IInv, TypeOK
  <2> QED
    BY <1>0, <2>1
<1>4. ASSUME UNCHANGED vars
      PROVE  /\ Quiescent' => CmosWith(Idle)'
             /\ \A q \in Running' : CmosWith(request[q])'
  <2>1. UNCHANGED <<memories, cmos, request, failures>>
    BY <1>4 DEF vars
  <2>2. Quiescent' = Quiescent /\ Running' = Running
    BY <2>1 DEF Quiescent, Running
  <2>3. ASSUME NEW q \in Running, CmosWith(request[q])
        PROVE  CmosWith(request[q])'
    <3>1. /\ CmoRowsAgree' /\ CmoLine' /\ Candidates' = Candidates
          /\ \A m : Succeeded(m)' <=> Succeeded(m)
      BY <2>1, <2>3, CmosSame
    <3> QED
      BY <2>1, <2>3, <3>1 DEF CmosWith, CmoTips, Unlinked, CmoAtHand
  <2>4. ASSUME CmosWith(Idle)
        PROVE  CmosWith(Idle)'
    <3>1. /\ CmoRowsAgree' /\ CmoLine' /\ Candidates' = Candidates
          /\ \A m : Succeeded(m)' <=> Succeeded(m)
      BY <2>1, <2>4, CmosSame
    <3> QED
      BY <1>i, <2>1, <2>4, <3>1 DEF CmosWith, CmoTips, Unlinked, CmoAtHand
  <2> QED
    BY <1>0, <2>1, <2>2, <2>3, <2>4 DEF CmosInv
<1> QED
  BY <1>1, <1>2, <1>3, <1>4 DEF Next

(* CmosInv holds in empty tables.                                          *)
LEMMA CmosInit == Init => CmosInv
<1> SUFFICES ASSUME Init PROVE CmosInv
  OBVIOUS
<1>1. Running = {}
  BY DEF Init, Running, Idle
<1>2. CmosWith(Idle)
  BY DEF Init, CmosWith, CmoRowsAgree, CmoLine, CmoTips, CmoAtHand, Candidates,
     Idle, Ahead, None
<1> QED
  BY <1>1, <1>2 DEF CmosInv

(* As long as requests do not overlap and none has died half way, a memory *)
(* that searches return names the last object of its line.                 *)
THEOREM CmosInvariance ==
  ASSUME Serial PROVE Spec => [](IInv /\ SInv /\ ClaimsInv /\ CmosInv)
<1>1. Init => IInv /\ SInv /\ ClaimsInv /\ CmosInv
  BY InvInit, SerialInit, ClaimsInit, CmosInit
<1>2. (IInv /\ SInv /\ ClaimsInv /\ CmosInv) /\ [Next]_vars
        => (IInv /\ SInv /\ ClaimsInv /\ CmosInv)'
  BY InvNext, SerialNext, ClaimsNext, CmosNext
<1> QED
  BY <1>1, <1>2, PTL DEF Spec

(* The canonical objects of a fact form one line.                          *)
THEOREM CmoLineSafe ==
  ASSUME Serial PROVE Spec => []CmoLineIsLinear
<1>1. CmosInv => CmoLineIsLinear
  BY DEF CmosInv, CmosWith, CmoLine, CmoLineIsLinear, Quiescent
<1> QED
  BY <1>1, CmosInvariance, PTL
=============================================================================
