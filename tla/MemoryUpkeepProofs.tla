------------------------- MODULE MemoryUpkeepProofs -------------------------
(***************************************************************************)
(* What holds of entities, slots, summaries and opinions for any ingests,  *)
(* repairs and requests that meet, whatever the models, the likenesses and *)
(* the thresholds say.                                                     *)
(***************************************************************************)
EXTENDS MemoryUpkeep, SequenceTheorems, WellFoundedInduction, TLAPS

IsSeq(s) == s \in Seq(Range(s))

(* What the proofs read of a row; the other columns come and go with them. *)
Columns == {"says", "status", "slot", "confidence", "about"}
Statuses == {"live", "held", "gone", "erased"}

RowsTyped ==
  /\ IsSeq(rows)
  /\ \A r \in Ids : Columns \subseteq DOMAIN rows[r] /\ rows[r].status \in Statuses

EntitiesTyped ==
  /\ IsSeq(entities)
  /\ \A e \in DOMAIN entities : {"type", "names"} \subseteq DOMAIN entities[e]

Resolutions == {"find", "similar", "merge", "create", "link"}
WithRow ==
  Resolutions \cup {"claim", "version", "relate", "derive", "assign", "done"}

(* An ingest works on one row of its own, a repair on rows it listed.      *)
StoreTyped(j) ==
  LET l == store[j] IN
  /\ {"pc", "next", "row", "match", "known", "looked", "slot", "todo",
      "missed"} \subseteq DOMAIN l
  /\ l.row \in Ids \cup {None} /\ l.todo \subseteq Ids
  /\ l.pc = "assign" => l.row \in Ids
  /\ j \notin StoreJobs =>
       l.pc \in {"none", "new", "derive", "assign", "done", "dead"}
  /\ j \in StoreJobs =>
       /\ l.pc \in WithRow => l.row \in Ids
       /\ l.pc \in {"none", "new", "row"} => l.row = None
       /\ l.pc \in {"derive", "assign"} => l.todo \subseteq {l.row}
       /\ l.pc \in Resolutions => l.next \in DOMAIN Mentions(j)

RowsOfTheirOwn ==
  \A j, k \in StoreJobs :
    j # k /\ store[j].row = store[k].row => store[j].row = None

(* A request that is about a row.                                          *)
RowStates == {"lineage", "version", "pointer", "target", "claim", "write", "flag"}

UpkeepTyped(u) ==
  LET l == upkeep[u] IN
  /\ {"pc", "clusters", "next", "members", "row", "read"} \subseteq DOMAIN l
  /\ l.members \subseteq Ids /\ l.next \in Nat
  /\ l.pc \in RowStates => l.row \in Ids
  /\ Work[u].kind = "consolidate" /\ l.pc = "archive" => l.row \in Ids

Typed ==
  /\ RowsTyped
  /\ EntitiesTyped
  /\ DOMAIN store = Linkers /\ \A j \in Linkers : StoreTyped(j)
  /\ RowsOfTheirOwn
  /\ DOMAIN upkeep = UpkeepJobs /\ \A u \in UpkeepJobs : UpkeepTyped(u)

-----------------------------------------------------------------------------
(* Sequences.                                                              *)

(* The places of a sequence are its first numbers.                         *)
LEMMA Places ==
  ASSUME NEW s, IsSeq(s)
  PROVE  Len(s) \in Nat /\ DOMAIN s = 1..Len(s)
BY DEF IsSeq

(* What has the domain of a sequence is one of its length.                 *)
LEMMA SameLength ==
  ASSUME NEW s, IsSeq(s), NEW t, t \in [DOMAIN s -> Range(t)]
  PROVE  IsSeq(t) /\ Len(t) = Len(s) /\ DOMAIN t = DOMAIN s
<1>1. t \in [1..Len(s) -> Range(t)] /\ Len(s) \in Nat
  BY Places
<1>2. t \in Seq(Range(t))
  BY <1>1
<1> QED
  BY <1>1, <1>2 DEF IsSeq

(* Changing one place keeps the length.                                    *)
LEMMA ChangePlace ==
  ASSUME NEW s, IsSeq(s), NEW i, NEW v, NEW t, t = [s EXCEPT ![i] = v]
  PROVE  /\ IsSeq(t) /\ Len(t) = Len(s) /\ DOMAIN t = DOMAIN s
         /\ \A k \in DOMAIN s : t[k] = IF k = i THEN v ELSE s[k]
<1>1. t \in [DOMAIN s -> Range(t)]
  BY DEF Range
<1> QED
  BY <1>1, SameLength

(* Appending adds one place at the end.                                    *)
LEMMA AppendPlace ==
  ASSUME NEW s, IsSeq(s), NEW v
  PROVE  /\ IsSeq(Append(s, v))
         /\ DOMAIN Append(s, v) = DOMAIN s \cup {Len(s) + 1}
         /\ \A k \in DOMAIN s : Append(s, v)[k] = s[k] /\ k # Len(s) + 1
         /\ Append(s, v)[Len(s) + 1] = v
<1> DEFINE S == Range(s) \cup {v}
           t == Append(s, v)
<1>1. s \in Seq(S) /\ v \in S
  BY SeqMonotonic DEF IsSeq
<1> HIDE DEF S
<1>2. /\ t \in Seq(S) /\ Len(t) = Len(s) + 1 /\ t[Len(s) + 1] = v
      /\ \A k \in 1..Len(s) : t[k] = s[k]
  BY <1>1
<1> HIDE DEF t
<1>3. /\ t \in [1..Len(t) -> S] /\ DOMAIN t = 1..Len(t)
      /\ DOMAIN s = 1..Len(s) /\ Len(s) \in Nat
  BY <1>1, <1>2, LenProperties
<1>4. IsSeq(t)
  <2>1. \A i \in 1..Len(t) : t[i] \in Range(t)
    BY <1>3 DEF Range
  <2>2. t \in [1..Len(t) -> Range(t)]
    BY <1>3, <2>1
  <2> HIDE DEF IsSeq
  <2> QED
    BY <1>2, <1>3, <2>2, SeqDef DEF IsSeq
<1> QED
  BY <1>2, <1>3, <1>4 DEF t

-----------------------------------------------------------------------------
(* Rows.                                                                   *)

(* A new row.                                                              *)
LEMMA NewRowFacts ==
  ASSUME NEW says, NEW site, NEW importance
  PROVE  LET r == NewRow(says, site, importance) IN
         /\ Columns \subseteq DOMAIN r
         /\ r.says = says /\ r.status = "live" /\ r.slot = None
         /\ r.confidence = None /\ r.about = None
BY DEF NewRow, Columns

(* One row changes.                                                        *)
LEMMA RowChanges ==
  ASSUME RowsTyped, NEW x \in Ids, NEW v, rows' = [rows EXCEPT ![x] = v],
         Columns \subseteq DOMAIN v, v.status \in Statuses
  PROVE  /\ RowsTyped' /\ Ids' = Ids /\ rows'[x] = v
         /\ \A r \in Ids : r # x => rows'[r] = rows[r]
<1>1. /\ IsSeq(rows') /\ DOMAIN rows' = DOMAIN rows
      /\ \A k \in DOMAIN rows : rows'[k] = IF k = x THEN v ELSE rows[k]
  BY ChangePlace DEF RowsTyped
<1> QED
  BY <1>1 DEF RowsTyped, Ids

(* One row is added.                                                       *)
LEMMA RowAdded ==
  ASSUME RowsTyped, NEW v, rows' = Append(rows, v),
         Columns \subseteq DOMAIN v, v.status \in Statuses
  PROVE  /\ RowsTyped' /\ Ids' = Ids \cup {Len(rows) + 1}
         /\ rows'[Len(rows) + 1] = v
         /\ \A r \in Ids : rows'[r] = rows[r] /\ r # Len(rows) + 1
<1>1. /\ IsSeq(rows') /\ DOMAIN rows' = DOMAIN rows \cup {Len(rows) + 1}
      /\ \A k \in DOMAIN rows : rows'[k] = rows[k] /\ k # Len(rows) + 1
      /\ rows'[Len(rows) + 1] = v
  BY AppendPlace DEF RowsTyped
<1>2. ASSUME NEW r \in DOMAIN rows'
      PROVE  Columns \subseteq DOMAIN rows'[r] /\ rows'[r].status \in Statuses
  <2>1. CASE r \in DOMAIN rows
    <3>1. rows'[r] = rows[r]
      BY <1>1, <2>1
    <3> QED
      BY <2>1, <3>1 DEF RowsTyped, Ids
  <2>2. CASE r = Len(rows) + 1
    <3>1. rows'[r] = v
      BY <1>1, <2>2
    <3> QED
      BY <3>1
  <2> QED
    BY <1>1, <2>1, <2>2
<1> QED
  BY <1>1, <1>2 DEF RowsTyped, Ids

(* A soft delete.                                                          *)
LEMMA SoftDeletedFacts ==
  ASSUME RowsTyped, NEW x \in Ids, rows' = SoftDeleted(x)
  PROVE  /\ RowsTyped' /\ Ids' = Ids
         /\ \A r \in Ids :
              /\ rows'[r].says = rows[r].says /\ rows'[r].slot = rows[r].slot
              /\ rows'[r].confidence = rows[r].confidence
              /\ rows'[r].about = rows[r].about
              /\ \/ rows'[r].status = rows[r].status
                 \/ /\ r = x /\ rows'[r].status = "gone"
                    /\ rows[r].status \in {"live", "held"}
<1> DEFINE now == IF rows[x].status \in {"live", "held"} THEN "gone"
                  ELSE rows[x].status
           v == [rows[x] EXCEPT !.status = now]
<1>1. rows' = [rows EXCEPT ![x] = v]
  BY DEF SoftDeleted
<1>2. Columns \subseteq DOMAIN rows[x] /\ rows[x].status \in Statuses
  BY DEF RowsTyped
<1>3. /\ Columns \subseteq DOMAIN v /\ v.status \in Statuses
      /\ v.says = rows[x].says /\ v.slot = rows[x].slot
      /\ v.confidence = rows[x].confidence /\ v.about = rows[x].about
      /\ v.status = now
  BY <1>2 DEF Columns, Statuses
<1> HIDE DEF v
<1>4. /\ RowsTyped' /\ Ids' = Ids /\ rows'[x] = v
      /\ \A r \in Ids : r # x => rows'[r] = rows[r]
  BY <1>1, <1>3, RowChanges
<1> QED
  BY <1>3, <1>4

-----------------------------------------------------------------------------
(* Entities.                                                               *)

(* One entity changes.                                                     *)
LEMMA EntityChanges ==
  ASSUME EntitiesTyped, NEW x, NEW v, entities' = [entities EXCEPT ![x] = v],
         x \in DOMAIN entities => {"type", "names"} \subseteq DOMAIN v
  PROVE  /\ EntitiesTyped' /\ DOMAIN entities' = DOMAIN entities
         /\ \A e \in DOMAIN entities :
              entities'[e] = IF e = x THEN v ELSE entities[e]
<1>1. /\ IsSeq(entities') /\ DOMAIN entities' = DOMAIN entities
      /\ \A k \in DOMAIN entities :
           entities'[k] = IF k = x THEN v ELSE entities[k]
  BY ChangePlace DEF EntitiesTyped
<1> QED
  BY <1>1 DEF EntitiesTyped

(* One entity is added.                                                    *)
LEMMA EntityAdded ==
  ASSUME EntitiesTyped, NEW v, entities' = Append(entities, v),
         {"type", "names"} \subseteq DOMAIN v
  PROVE  /\ EntitiesTyped'
         /\ DOMAIN entities' = DOMAIN entities \cup {Len(entities) + 1}
         /\ entities'[Len(entities) + 1] = v
         /\ \A e \in DOMAIN entities :
              entities'[e] = entities[e] /\ e # Len(entities) + 1
<1>1. /\ IsSeq(entities')
      /\ DOMAIN entities' = DOMAIN entities \cup {Len(entities) + 1}
      /\ \A k \in DOMAIN entities :
           entities'[k] = entities[k] /\ k # Len(entities) + 1
      /\ entities'[Len(entities) + 1] = v
  BY AppendPlace DEF EntitiesTyped
<1>2. ASSUME NEW e \in DOMAIN entities'
      PROVE  {"type", "names"} \subseteq DOMAIN entities'[e]
  <2>1. CASE e \in DOMAIN entities
    <3>1. entities'[e] = entities[e]
      BY <1>1, <2>1
    <3> QED
      BY <2>1, <3>1 DEF EntitiesTyped
  <2>2. CASE e = Len(entities) + 1
    BY <1>1, <2>2
  <2> QED
    BY <1>1, <2>1, <2>2
<1> QED
  BY <1>1, <1>2 DEF EntitiesTyped

(* Columns other than the slot stay as they are.                           *)
SameBut(x) ==
  \A r \in Ids :
    /\ rows'[r].says = rows[r].says /\ rows'[r].status = rows[r].status
    /\ rows'[r].confidence = rows[r].confidence
    /\ rows'[r].about = rows[r].about
    /\ r # x => rows'[r].slot = rows[r].slot

(* A claim is created with the slot that was resolved for it.              *)
LEMMA CreateClaimRows ==
  ASSUME Typed, NEW j \in Linkers, CreateClaim(j)
  PROVE  /\ RowsTyped' /\ Ids' = Ids /\ SameBut(store[j].row)
         /\ store[j].row \in Ids
         /\ rows'[store[j].row].slot = store[j].slot
<1> DEFINE x == store[j].row
           v == [rows[x] EXCEPT !.claim = "open", !.slot = store[j].slot]
<1>1. x \in Ids /\ RowsTyped
  BY DEF Typed, StoreTyped, CreateClaim, At, WithRow
<1>2. Columns \subseteq DOMAIN rows[x] /\ rows[x].status \in Statuses
  BY <1>1 DEF RowsTyped
<1>3. rows' = [rows EXCEPT ![x] = v]
  BY <1>1, <1>2 DEF CreateClaim, Ids, Columns
<1>4. /\ Columns \subseteq DOMAIN v /\ v.status \in Statuses
      /\ v.says = rows[x].says /\ v.status = rows[x].status
      /\ v.confidence = rows[x].confidence /\ v.about = rows[x].about
      /\ v.slot = store[j].slot
  BY <1>2 DEF Columns
<1> HIDE DEF v
<1>5. /\ RowsTyped' /\ Ids' = Ids /\ rows'[x] = v
      /\ \A r \in Ids : r # x => rows'[r] = rows[r]
  BY <1>1, <1>3, <1>4, RowChanges
<1> QED
  BY <1>1, <1>4, <1>5 DEF SameBut

(* A version changes nothing that is read here.                            *)
LEMMA CreateVersionRows ==
  ASSUME Typed, NEW j \in Linkers, CreateVersion(j)
  PROVE  RowsTyped' /\ Ids' = Ids /\ SameBut(None) /\ store[j].row \in Ids
<1> DEFINE x == store[j].row
           v == [rows[x] EXCEPT !.versions = {Stores[j].site},
                                !.current = Stores[j].site]
<1>1. x \in Ids /\ RowsTyped
  BY DEF Typed, StoreTyped, CreateVersion, At, WithRow
<1>2. Columns \subseteq DOMAIN rows[x] /\ rows[x].status \in Statuses
  BY <1>1 DEF RowsTyped
<1>3. rows' = [rows EXCEPT ![x] = v]
  BY <1>1, <1>2 DEF CreateVersion, Ids, Columns
<1>4. /\ Columns \subseteq DOMAIN v /\ v.status \in Statuses
      /\ v.says = rows[x].says /\ v.status = rows[x].status
      /\ v.confidence = rows[x].confidence /\ v.about = rows[x].about
      /\ v.slot = rows[x].slot
  BY <1>2 DEF Columns
<1> HIDE DEF v
<1>5. /\ RowsTyped' /\ Ids' = Ids /\ rows'[x] = v
      /\ \A r \in Ids : r # x => rows'[r] = rows[r]
  BY <1>1, <1>3, <1>4, RowChanges
<1> QED
  BY <1>1, <1>4, <1>5 DEF SameBut

(* A slot that was derived goes to a row without one.                      *)
LEMMA UpdateClaimSlotRows ==
  ASSUME Typed, NEW j \in Linkers, UpdateClaimSlot(j)
  PROVE  /\ RowsTyped' /\ Ids' = Ids /\ SameBut(store[j].row)
         /\ store[j].row \in Ids
         /\ rows'[store[j].row].slot \in {rows[store[j].row].slot, store[j].slot}
<1> DEFINE x == store[j].row
           now == IF rows[x].slot = None /\ rows[x].claim # "none"
                  THEN store[j].slot ELSE rows[x].slot
           v == [rows[x] EXCEPT !.slot = now]
<1>1. x \in Ids /\ RowsTyped
  BY DEF Typed, StoreTyped, UpdateClaimSlot, At
<1>2. Columns \subseteq DOMAIN rows[x] /\ rows[x].status \in Statuses
  BY <1>1 DEF RowsTyped
<1>3. rows' = [rows EXCEPT ![x] = v]
  BY DEF UpdateClaimSlot
<1>4. /\ Columns \subseteq DOMAIN v /\ v.status \in Statuses
      /\ v.says = rows[x].says /\ v.status = rows[x].status
      /\ v.confidence = rows[x].confidence /\ v.about = rows[x].about
      /\ v.slot = now
  BY <1>2 DEF Columns
<1> HIDE DEF v
<1>5. /\ RowsTyped' /\ Ids' = Ids /\ rows'[x] = v
      /\ \A r \in Ids : r # x => rows'[r] = rows[r]
  BY <1>1, <1>3, <1>4, RowChanges
<1> QED
  BY <1>1, <1>4, <1>5 DEF SameBut

(* A fact gets a row of its own.                                           *)
LEMMA StoreRowRows ==
  ASSUME Typed, NEW j \in Linkers, StoreRow(j)
  PROVE  LET n == Len(rows) + 1 IN
         /\ RowsTyped' /\ Ids' = Ids \cup {n} /\ n \notin Ids
         /\ \A r \in Ids : rows'[r] = rows[r]
         /\ rows'[n].status = "live" /\ rows'[n].slot = None
         /\ rows'[n].confidence = None
<1> DEFINE v == NewRow({Stores[j].fact}, Stores[j].site, Stores[j].importance)
<1>1. /\ rows' = Append(rows, v) /\ RowsTyped
      /\ Columns \subseteq DOMAIN v /\ v.status = "live" /\ v.slot = None
      /\ v.confidence = None
  BY NewRowFacts DEF StoreRow, Typed
<1> HIDE DEF v
<1>2. v.status \in Statuses
  BY <1>1 DEF Statuses
<1>3. /\ RowsTyped' /\ Ids' = Ids \cup {Len(rows) + 1}
      /\ rows'[Len(rows) + 1] = v
      /\ \A r \in Ids : rows'[r] = rows[r] /\ r # Len(rows) + 1
  BY <1>1, <1>2, RowAdded
<1> QED
  BY <1>1, <1>3

-----------------------------------------------------------------------------
(* Locals.                                                                 *)

(* A step of one job leaves the others alone.                              *)
LEMMA GoFacts ==
  ASSUME DOMAIN store = Linkers, NEW j \in Linkers, NEW changes, Go(j, changes)
  PROVE  /\ DOMAIN store' = Linkers
         /\ store'[j] = Changed(store[j], changes)
         /\ \A k \in Linkers : k # j => store'[k] = store[k]
BY DEF Go

(* The same of a request.                                                  *)
LEMMA DoFacts ==
  ASSUME DOMAIN upkeep = UpkeepJobs, NEW u \in UpkeepJobs, NEW changes,
         Do(u, changes)
  PROVE  /\ DOMAIN upkeep' = UpkeepJobs
         /\ upkeep'[u] = Changed(upkeep[u], changes)
         /\ \A w \in UpkeepJobs : w # u => upkeep'[w] = upkeep[w]
BY DEF Do

(* What a step of one job has to keep for the types to be kept.            *)
LEMMA LinkerTypes ==
  ASSUME Typed, NEW j \in Linkers,
         RowsTyped', EntitiesTyped', Ids \subseteq Ids',
         DOMAIN store' = Linkers,
         \A k \in Linkers : k # j => store'[k] = store[k],
         StoreTyped(j)',
         j \in StoreJobs =>
           store'[j].row = store[j].row \/ store'[j].row \notin Ids,
         UNCHANGED upkeep
  PROVE  Typed'
<1>1. ASSUME NEW k \in Linkers PROVE StoreTyped(k)'
  <2>1. CASE k = j
    BY <2>1
  <2>2. CASE k # j
    <3>1. store'[k] = store[k] /\ StoreTyped(k)
      BY <2>2 DEF Typed
    <3> QED
      BY <3>1 DEF StoreTyped, Mentions
  <2> QED
    BY <2>1, <2>2
<1>2. RowsOfTheirOwn'
  <2>1. ASSUME NEW k \in StoreJobs, NEW i \in StoreJobs, k # i,
               store'[k].row = store'[i].row
        PROVE  store'[k].row = None
    <3>1. k \in Linkers /\ i \in Linkers
      BY DEF Linkers
    <3>2. /\ store[k].row \in Ids \cup {None} /\ store[i].row \in Ids \cup {None}
          /\ store[k].row = store[i].row => store[k].row = None
      BY <2>1, <3>1 DEF Typed, StoreTyped, RowsOfTheirOwn
    <3>3. CASE k # j /\ i # j
      BY <2>1, <3>1, <3>2, <3>3
    <3>4. CASE k = j
      <4>1. store'[i] = store[i]
        BY <2>1, <3>1, <3>4
      <4>2. store'[k].row \in Ids \cup {None}
        BY <2>1, <3>2, <4>1
      <4>3. CASE store'[k].row \in Ids
        BY <2>1, <3>2, <3>4, <4>1, <4>3
      <4> QED
        BY <4>2, <4>3
    <3>5. CASE i = j
      <4>1. store'[k] = store[k]
        BY <2>1, <3>1, <3>5
      <4>2. CASE store'[i].row \in Ids
        BY <2>1, <3>2, <3>5, <4>1, <4>2
      <4> QED
        BY <2>1, <3>2, <4>1, <4>2
    <3> QED
      BY <3>3, <3>4, <3>5
  <2> QED
    BY <2>1 DEF RowsOfTheirOwn
<1>3. ASSUME NEW u \in UpkeepJobs PROVE UpkeepTyped(u)'
  BY DEF Typed, UpkeepTyped
<1> QED
  BY <1>1, <1>2, <1>3 DEF Typed

-----------------------------------------------------------------------------
(* Steps of ingests and repairs keep the types.                            *)

(* The next mention, or the relations after the last.                      *)
LEMMA NextMentionFacts ==
  ASSUME NEW j \in StoreJobs, NEW n \in Nat \ {0}
  PROVE  LET l == NextMention(j, n) IN
         /\ DOMAIN l = {"pc", "next"}
         /\ \/ l.pc = "find" /\ l.next = n /\ n \in DOMAIN Mentions(j)
            \/ l.pc = "relate" /\ \A i \in DOMAIN Mentions(j) : i < n
<1>1. IsSeq(Mentions(j))
  BY StoresAssumption DEF IsSeq, Mentions
<1>2. Len(Mentions(j)) \in Nat /\ DOMAIN Mentions(j) = 1..Len(Mentions(j))
  BY <1>1, Places
<1> QED
  BY <1>2 DEF NextMention

(* A step of an ingest that has its row keeps it.                          *)
LEMMA KeepsRow ==
  ASSUME Typed, NEW j \in StoreJobs, NEW changes, Go(j, changes),
         "row" \notin DOMAIN changes, "todo" \notin DOMAIN changes,
         Ids \subseteq Ids', store[j].row \in Ids,
         store'[j].pc \in WithRow \ {"derive", "assign"},
         store'[j].pc \in Resolutions => store'[j].next \in DOMAIN Mentions(j)
  PROVE  StoreTyped(j)'
<1>1. j \in Linkers /\ StoreTyped(j) /\ DOMAIN store = Linkers
  BY DEF Linkers, Typed
<1>2. store'[j] = Changed(store[j], changes)
  BY <1>1, GoFacts
<1>3. /\ store'[j].row = store[j].row /\ store'[j].todo = store[j].todo
      /\ DOMAIN store'[j] = DOMAIN store[j]
  BY <1>1, <1>2 DEF Changed, StoreTyped
<1>4. store'[j].pc \notin {"derive", "assign", "none", "new", "row"}
  BY DEF WithRow, Resolutions
<1> QED
  BY <1>1, <1>3, <1>4 DEF StoreTyped, Mentions

(* What a step sets, and what it leaves.                                   *)
LEMMA GoSets ==
  ASSUME Typed, NEW j \in Linkers, NEW changes, Go(j, changes)
  PROVE  /\ DOMAIN store'[j] = DOMAIN store[j]
         /\ \A x \in {"pc", "next", "row", "match", "looked", "slot", "todo",
                   "missed"} :
              store'[j][x] = IF x \in DOMAIN changes THEN changes[x]
                             ELSE store[j][x]
<1>1. StoreTyped(j) /\ DOMAIN store = Linkers
  BY DEF Typed
<1>2. store'[j] = Changed(store[j], changes)
  BY <1>1, GoFacts
<1> QED
  BY <1>1, <1>2 DEF Changed, StoreTyped

(* What each step leaves of the local state.                               *)
LEMMA StoreStepTypes ==
  ASSUME Typed, NEW j \in Linkers, StoreStep(j), UNCHANGED upkeep
  PROVE  Typed'
<1> DEFINE l == store[j]
<1>0. /\ StoreTyped(j) /\ DOMAIN store = Linkers
      /\ RowsTyped /\ EntitiesTyped
  BY DEF Typed
<1>a. UNCHANGED rows => RowsTyped' /\ Ids' = Ids
  BY <1>0 DEF RowsTyped, Ids
<1>b. UNCHANGED entities => EntitiesTyped'
  BY <1>0 DEF EntitiesTyped
<1>c. j \in StoreJobs /\ IsSeq(Mentions(j))
  <2>1. j \in StoreJobs
    BY <1>0 DEF StoreStep, StoreTyped, At, LookUpEntity,
       ResolveDeterministicClaimSlot,
       StoreRow, CreateClaim, CreateVersion, FindByName, FindByLikeness,
       MergeAlias, CreateEntity, LinkMemoryToEntity, MissMention,
       StoreRelation, FinishLinking
  <2> QED
    BY <2>1, StoresAssumption DEF IsSeq, Mentions
<1>e. l.pc \in WithRow => l.row \in Ids
  BY <1>0, <1>c DEF StoreTyped
<1>f. l.pc \in Resolutions => l.next \in DOMAIN Mentions(j)
  BY <1>0, <1>c DEF StoreTyped
<1>d. ASSUME NEW changes, Go(j, changes), StoreTyped(j)',
             "row" \notin DOMAIN changes, Ids' = Ids, RowsTyped', EntitiesTyped'
      PROVE  Typed'
  <2>1. store'[j].row = store[j].row
    BY <1>d, GoSets
  <2> QED
    BY <1>0, <1>d, <2>1, GoFacts, LinkerTypes
<1>12. CASE LookUpEntity(j)
  <2>1. PICK looked : Go(j, [looked |-> looked])
    BY <1>12 DEF LookUpEntity
  <2>2. /\ store'[j].pc = "new" /\ store'[j].row = l.row /\ store'[j].todo = l.todo
        /\ DOMAIN store'[j] = DOMAIN l /\ l.pc = "new" /\ Ids' = Ids
    <3>1. l.pc = "new" /\ Ids' = Ids
      BY <1>12 DEF LookUpEntity, At, Ids
    <3> QED
      BY <2>1, <3>1, GoSets
  <2>3. StoreTyped(j)'
    BY <1>0, <1>c, <2>2 DEF StoreTyped, WithRow, Resolutions
  <2> QED
    BY <1>12, <1>a, <1>b, <1>d, <2>1, <2>3 DEF LookUpEntity
<1>1. CASE ResolveDeterministicClaimSlot(j)
  <2>1. PICK slot : Go(j, [pc |-> "row", slot |-> slot, looked |-> <<>>])
    BY <1>1 DEF ResolveDeterministicClaimSlot
  <2>2. /\ store'[j].pc = "row" /\ store'[j].row = l.row /\ store'[j].todo = l.todo
        /\ DOMAIN store'[j] = DOMAIN l /\ l.pc = "new" /\ Ids' = Ids
    <3>1. store'[j] = Changed(l, [pc |-> "row", slot |-> slot, looked |-> <<>>])
      BY <1>0, <2>1, GoFacts
    <3>2. l.pc = "new" /\ Ids' = Ids
      BY <1>1 DEF ResolveDeterministicClaimSlot, At, Ids
    <3> QED
      BY <1>0, <3>1, <3>2 DEF Changed, StoreTyped
  <2>3. StoreTyped(j)'
    BY <1>0, <1>c, <2>2 DEF StoreTyped, WithRow, Resolutions
  <2> QED
    BY <1>1, <1>a, <1>b, <1>d, <2>1, <2>3 DEF ResolveDeterministicClaimSlot
<1>2. CASE StoreRow(j)
  <2>1. /\ RowsTyped' /\ Ids' = Ids \cup {Len(rows) + 1}
        /\ Len(rows) + 1 \notin Ids /\ EntitiesTyped'
    BY <1>2, <1>b, StoreRowRows DEF StoreRow
  <2>2. Go(j, [pc |-> "claim", row |-> Len(rows) + 1])
    BY <1>2 DEF StoreRow
  <2>3. StoreTyped(j)' /\ store'[j].row = Len(rows) + 1
    <3>1. /\ store'[j].pc = "claim" /\ store'[j].row = Len(rows) + 1
          /\ store'[j].todo = l.todo /\ DOMAIN store'[j] = DOMAIN l
      BY <2>2, GoSets
    <3> QED
      BY <1>0, <1>c, <2>1, <3>1 DEF StoreTyped, WithRow, Resolutions
  <2> QED
    BY <1>0, <2>1, <2>2, <2>3, GoFacts, LinkerTypes
<1>3. CASE CreateClaim(j)
  <2>1. RowsTyped' /\ Ids' = Ids /\ EntitiesTyped' /\ l.row \in Ids
    BY <1>3, <1>b, CreateClaimRows DEF CreateClaim
  <2>2. Go(j, [pc |-> "version"])
    BY <1>3 DEF CreateClaim
  <2>3. StoreTyped(j)'
    <3>1. store'[j].pc = "version"
      BY <2>2, GoSets
    <3> QED
      BY <1>c, <2>1, <2>2, <3>1, KeepsRow DEF WithRow, Resolutions
  <2> QED
    BY <1>d, <2>1, <2>2, <2>3
<1>4. CASE CreateVersion(j)
  <2>1. RowsTyped' /\ Ids' = Ids /\ EntitiesTyped' /\ l.row \in Ids
    BY <1>4, <1>b, CreateVersionRows DEF CreateVersion
  <2> DEFINE after == NextMention(j, 1)
  <2>2. Go(j, after)
    BY <1>4 DEF CreateVersion
  <2>3. /\ DOMAIN after = {"pc", "next"}
        /\ \/ after.pc = "find" /\ after.next \in DOMAIN Mentions(j)
           \/ after.pc = "relate"
    BY <1>c, NextMentionFacts
  <2> HIDE DEF after
  <2>4. StoreTyped(j)'
    <3>1. store'[j].pc = after.pc /\ store'[j].next = after.next
      BY <2>2, <2>3, GoSets
    <3> QED
      BY <1>c, <2>1, <2>2, <2>3, <3>1, KeepsRow DEF WithRow, Resolutions
  <2> QED
    BY <1>d, <2>1, <2>2, <2>3, <2>4
<1>5. CASE FindByName(j)
  <2> DEFINE found == FindDeterministicEntity(Mention(j))
             pc == IF found = {} THEN "similar" ELSE "merge"
             match == IF found = {} THEN None ELSE CHOOSE e \in found : TRUE
  <2>1. Go(j, [pc |-> pc, match |-> match]) /\ pc \in {"similar", "merge"}
    BY <1>5 DEF FindByName
  <2> HIDE DEF pc, match
  <2>2. StoreTyped(j)'
    <3>1. store'[j].pc = pc /\ store'[j].next = l.next
      BY <2>1, GoSets
    <3>2. l.pc = "find" /\ Ids' = Ids
      BY <1>5 DEF FindByName, At, Ids
    <3> QED
      BY <1>c, <1>e, <1>f, <2>1, <3>1, <3>2, KeepsRow DEF WithRow, Resolutions
  <2> QED
    BY <1>5, <1>a, <1>b, <1>d, <2>1, <2>2 DEF FindByName
<1>6. CASE FindByLikeness(j)
  <2>1. \/ Go(j, [pc |-> "create"])
        \/ \E e : Go(j, [pc |-> "merge", match |-> e])
    BY <1>6 DEF FindByLikeness
  <2>2. CASE Go(j, [pc |-> "create"])
    <3>1. StoreTyped(j)'
      <4>1. store'[j].pc = "create" /\ store'[j].next = l.next
        BY <2>2, GoSets
      <4>2. l.pc = "similar" /\ Ids' = Ids
        BY <1>6 DEF FindByLikeness, At, Ids
      <4> QED
        BY <1>c, <1>e, <1>f, <2>2, <4>1, <4>2, KeepsRow DEF WithRow, Resolutions
    <3> QED
      BY <1>6, <1>a, <1>b, <1>d, <2>2, <3>1 DEF FindByLikeness
  <2>3. ASSUME NEW e, Go(j, [pc |-> "merge", match |-> e])
        PROVE  Typed'
    <3>1. StoreTyped(j)'
      <4>1. store'[j].pc = "merge" /\ store'[j].next = l.next
        BY <2>3, GoSets
      <4>2. l.pc = "similar" /\ Ids' = Ids
        BY <1>6 DEF FindByLikeness, At, Ids
      <4> QED
        BY <1>c, <1>e, <1>f, <2>3, <4>1, <4>2, KeepsRow DEF WithRow, Resolutions
    <3> QED
      BY <1>6, <1>a, <1>b, <1>d, <2>3, <3>1 DEF FindByLikeness
  <2> QED
    BY <2>1, <2>2, <2>3
<1>7. CASE MergeAlias(j)
  <2>1. EntitiesTyped' /\ DOMAIN entities' = DOMAIN entities
    <3> DEFINE v == [entities[l.match] EXCEPT !.names =
                       @ \cup {Normal[Mention(j).name]}]
    <3>1. entities' = [entities EXCEPT ![l.match] = v]
      BY <1>7 DEF MergeAlias
    <3>2. l.match \in DOMAIN entities => {"type", "names"} \subseteq DOMAIN v
      BY <1>0 DEF EntitiesTyped
    <3> HIDE DEF v
    <3> QED
      BY <1>0, <3>1, <3>2, EntityChanges
  <2>2. StoreTyped(j)'
    <3>1. Go(j, [pc |-> "link"]) /\ l.pc = "merge" /\ Ids' = Ids
      BY <1>7 DEF MergeAlias, At, Ids
    <3>2. store'[j].pc = "link" /\ store'[j].next = l.next
      BY <3>1, GoSets
    <3> QED
      BY <1>c, <1>e, <1>f, <3>1, <3>2, KeepsRow DEF WithRow, Resolutions
  <2> QED
    BY <1>7, <1>a, <1>d, <2>1, <2>2 DEF MergeAlias
<1>8. CASE CreateEntity(j)
  <2>1. EntitiesTyped'
    <3> DEFINE v == [type |-> Mention(j).type, name |-> Mention(j).name,
                     names |-> {Normal[Mention(j).name]}]
    <3>1. entities' = Append(entities, v) /\ {"type", "names"} \subseteq DOMAIN v
      BY <1>8 DEF CreateEntity
    <3> HIDE DEF v
    <3> QED
      BY <1>0, <3>1, EntityAdded
  <2>2. StoreTyped(j)'
    <3>1. /\ Go(j, [pc |-> "link", match |-> Len(entities) + 1])
          /\ l.pc = "create" /\ Ids' = Ids
      BY <1>8 DEF CreateEntity, At, Ids
    <3>2. store'[j].pc = "link" /\ store'[j].next = l.next
      BY <3>1, GoSets
    <3> QED
      BY <1>c, <1>e, <1>f, <3>1, <3>2, KeepsRow DEF WithRow, Resolutions
  <2> QED
    BY <1>8, <1>a, <1>d, <2>1, <2>2 DEF CreateEntity
<1>9. CASE LinkMemoryToEntity(j) \/ MissMention(j)
  <2> DEFINE after == NextMention(j, l.next + 1)
  <2>1. l.pc \in Resolutions /\ l.next \in DOMAIN Mentions(j) /\ l.row \in Ids
    BY <1>0, <1>9, <1>c
       DEF LinkMemoryToEntity, MissMention, At, StoreTyped, Resolutions, WithRow
  <2>2. l.next + 1 \in Nat \ {0}
    BY <1>c, <2>1, Places
  <2>3. /\ DOMAIN after = {"pc", "next"}
        /\ \/ after.pc = "find" /\ after.next \in DOMAIN Mentions(j)
           \/ after.pc = "relate"
    BY <1>c, <2>2, NextMentionFacts
  <2>4. \/ \E known : Go(j, [pc |-> after.pc, next |-> after.next, known |-> known])
        \/ Go(j, [pc |-> after.pc, next |-> after.next, missed |-> TRUE])
    BY <1>9 DEF LinkMemoryToEntity, MissMention
  <2>5. UNCHANGED <<rows, entities>>
    BY <1>9 DEF LinkMemoryToEntity, MissMention
  <2> HIDE DEF after
  <2>6. ASSUME NEW known,
               Go(j, [pc |-> after.pc, next |-> after.next, known |-> known])
        PROVE  Typed'
    <3>1. StoreTyped(j)'
      <4>1. store'[j].pc = after.pc /\ store'[j].next = after.next /\ Ids' = Ids
        BY <2>5, <2>6, GoSets DEF Ids
      <4> QED
        BY <1>c, <2>1, <2>3, <2>6, <4>1, KeepsRow DEF WithRow, Resolutions
    <3> QED
      BY <1>a, <1>b, <1>d, <2>5, <2>6, <3>1
  <2>7. CASE Go(j, [pc |-> after.pc, next |-> after.next, missed |-> TRUE])
    <3>1. StoreTyped(j)'
      <4>1. store'[j].pc = after.pc /\ store'[j].next = after.next /\ Ids' = Ids
        BY <2>5, <2>7, GoSets DEF Ids
      <4> QED
        BY <1>c, <2>1, <2>3, <2>7, <4>1, KeepsRow DEF WithRow, Resolutions
    <3> QED
      BY <1>a, <1>b, <1>d, <2>5, <2>7, <3>1
  <2> QED
    BY <2>4, <2>6, <2>7
<1>10. CASE StoreRelation(j)
  <2>1. StoreTyped(j)'
    <3>1. Go(j, [next |-> l.next + 1]) /\ l.pc = "relate" /\ Ids' = Ids
      BY <1>10 DEF StoreRelation, At, Ids
    <3>2. store'[j].pc = "relate"
      BY <3>1, GoSets
    <3> QED
      BY <1>c, <1>e, <3>1, <3>2, KeepsRow DEF WithRow, Resolutions
  <2> QED
    BY <1>10, <1>a, <1>b, <1>d, <2>1 DEF StoreRelation
<1>11. CASE FinishLinking(j)
  <2>1. l.row \in Ids
    BY <1>0, <1>11, <1>c DEF FinishLinking, At, StoreTyped, WithRow
  <2>2. CASE Go(j, [pc |-> "derive", todo |-> {l.row}])
    <3>1. StoreTyped(j)'
      <4>1. /\ store'[j].pc = "derive" /\ store'[j].row = l.row
            /\ store'[j].todo = {l.row} /\ DOMAIN store'[j] = DOMAIN l
        BY <2>2, GoSets
      <4>2. Ids' = Ids
        BY <1>11 DEF FinishLinking, Ids
      <4> QED
        BY <1>0, <1>c, <2>1, <4>1, <4>2 DEF StoreTyped, WithRow, Resolutions
    <3> QED
      BY <1>11, <1>a, <1>b, <1>d, <2>2, <3>1 DEF FinishLinking
  <2>3. CASE Go(j, [pc |-> "done"])
    <3>1. StoreTyped(j)'
      <4>1. store'[j].pc = "done" /\ Ids' = Ids
        BY <1>11, <2>3, GoSets DEF FinishLinking, Ids
      <4> QED
        BY <1>c, <2>1, <2>3, <4>1, KeepsRow DEF WithRow, Resolutions
    <3> QED
      BY <1>11, <1>a, <1>b, <1>d, <2>3, <3>1 DEF FinishLinking
  <2> QED
    BY <1>11, <2>2, <2>3 DEF FinishLinking
<1> QED
  BY <1>1, <1>2, <1>3, <1>4, <1>5, <1>6, <1>7, <1>8, <1>9, <1>10, <1>11,
     <1>12 DEF StoreStep

(* Deriving a slot, and dying.                                             *)
LEMMA RepairTypes ==
  ASSUME Typed, NEW j \in Linkers,
         \/ ListClaimsMissingSlots(j) \/ DeriveSlot(j) \/ UpdateClaimSlot(j)
         \/ AbortLinking(j),
         UNCHANGED upkeep
  PROVE  Typed'
<1> DEFINE l == store[j]
<1>0. /\ StoreTyped(j) /\ DOMAIN store = Linkers
      /\ RowsTyped /\ EntitiesTyped
  BY DEF Typed
<1>a. UNCHANGED rows => RowsTyped' /\ Ids' = Ids
  BY <1>0 DEF RowsTyped, Ids
<1>b. EntitiesTyped'
  BY <1>0 DEF EntitiesTyped, ListClaimsMissingSlots, DeriveSlot, UpdateClaimSlot,
     AbortLinking
<1>1. CASE ListClaimsMissingSlots(j)
  <2>1. PICK todo \in SUBSET Ids : Go(j, [pc |-> "derive", todo |-> todo])
    BY <1>1 DEF ListClaimsMissingSlots
  <2>2. j \notin StoreJobs
    BY <1>1, JobsAssumption DEF ListClaimsMissingSlots
  <2>3. StoreTyped(j)' /\ store'[j].row = l.row
    <3>1. /\ store'[j].pc = "derive" /\ store'[j].row = l.row
          /\ store'[j].todo = todo /\ DOMAIN store'[j] = DOMAIN l
      BY <2>1, GoSets
    <3>2. Ids' = Ids
      BY <1>1 DEF ListClaimsMissingSlots, Ids
    <3> QED
      BY <1>0, <2>1, <2>2, <3>1, <3>2 DEF StoreTyped
  <2> QED
    BY <1>0, <1>1, <1>a, <1>b, <2>1, <2>3, GoFacts, LinkerTypes
       DEF ListClaimsMissingSlots
<1>2. CASE DeriveSlot(j)
  <2>0. l.pc = "derive" /\ UNCHANGED rows
    BY <1>2 DEF DeriveSlot, At
  <2>1. CASE Go(j, [pc |-> "done"])
    <3>1. StoreTyped(j)' /\ store'[j].row = l.row
      <4>1. /\ store'[j].pc = "done" /\ store'[j].row = l.row
            /\ store'[j].todo = l.todo /\ DOMAIN store'[j] = DOMAIN l
        BY <2>1, GoSets
      <4>2. Ids' = Ids
        BY <2>0 DEF Ids
      <4> QED
        BY <1>0, <2>0, <4>1, <4>2 DEF StoreTyped, WithRow, Resolutions
    <3> QED
      BY <1>0, <1>a, <1>b, <2>0, <2>1, <3>1, GoFacts, LinkerTypes
  <2>2. ASSUME NEW r \in l.todo, NEW slot, NEW pc \in {"derive", "assign"},
               Go(j, [pc |-> pc, row |-> r, slot |-> slot, todo |-> l.todo \ {r}])
        PROVE  Typed'
    <3>1. StoreTyped(j)' /\ (j \in StoreJobs => store'[j].row = l.row)
      <4>1. /\ store'[j].pc = pc /\ store'[j].row = r
            /\ store'[j].todo = l.todo \ {r} /\ DOMAIN store'[j] = DOMAIN l
        BY <2>2, GoSets
      <4>2. Ids' = Ids
        BY <2>0 DEF Ids
      <4> QED
        BY <1>0, <2>0, <2>2, <4>1, <4>2 DEF StoreTyped, WithRow, Resolutions
    <3> QED
      BY <1>0, <1>a, <1>b, <2>0, <2>2, <3>1, GoFacts, LinkerTypes
  <2> QED
    BY <1>2, <2>1, <2>2 DEF DeriveSlot
<1>3. CASE UpdateClaimSlot(j)
  <2>1. RowsTyped' /\ Ids' = Ids /\ l.row \in Ids
    BY <1>3, UpdateClaimSlotRows
  <2>2. Go(j, [pc |-> "derive"]) /\ l.pc = "assign"
    BY <1>3 DEF UpdateClaimSlot, At
  <2>3. StoreTyped(j)' /\ store'[j].row = l.row
    <3>1. /\ store'[j].pc = "derive" /\ store'[j].row = l.row
          /\ store'[j].todo = l.todo /\ DOMAIN store'[j] = DOMAIN l
      BY <2>2, GoSets
    <3> QED
      BY <1>0, <2>1, <2>2, <3>1 DEF StoreTyped, WithRow, Resolutions
  <2> QED
    BY <1>0, <1>3, <1>b, <2>1, <2>2, <2>3, GoFacts, LinkerTypes
<1>4. CASE AbortLinking(j)
  <2>1. Go(j, [pc |-> "dead"]) /\ UNCHANGED rows
    BY <1>4 DEF AbortLinking
  <2>2. StoreTyped(j)' /\ store'[j].row = l.row
    <3>1. /\ store'[j].pc = "dead" /\ store'[j].row = l.row
          /\ store'[j].todo = l.todo /\ DOMAIN store'[j] = DOMAIN l
      BY <2>1, GoSets
    <3>2. Ids' = Ids
      BY <2>1 DEF Ids
    <3> QED
      BY <1>0, <3>1, <3>2 DEF StoreTyped, WithRow, Resolutions
  <2> QED
    BY <1>0, <1>a, <1>b, <2>1, <2>2, GoFacts, LinkerTypes
<1> QED
  BY <1>1, <1>2, <1>3, <1>4

-----------------------------------------------------------------------------
(* Names.                                                                  *)

Has(e, m) ==
  /\ e \in DOMAIN entities /\ entities[e].type = m.type
  /\ Normal[m.name] \in entities[e].names

Key(m) == <<m.type, Normal[m.name]>>

(* The entity a mention was matched with has its type, and its name once   *)
(* it was merged or created.                                               *)
Matches(j) ==
  /\ At(j, "merge") => /\ store[j].match \in DOMAIN entities
                       /\ entities[store[j].match].type = Mention(j).type
  /\ At(j, "link") => Has(store[j].match, Mention(j))

(* Who resolves a name that nobody else was resolving at the time is the   *)
(* only one, and no entity but the one it found has that name.             *)
Alone(j) ==
  /\ store[j].pc \in {"similar", "merge", "create"}
  /\ Key(Mention(j)) \notin raced
  => /\ \A k \in StoreJobs \ {j} : Key(Mention(j)) \notin Resolving(k)
     /\ \A e \in DOMAIN entities :
          Has(e, Mention(j)) => At(j, "merge") /\ e = store[j].match

NamesInv ==
  NamesOnOneEntity /\ \A j \in StoreJobs : Matches(j) /\ Alone(j)

(* A set of numbers that is not empty has a least one.                     *)
LEMMA LeastOf ==
  ASSUME NEW S \in SUBSET Nat, S # {}
  PROVE  \E e \in S : \A d \in S : e <= d
<1>1. PICK e \in S : \A d \in S : ~(<<d, e>> \in OpToRel(<, Nat))
  BY NatLessThanWellFounded, WFMin
<1>2. \A d \in S : ~(d < e)
  BY <1>1 DEF OpToRel
<1> QED
  BY <1>2

(* The lookup by name finds an entity whenever there is one.               *)
LEMMA FoundByName ==
  ASSUME Typed, NEW m
  PROVE  /\ \A e \in FindDeterministicEntity(m) : Has(e, m)
         /\ FindDeterministicEntity(m) = {} => \A e : ~Has(e, m)
<1>1. \A e \in FindDeterministicEntity(m) : Has(e, m)
  BY DEF FindDeterministicEntity, Has
<1>2. ASSUME FindDeterministicEntity(m) = {}, NEW x, Has(x, m)
      PROVE  FALSE
  <2> DEFINE F == {e \in DOMAIN entities :
                     /\ entities[e].type = m.type
                     /\ Normal[m.name] \in entities[e].names}
  <2>1. F \subseteq Nat /\ x \in F
    BY <1>2, Places DEF Has, Typed, EntitiesTyped
  <2>2. PICK e \in F : \A d \in F : e <= d
    <3> HIDE DEF F
    <3> QED
      BY <2>1, LeastOf
  <2>3. e \in FindDeterministicEntity(m)
    BY <2>2 DEF FindDeterministicEntity
  <2> QED
    BY <1>2, <2>3
<1> QED
  BY <1>1, <1>2

(* What a step of another job does not touch.                              *)
LEMMA OthersResolve ==
  ASSUME Typed, NEW j \in Linkers, NEW k \in StoreJobs, k # j,
         \A i \in Linkers : i # j => store'[i] = store[i]
  PROVE  /\ store'[k] = store[k] /\ Mention(k)' = Mention(k)
         /\ Resolving(k)' = Resolving(k)
<1>1. store'[k] = store[k]
  BY DEF Linkers
<1> QED
  BY <1>1 DEF Mention, Resolving

(* Being alone after a step, for a mention that is known.                  *)
LEMMA AloneNext ==
  ASSUME NEW k \in StoreJobs, NEW m, Mention(k)' = m,
         store'[k].pc \in {"similar", "merge", "create"} /\ Key(m) \notin raced' =>
           /\ \A i \in StoreJobs \ {k} : Key(m) \notin Resolving(i)'
           /\ \A e \in DOMAIN entities' :
                Has(e, m)' => store'[k].pc = "merge" /\ e = store'[k].match
  PROVE  Alone(k)'
BY DEF Alone, Has, Key, At

(* A mention that is being resolved.                                       *)
LEMMA ResolvingIts ==
  ASSUME NEW k
  PROVE  /\ store[k].pc \in {"similar", "merge", "create"} =>
              Resolving(k) = {Key(Mention(k))}
         /\ store[k].pc \notin {"similar", "merge", "create"} =>
              Resolving(k) = {}
BY DEF Resolving, Key

(* The same after a step.                                                  *)
LEMMA ResolvingNext ==
  ASSUME NEW k, NEW m, Mention(k)' = m
  PROVE  /\ store'[k].pc \in {"similar", "merge", "create"} =>
              Resolving(k)' = {Key(m)}
         /\ store'[k].pc \notin {"similar", "merge", "create"} =>
              Resolving(k)' = {}
BY DEF Resolving, Key

(* What the others keep when nothing that they resolve is touched.         *)
LEMMA OthersNames ==
  ASSUME Typed, NamesInv, NEW j \in Linkers,
         \A i \in Linkers : i # j => store'[i] = store[i],
         raced \subseteq raced',
         DOMAIN entities \subseteq DOMAIN entities',
         \A e \in DOMAIN entities :
           /\ entities'[e].type = entities[e].type
           /\ entities[e].names \subseteq entities'[e].names,
         NEW k \in StoreJobs, k # j,
         \A m : /\ store[k].pc \in {"similar", "merge", "create"}
                /\ m = Mention(k) /\ Key(m) \notin raced'
           => /\ j \in StoreJobs =>
                   Key(m) \notin Resolving(j)' \/ Key(m) \in Resolving(j)
              /\ \A e \in DOMAIN entities' : Has(e, m)' => Has(e, m)
  PROVE  Matches(k)' /\ Alone(k)'
<1>1. PICK m : m = Mention(k)
  OBVIOUS
<1>2. /\ store'[k] = store[k] /\ Mention(k)' = m
      /\ k \in Linkers
  BY <1>1 DEF Mention, Linkers
<1>3. Matches(k) /\ Alone(k)
  BY DEF NamesInv
<1>4. Matches(k)'
  BY <1>1, <1>2, <1>3 DEF Matches, At, Has
<1>5. ASSUME store[k].pc \in {"similar", "merge", "create"}, Key(m) \notin raced'
      PROVE  /\ \A i \in StoreJobs \ {k} : Key(m) \notin Resolving(i)'
             /\ \A e \in DOMAIN entities' :
                  Has(e, m)' => store'[k].pc = "merge" /\ e = store'[k].match
  <2>1. /\ \A i \in StoreJobs \ {k} : Key(m) \notin Resolving(i)
        /\ \A e \in DOMAIN entities :
             Has(e, m) => At(k, "merge") /\ e = store[k].match
    BY <1>1, <1>3, <1>5 DEF Alone
  <2>2. \A i \in StoreJobs \ {k} : i # j => Resolving(i)' = Resolving(i)
    BY OthersResolve
  <2>3. j \in StoreJobs => Key(m) \notin Resolving(j)'
    BY <1>1, <1>5, <2>1
  <2>4. \A e \in DOMAIN entities' : Has(e, m)' => Has(e, m)
    BY <1>1, <1>5
  <2>5. \A e : Has(e, m) => e \in DOMAIN entities
    BY DEF Has
  <2> QED
    BY <1>2, <2>1, <2>2, <2>3, <2>4, <2>5 DEF At
<1>6. Alone(k)'
  BY <1>2, <1>5, AloneNext
<1> QED
  BY <1>4, <1>6

(* The lookup by name: who looks for what another is resolving is noted.   *)
LEMMA NamesFindByName ==
  ASSUME Typed, NamesInv, NEW j \in StoreJobs, FindByName(j)
  PROVE  NamesInv'
<1> DEFINE found == FindDeterministicEntity(Mention(j))
           pc == IF found = {} THEN "similar" ELSE "merge"
           match == IF found = {} THEN None ELSE CHOOSE e \in found : TRUE
<1>0. j \in Linkers /\ DOMAIN store = Linkers
  BY DEF Linkers, Typed
<1>m. PICK m : m = Mention(j)
  OBVIOUS
<1>1. /\ At(j, "find") /\ Go(j, [pc |-> pc, match |-> match])
      /\ UNCHANGED entities
      /\ raced' = raced \cup ({Key(m)} \cap UNION {Resolving(k) : k \in StoreJobs})
  BY <1>m DEF FindByName, Key
<1>2. /\ store'[j].pc = pc /\ store'[j].match = match /\ store'[j].next = store[j].next
      /\ \A i \in Linkers : i # j => store'[i] = store[i]
  <2> HIDE DEF pc, match
  <2> QED
    BY <1>0, <1>1, GoFacts, GoSets
<1>3. Mention(j)' = m
  BY <1>2, <1>m DEF Mention
<1>4. /\ pc = "similar" => \A e : ~Has(e, m)
      /\ pc = "merge" => match \in found /\ Has(match, m)
      /\ pc \in {"similar", "merge"}
  BY <1>m, FoundByName
<1> HIDE DEF pc, match, found
<1>5. \A e \in DOMAIN entities' : \A n : Has(e, n)' => Has(e, n)
  BY <1>1 DEF Has
<1>6. Resolving(j)' = {Key(m)}
  BY <1>2, <1>3, <1>4, ResolvingNext
<1>7. Matches(j)'
  BY <1>1, <1>2, <1>3, <1>4 DEF Matches, At, Has
<1>8. Alone(j)'
  <2>0. SUFFICES ASSUME Key(m) \notin raced'
        PROVE  /\ \A k \in StoreJobs \ {j} : Key(m) \notin Resolving(k)'
               /\ \A e \in DOMAIN entities' :
                    Has(e, m)' => store'[j].pc = "merge" /\ e = store'[j].match
    BY <1>3, AloneNext
  <2>1. \A k \in StoreJobs : Key(m) \notin Resolving(k) /\ Key(m) \notin raced
    BY <1>1, <2>0
  <2>2. \A k \in StoreJobs \ {j} : Resolving(k)' = Resolving(k)
    BY <1>0, <1>2, OthersResolve
  <2>3. ASSUME NEW e \in DOMAIN entities, Has(e, m)
        PROVE  pc = "merge" /\ e = match
    <3>1. pc = "merge" /\ Has(match, m)
      BY <1>4, <2>3
    <3>2. CASE e # match
      <4>1. /\ entities[e].type = entities[match].type
            /\ Normal[m.name] \in entities[e].names \cap entities[match].names
            /\ match \in DOMAIN entities /\ entities[e].type = m.type
        BY <2>3, <3>1 DEF Has
      <4>2. <<entities[e].type, Normal[m.name]>> \in raced
        BY <3>2, <4>1 DEF NamesInv, NamesOnOneEntity
      <4> QED
        BY <2>0, <2>1, <4>1, <4>2 DEF Key
    <3> QED
      BY <3>1, <3>2
  <2> QED
    BY <1>1, <1>2, <1>5, <2>1, <2>2, <2>3
<1>9. ASSUME NEW k \in StoreJobs, k # j PROVE Matches(k)' /\ Alone(k)'
  <2>1. ASSUME NEW n, store[k].pc \in {"similar", "merge", "create"},
               n = Mention(k), Key(n) \notin raced'
        PROVE  Key(n) \notin Resolving(j)'
    <3>1. Key(n) \in Resolving(k)
      BY <2>1, ResolvingIts
    <3> QED
      BY <1>1, <1>6, <2>1, <3>1
  <2>2. raced \subseteq raced'
    BY <1>1
  <2> QED
    BY <1>0, <1>1, <1>2, <1>5, <1>9, <2>1, <2>2, OthersNames
<1>10. NamesOnOneEntity'
  BY <1>1 DEF NamesInv, NamesOnOneEntity
<1> QED
  BY <1>7, <1>8, <1>9, <1>10 DEF NamesInv

(* The lookup by likeness: the entity found has the type of the mention.   *)
LEMMA NamesFindByLikeness ==
  ASSUME Typed, NamesInv, NEW j \in StoreJobs, FindByLikeness(j)
  PROVE  NamesInv'
<1>0. j \in Linkers /\ DOMAIN store = Linkers
  BY DEF Linkers, Typed
<1>m. PICK m : m = Mention(j)
  OBVIOUS
<1>1. /\ store[j].pc = "similar" /\ UNCHANGED <<entities, raced>>
      /\ \/ Go(j, [pc |-> "create"])
         \/ \E e \in FindSimilarEntity(m) : Go(j, [pc |-> "merge", match |-> e])
  BY <1>m DEF FindByLikeness, At
<1>2. /\ \A i \in Linkers : i # j => store'[i] = store[i]
      /\ store'[j].next = store[j].next
      /\ \/ store'[j].pc = "create"
         \/ store'[j].pc = "merge" /\ store'[j].match \in FindSimilarEntity(m)
  <2>1. CASE Go(j, [pc |-> "create"])
    BY <1>0, <2>1, GoFacts, GoSets
  <2>2. ASSUME NEW e \in FindSimilarEntity(m), Go(j, [pc |-> "merge", match |-> e])
        PROVE  /\ \A i \in Linkers : i # j => store'[i] = store[i]
               /\ store'[j].next = store[j].next
               /\ store'[j].pc = "merge" /\ store'[j].match \in FindSimilarEntity(m)
    BY <1>0, <2>2, GoFacts, GoSets
  <2> QED
    BY <1>1, <2>1, <2>2
<1>3. Mention(j)' = m
  BY <1>2, <1>m DEF Mention
<1>4. \A e \in FindSimilarEntity(m) :
        e \in DOMAIN entities /\ entities[e].type = m.type
  BY DEF FindSimilarEntity
<1>5. \A e \in DOMAIN entities' : \A n : Has(e, n)' => Has(e, n)
  BY <1>1 DEF Has
<1>6. Resolving(j)' = {Key(m)} /\ Resolving(j) = {Key(m)}
  BY <1>1, <1>2, <1>3, <1>m, ResolvingNext, ResolvingIts
<1>7. Matches(j)'
  BY <1>1, <1>2, <1>3, <1>4 DEF Matches, At
<1>8. Alone(j)'
  <2>0. SUFFICES ASSUME Key(m) \notin raced'
        PROVE  /\ \A k \in StoreJobs \ {j} : Key(m) \notin Resolving(k)'
               /\ \A e \in DOMAIN entities' : ~Has(e, m)'
    BY <1>3, AloneNext
  <2>1. /\ \A k \in StoreJobs \ {j} : Key(m) \notin Resolving(k)
        /\ \A e \in DOMAIN entities : ~Has(e, m)
    BY <1>1, <1>m, <2>0 DEF NamesInv, Alone, At
  <2>2. \A k \in StoreJobs \ {j} : Resolving(k)' = Resolving(k)
    BY <1>0, <1>2, OthersResolve
  <2> QED
    BY <1>1, <1>5, <2>1, <2>2
<1>9. ASSUME NEW k \in StoreJobs, k # j PROVE Matches(k)' /\ Alone(k)'
  BY <1>0, <1>1, <1>2, <1>5, <1>6, <1>9, OthersNames
<1>10. NamesOnOneEntity'
  BY <1>1 DEF NamesInv, NamesOnOneEntity
<1> QED
  BY <1>7, <1>8, <1>9, <1>10 DEF NamesInv

(* Steps that change neither entities nor races, and begin no resolution.  *)
LEMMA NamesUntouched ==
  ASSUME Typed, NamesInv, NEW j \in Linkers,
         \A i \in Linkers : i # j => store'[i] = store[i],
         UNCHANGED <<entities, raced>>,
         store'[j].pc \notin {"similar", "merge", "create", "link"}
  PROVE  NamesInv'
<1>1. Resolving(j)' = {}
  BY DEF Resolving
<1>2. ASSUME NEW k \in StoreJobs PROVE Matches(k)' /\ Alone(k)'
  <2>1. CASE k = j
    BY <2>1 DEF Matches, Alone, At
  <2>2. CASE k # j
    <3>1. \A e \in DOMAIN entities' : \A m : Has(e, m)' => Has(e, m)
      BY DEF Has
    <3> QED
      BY <1>1, <2>2, <3>1, OthersNames
  <2> QED
    BY <2>1, <2>2
<1>3. NamesOnOneEntity'
  BY DEF NamesInv, NamesOnOneEntity
<1> QED
  BY <1>2, <1>3 DEF NamesInv

(* An alias: nobody else has it, or is resolving it, unless it was raced.  *)
LEMMA NamesMergeAlias ==
  ASSUME Typed, NamesInv, NEW j \in StoreJobs, MergeAlias(j)
  PROVE  NamesInv'
<1>0. j \in Linkers /\ DOMAIN store = Linkers /\ EntitiesTyped
  BY DEF Linkers, Typed
<1>m. PICK m : m = Mention(j)
  OBVIOUS
<1>x. PICK x : x = store[j].match
  OBVIOUS
<1> DEFINE v == [entities[x] EXCEPT !.names = @ \cup {Normal[m.name]}]
<1>1. /\ store[j].pc = "merge" /\ UNCHANGED raced /\ Go(j, [pc |-> "link"])
      /\ entities' = [entities EXCEPT ![x] = v]
      /\ x \in DOMAIN entities /\ entities[x].type = m.type
  BY <1>m, <1>x DEF MergeAlias, At, NamesInv, Matches
<1>2. /\ {"type", "names"} \subseteq DOMAIN v
      /\ v.type = m.type /\ v.names = entities[x].names \cup {Normal[m.name]}
  BY <1>0, <1>1 DEF EntitiesTyped
<1> HIDE DEF v
<1>3. /\ DOMAIN entities' = DOMAIN entities
      /\ \A e \in DOMAIN entities :
           entities'[e] = IF e = x THEN v ELSE entities[e]
  BY <1>0, <1>1, <1>2, EntityChanges
<1>4. /\ \A i \in Linkers : i # j => store'[i] = store[i]
      /\ store'[j].next = store[j].next /\ store'[j].match = x
      /\ store'[j].pc = "link"
  BY <1>0, <1>1, <1>x, GoFacts, GoSets
<1>5. Mention(j)' = m
  BY <1>4, <1>m DEF Mention
<1>6. Resolving(j) = {Key(m)} /\ Resolving(j)' = {}
  BY <1>1, <1>4, <1>5, <1>m, ResolvingNext, ResolvingIts
<1>7. Matches(j)'
  <2>1. Has(x, m)'
    BY <1>1, <1>2, <1>3 DEF Has
  <2> QED
    BY <1>4, <1>5, <2>1 DEF Matches, At, Has
<1>8. Alone(j)'
  BY <1>4, <1>5, AloneNext
<1>9. ASSUME NEW k \in StoreJobs, k # j PROVE Matches(k)' /\ Alone(k)'
  <2>1. ASSUME NEW n, store[k].pc \in {"similar", "merge", "create"},
               n = Mention(k), Key(n) \notin raced',
               NEW e \in DOMAIN entities', Has(e, n)'
        PROVE  Has(e, n)
    <3>1. Key(n) # Key(m)
      <4>1. Alone(k) /\ Key(n) \notin raced
        BY <1>1, <2>1 DEF NamesInv
      <4>2. Key(n) \notin Resolving(j)
        BY <1>9, <2>1, <4>1 DEF Alone
      <4> QED
        BY <1>6, <4>2
    <3>2. CASE e = x
      <4>1. entities'[x] = v /\ v.type = n.type /\ Normal[n.name] \in v.names
        BY <1>1, <1>3, <2>1, <3>2 DEF Has
      <4>2. Normal[n.name] # Normal[m.name]
        BY <1>2, <3>1, <4>1 DEF Key
      <4> QED
        BY <1>1, <1>2, <3>2, <4>1, <4>2 DEF Has
    <3> QED
      BY <1>3, <2>1, <3>2 DEF Has
  <2>2. /\ \A e \in DOMAIN entities :
             /\ entities'[e].type = entities[e].type
             /\ entities[e].names \subseteq entities'[e].names
        /\ raced \subseteq raced'
    BY <1>1, <1>2, <1>3
  <2> QED
    BY <1>0, <1>3, <1>4, <1>6, <1>9, <2>1, <2>2, OthersNames
<1>10. NamesOnOneEntity'
  <2>1. ASSUME NEW e \in DOMAIN entities, e # x, entities[e].type = m.type,
               NEW n \in v.names \cap entities[e].names
        PROVE  <<m.type, n>> \in raced
    <3>1. CASE n \in entities[x].names
      BY <1>1, <2>1, <3>1 DEF NamesInv, NamesOnOneEntity
    <3>2. CASE n = Normal[m.name]
      <4>1. Has(e, m)
        BY <2>1, <3>2 DEF Has
      <4>2. Alone(j)
        BY DEF NamesInv
      <4>3. Key(m) \in raced
        BY <1>1, <1>m, <1>x, <2>1, <4>1, <4>2 DEF Alone
      <4> QED
        BY <3>2, <4>3 DEF Key
    <3> QED
      BY <1>2, <2>1, <3>1, <3>2
  <2>2. ASSUME NEW d \in DOMAIN entities', NEW e \in DOMAIN entities', d # e,
               entities'[d].type = entities'[e].type,
               NEW n \in entities'[d].names \cap entities'[e].names
        PROVE  <<entities'[d].type, n>> \in raced'
    <3>1. CASE d = x
      BY <1>1, <1>2, <1>3, <2>1, <2>2, <3>1
    <3>2. CASE e = x
      BY <1>1, <1>2, <1>3, <2>1, <2>2, <3>2
    <3>3. CASE d # x /\ e # x
      <4>1. entities'[d] = entities[d] /\ entities'[e] = entities[e]
        BY <1>3, <2>2, <3>3
      <4> QED
        BY <1>1, <1>3, <2>2, <4>1 DEF NamesInv, NamesOnOneEntity
    <3> QED
      BY <3>1, <3>2, <3>3
  <2> QED
    BY <2>2 DEF NamesOnOneEntity
<1> QED
  BY <1>7, <1>8, <1>9, <1>10 DEF NamesInv

(* A new entity: nobody else has its name, unless it was raced.            *)
LEMMA NamesCreateEntity ==
  ASSUME Typed, NamesInv, NEW j \in StoreJobs, CreateEntity(j)
  PROVE  NamesInv'
<1>0. j \in Linkers /\ DOMAIN store = Linkers /\ EntitiesTyped
  BY DEF Linkers, Typed
<1>m. PICK m : m = Mention(j)
  OBVIOUS
<1>x. PICK x : x = Len(entities) + 1
  OBVIOUS
<1> DEFINE v == [type |-> m.type, name |-> m.name, names |-> {Normal[m.name]}]
<1>1. /\ store[j].pc = "create" /\ UNCHANGED raced
      /\ Go(j, [pc |-> "link", match |-> x])
      /\ entities' = Append(entities, v)
  BY <1>m, <1>x DEF CreateEntity, At
<1>2. /\ {"type", "names"} \subseteq DOMAIN v
      /\ v.type = m.type /\ v.names = {Normal[m.name]}
  OBVIOUS
<1> HIDE DEF v
<1>3. /\ DOMAIN entities' = DOMAIN entities \cup {x} /\ entities'[x] = v
      /\ \A e \in DOMAIN entities : entities'[e] = entities[e] /\ e # x
  BY <1>0, <1>1, <1>2, <1>x, EntityAdded
<1>4. /\ \A i \in Linkers : i # j => store'[i] = store[i]
      /\ store'[j].next = store[j].next /\ store'[j].match = x
      /\ store'[j].pc = "link"
  BY <1>0, <1>1, GoFacts, GoSets
<1>5. Mention(j)' = m
  BY <1>4, <1>m DEF Mention
<1>6. Resolving(j) = {Key(m)} /\ Resolving(j)' = {}
  BY <1>1, <1>4, <1>5, <1>m, ResolvingNext, ResolvingIts
<1>7. Matches(j)'
  <2>1. Has(x, m)'
    BY <1>1, <1>2, <1>3 DEF Has
  <2> QED
    BY <1>4, <1>5, <2>1 DEF Matches, At, Has
<1>8. Alone(j)'
  BY <1>4, <1>5, AloneNext
<1>9. ASSUME NEW k \in StoreJobs, k # j PROVE Matches(k)' /\ Alone(k)'
  <2>1. ASSUME NEW n, store[k].pc \in {"similar", "merge", "create"},
               n = Mention(k), Key(n) \notin raced',
               NEW e \in DOMAIN entities', Has(e, n)'
        PROVE  Has(e, n)
    <3>1. Key(n) # Key(m)
      <4>1. Alone(k) /\ Key(n) \notin raced
        BY <1>1, <2>1 DEF NamesInv
      <4>2. Key(n) \notin Resolving(j)
        BY <1>9, <2>1, <4>1 DEF Alone
      <4> QED
        BY <1>6, <4>2
    <3>2. e # x
      <4>1. SUFFICES ASSUME e = x PROVE FALSE
        OBVIOUS
      <4>2. v.type = n.type /\ Normal[n.name] \in v.names
        BY <1>3, <2>1, <4>1 DEF Has
      <4> QED
        BY <1>2, <3>1, <4>2 DEF Key
    <3> QED
      BY <1>3, <2>1, <3>2 DEF Has
  <2>2. /\ \A e \in DOMAIN entities :
             /\ entities'[e].type = entities[e].type
             /\ entities[e].names \subseteq entities'[e].names
        /\ raced \subseteq raced' /\ DOMAIN entities \subseteq DOMAIN entities'
    BY <1>1, <1>2, <1>3
  <2> QED
    BY <1>0, <1>4, <1>6, <1>9, <2>1, <2>2, OthersNames
<1>10. NamesOnOneEntity'
  <2>1. ASSUME NEW e \in DOMAIN entities, entities[e].type = m.type,
               Normal[m.name] \in entities[e].names
        PROVE  <<m.type, Normal[m.name]>> \in raced
    <3>1. Has(e, m) /\ Alone(j)
      BY <2>1 DEF Has, NamesInv
    <3>2. Key(m) \in raced
      BY <1>1, <1>m, <2>1, <3>1 DEF Alone, At
    <3> QED
      BY <3>2 DEF Key
  <2>2. ASSUME NEW d \in DOMAIN entities', NEW e \in DOMAIN entities', d # e,
               entities'[d].type = entities'[e].type,
               NEW n \in entities'[d].names \cap entities'[e].names
        PROVE  <<entities'[d].type, n>> \in raced'
    <3>1. CASE d = x
      BY <1>1, <1>2, <1>3, <2>1, <2>2, <3>1
    <3>2. CASE e = x
      BY <1>1, <1>2, <1>3, <2>1, <2>2, <3>2
    <3>3. CASE d # x /\ e # x
      <4>1. /\ entities'[d] = entities[d] /\ entities'[e] = entities[e]
            /\ d \in DOMAIN entities /\ e \in DOMAIN entities
        BY <1>3, <2>2, <3>3
      <4> QED
        BY <1>1, <2>2, <4>1 DEF NamesInv, NamesOnOneEntity
    <3> QED
      BY <3>1, <3>2, <3>3
  <2> QED
    BY <2>2 DEF NamesOnOneEntity
<1> QED
  BY <1>7, <1>8, <1>9, <1>10 DEF NamesInv

(* A link: the entity that was matched has the name.  Then all other steps. *)
LEMMA NamesStep ==
  ASSUME Typed, NamesInv, NextGraph
  PROVE  NamesInv'
<1>1. PICK j \in Linkers : \/ StoreStep(j) \/ ListClaimsMissingSlots(j)
                           \/ DeriveSlot(j) \/ UpdateClaimSlot(j) \/ AbortLinking(j)
  BY DEF NextGraph
<1>0. /\ DOMAIN store = Linkers /\ StoreTyped(j)
      /\ \A k \in Linkers \ StoreJobs : store[k].pc \notin Resolutions
  BY <1>1 DEF Typed, StoreTyped, Resolutions
<1>2. ASSUME NEW changes, Go(j, changes), UNCHANGED <<entities, raced>>,
             store'[j].pc \notin {"similar", "merge", "create", "link"}
      PROVE  NamesInv'
  <2>1. \A i \in Linkers : i # j => store'[i] = store[i]
    BY <1>0, <1>2, GoFacts
  <2> QED
    BY <1>2, <2>1, NamesUntouched
<1>a. j \notin StoreJobs => store[j].pc \in {"none", "new", "derive", "assign", "done", "dead"}
  BY <1>0 DEF StoreTyped
<1>3. CASE FindByName(j) \/ FindByLikeness(j) \/ MergeAlias(j) \/ CreateEntity(j)
  <2>1. j \in StoreJobs
    BY <1>3, <1>a DEF FindByName, FindByLikeness, MergeAlias, CreateEntity, At
  <2> QED
    BY <1>3, <2>1, NamesFindByName, NamesFindByLikeness, NamesMergeAlias,
       NamesCreateEntity
<1>7. CASE LookUpEntity(j)
  <2>1. PICK looked : Go(j, [looked |-> looked])
    BY <1>7 DEF LookUpEntity
  <2>2. store'[j].pc = "new"
    BY <1>7, <2>1, GoSets DEF LookUpEntity, At
  <2> QED
    BY <1>2, <1>7, <2>1, <2>2 DEF LookUpEntity
<1>4. CASE \/ ResolveDeterministicClaimSlot(j) \/ StoreRow(j) \/ CreateClaim(j)
           \/ StoreRelation(j) \/ FinishLinking(j) \/ ListClaimsMissingSlots(j)
           \/ UpdateClaimSlot(j) \/ AbortLinking(j)
  <2>1. CASE ResolveDeterministicClaimSlot(j)
    <3>1. PICK slot : Go(j, [pc |-> "row", slot |-> slot, looked |-> <<>>])
      BY <2>1 DEF ResolveDeterministicClaimSlot
    <3>2. store'[j].pc = "row"
      BY <3>1, GoSets
    <3> QED
      BY <1>2, <2>1, <3>1, <3>2 DEF ResolveDeterministicClaimSlot
  <2>2. CASE StoreRow(j)
    <3>1. Go(j, [pc |-> "claim", row |-> Len(rows) + 1])
      BY <2>2 DEF StoreRow
    <3>2. store'[j].pc = "claim"
      BY <3>1, GoSets
    <3> QED
      BY <1>2, <2>2, <3>1, <3>2 DEF StoreRow
  <2>3. CASE CreateClaim(j)
    <3>1. Go(j, [pc |-> "version"])
      BY <2>3 DEF CreateClaim
    <3>2. store'[j].pc = "version"
      BY <3>1, GoSets
    <3> QED
      BY <1>2, <2>3, <3>1, <3>2 DEF CreateClaim
  <2>4. CASE StoreRelation(j)
    <3>1. Go(j, [next |-> store[j].next + 1]) /\ store[j].pc = "relate"
      BY <2>4 DEF StoreRelation, At
    <3>2. store'[j].pc = "relate"
      BY <3>1, GoSets
    <3> QED
      BY <1>2, <2>4, <3>1, <3>2 DEF StoreRelation
  <2>5. CASE FinishLinking(j)
    <3>1. CASE Go(j, [pc |-> "derive", todo |-> {store[j].row}])
      <4>1. store'[j].pc = "derive"
        BY <3>1, GoSets
      <4> QED
        BY <1>2, <2>5, <3>1, <4>1 DEF FinishLinking
    <3>2. CASE Go(j, [pc |-> "done"])
      <4>1. store'[j].pc = "done"
        BY <3>2, GoSets
      <4> QED
        BY <1>2, <2>5, <3>2, <4>1 DEF FinishLinking
    <3> QED
      BY <2>5, <3>1, <3>2 DEF FinishLinking
  <2>6. CASE ListClaimsMissingSlots(j)
    <3>1. PICK todo : Go(j, [pc |-> "derive", todo |-> todo])
      BY <2>6 DEF ListClaimsMissingSlots
    <3>2. store'[j].pc = "derive"
      BY <3>1, GoSets
    <3> QED
      BY <1>2, <2>6, <3>1, <3>2 DEF ListClaimsMissingSlots
  <2>7. CASE UpdateClaimSlot(j)
    <3>1. Go(j, [pc |-> "derive"])
      BY <2>7 DEF UpdateClaimSlot
    <3>2. store'[j].pc = "derive"
      BY <3>1, GoSets
    <3> QED
      BY <1>2, <2>7, <3>1, <3>2 DEF UpdateClaimSlot
  <2>8. CASE AbortLinking(j)
    <3>1. Go(j, [pc |-> "dead"])
      BY <2>8 DEF AbortLinking
    <3>2. store'[j].pc = "dead"
      BY <3>1, GoSets
    <3> QED
      BY <1>2, <2>8, <3>1, <3>2 DEF AbortLinking
  <2> QED
    BY <1>4, <2>1, <2>2, <2>3, <2>4, <2>5, <2>6, <2>7, <2>8
<1>5. CASE DeriveSlot(j)
  <2>1. CASE Go(j, [pc |-> "done"])
    <3>1. store'[j].pc = "done"
      BY <2>1, GoSets
    <3> QED
      BY <1>2, <1>5, <2>1, <3>1 DEF DeriveSlot
  <2>2. ASSUME NEW r, NEW slot, NEW todo, NEW pc \in {"derive", "assign"},
               Go(j, [pc |-> pc, row |-> r, slot |-> slot, todo |-> todo])
        PROVE  NamesInv'
    <3>1. store'[j].pc = pc
      BY <2>2, GoSets
    <3> QED
      BY <1>2, <1>5, <2>2, <3>1 DEF DeriveSlot
  <2> QED
    BY <1>5, <2>1, <2>2 DEF DeriveSlot
<1>6. CASE CreateVersion(j) \/ LinkMemoryToEntity(j) \/ MissMention(j)
  <2>0. j \in StoreJobs
    BY <1>6, <1>a DEF CreateVersion, LinkMemoryToEntity, MissMention, At
  <2>1. PICK n \in {1, store[j].next + 1} :
           /\ CreateVersion(j) => n = 1
           /\ ~CreateVersion(j) => n = store[j].next + 1
    OBVIOUS
  <2> DEFINE after == NextMention(j, n)
  <2>2. after.pc \in {"find", "relate"} /\ DOMAIN after = {"pc", "next"}
    BY DEF NextMention
  <2>3. \/ Go(j, after)
        \/ \E known : Go(j, [pc |-> after.pc, next |-> after.next, known |-> known])
        \/ Go(j, [pc |-> after.pc, next |-> after.next, missed |-> TRUE])
    <3>1. CASE CreateVersion(j)
      BY <2>1, <3>1 DEF CreateVersion
    <3>2. CASE ~CreateVersion(j)
      BY <1>6, <2>1, <3>2 DEF LinkMemoryToEntity, MissMention
    <3> QED
      BY <3>1, <3>2
  <2>4. UNCHANGED <<entities, raced>>
    BY <1>6 DEF CreateVersion, LinkMemoryToEntity, MissMention
  <2> HIDE DEF after
  <2>5. CASE Go(j, after)
    <3>1. store'[j].pc = after.pc
      BY <2>2, <2>5, GoSets
    <3> QED
      BY <1>2, <2>2, <2>4, <2>5, <3>1
  <2>6. ASSUME NEW known,
               Go(j, [pc |-> after.pc, next |-> after.next, known |-> known])
        PROVE  NamesInv'
    <3>1. store'[j].pc = after.pc
      BY <2>6, GoSets
    <3> QED
      BY <1>2, <2>2, <2>4, <2>6, <3>1
  <2>7. CASE Go(j, [pc |-> after.pc, next |-> after.next, missed |-> TRUE])
    <3>1. store'[j].pc = after.pc
      BY <2>7, GoSets
    <3> QED
      BY <1>2, <2>2, <2>4, <2>7, <3>1
  <2> QED
    BY <2>3, <2>5, <2>6, <2>7
<1> QED
  BY <1>1, <1>3, <1>4, <1>5, <1>6, <1>7 DEF StoreStep

-----------------------------------------------------------------------------
(* Rows under the steps of requests.                                       *)

(* Summaries get their claim, deletions close it, updates add a version:   *)
(* none of the columns that are read here changes.                         *)
LEMMA ClaimColumns ==
  ASSUME Typed, NEW u \in UpkeepJobs,
         EmitConsolidationAdd(u) \/ InvalidateClaim(u) \/ EmitCanonicalUpdate(u)
  PROVE  RowsTyped' /\ Ids' = Ids /\ SameBut(None)
<1> DEFINE x == upkeep[u].row
<1>1. x \in Ids /\ RowsTyped
  BY DEF Typed, UpkeepTyped, RowStates, EmitConsolidationAdd,
     CreateSummaryClaim, CreateSummaryVersion, SetCurrentVersion,
     InvalidateClaim, EmitCanonicalUpdate, Is
<1>2. Columns \subseteq DOMAIN rows[x] /\ rows[x].status \in Statuses
  BY <1>1 DEF RowsTyped
<1>3. ASSUME NEW v, rows' = [rows EXCEPT ![x] = v],
             Columns \subseteq DOMAIN v, \A c \in Columns : v[c] = rows[x][c]
      PROVE  RowsTyped' /\ Ids' = Ids /\ SameBut(None)
  <2>1. v.status \in Statuses
    BY <1>2, <1>3 DEF Columns
  <2>2. /\ RowsTyped' /\ Ids' = Ids /\ rows'[x] = v
        /\ \A r \in Ids : r # x => rows'[r] = rows[r]
    BY <1>1, <1>3, <2>1, RowChanges
  <2> QED
    BY <1>1, <1>3, <2>2 DEF SameBut, Columns
<1>4. CASE EmitConsolidationAdd(u)
  <2>1. CASE CreateSummaryClaim(u)
    <3> DEFINE v == [rows[x] EXCEPT !.claim = "open"]
    <3>1. rows' = [rows EXCEPT ![x] = v]
      BY <1>1, <1>2, <2>1 DEF CreateSummaryClaim, Ids, Columns
    <3>2. Columns \subseteq DOMAIN v /\ \A c \in Columns : v[c] = rows[x][c]
      BY <1>2 DEF Columns
    <3> HIDE DEF v
    <3> QED
      BY <1>3, <3>1, <3>2
  <2>2. CASE CreateSummaryVersion(u)
    <3> DEFINE v == [rows[x] EXCEPT !.versions = {upkeep[u].read.site},
                                    !.current = upkeep[u].read.site]
    <3>1. rows' = [rows EXCEPT ![x] = v]
      BY <1>1, <1>2, <2>2 DEF CreateSummaryVersion, Ids, Columns
    <3>2. Columns \subseteq DOMAIN v /\ \A c \in Columns : v[c] = rows[x][c]
      BY <1>2 DEF Columns
    <3> HIDE DEF v
    <3> QED
      BY <1>3, <3>1, <3>2
  <2>3. CASE SetCurrentVersion(u)
    <3> DEFINE v == [rows[x] EXCEPT !.claim = IF @ = "none" THEN @ ELSE "open"]
    <3>1. rows' = [rows EXCEPT ![x] = v]
      BY <1>1, <1>2, <2>3 DEF SetCurrentVersion, Ids, Columns
    <3>2. Columns \subseteq DOMAIN v /\ \A c \in Columns : v[c] = rows[x][c]
      BY <1>2 DEF Columns
    <3> HIDE DEF v
    <3> QED
      BY <1>3, <3>1, <3>2
  <2> QED
    BY <1>4, <2>1, <2>2, <2>3 DEF EmitConsolidationAdd
<1>5. CASE InvalidateClaim(u)
  <2> DEFINE v == [rows[x] EXCEPT !.claim = IF @ = "open" THEN "closed" ELSE @]
  <2>1. rows' = [rows EXCEPT ![x] = v]
    BY <1>1, <1>2, <1>5 DEF InvalidateClaim, Ids, Columns
  <2>2. Columns \subseteq DOMAIN v /\ \A c \in Columns : v[c] = rows[x][c]
    BY <1>2 DEF Columns
  <2> HIDE DEF v
  <2> QED
    BY <1>3, <2>1, <2>2
<1>6. CASE EmitCanonicalUpdate(u)
  <2> DEFINE v == [rows[x] EXCEPT !.claim = "open",
                                  !.versions = @ \cup {Work[u].site},
                                  !.current = Work[u].site]
  <2>1. rows' = [rows EXCEPT ![x] = v]
    BY <1>1, <1>2, <1>6 DEF EmitCanonicalUpdate, Ids, Columns
  <2>2. Columns \subseteq DOMAIN v /\ \A c \in Columns : v[c] = rows[x][c]
    BY <1>2 DEF Columns
  <2> HIDE DEF v
  <2> QED
    BY <1>3, <2>1, <2>2
<1> QED
  BY <1>4, <1>5, <1>6

(* A summary is a new row.                                                 *)
LEMMA StoreSummaryRows ==
  ASSUME Typed, NEW u \in UpkeepJobs, StoreSummary(u)
  PROVE  LET n == Len(rows) + 1 IN
         /\ RowsTyped' /\ Ids' = Ids \cup {n} /\ n \notin Ids
         /\ \A r \in Ids : rows'[r] = rows[r]
         /\ rows'[n].status = "live" /\ rows'[n].slot = None
         /\ rows'[n].confidence = None /\ rows'[n].says = Cluster(u).says
<1> DEFINE v == NewRow(Cluster(u).says, upkeep[u].read.site,
                       Smaller(100, upkeep[u].read.importance + 5))
<1>1. /\ rows' = Append(rows, v) /\ RowsTyped
      /\ Columns \subseteq DOMAIN v /\ v.status = "live" /\ v.slot = None
      /\ v.confidence = None /\ v.says = Cluster(u).says
  BY NewRowFacts DEF StoreSummary, Typed
<1> HIDE DEF v
<1>2. v.status \in Statuses
  BY <1>1 DEF Statuses
<1>3. /\ RowsTyped' /\ Ids' = Ids \cup {Len(rows) + 1}
      /\ rows'[Len(rows) + 1] = v
      /\ \A r \in Ids : rows'[r] = rows[r] /\ r # Len(rows) + 1
  BY <1>1, <1>2, RowAdded
<1> QED
  BY <1>1, <1>3

(* So is the request for clarification.                                    *)
LEMMA FlagOpinionRows ==
  ASSUME Typed, NEW u \in UpkeepJobs, FlagOpinion(u)
  PROVE  LET n == Len(rows) + 1 IN
         /\ RowsTyped' /\ Ids' = Ids \cup {n} /\ n \notin Ids
         /\ \A r \in Ids : rows'[r] = rows[r]
         /\ rows'[n].status = "held" /\ rows'[n].slot = None
         /\ rows'[n].confidence = 0 /\ rows'[n].about = upkeep[u].row
<1> DEFINE w == NewRow({Work[u].fact}, Work[u].site, 50)
           v == [w EXCEPT !.status = "held", !.confidence = 0,
                          !.about = upkeep[u].row]
<1>1. /\ Columns \subseteq DOMAIN w /\ w.slot = None /\ RowsTyped
  BY NewRowFacts DEF Typed
<1>2. rows' = Append(rows, v)
  BY DEF FlagOpinion
<1> HIDE DEF w
<1>3. /\ Columns \subseteq DOMAIN v /\ v.status = "held" /\ v.slot = None
      /\ v.confidence = 0 /\ v.about = upkeep[u].row
  BY <1>1 DEF Columns
<1> HIDE DEF v
<1>4. v.status \in Statuses
  BY <1>3 DEF Statuses
<1>5. /\ RowsTyped' /\ Ids' = Ids \cup {Len(rows) + 1}
      /\ rows'[Len(rows) + 1] = v
      /\ \A r \in Ids : rows'[r] = rows[r] /\ r # Len(rows) + 1
  BY <1>1, <1>2, <1>4, <1>3, RowAdded
<1> QED
  BY <1>3, <1>5

(* A reset erases the rows of its site.                                    *)
LEMMA DeleteBySourceRows ==
  ASSUME Typed, NEW u \in UpkeepJobs, DeleteBySource(u)
  PROVE  /\ RowsTyped' /\ Ids' = Ids
         /\ \A r \in Ids :
              /\ rows'[r].says = rows[r].says /\ rows'[r].slot = rows[r].slot
              /\ rows'[r].confidence = rows[r].confidence
              /\ rows'[r].about = rows[r].about
              /\ \/ rows'[r].status = rows[r].status /\ EntitiesOf(r)' = EntitiesOf(r)
                 \/ rows'[r].status = "erased" /\ rows[r].says \subseteq retired'
<1> DEFINE erased == {r \in Ids : rows[r].site = Work[u].site}
           left(r) == rows[r].versions \ {Work[u].site}
           now(r) == [rows[r] EXCEPT
                        !.status = IF r \in erased THEN "erased" ELSE @,
                        !.versions = left(r),
                        !.current = IF @ = Work[u].site THEN None ELSE @,
                        !.claim = IF left(r) = {} THEN "none" ELSE @]
<1>1. /\ rows' = [r \in Ids |-> now(r)] /\ RowsTyped
      /\ mentions' = {m \in mentions : m[1] \notin erased}
      /\ retired' = retired \cup UNION {rows[r].says : r \in erased}
  BY DEF DeleteBySource, Typed
<1>2. ASSUME NEW r \in Ids
      PROVE  /\ Columns \subseteq DOMAIN now(r) /\ now(r).status \in Statuses
             /\ now(r).says = rows[r].says /\ now(r).slot = rows[r].slot
             /\ now(r).confidence = rows[r].confidence
             /\ now(r).about = rows[r].about
             /\ now(r).status = IF r \in erased THEN "erased" ELSE rows[r].status
  <2>1. Columns \subseteq DOMAIN rows[r] /\ rows[r].status \in Statuses
    BY <1>1 DEF RowsTyped
  <2> HIDE DEF erased, left
  <2> QED
    BY <2>1 DEF Columns, Statuses
<1>3. /\ IsSeq(rows') /\ DOMAIN rows' = Ids
      /\ \A r \in Ids : rows'[r] = now(r)
  <2>1. rows' \in [DOMAIN rows -> Range(rows')]
    <3> HIDE DEF now
    <3> QED
      BY <1>1 DEF Range, Ids
  <2> HIDE DEF now
  <2> QED
    BY <1>1, <2>1, SameLength DEF RowsTyped, Ids
<1>4. ASSUME NEW r \in Ids, r \notin erased
      PROVE  EntitiesOf(r)' = EntitiesOf(r)
  <2>1. {m \in mentions' : m[1] = r} = {m \in mentions : m[1] = r}
    <3> HIDE DEF erased
    <3> QED
      BY <1>1, <1>4
  <2> QED
    BY <2>1 DEF EntitiesOf
<1>5. \A r \in erased : rows[r].says \subseteq retired'
  BY <1>1
<1>6. RowsTyped' /\ Ids' = Ids
  <2> HIDE DEF now, erased
  <2> QED
    BY <1>2, <1>3 DEF RowsTyped, Ids
<1> HIDE DEF now, erased
<1> QED
  BY <1>2, <1>3, <1>4, <1>5, <1>6

(* An update in place changes what one row says.                           *)
LEMMA UpdateContentRows ==
  ASSUME Typed, NEW u \in UpkeepJobs, UpdateMemoryContent(u)
  PROVE  LET x == upkeep[u].row IN
         /\ RowsTyped' /\ Ids' = Ids /\ x \in Ids
         /\ \A r \in Ids :
              /\ rows'[r].status = rows[r].status /\ rows'[r].slot = rows[r].slot
              /\ rows'[r].confidence = rows[r].confidence
              /\ rows'[r].about = rows[r].about
              /\ r # x => rows'[r].says = rows[r].says
         /\ rows[x].status \in {"gone", "erased"} => UNCHANGED <<rows, retired>>
         /\ rows[x].status \notin {"gone", "erased"} =>
              /\ rows'[x].says = {Work[u].fact}
              /\ retired' = retired \cup rows[x].says
<1> DEFINE x == upkeep[u].row
           v == [rows[x] EXCEPT !.says = {Work[u].fact},
                                !.importance = Work[u].importance,
                                !.trust = 100, !.idle = 0]
<1>1. x \in Ids /\ RowsTyped
  BY DEF Typed, UpkeepTyped, RowStates, UpdateMemoryContent, Is
<1>2. Columns \subseteq DOMAIN rows[x] /\ rows[x].status \in Statuses
  BY <1>1 DEF RowsTyped
<1>3. CASE rows[x].status \in {"gone", "erased"}
  <2>1. UNCHANGED <<rows, retired>>
    BY <1>3 DEF UpdateMemoryContent
  <2> QED
    BY <1>1, <1>3, <2>1 DEF RowsTyped, Ids
<1>4. CASE rows[x].status \notin {"gone", "erased"}
  <2>1. rows' = [rows EXCEPT ![x] = v] /\ retired' = retired \cup rows[x].says
    BY <1>1, <1>2, <1>4 DEF UpdateMemoryContent, Ids, Columns
  <2>2. /\ Columns \subseteq DOMAIN v /\ v.status = rows[x].status
        /\ v.says = {Work[u].fact} /\ v.slot = rows[x].slot
        /\ v.confidence = rows[x].confidence /\ v.about = rows[x].about
    BY <1>2 DEF Columns
  <2> HIDE DEF v
  <2>3. /\ RowsTyped' /\ Ids' = Ids /\ rows'[x] = v
        /\ \A r \in Ids : r # x => rows'[r] = rows[r]
    BY <1>1, <1>2, <2>1, <2>2, RowChanges
  <2> QED
    BY <1>1, <1>4, <2>1, <2>2, <2>3
<1> QED
  BY <1>3, <1>4

(* An opinion gets the confidence that was computed.                       *)
LEMMA UpdateOpinionRows ==
  ASSUME Typed, NEW u \in UpkeepJobs, UpdateOpinionConfidence(u)
  PROVE  LET x == upkeep[u].row IN
         /\ RowsTyped' /\ Ids' = Ids /\ x \in Ids
         /\ \A r \in Ids :
              /\ rows'[r].status = rows[r].status /\ rows'[r].slot = rows[r].slot
              /\ rows'[r].says = rows[r].says /\ rows'[r].about = rows[r].about
              /\ r # x => rows'[r].confidence = rows[r].confidence
         /\ rows'[x].confidence \in
              {rows[x].confidence,
               ApplyOpinionSignal(upkeep[u].read, Work[u].action)}
<1> DEFINE x == upkeep[u].row
           new == ApplyOpinionSignal(upkeep[u].read, Work[u].action)
           v == [rows[x] EXCEPT !.confidence = new, !.idle = 0]
<1>1. x \in Ids /\ RowsTyped
  BY DEF Typed, UpkeepTyped, RowStates, UpdateOpinionConfidence, Is
<1>2. Columns \subseteq DOMAIN rows[x] /\ rows[x].status \in Statuses
  BY <1>1 DEF RowsTyped
<1>3. CASE rows[x].status \in {"gone", "erased"}
  <2>1. UNCHANGED rows
    BY <1>3 DEF UpdateOpinionConfidence
  <2> QED
    BY <1>1, <2>1 DEF RowsTyped, Ids
<1>4. CASE rows[x].status \notin {"gone", "erased"}
  <2> HIDE DEF new
  <2>1. rows' = [rows EXCEPT ![x] = v]
    BY <1>1, <1>2, <1>4 DEF UpdateOpinionConfidence, Ids, Columns, new
  <2>2. /\ Columns \subseteq DOMAIN v /\ v.status = rows[x].status
        /\ v.says = rows[x].says /\ v.slot = rows[x].slot
        /\ v.confidence = new /\ v.about = rows[x].about
    BY <1>2 DEF Columns
  <2> HIDE DEF v
  <2>3. /\ RowsTyped' /\ Ids' = Ids /\ rows'[x] = v
        /\ \A r \in Ids : r # x => rows'[r] = rows[r]
    BY <1>1, <1>2, <2>1, <2>2, RowChanges
  <2> QED
    BY <1>1, <2>2, <2>3 DEF new
<1> QED
  BY <1>3, <1>4

-----------------------------------------------------------------------------
(* Steps of requests keep the types, and all that was assumed at first.    *)

(* What a step sets, and what it leaves.                                   *)
LEMMA DoSets ==
  ASSUME Typed, NEW u \in UpkeepJobs, NEW changes, Do(u, changes)
  PROVE  /\ DOMAIN upkeep' = UpkeepJobs
         /\ \A w \in UpkeepJobs : w # u => upkeep'[w] = upkeep[w]
         /\ DOMAIN upkeep'[u] = DOMAIN upkeep[u]
         /\ \A x \in {"pc", "clusters", "next", "members", "row", "read"} :
              upkeep'[u][x] = IF x \in DOMAIN changes THEN changes[x]
                              ELSE upkeep[u][x]
<1>1. UpkeepTyped(u) /\ DOMAIN upkeep = UpkeepJobs
  BY DEF Typed
<1>2. upkeep'[u] = Changed(upkeep[u], changes)
  BY <1>1, DoFacts
<1> QED
  BY <1>1, <1>2, DoFacts DEF Changed, UpkeepTyped

(* What a step has to set for the types to be kept.                        *)
LEMMA UpkeepTypes ==
  ASSUME Typed, NEW u \in UpkeepJobs, NEW changes, Do(u, changes),
         UNCHANGED <<entities, store>>, RowsTyped', Ids \subseteq Ids',
         "members" \in DOMAIN changes => changes.members \subseteq Ids',
         "next" \in DOMAIN changes => changes.next \in Nat,
         "row" \in DOMAIN changes => changes.row \in Ids',
         /\ "pc" \in DOMAIN changes /\ "row" \notin DOMAIN changes
         /\ \/ changes.pc \in RowStates
            \/ Work[u].kind = "consolidate" /\ changes.pc = "archive"
         => upkeep[u].row \in Ids
  PROVE  Typed'
<1>1. /\ DOMAIN upkeep' = UpkeepJobs
      /\ \A w \in UpkeepJobs : w # u => upkeep'[w] = upkeep[w]
      /\ DOMAIN upkeep'[u] = DOMAIN upkeep[u]
      /\ \A x \in {"pc", "clusters", "next", "members", "row", "read"} :
           upkeep'[u][x] = IF x \in DOMAIN changes THEN changes[x]
                           ELSE upkeep[u][x]
  BY DoSets
<1>2. UpkeepTyped(u)'
  <2>1. UpkeepTyped(u)
    BY DEF Typed
  <2> QED
    BY <1>1, <2>1 DEF UpkeepTyped, RowStates
<1>3. ASSUME NEW w \in UpkeepJobs, w # u PROVE UpkeepTyped(w)'
  <2>1. upkeep'[w] = upkeep[w] /\ UpkeepTyped(w)
    BY <1>1, <1>3 DEF Typed
  <2> QED
    BY <2>1 DEF UpkeepTyped
<1>4. ASSUME NEW j \in Linkers PROVE StoreTyped(j)'
  BY DEF Typed, StoreTyped, Mentions
<1>5. EntitiesTyped' /\ RowsOfTheirOwn' /\ DOMAIN store' = Linkers
  BY DEF Typed, EntitiesTyped, RowsOfTheirOwn
<1> QED
  BY <1>1, <1>2, <1>3, <1>4, <1>5 DEF Typed

(* Every request.                                                          *)
LEMMA UpkeepStepTypes ==
  ASSUME Typed, NEW u \in UpkeepJobs,
         \/ Consolidate(u) \/ EvaluateDecay(u) \/ ArchiveDecayed(u)
         \/ DeleteBySource(u) \/ FindVersion(u) \/ DeleteMemory(u)
         \/ InvalidateClaim(u)
         \/ ReadTarget(u) \/ UpdateMemoryContent(u) \/ EmitCanonicalUpdate(u)
         \/ UpdateOpinionConfidence(u) \/ FlagOpinion(u) \/ AbortUpkeep(u)
  PROVE  Typed'
<1> DEFINE l == upkeep[u]
<1>0. UpkeepTyped(u) /\ RowsTyped /\ DOMAIN upkeep = UpkeepJobs
  BY DEF Typed
<1>a. UNCHANGED rows => RowsTyped' /\ Ids' = Ids
  BY <1>0 DEF RowsTyped, Ids
<1>1. CASE FindConsolidationCandidates(u)
  <2>1. PICK clusters : Do(u, [pc |-> "synthesize", clusters |-> clusters])
    BY <1>1 DEF FindConsolidationCandidates
  <2> QED
    BY <1>1, <1>a, <2>1, UpkeepTypes
       DEF FindConsolidationCandidates, graphOnly, RowStates
<1>b. ASSUME Do(u, NextCluster(u)), UNCHANGED <<entities, store>>,
             RowsTyped', Ids \subseteq Ids'
      PROVE  Typed'
  <2>1. l.next + 1 \in Nat
    BY <1>0 DEF UpkeepTyped
  <2>2. Do(u, [pc |-> "synthesize", next |-> l.next + 1])
    BY <1>b DEF NextCluster
  <2> QED
    BY <1>b, <2>1, <2>2, UpkeepTypes DEF RowStates
<1>2. CASE SkipCluster(u)
  BY <1>2, <1>a, <1>b DEF SkipCluster, graphOnly
<1>3. CASE FinishConsolidation(u)
  <2>1. Do(u, [pc |-> "done", clusters |-> <<>>, next |-> 1])
    BY <1>3 DEF FinishConsolidation
  <2> QED
    BY <1>3, <1>a, <2>1, UpkeepTypes DEF FinishConsolidation, graphOnly, RowStates
<1>4. CASE ReadMembers(u)
  <2>1. UNCHANGED <<rows, entities, store>>
    BY <1>4 DEF ReadMembers, graphOnly
  <2>2. CASE Do(u, NextCluster(u))
    BY <1>a, <1>b, <2>1, <2>2
  <2>3. ASSUME NEW read,
               Do(u, [pc |-> "summary", members |-> ValidMembers(u), read |-> read])
        PROVE  Typed'
    <3>1. ValidMembers(u) \subseteq Ids
      BY DEF ValidMembers
    <3> QED
      BY <1>a, <2>1, <2>3, <3>1, UpkeepTypes DEF RowStates
  <2> QED
    BY <1>4, <2>2, <2>3 DEF ReadMembers
<1>5. CASE StoreSummary(u)
  <2>1. Do(u, [pc |-> "lineage", row |-> Len(rows) + 1])
    BY <1>5 DEF StoreSummary
  <2>2. /\ RowsTyped' /\ Ids' = Ids \cup {Len(rows) + 1}
        /\ UNCHANGED <<entities, store>>
    BY <1>5, StoreSummaryRows DEF StoreSummary, graphOnly
  <2> QED
    BY <2>1, <2>2, UpkeepTypes DEF RowStates
<1>6. CASE EmitConsolidationAdd(u)
  <2>1. /\ \E pc : Do(u, [pc |-> pc])
        /\ l.row \in Ids /\ UNCHANGED <<entities, store>>
    BY <1>0, <1>6 DEF EmitConsolidationAdd, CreateSummaryClaim,
       CreateSummaryVersion, SetCurrentVersion, graphOnly, UpkeepTyped,
       RowStates, Is
  <2> QED
    BY <1>6, <2>1, ClaimColumns, UpkeepTypes DEF RowStates
<1>c. ASSUME NEW r \in l.members, rows' = SoftDeleted(r),
             Do(u, [members |-> l.members \ {r}]), UNCHANGED <<entities, store>>
      PROVE  Typed'
  <2>1. r \in Ids /\ l.members \subseteq Ids
    BY <1>0 DEF UpkeepTyped
  <2>2. RowsTyped' /\ Ids' = Ids
    BY <1>0, <1>c, <2>1, SoftDeletedFacts
  <2> QED
    BY <1>c, <2>1, <2>2, UpkeepTypes DEF RowStates
<1>7. CASE ArchiveMember(u)
  <2>1. CASE l.members = {}
    BY <1>7, <1>a, <1>b, <2>1 DEF ArchiveMember, graphOnly
  <2>2. CASE l.members # {}
    BY <1>7, <1>c, <2>2 DEF ArchiveMember, graphOnly
  <2> QED
    BY <2>1, <2>2
<1>8. CASE EvaluateDecay(u)
  <2>1. PICK stale \in SUBSET Ids : Do(u, [pc |-> "archive", members |-> stale])
    BY <1>8 DEF EvaluateDecay, EvaluateDecayCandidates, ListMemories
  <2>2. Work[u].kind # "consolidate"
    BY <1>8 DEF EvaluateDecay, Is
  <2> QED
    BY <1>8, <1>a, <2>1, <2>2, UpkeepTypes DEF EvaluateDecay, graphOnly, RowStates
<1>9. CASE ArchiveDecayed(u)
  <2>1. CASE l.members = {}
    <3>1. Do(u, [pc |-> "done"])
      BY <1>9, <2>1 DEF ArchiveDecayed
    <3> QED
      BY <1>9, <1>a, <2>1, <3>1, UpkeepTypes DEF ArchiveDecayed, graphOnly, RowStates
  <2>2. CASE l.members # {}
    BY <1>9, <1>c, <2>2 DEF ArchiveDecayed, graphOnly
  <2> QED
    BY <2>1, <2>2
<1>10. CASE DeleteBySource(u)
  <2>1. Do(u, [pc |-> "done"]) /\ UNCHANGED <<entities, store>>
    BY <1>10 DEF DeleteBySource
  <2> QED
    BY <1>10, <2>1, DeleteBySourceRows, UpkeepTypes DEF RowStates
<1>11. CASE DeleteMemory(u)
  <2>1. \E pc : Do(u, [pc |-> pc])
    BY <1>11 DEF DeleteMemory
  <2>2. l.row \in Ids /\ rows' = SoftDeleted(l.row) /\ UNCHANGED <<entities, store>>
    BY <1>0, <1>11 DEF DeleteMemory, graphOnly, UpkeepTyped, RowStates, Is
  <2>3. RowsTyped' /\ Ids' = Ids
    BY <1>0, <2>2, SoftDeletedFacts
  <2> QED
    BY <2>1, <2>2, <2>3, UpkeepTypes DEF RowStates
<1>12. CASE InvalidateClaim(u)
  <2>1. Do(u, [pc |-> "done"]) /\ UNCHANGED <<entities, store>>
    BY <1>12 DEF InvalidateClaim, graphOnly
  <2> QED
    BY <1>12, <2>1, ClaimColumns, UpkeepTypes DEF RowStates
<1>13. CASE ReadTarget(u)
  <2>1. PICK r \in Ids :
           \/ Do(u, [pc |-> "write", row |-> r])
           \/ Do(u, [pc |-> "write", row |-> r, read |-> rows[r].confidence])
    BY <1>13 DEF ReadTarget, ListMemories
  <2> QED
    BY <1>13, <1>a, <2>1, UpkeepTypes DEF ReadTarget, graphOnly, RowStates
<1>14. CASE UpdateMemoryContent(u)
  <2>1. /\ Do(u, [pc |-> "version"]) /\ UNCHANGED <<entities, store>>
        /\ l.row \in Ids
    BY <1>0, <1>14 DEF UpdateMemoryContent, graphOnly, UpkeepTyped, RowStates, Is
  <2> QED
    BY <1>14, <2>1, UpdateContentRows, UpkeepTypes DEF RowStates
<1>15. CASE EmitCanonicalUpdate(u)
  <2>1. Do(u, [pc |-> "done"]) /\ UNCHANGED <<entities, store>>
    BY <1>15 DEF EmitCanonicalUpdate, graphOnly
  <2> QED
    BY <1>15, <2>1, ClaimColumns, UpkeepTypes DEF RowStates
<1>16. CASE UpdateOpinionConfidence(u)
  <2>1. PICK pc : Do(u, [pc |-> pc])
    BY <1>16 DEF UpdateOpinionConfidence
  <2>2. UNCHANGED <<entities, store>> /\ l.row \in Ids
    BY <1>0, <1>16 DEF UpdateOpinionConfidence, graphOnly, UpkeepTyped,
       RowStates, Is
  <2> QED
    BY <1>16, <2>1, <2>2, UpdateOpinionRows, UpkeepTypes DEF RowStates
<1>17. CASE FlagOpinion(u)
  <2>1. /\ Do(u, [pc |-> "done"]) /\ UNCHANGED <<entities, store>>
    BY <1>17 DEF FlagOpinion, graphOnly
  <2>2. RowsTyped' /\ Ids \subseteq Ids'
    BY <1>17, FlagOpinionRows
  <2> QED
    BY <2>1, <2>2, UpkeepTypes DEF RowStates
<1>18. CASE AbortUpkeep(u)
  <2>1. Do(u, [pc |-> "dead"])
    BY <1>18 DEF AbortUpkeep
  <2> QED
    BY <1>18, <1>a, <2>1, UpkeepTypes DEF AbortUpkeep, graphOnly, RowStates
<1>19. CASE FindVersion(u)
  <2>1. PICK r \in Ids :
           Do(u, [pc |-> "target", row |-> r, read |-> rows[r].current])
    BY <1>19 DEF FindVersion
  <2> QED
    BY <1>19, <1>a, <2>1, UpkeepTypes DEF FindVersion, graphOnly, RowStates
<1> QED
  BY <1>1, <1>2, <1>3, <1>4, <1>5, <1>6, <1>7, <1>8, <1>9, <1>10, <1>11, <1>12,
     <1>13, <1>14, <1>15, <1>16, <1>17, <1>18, <1>19 DEF Consolidate

(* A step of a request leaves entities, ingests and repairs alone.         *)
LEMMA UpkeepApart ==
  ASSUME NextUpkeep
  PROVE  UNCHANGED <<entities, relations, store, raced>>
BY DEF NextUpkeep, Consolidate, FindConsolidationCandidates, SkipCluster,
   ReadMembers, StoreSummary, EmitConsolidationAdd, CreateSummaryClaim,
   CreateSummaryVersion, SetCurrentVersion, ArchiveMember,
   FinishConsolidation, EvaluateDecay, ArchiveDecayed, DeleteBySource,
   FindVersion, DeleteMemory, InvalidateClaim, ReadTarget, UpdateMemoryContent,
   EmitCanonicalUpdate, UpdateOpinionConfidence, FlagOpinion, AbortUpkeep,
   graphOnly

(* What is found at first.                                                 *)
LEMMA InitTypes ==
  ASSUME Init
  PROVE  Typed /\ NamesInv
<1>1. PICK s \in Scenarios :
        /\ InitGraph(s)
        /\ upkeep = [u \in UpkeepJobs |->
             [pc |-> IF u \in s.jobs THEN "new" ELSE "none",
              clusters |-> <<>>, next |-> 1, members |-> {}, row |-> None,
              read |-> None]]
  BY DEF Init
<1>2. /\ rows = s.rows /\ entities = s.entities /\ raced = {}
      /\ store = [j \in Linkers |->
           [pc |-> IF j \in s.jobs THEN "new" ELSE "none", next |-> 1,
            row |-> None, match |-> None, known |-> <<>>, looked |-> <<>>,
            slot |-> None, todo |-> {}, missed |-> FALSE]]
  BY <1>1 DEF InitGraph
<1>3. RowsTyped
  <2>1. IsSeq(rows)
    BY <1>2, ScenarioRowsAssumption DEF IsSeq
  <2>2. ASSUME NEW r \in Ids
        PROVE  Columns \subseteq DOMAIN rows[r] /\ rows[r].status \in Statuses
    <3>1. rows[r] \in Range(s.rows)
      BY <1>2 DEF Ids, Range
    <3>2. DOMAIN rows[r] = DOMAIN NewRow({}, None, 0) /\ rows[r].status = "live"
      BY <3>1, ScenarioRowsAssumption
    <3> QED
      BY <3>2, NewRowFacts DEF Statuses
  <2> QED
    BY <2>1, <2>2 DEF RowsTyped
<1>4. EntitiesTyped
  <2>1. IsSeq(entities)
    BY <1>2, ScenarioEntitiesAssumption DEF IsSeq
  <2> QED
    BY <1>2, <2>1, ScenarioEntitiesAssumption DEF EntitiesTyped, Range
<1>5. \A j \in Linkers :
        /\ store[j].pc \in {"new", "none"} /\ store[j].row = None
        /\ StoreTyped(j)
  BY <1>2 DEF StoreTyped, WithRow, Resolutions
<1>6. \A u \in UpkeepJobs : UpkeepTyped(u)
  BY <1>1 DEF UpkeepTyped, RowStates
<1>7. Typed
  BY <1>1, <1>2, <1>3, <1>4, <1>5, <1>6 DEF Typed, RowsOfTheirOwn, Linkers
<1>8. NamesInv
  <2>1. NamesOnOneEntity
    BY <1>1, <1>2, ScenarioEntitiesAssumption DEF NamesOnOneEntity
  <2>2. \A j \in StoreJobs : Matches(j) /\ Alone(j)
    BY <1>5 DEF Matches, Alone, At, Linkers
  <2> QED
    BY <2>1, <2>2 DEF NamesInv
<1> QED
  BY <1>7, <1>8

(* The types are kept, and so is what was said of names.                   *)
LEMMA TypedStep ==
  ASSUME Typed, [Next]_vars
  PROVE  Typed'
<1>1. CASE NextGraph /\ UNCHANGED <<upkeep, history>>
  BY <1>1, StoreStepTypes, RepairTypes DEF NextGraph
<1>2. CASE NextUpkeep
  BY <1>2, UpkeepStepTypes DEF NextUpkeep
<1>3. CASE UNCHANGED vars
  BY <1>3 DEF vars, Typed, RowsTyped, EntitiesTyped, StoreTyped, Mentions,
     RowsOfTheirOwn, UpkeepTyped, Ids
<1> QED
  BY <1>1, <1>2, <1>3 DEF Next

(* So does every step.                                                     *)
LEMMA NamesNext ==
  ASSUME Typed, NamesInv, [Next]_vars
  PROVE  NamesInv'
<1>1. CASE NextGraph
  BY <1>1, NamesStep
<1>2. CASE UNCHANGED <<entities, store, raced>>
  <2>1. NamesOnOneEntity'
    BY <1>2 DEF NamesInv, NamesOnOneEntity
  <2>2. ASSUME NEW j \in StoreJobs PROVE Matches(j)' /\ Alone(j)'
    BY <1>2 DEF NamesInv, Matches, Alone, At, Has, Key, Mention, Resolving
  <2> QED
    BY <2>1, <2>2 DEF NamesInv
<1> QED
  BY <1>1, <1>2, UpkeepApart DEF Next, vars

(* Two entities of a type share a name only when two ingests were          *)
(* resolving that name at the same time (repository-entities.ts:102).      *)
THEOREM NamesSafe == Spec => []NamesOnOneEntity
<1>1. Init => Typed /\ NamesInv
  BY InitTypes
<1>2. Typed /\ NamesInv /\ [Next]_vars => (Typed /\ NamesInv)'
  BY TypedStep, NamesNext
<1>3. NamesInv => NamesOnOneEntity
  BY DEF NamesInv
<1> QED
  BY <1>1, <1>2, <1>3, PTL DEF Spec

-----------------------------------------------------------------------------
(* Slots.                                                                  *)

Linking == Resolutions \cup {"relate", "derive", "assign", "done"}
Behind(j, i) == store[j].pc \in Resolutions => i < store[j].next

(* The mentions that are behind an ingest are linked.                      *)
Linked(j) ==
  \A r :
    /\ store[j].row = r /\ store[j].pc \in Linking
    /\ store[j].missed # TRUE /\ rows[r].status # "erased"
    => \A i \in DOMAIN Stores[j].mentions :
         Behind(j, i) =>
           \E e \in EntitiesOf(r) : Has(e, Stores[j].mentions[i])

(* An entity with the name of a mention.                                   *)
About(j, x) ==
  \E i \in DOMAIN Stores[j].mentions : Has(x, Stores[j].mentions[i])

(* The slot an ingest found by name is about entities of that name.        *)
FoundSlot(j) ==
  \A s :
    /\ store[j].pc \in {"row", "claim"} /\ store[j].slot = s /\ s # None
    => About(j, s.source) /\ About(j, s.target)

(* The slot that was derived for a row is about entities it is linked to.  *)
DerivedSlot(j) ==
  \A r, s :
    /\ store[j].pc = "assign" /\ store[j].row = r /\ store[j].slot = s
    /\ rows[r].status # "erased"
    => {s.source, s.target} \subseteq EntitiesOf(r)

(* The slot of a row is one or the other.                                  *)
RowSlot(j) ==
  \A r, s :
    /\ r # None /\ store[j].row = r /\ rows[r].slot = s /\ s # None
    /\ rows[r].status # "erased"
    => \A x \in {s.source, s.target} : x \in EntitiesOf(r) \/ About(j, x)

SlotsInv ==
  /\ \A j \in StoreJobs : Linked(j) /\ FoundSlot(j) /\ RowSlot(j)
  /\ \A j \in Linkers : DerivedSlot(j)

(* Names and links are there to stay, as long as the row is.               *)
Onward ==
  /\ Ids \subseteq Ids'
  /\ \A e, m : Has(e, m) => Has(e, m)'
  /\ \A r \in Ids : rows'[r].status # "erased" =>
       rows[r].status # "erased" /\ EntitiesOf(r) \subseteq EntitiesOf(r)'

(* What no step of an ingest or a repair touches but one.                  *)
LEMMA GraphApart ==
  ASSUME NEW j,
         \/ StoreStep(j) \/ ListClaimsMissingSlots(j)
         \/ DeriveSlot(j) \/ UpdateClaimSlot(j) \/ AbortLinking(j)
  PROVE  /\ UNCHANGED entities \/ MergeAlias(j) \/ CreateEntity(j)
         /\ UNCHANGED mentions \/ LinkMemoryToEntity(j)
         /\ \/ UNCHANGED rows
            \/ StoreRow(j) \/ CreateClaim(j) \/ CreateVersion(j)
            \/ UpdateClaimSlot(j)
<1>1. ResolveDeterministicClaimSlot(j) => UNCHANGED entities /\ UNCHANGED mentions /\ UNCHANGED rows
  BY DEF ResolveDeterministicClaimSlot
<1>2. StoreRow(j) => UNCHANGED entities /\ UNCHANGED mentions
  BY DEF StoreRow
<1>3. CreateClaim(j) => UNCHANGED entities /\ UNCHANGED mentions
  BY DEF CreateClaim
<1>4. CreateVersion(j) => UNCHANGED entities /\ UNCHANGED mentions
  BY DEF CreateVersion
<1>5. FindByName(j) => UNCHANGED entities /\ UNCHANGED mentions /\ UNCHANGED rows
  BY DEF FindByName
<1>6. FindByLikeness(j) => UNCHANGED entities /\ UNCHANGED mentions /\ UNCHANGED rows
  BY DEF FindByLikeness
<1>7. MergeAlias(j) => UNCHANGED mentions /\ UNCHANGED rows
  BY DEF MergeAlias
<1>8. CreateEntity(j) => UNCHANGED mentions /\ UNCHANGED rows
  BY DEF CreateEntity
<1>9. LinkMemoryToEntity(j) => UNCHANGED entities /\ UNCHANGED rows
  BY DEF LinkMemoryToEntity
<1>10. MissMention(j) => UNCHANGED entities /\ UNCHANGED mentions /\ UNCHANGED rows
  BY DEF MissMention
<1>11. StoreRelation(j) => UNCHANGED entities /\ UNCHANGED mentions /\ UNCHANGED rows
  BY DEF StoreRelation
<1>12. FinishLinking(j) => UNCHANGED entities /\ UNCHANGED mentions /\ UNCHANGED rows
  BY DEF FinishLinking
<1>13. ListClaimsMissingSlots(j) => UNCHANGED entities /\ UNCHANGED mentions /\ UNCHANGED rows
  BY DEF ListClaimsMissingSlots
<1>14. DeriveSlot(j) => UNCHANGED entities /\ UNCHANGED mentions /\ UNCHANGED rows
  BY DEF DeriveSlot
<1>15. UpdateClaimSlot(j) => UNCHANGED entities /\ UNCHANGED mentions
  BY DEF UpdateClaimSlot
<1>16. AbortLinking(j) => UNCHANGED entities /\ UNCHANGED mentions /\ UNCHANGED rows
  BY DEF AbortLinking
<1>17. LookUpEntity(j) => UNCHANGED entities /\ UNCHANGED mentions /\ UNCHANGED rows
  BY DEF LookUpEntity
<1> QED
  BY <1>1, <1>2, <1>3, <1>4, <1>5, <1>6, <1>7, <1>8, <1>9, <1>10,
      <1>11, <1>12, <1>13, <1>14, <1>15, <1>16, <1>17 DEF StoreStep

(* Entities keep their type and their names.                               *)
LEMMA HasForGood ==
  ASSUME Typed, NamesInv, [Next]_vars
  PROVE  \A e, m : Has(e, m) => Has(e, m)'
<1>1. CASE UNCHANGED entities
  BY <1>1 DEF Has
<1>2. ASSUME NEW j \in Linkers, MergeAlias(j)
      PROVE  \A e, m : Has(e, m) => Has(e, m)'
  <2> DEFINE x == store[j].match
             v == [entities[x] EXCEPT !.names = @ \cup {Normal[Mention(j).name]}]
  <2>1. entities' = [entities EXCEPT ![x] = v] /\ EntitiesTyped
    BY <1>2 DEF MergeAlias, Typed
  <2>2. x \in DOMAIN entities =>
          /\ {"type", "names"} \subseteq DOMAIN v
          /\ v.type = entities[x].type /\ entities[x].names \subseteq v.names
    BY <2>1 DEF EntitiesTyped
  <2> HIDE DEF v
  <2>3. /\ DOMAIN entities' = DOMAIN entities
        /\ \A e \in DOMAIN entities :
             entities'[e] = IF e = x THEN v ELSE entities[e]
    BY <2>1, <2>2, EntityChanges
  <2> QED
    BY <2>2, <2>3 DEF Has
<1>3. ASSUME NEW j \in Linkers, CreateEntity(j)
      PROVE  \A e, m : Has(e, m) => Has(e, m)'
  <2> DEFINE v == [type |-> Mention(j).type, name |-> Mention(j).name,
                   names |-> {Normal[Mention(j).name]}]
  <2>1. /\ entities' = Append(entities, v) /\ EntitiesTyped
        /\ {"type", "names"} \subseteq DOMAIN v
    BY <1>3 DEF CreateEntity, Typed
  <2> HIDE DEF v
  <2>2. /\ DOMAIN entities' = DOMAIN entities \cup {Len(entities) + 1}
        /\ \A e \in DOMAIN entities : entities'[e] = entities[e]
    BY <2>1, EntityAdded
  <2> QED
    BY <2>2 DEF Has
<1>4. CASE NextGraph
  <2>1. PICK j \in Linkers : \/ StoreStep(j) \/ ListClaimsMissingSlots(j)
                             \/ DeriveSlot(j) \/ UpdateClaimSlot(j)
                             \/ AbortLinking(j)
    BY <1>4 DEF NextGraph
  <2>2. UNCHANGED entities \/ MergeAlias(j) \/ CreateEntity(j)
    BY <2>1, GraphApart
  <2> QED
    BY <1>1, <1>2, <1>3, <2>2
<1> QED
  BY <1>1, <1>4, UpkeepApart DEF Next, vars

(* Under the steps of ingests and repairs rows are added and links too.    *)
LEMMA GraphOnward ==
  ASSUME Typed, NamesInv, NextGraph, UNCHANGED <<upkeep, history>>
  PROVE  Onward
<1>1. PICK j \in Linkers : \/ StoreStep(j) \/ ListClaimsMissingSlots(j)
                           \/ DeriveSlot(j) \/ UpdateClaimSlot(j) \/ AbortLinking(j)
  BY DEF NextGraph
<1>2. \A e, m : Has(e, m) => Has(e, m)'
  <2>1. [Next]_vars
    BY DEF Next
  <2> QED
    BY <2>1, HasForGood
<1>3. mentions \subseteq mentions'
  <2>1. UNCHANGED mentions \/ LinkMemoryToEntity(j)
    BY <1>1, GraphApart
  <2> QED
    BY <2>1 DEF LinkMemoryToEntity
<1>4. \A r : EntitiesOf(r) \subseteq EntitiesOf(r)'
  BY <1>3 DEF EntitiesOf
<1>5. Ids \subseteq Ids' /\ \A r \in Ids : rows'[r].status = rows[r].status
  <2>1. CASE StoreRow(j)
    BY <2>1, StoreRowRows
  <2>2. CASE CreateClaim(j)
    BY <2>2, CreateClaimRows DEF SameBut
  <2>3. CASE CreateVersion(j)
    BY <2>3, CreateVersionRows DEF SameBut
  <2>4. CASE UpdateClaimSlot(j)
    BY <2>4, UpdateClaimSlotRows DEF SameBut
  <2>5. CASE ~(StoreRow(j) \/ CreateClaim(j) \/ CreateVersion(j) \/ UpdateClaimSlot(j))
    <3>1. UNCHANGED rows
      BY <1>1, <2>5, GraphApart
    <3> QED
      BY <3>1 DEF Ids
  <2> QED
    BY <2>1, <2>2, <2>3, <2>4, <2>5
<1> QED
  BY <1>2, <1>4, <1>5 DEF Onward

(* Under the steps of requests a row keeps its slot, and its links until   *)
(* it is erased.                                                           *)
LEMMA UpkeepOnward ==
  ASSUME Typed, NamesInv, NextUpkeep
  PROVE  Onward /\ \A r \in Ids : rows'[r].slot = rows[r].slot
<1>1. PICK u \in UpkeepJobs :
        \/ Consolidate(u) \/ EvaluateDecay(u) \/ ArchiveDecayed(u)
        \/ DeleteBySource(u) \/ FindVersion(u) \/ DeleteMemory(u)
        \/ InvalidateClaim(u)
        \/ ReadTarget(u) \/ UpdateMemoryContent(u) \/ EmitCanonicalUpdate(u)
        \/ UpdateOpinionConfidence(u) \/ FlagOpinion(u) \/ AbortUpkeep(u)
  BY DEF NextUpkeep
<1>2. \A e, m : Has(e, m) => Has(e, m)'
  <2>1. [Next]_vars
    BY DEF Next
  <2> QED
    BY <2>1, HasForGood
<1>0. RowsTyped /\ UpkeepTyped(u)
  BY DEF Typed
<1>3. CASE DeleteBySource(u)
  <2>1. DeleteBySource(u) /\ Ids' = Ids
    BY <1>3, DeleteBySourceRows
  <2>2. \A r \in Ids : /\ rows'[r].slot = rows[r].slot
                       /\ \/ /\ rows'[r].status = rows[r].status
                             /\ EntitiesOf(r)' = EntitiesOf(r)
                          \/ rows'[r].status = "erased"
    BY <1>3, DeleteBySourceRows
  <2> QED
    BY <1>2, <2>1, <2>2 DEF Onward
<1>4. CASE ~DeleteBySource(u)
  <2>1. UNCHANGED mentions
    BY <1>1, <1>4 DEF Consolidate, FindConsolidationCandidates, SkipCluster,
       ReadMembers, StoreSummary, EmitConsolidationAdd, CreateSummaryClaim,
       CreateSummaryVersion, SetCurrentVersion, ArchiveMember, FindVersion,
       FinishConsolidation, EvaluateDecay, ArchiveDecayed, DeleteMemory,
       InvalidateClaim, ReadTarget, UpdateMemoryContent, EmitCanonicalUpdate,
       UpdateOpinionConfidence, FlagOpinion, AbortUpkeep, graphOnly
  <2>2. \A r : EntitiesOf(r)' = EntitiesOf(r)
    BY <2>1 DEF EntitiesOf
  <2>3. /\ Ids \subseteq Ids'
        /\ \A r \in Ids : /\ rows'[r].slot = rows[r].slot
                          /\ rows'[r].status \in {rows[r].status, "gone"}
                          /\ rows[r].status = "erased" => rows'[r].status = "erased"
    <3>1. ASSUME NEW x \in Ids, rows' = SoftDeleted(x)
          PROVE  /\ Ids \subseteq Ids'
                 /\ \A r \in Ids : /\ rows'[r].slot = rows[r].slot
                                   /\ rows'[r].status \in {rows[r].status, "gone"}
                                   /\ rows[r].status = "erased" =>
                                        rows'[r].status = "erased"
      BY <1>0, <3>1, SoftDeletedFacts
    <3>2. CASE StoreSummary(u)
      BY <3>2, StoreSummaryRows
    <3>3. CASE EmitConsolidationAdd(u) \/ InvalidateClaim(u) \/ EmitCanonicalUpdate(u)
      <4>1. None \notin Ids
        BY <1>0, NoneAssumption, Places DEF RowsTyped, Ids
      <4> QED
        BY <3>3, <4>1, ClaimColumns DEF SameBut
    <3>4. CASE ArchiveMember(u) \/ ArchiveDecayed(u)
      <4>1. UNCHANGED rows \/ \E x \in upkeep[u].members : rows' = SoftDeleted(x)
        BY <3>4 DEF ArchiveMember, ArchiveDecayed
      <4>2. upkeep[u].members \subseteq Ids
        BY <1>0 DEF UpkeepTyped
      <4>3. CASE UNCHANGED rows
        BY <4>3 DEF Ids
      <4> QED
        BY <3>1, <4>1, <4>2, <4>3
    <3>5. CASE DeleteMemory(u)
      BY <1>0, <3>1, <3>5 DEF DeleteMemory, UpkeepTyped, RowStates, Is
    <3>6. CASE UpdateMemoryContent(u)
      BY <3>6, UpdateContentRows
    <3>7. CASE UpdateOpinionConfidence(u)
      BY <3>7, UpdateOpinionRows
    <3>8. CASE FlagOpinion(u)
      BY <3>8, FlagOpinionRows
    <3>9. CASE \/ FindConsolidationCandidates(u) \/ SkipCluster(u) \/ ReadMembers(u)
               \/ FinishConsolidation(u) \/ EvaluateDecay(u) \/ ReadTarget(u)
               \/ FindVersion(u) \/ AbortUpkeep(u)
      <4>1. UNCHANGED rows
        BY <3>9 DEF FindConsolidationCandidates, SkipCluster, ReadMembers,
           FinishConsolidation, EvaluateDecay, ReadTarget, FindVersion, AbortUpkeep
      <4> QED
        BY <4>1 DEF Ids
    <3> QED
      BY <1>1, <1>4, <3>2, <3>3, <3>4, <3>5, <3>6, <3>7, <3>8, <3>9 DEF Consolidate
  <2> QED
    BY <1>2, <2>2, <2>3 DEF Onward
<1> QED
  BY <1>3, <1>4

(* What is behind an ingest stays linked.                                  *)
LEMMA LinkedOnward ==
  ASSUME Typed, SlotsInv, Onward, NEW j \in StoreJobs,
         store'[j].row = store[j].row,
         store'[j].missed # TRUE => store[j].missed # TRUE,
         store'[j].pc \in Linking => store[j].pc \in Linking,
         store'[j].pc \in Linking =>
           \A i \in DOMAIN Stores[j].mentions :
             (store'[j].pc \in Resolutions => i < store'[j].next) => Behind(j, i)
  PROVE  Linked(j)'
<1> SUFFICES ASSUME NEW r, store'[j].row = r, store'[j].pc \in Linking,
                    store'[j].missed # TRUE, rows'[r].status # "erased",
                    NEW i \in DOMAIN Stores[j].mentions,
                    store'[j].pc \in Resolutions => i < store'[j].next
             PROVE  \E e \in EntitiesOf(r)' : Has(e, Stores[j].mentions[i])'
  BY DEF Linked, Behind
<1>1. r \in Ids
  BY DEF Typed, StoreTyped, Linkers, Linking, WithRow
<1>2. rows[r].status # "erased" /\ EntitiesOf(r) \subseteq EntitiesOf(r)'
  BY <1>1 DEF Onward
<1>3. Behind(j, i) /\ Linked(j)
  BY DEF SlotsInv
<1>4. \E e \in EntitiesOf(r) : Has(e, Stores[j].mentions[i])
  BY <1>2, <1>3 DEF Linked
<1> QED
  BY <1>2, <1>4 DEF Onward

(* What was found by name still has that name.                             *)
LEMMA AboutOnward ==
  ASSUME Onward, NEW j, NEW x, About(j, x)
  PROVE  About(j, x)'
BY DEF About, Onward

(* So does the slot that an ingest found.                                  *)
LEMMA FoundSlotOnward ==
  ASSUME SlotsInv, Onward, NEW j \in StoreJobs,
         store'[j].pc \in {"row", "claim"} =>
           store[j].pc \in {"row", "claim"} /\ store'[j].slot = store[j].slot
  PROVE  FoundSlot(j)'
BY AboutOnward DEF SlotsInv, FoundSlot

(* A slot that was derived waits for a row that keeps its links.           *)
LEMMA DerivedSlotOnward ==
  ASSUME Typed, SlotsInv, Onward, NEW j \in Linkers,
         store'[j].pc = "assign" => store'[j] = store[j]
  PROVE  DerivedSlot(j)'
<1> SUFFICES ASSUME NEW r, NEW s, store'[j].pc = "assign", store'[j].row = r,
                    store'[j].slot = s, rows'[r].status # "erased"
             PROVE  {s.source, s.target} \subseteq EntitiesOf(r)'
  BY DEF DerivedSlot
<1>1. r \in Ids /\ DerivedSlot(j) /\ store'[j] = store[j]
  BY DEF Typed, StoreTyped, SlotsInv
<1> QED
  BY <1>1 DEF Onward, DerivedSlot

(* A row that keeps its slot.                                              *)
LEMMA RowSlotOnward ==
  ASSUME Typed, SlotsInv, Onward, NEW j \in StoreJobs,
         store'[j].row = store[j].row,
         \A r \in Ids : store[j].row = r => rows'[r].slot = rows[r].slot
  PROVE  RowSlot(j)'
<1> SUFFICES ASSUME NEW r, NEW s, r # None, store'[j].row = r,
                    rows'[r].slot = s, s # None, rows'[r].status # "erased",
                    NEW x \in {s.source, s.target}
             PROVE  x \in EntitiesOf(r)' \/ About(j, x)'
  BY DEF RowSlot
<1>1. r \in Ids
  BY DEF Typed, StoreTyped, Linkers
<1> QED
  BY <1>1, AboutOnward DEF Onward, SlotsInv, RowSlot

(* What a step of one job leaves for the others.                           *)
LEMMA SlotsOfOthers ==
  ASSUME Typed, SlotsInv, Onward, NEW j \in Linkers,
         \A k \in Linkers : k # j => store'[k] = store[k],
         j \in StoreJobs => Linked(j)' /\ FoundSlot(j)' /\ RowSlot(j)',
         DerivedSlot(j)',
         \A k \in StoreJobs : k # j => RowSlot(k)'
  PROVE  SlotsInv'
<1>1. ASSUME NEW k \in StoreJobs, k # j
      PROVE  Linked(k)' /\ FoundSlot(k)' /\ RowSlot(k)'
  <2>1. store'[k] = store[k]
    BY <1>1 DEF Linkers
  <2>2. Linked(k)'
    BY <2>1, LinkedOnward DEF Behind
  <2>3. FoundSlot(k)'
    BY <2>1, FoundSlotOnward
  <2> QED
    BY <1>1, <2>2, <2>3
<1>2. ASSUME NEW k \in Linkers, k # j
      PROVE  DerivedSlot(k)'
  BY <1>2, DerivedSlotOnward
<1> QED
  BY <1>1, <1>2 DEF SlotsInv

(* The same where no row gets a slot.                                      *)
LEMMA SlotsOfAll ==
  ASSUME Typed, SlotsInv, Onward, NEW j \in Linkers,
         \A k \in Linkers : k # j => store'[k] = store[k],
         \A r \in Ids : rows'[r].slot = rows[r].slot,
         j \in StoreJobs => Linked(j)' /\ FoundSlot(j)' /\ RowSlot(j)',
         DerivedSlot(j)'
  PROVE  SlotsInv'
<1>1. ASSUME NEW k \in StoreJobs, k # j
      PROVE  RowSlot(k)'
  <2>1. store'[k] = store[k]
    BY <1>1 DEF Linkers
  <2> QED
    BY <2>1, RowSlotOnward
<1> QED
  BY <1>1, SlotsOfOthers

(* What was looked up for a mention has the name of the mention.           *)
LookedUp(j) ==
  \A i \in DOMAIN store[j].looked :
    /\ i \in DOMAIN Stores[j].mentions
    /\ \A x \in store[j].looked[i] : Has(x, Stores[j].mentions[i])

LookedInv == \A j \in StoreJobs : LookedUp(j)

(* Only a lookup adds to it.                                               *)
LEMMA LookedStays ==
  ASSUME Typed, NEW j \in Linkers, ~LookUpEntity(j),
         \/ StoreStep(j) \/ ListClaimsMissingSlots(j)
         \/ DeriveSlot(j) \/ UpdateClaimSlot(j) \/ AbortLinking(j)
  PROVE  /\ store'[j].looked \in {store[j].looked, <<>>}
         /\ \A k \in Linkers : k # j => store'[k] = store[k]
<1> DEFINE Stays == /\ store'[j].looked \in {store[j].looked, <<>>}
                    /\ \A k \in Linkers : k # j => store'[k] = store[k]
<1>0. ASSUME NEW changes, Go(j, changes), "looked" \notin DOMAIN changes
      PROVE  Stays
  BY <1>0, GoSets, GoFacts DEF Typed
<1>n. \A n : "looked" \notin DOMAIN NextMention(j, n)
  BY DEF NextMention
<1> HIDE DEF Stays
<1>1. ResolveDeterministicClaimSlot(j) => Stays
  <2> SUFFICES ASSUME ResolveDeterministicClaimSlot(j) PROVE Stays
    OBVIOUS
  <2>1. PICK slot : Go(j, [pc |-> "row", slot |-> slot, looked |-> <<>>])
    BY DEF ResolveDeterministicClaimSlot
  <2>2. store'[j].looked = <<>>
    BY <2>1, GoSets
  <2> QED
    BY <2>1, <2>2, GoFacts DEF Stays, Typed
<1>2. StoreRow(j) => Stays
  BY <1>0 DEF StoreRow
<1>3. CreateClaim(j) => Stays
  BY <1>0 DEF CreateClaim
<1>4. CreateVersion(j) => Stays
  BY <1>0, <1>n DEF CreateVersion
<1>5. FindByName(j) => Stays
  BY <1>0 DEF FindByName
<1>6. FindByLikeness(j) => Stays
  BY <1>0 DEF FindByLikeness
<1>7. MergeAlias(j) => Stays
  BY <1>0 DEF MergeAlias
<1>8. CreateEntity(j) => Stays
  BY <1>0 DEF CreateEntity
<1>9. LinkMemoryToEntity(j) => Stays
  BY <1>0 DEF LinkMemoryToEntity
<1>10. MissMention(j) => Stays
  BY <1>0 DEF MissMention
<1>11. StoreRelation(j) => Stays
  BY <1>0 DEF StoreRelation
<1>12. FinishLinking(j) => Stays
  BY <1>0 DEF FinishLinking
<1>13. ListClaimsMissingSlots(j) => Stays
  BY <1>0 DEF ListClaimsMissingSlots
<1>14. DeriveSlot(j) => Stays
  BY <1>0 DEF DeriveSlot
<1>15. UpdateClaimSlot(j) => Stays
  BY <1>0 DEF UpdateClaimSlot
<1>16. AbortLinking(j) => Stays
  BY <1>0 DEF AbortLinking
<1>17. Stays
  BY <1>1, <1>2, <1>3, <1>4, <1>5, <1>6, <1>7, <1>8, <1>9, <1>10, <1>11,
     <1>12, <1>13, <1>14, <1>15, <1>16 DEF StoreStep
<1> QED
  BY <1>17 DEF Stays

(* And what it adds was found by the name.                                 *)
LEMMA LookedNext ==
  ASSUME Typed, NamesInv, LookedInv, Onward, NextGraph, UNCHANGED <<upkeep, history>>
  PROVE  LookedInv'
<1>1. PICK j \in Linkers : \/ StoreStep(j) \/ ListClaimsMissingSlots(j)
                           \/ DeriveSlot(j) \/ UpdateClaimSlot(j) \/ AbortLinking(j)
  BY DEF NextGraph
<1>2. ASSUME NEW k \in StoreJobs,
             store'[k].looked \in {store[k].looked, <<>>}
      PROVE  LookedUp(k)'
  <2>1. LookedUp(k)
    BY DEF LookedInv
  <2>2. CASE store'[k].looked = <<>>
    BY <2>2 DEF LookedUp
  <2>3. CASE store'[k].looked = store[k].looked
    BY <2>1, <2>3 DEF LookedUp, Onward
  <2> QED
    BY <1>2, <2>2, <2>3
<1>4. CASE LookUpEntity(j)
  <2>1. /\ j \in StoreJobs /\ LookedUp(j) /\ UNCHANGED entities
    BY <1>4 DEF LookUpEntity, LookedInv
  <2>2. PICK i \in DOMAIN Mentions(j) \ DOMAIN store[j].looked :
          Go(j, [looked |-> With(store[j].looked, i,
                                 FindDeterministicEntity(Mentions(j)[i]))])
    BY <1>4 DEF LookUpEntity
  <2> DEFINE found == FindDeterministicEntity(Mentions(j)[i])
  <2>3. \A x \in found : Has(x, Mentions(j)[i])
    BY DEF FindDeterministicEntity, Has
  <2> HIDE DEF found
  <2>4. store'[j].looked = With(store[j].looked, i, found)
    BY <2>2, GoSets DEF found
  <2>5. /\ DOMAIN store'[j].looked = {i} \cup DOMAIN store[j].looked
        /\ store'[j].looked[i] = found
        /\ \A k \in DOMAIN store[j].looked :
             k # i => store'[j].looked[k] = store[j].looked[k]
    BY <2>4 DEF With
  <2>6. LookedUp(j)'
    BY <2>1, <2>2, <2>3, <2>5 DEF LookedUp, Mentions, Onward
  <2>7. \A k \in Linkers : k # j => store'[k] = store[k]
    BY <2>2, GoFacts DEF Typed
  <2> QED
    BY <1>2, <2>6, <2>7 DEF LookedInv, Linkers
<1>5. CASE ~LookUpEntity(j)
  <2>1. /\ store'[j].looked \in {store[j].looked, <<>>}
        /\ \A k \in Linkers : k # j => store'[k] = store[k]
    BY <1>1, <1>5, LookedStays
  <2> QED
    BY <1>2, <2>1 DEF LookedInv, Linkers
<1> QED
  BY <1>4, <1>5

(* The slot that is found by name.                                         *)
LEMMA SlotByName ==
  ASSUME NEW j \in StoreJobs, LookedUp(j),
         NEW s \in BuildRelationClaimSlot(j), s # None
  PROVE  About(j, s.source) /\ About(j, s.target)
<1> DEFINE looked == store[j].looked
           at(name) == {i \in DOMAIN looked :
                          /\ Stores[j].mentions[i].name = name
                          /\ looked[i] # {}}
           entityOf(name) == UNION {looked[i] :
                                      i \in {i \in at(name) :
                                               \A k \in at(name) : k <= i}}
           slots == UNION {
             {[source |-> x, type |-> r.type, target |-> y] :
                x \in entityOf(r.source), y \in entityOf(r.target)} :
             r \in Range(Stores[j].relations)}
<1>1. s \in slots
  <2>1. s \in FirstSlot(slots)
    BY DEF BuildRelationClaimSlot
  <2> HIDE DEF slots
  <2> QED
    BY <2>1 DEF FirstSlot
<1>2. ASSUME NEW name, NEW x \in entityOf(name) PROVE About(j, x)
  <2>1. PICK i \in DOMAIN looked : x \in looked[i]
    BY <1>2
  <2>2. i \in DOMAIN Stores[j].mentions /\ Has(x, Stores[j].mentions[i])
    BY <2>1 DEF LookedUp
  <2> QED
    BY <2>2 DEF About
<1>3. PICK r \in Range(Stores[j].relations) :
        \E x \in entityOf(r.source), y \in entityOf(r.target) :
          s = [source |-> x, type |-> r.type, target |-> y]
  <2> HIDE DEF entityOf
  <2> QED
    BY <1>1
<1>4. s.source \in entityOf(r.source) /\ s.target \in entityOf(r.target)
  <2> HIDE DEF entityOf
  <2> QED
    BY <1>3
<1> HIDE DEF entityOf
<1> QED
  BY <1>2, <1>4

(* The slot that is derived from relations between linked entities.        *)
LEMMA SlotByRelations ==
  ASSUME NEW r, NEW s \in DerivePersistedClaimSlot(r), s # None
  PROVE  {s.source, s.target} \subseteq EntitiesOf(r)
BY DEF DerivePersistedClaimSlot, FirstSlot

(* Each step of an ingest or a repair.                                     *)
LEMMA SlotsStep ==
  ASSUME Typed, NamesInv, SlotsInv, LookedInv, NextGraph,
         UNCHANGED <<upkeep, history>>, Typed'
  PROVE  SlotsInv'
<1>1. PICK j \in Linkers : \/ StoreStep(j) \/ ListClaimsMissingSlots(j)
                           \/ DeriveSlot(j) \/ UpdateClaimSlot(j) \/ AbortLinking(j)
  BY DEF NextGraph
<1> DEFINE l == store[j]
<1>0. /\ Onward /\ DOMAIN store = Linkers /\ StoreTyped(j)
      /\ \A k \in StoreJobs : k \in Linkers
      /\ j \in StoreJobs => Matches(j)
  BY <1>1, GraphOnward DEF Typed, Linkers, NamesInv
<1>a. UNCHANGED rows => \A r \in Ids : rows'[r].slot = rows[r].slot
  OBVIOUS
<1>b. ASSUME NEW changes, Go(j, changes) PROVE \A k \in Linkers : k # j => store'[k] = store[k]
  BY <1>0, <1>1, <1>b, GoFacts
<1>c. l.pc \in {"find", "similar", "merge", "create", "link", "row", "claim",
                "version", "relate"} => j \in StoreJobs
  BY <1>0 DEF StoreTyped
<1>15. CASE LookUpEntity(j)
  <2>1. PICK looked : Go(j, [looked |-> looked])
    BY <1>15 DEF LookUpEntity
  <2>2. /\ j \in StoreJobs /\ store'[j].pc = "new"
        /\ store'[j].row = l.row /\ UNCHANGED rows
    BY <1>1, <1>15, <2>1, GoSets DEF LookUpEntity, At
  <2>3. Linked(j)' /\ DerivedSlot(j)' /\ FoundSlot(j)'
    BY <2>2 DEF Linked, DerivedSlot, FoundSlot, Linking, Resolutions
  <2>4. RowSlot(j)'
    BY <1>0, <1>a, <2>2, RowSlotOnward
  <2> QED
    BY <1>0, <1>1, <1>a, <1>b, <2>1, <2>2, <2>3, <2>4, SlotsOfAll
<1>2. CASE ResolveDeterministicClaimSlot(j)
  <2>1. PICK s \in BuildRelationClaimSlot(j) :
           Go(j, [pc |-> "row", slot |-> s, looked |-> <<>>])
    BY <1>2 DEF ResolveDeterministicClaimSlot
  <2>2. /\ j \in StoreJobs /\ store'[j].pc = "row" /\ store'[j].slot = s
        /\ store'[j].row = l.row /\ UNCHANGED rows
    BY <1>1, <1>2, <2>1, GoSets DEF ResolveDeterministicClaimSlot
  <2>3. Linked(j)' /\ DerivedSlot(j)'
    BY <2>2 DEF Linked, DerivedSlot, Linking, Resolutions
  <2>4. FoundSlot(j)'
    BY <1>0, <2>2, SlotByName, AboutOnward DEF FoundSlot, LookedInv
  <2>5. RowSlot(j)'
    BY <1>0, <1>a, <2>2, RowSlotOnward
  <2> QED
    BY <1>0, <1>1, <1>a, <1>b, <2>1, <2>2, <2>3, <2>4, <2>5, SlotsOfAll
<1>3. CASE StoreRow(j)
  <2>1. /\ Go(j, [pc |-> "claim", row |-> Len(rows) + 1]) /\ l.pc = "row"
        /\ \A r \in Ids : rows'[r] = rows[r]
        /\ rows'[Len(rows) + 1].slot = None
    BY <1>1, <1>3, StoreRowRows DEF StoreRow, At
  <2>2. /\ store'[j].pc = "claim" /\ store'[j].slot = l.slot
        /\ store'[j].row = Len(rows) + 1 /\ j \in StoreJobs
    BY <1>1, <1>c, <2>1, GoSets
  <2>3. Linked(j)' /\ DerivedSlot(j)'
    BY <2>2 DEF Linked, DerivedSlot, Linking, Resolutions
  <2>4. FoundSlot(j)'
    BY <1>0, <2>1, <2>2, FoundSlotOnward
  <2>5. RowSlot(j)'
    BY <2>1, <2>2 DEF RowSlot
  <2> QED
    BY <1>0, <1>1, <1>b, <2>1, <2>2, <2>3, <2>4, <2>5, SlotsOfAll
<1>4. CASE CreateClaim(j)
  <2>1. /\ Go(j, [pc |-> "version"]) /\ l.pc = "claim" /\ j \in StoreJobs
        /\ SameBut(l.row) /\ l.row \in Ids /\ rows'[l.row].slot = l.slot
    BY <1>1, <1>4, <1>c, CreateClaimRows DEF CreateClaim, At
  <2>2. /\ store'[j].pc = "version" /\ store'[j].row = l.row
    BY <1>1, <2>1, GoSets
  <2>3. Linked(j)' /\ DerivedSlot(j)' /\ FoundSlot(j)'
    BY <2>2 DEF Linked, DerivedSlot, FoundSlot, Linking, Resolutions
  <2>4. RowSlot(j)'
    <3>1. \A s : s = l.slot /\ s # None => About(j, s.source) /\ About(j, s.target)
      BY <2>1 DEF SlotsInv, FoundSlot
    <3> QED
      BY <1>0, <2>1, <2>2, <3>1, AboutOnward DEF RowSlot
  <2>5. ASSUME NEW k \in StoreJobs, k # j PROVE RowSlot(k)'
    <3>1. store'[k] = store[k]
      BY <1>0, <1>b, <2>1, <2>5
    <3>2. \A r \in Ids : store[k].row = r => rows'[r].slot = rows[r].slot
      <4>1. store[k].row # l.row
        <5>1. l.row # None
          BY <2>1, NoneAssumption, Places DEF Typed, RowsTyped, Ids
        <5> QED
          BY <2>1, <2>5, <5>1 DEF Typed, RowsOfTheirOwn
      <4> QED
        BY <2>1, <4>1 DEF SameBut
    <3> QED
      BY <1>0, <3>1, <3>2, RowSlotOnward
  <2> QED
    BY <1>0, <1>1, <1>b, <2>1, <2>2, <2>3, <2>4, <2>5, SlotsOfOthers
<1>5. CASE CreateVersion(j)
  <2> DEFINE after == NextMention(j, 1)
  <2>1. /\ Go(j, after) /\ j \in StoreJobs /\ SameBut(None)
    BY <1>1, <1>5, <1>c, CreateVersionRows DEF CreateVersion, At
  <2>2. /\ DOMAIN after = {"pc", "next"}
        /\ \/ after.pc = "find" /\ after.next = 1
           \/ after.pc = "relate" /\ \A i \in DOMAIN Mentions(j) : i < 1
    BY <2>1, NextMentionFacts
  <2> HIDE DEF after
  <2>3. /\ store'[j].pc = after.pc /\ store'[j].next = after.next
        /\ store'[j].row = l.row
    BY <1>1, <2>1, <2>2, GoSets
  <2>4. \A i \in DOMAIN Stores[j].mentions : i \in Nat /\ 1 <= i
    BY <2>1, StoresAssumption, Places DEF IsSeq
  <2>5. Linked(j)'
    BY <2>2, <2>3, <2>4 DEF Linked, Behind, Mentions, Resolutions
  <2>6. DerivedSlot(j)' /\ FoundSlot(j)'
    BY <2>2, <2>3 DEF DerivedSlot, FoundSlot
  <2>7. \A r \in Ids : rows'[r].slot = rows[r].slot
    <3>1. None \notin Ids
      BY NoneAssumption, Places DEF Typed, RowsTyped, Ids
    <3> QED
      BY <2>1, <3>1 DEF SameBut
  <2>8. RowSlot(j)'
    BY <1>0, <2>1, <2>3, <2>7, RowSlotOnward
  <2> QED
    BY <1>0, <1>1, <1>b, <2>1, <2>5, <2>6, <2>7, <2>8, SlotsOfAll
<1>d. ASSUME NEW changes, Go(j, changes), j \in StoreJobs, UNCHANGED rows,
             Linked(j)', store'[j].row = l.row,
             store'[j].pc \notin {"row", "claim", "assign"}
      PROVE  SlotsInv'
  <2>1. FoundSlot(j)' /\ DerivedSlot(j)'
    BY <1>d DEF FoundSlot, DerivedSlot
  <2>2. RowSlot(j)'
    BY <1>0, <1>a, <1>d, RowSlotOnward
  <2> QED
    BY <1>0, <1>1, <1>a, <1>b, <1>d, <2>1, <2>2, SlotsOfAll
<1>6. CASE FindByName(j) \/ FindByLikeness(j) \/ MergeAlias(j) \/ CreateEntity(j)
  <2>1. /\ j \in StoreJobs /\ UNCHANGED rows /\ l.pc \in Resolutions
        /\ \/ \E pc \in Resolutions : \E e : Go(j, [pc |-> pc, match |-> e])
           \/ \E pc \in Resolutions : Go(j, [pc |-> pc])
    <3>1. FindByName(j) => /\ l.pc = "find" /\ UNCHANGED rows
                           /\ \E pc \in {"similar", "merge"} : \E e :
                                Go(j, [pc |-> pc, match |-> e])
      BY DEF FindByName, At
    <3>2. FindByLikeness(j) => /\ l.pc = "similar" /\ UNCHANGED rows
                               /\ \/ Go(j, [pc |-> "create"])
                                  \/ \E e : Go(j, [pc |-> "merge", match |-> e])
      BY DEF FindByLikeness, At
    <3>3. MergeAlias(j) => /\ l.pc = "merge" /\ UNCHANGED rows
                           /\ Go(j, [pc |-> "link"])
      BY DEF MergeAlias, At
    <3>4. CreateEntity(j) =>
            /\ l.pc = "create" /\ UNCHANGED rows
            /\ \E e : Go(j, [pc |-> "link", match |-> e])
      BY DEF CreateEntity, At
    <3> QED
      BY <1>6, <1>c, <3>1, <3>2, <3>3, <3>4 DEF Resolutions
  <2>2. ASSUME NEW changes, Go(j, changes), store'[j].pc \in Resolutions,
               store'[j].row = l.row, store'[j].next = l.next,
               store'[j].missed = l.missed
        PROVE  SlotsInv'
    <3>1. Linked(j)'
      BY <1>0, <2>1, <2>2, LinkedOnward DEF Behind, Linking
    <3> QED
      BY <1>d, <2>1, <2>2, <3>1 DEF Resolutions
  <2>3. ASSUME NEW pc \in Resolutions, NEW e, Go(j, [pc |-> pc, match |-> e])
        PROVE  SlotsInv'
    BY <1>1, <2>2, <2>3, GoSets
  <2>4. ASSUME NEW pc \in Resolutions, Go(j, [pc |-> pc])
        PROVE  SlotsInv'
    BY <1>1, <2>2, <2>4, GoSets
  <2> QED
    BY <2>1, <2>3, <2>4
<1>7. CASE LinkMemoryToEntity(j)
  <2> DEFINE after == NextMention(j, l.next + 1)
  <2>1. /\ l.pc = "link" /\ j \in StoreJobs /\ UNCHANGED <<rows, entities>>
        /\ mentions' = mentions \cup {<<l.row, l.match>>}
        /\ \E known : Go(j, [pc |-> after.pc, next |-> after.next, known |-> known])
    BY <1>7, <1>c DEF LinkMemoryToEntity, At
  <2>2. l.next \in DOMAIN Mentions(j) /\ l.next \in Nat /\ l.next + 1 \in Nat \ {0}
    BY <1>0, <2>1, StoresAssumption, Places
       DEF StoreTyped, Resolutions, Mentions, IsSeq
  <2>3. \/ after.pc = "find" /\ after.next = l.next + 1
        \/ after.pc = "relate" /\ \A i \in DOMAIN Mentions(j) : i < l.next + 1
    BY <2>1, <2>2, NextMentionFacts
  <2> HIDE DEF after
  <2>4. PICK known : Go(j, [pc |-> after.pc, next |-> after.next, known |-> known])
    BY <2>1
  <2>5. /\ store'[j].pc = after.pc /\ store'[j].next = after.next
        /\ store'[j].row = l.row /\ store'[j].missed = l.missed
    BY <1>1, <2>4, GoSets
  <2>6. Linked(j)'
    <3> SUFFICES ASSUME NEW r, store'[j].row = r, store'[j].missed # TRUE,
                        rows'[r].status # "erased",
                        NEW i \in DOMAIN Stores[j].mentions,
                        store'[j].pc \in Resolutions => i < store'[j].next
                 PROVE  \E e \in EntitiesOf(r)' : Has(e, Stores[j].mentions[i])'
      BY DEF Linked, Behind
    <3>1. i \in Nat /\ i < l.next + 1
      BY <2>1, <2>2, <2>3, <2>5, StoresAssumption, Places
         DEF Resolutions, Mentions, IsSeq
    <3>2. EntitiesOf(r) \subseteq EntitiesOf(r)' /\ l.match \in EntitiesOf(r)'
      <4>1. EntitiesOf(r) \subseteq EntitiesOf(r)'
        BY <2>1 DEF EntitiesOf
      <4>2. PICK p \in mentions' : p = <<r, l.match>>
        BY <2>1, <2>5
      <4>3. p[1] = r /\ p[2] = l.match
        BY <4>2
      <4> QED
        BY <4>1, <4>3 DEF EntitiesOf
    <3>3. CASE i = l.next
      <4>1. Has(l.match, Stores[j].mentions[i])
        BY <1>0, <2>1, <3>3 DEF Matches, Mention, At
      <4>3. PICK e : e = l.match
        OBVIOUS
      <4>4. Has(e, Stores[j].mentions[i])'
        BY <1>0, <4>1, <4>3 DEF Onward
      <4> QED
        BY <3>2, <4>3, <4>4
    <3>4. CASE i # l.next
      <4>1. Behind(j, i) /\ Linked(j)
        BY <2>1, <2>2, <3>1, <3>4 DEF Behind, SlotsInv
      <4>2. \E e \in EntitiesOf(r) : Has(e, Stores[j].mentions[i])
        BY <2>1, <2>5, <4>1 DEF Linked, Linking, Resolutions
      <4> QED
        BY <1>0, <3>2, <4>2 DEF Onward
    <3> QED
      BY <3>3, <3>4
  <2> QED
    BY <1>d, <2>1, <2>3, <2>4, <2>5, <2>6
<1>8. CASE MissMention(j)
  <2> DEFINE after == NextMention(j, l.next + 1)
  <2>1. /\ j \in StoreJobs /\ UNCHANGED rows /\ after.pc \in {"find", "relate"}
        /\ Go(j, [pc |-> after.pc, next |-> after.next, missed |-> TRUE])
    BY <1>8, <1>c DEF MissMention, NextMention
  <2> HIDE DEF after
  <2>2. /\ store'[j].pc = after.pc /\ store'[j].row = l.row
        /\ store'[j].missed = TRUE
    BY <1>1, <2>1, GoSets
  <2>3. Linked(j)'
    BY <2>2 DEF Linked
  <2> QED
    BY <1>d, <2>1, <2>2, <2>3
<1>9. CASE StoreRelation(j)
  <2>1. /\ j \in StoreJobs /\ UNCHANGED rows /\ l.pc = "relate"
        /\ Go(j, [next |-> l.next + 1])
    BY <1>9, <1>c DEF StoreRelation, At
  <2>2. /\ store'[j].pc = "relate" /\ store'[j].row = l.row
        /\ store'[j].missed = l.missed
    BY <1>1, <2>1, GoSets
  <2>3. Linked(j)'
    BY <1>0, <2>1, <2>2, LinkedOnward DEF Behind, Linking, Resolutions
  <2> QED
    BY <1>d, <2>1, <2>2, <2>3
<1>10. CASE FinishLinking(j)
  <2>1. /\ j \in StoreJobs /\ UNCHANGED rows /\ l.pc = "relate"
        /\ \/ Go(j, [pc |-> "derive", todo |-> {l.row}])
           \/ Go(j, [pc |-> "done"])
    BY <1>10, <1>c DEF FinishLinking, At
  <2>2. ASSUME NEW changes, Go(j, changes), store'[j].pc \in {"derive", "done"},
               store'[j].row = l.row, store'[j].missed = l.missed
        PROVE  SlotsInv'
    <3>1. Linked(j)'
      BY <1>0, <2>1, <2>2, LinkedOnward DEF Behind, Linking, Resolutions
    <3> QED
      BY <1>d, <2>1, <2>2, <3>1
  <2>3. CASE Go(j, [pc |-> "derive", todo |-> {l.row}])
    BY <1>1, <2>2, <2>3, GoSets
  <2>4. CASE Go(j, [pc |-> "done"])
    BY <1>1, <2>2, <2>4, GoSets
  <2> QED
    BY <2>1, <2>3, <2>4
<1>11. CASE ListClaimsMissingSlots(j)
  <2>1. PICK todo : Go(j, [pc |-> "derive", todo |-> todo])
    BY <1>11 DEF ListClaimsMissingSlots
  <2>2. j \notin StoreJobs /\ UNCHANGED rows /\ store'[j].pc = "derive"
    BY <1>1, <1>11, <2>1, GoSets, JobsAssumption DEF ListClaimsMissingSlots
  <2>3. DerivedSlot(j)'
    BY <2>2 DEF DerivedSlot
  <2> QED
    BY <1>0, <1>1, <1>a, <1>b, <2>1, <2>2, <2>3, SlotsOfAll
<1>12. CASE DeriveSlot(j)
  <2>0. l.pc = "derive" /\ UNCHANGED <<rows, mentions>>
    BY <1>12 DEF DeriveSlot, At
  <2>1. CASE Go(j, [pc |-> "done"])
    <3>1. /\ store'[j].pc = "done" /\ store'[j].row = l.row
          /\ store'[j].missed = l.missed
      BY <1>1, <2>1, GoSets
    <3>2. j \in StoreJobs => Linked(j)'
      BY <1>0, <2>0, <3>1, LinkedOnward DEF Behind, Linking, Resolutions
    <3>3. DerivedSlot(j)' /\ FoundSlot(j)'
      BY <3>1 DEF DerivedSlot, FoundSlot
    <3>4. j \in StoreJobs => RowSlot(j)'
      BY <1>0, <1>a, <2>0, <3>1, RowSlotOnward
    <3> QED
      BY <1>0, <1>1, <1>a, <1>b, <2>0, <2>1, <3>2, <3>3, <3>4, SlotsOfAll
  <2>2. ASSUME NEW r \in l.todo, NEW s \in DerivePersistedClaimSlot(r),
               Go(j, [pc |-> IF s = None THEN "derive" ELSE "assign",
                      row |-> r, slot |-> s, todo |-> l.todo \ {r}])
        PROVE  SlotsInv'
    <3>1. /\ store'[j].pc = IF s = None THEN "derive" ELSE "assign"
          /\ store'[j].row = r /\ store'[j].missed = l.missed
          /\ store'[j].slot = s
      BY <1>1, <2>2, GoSets
    <3>2. j \in StoreJobs => r = l.row
      BY <1>0, <2>0, <2>2 DEF StoreTyped
    <3>3. j \in StoreJobs => Linked(j)'
      BY <1>0, <2>0, <3>1, <3>2, LinkedOnward DEF Behind, Linking, Resolutions
    <3>4. j \in StoreJobs => RowSlot(j)'
      BY <1>0, <1>a, <2>0, <3>1, <3>2, RowSlotOnward
    <3>5. FoundSlot(j)'
      BY <3>1 DEF FoundSlot
    <3>6. DerivedSlot(j)'
      <4>1. EntitiesOf(r)' = EntitiesOf(r)
        BY <2>0 DEF EntitiesOf
      <4>2. s # None => {s.source, s.target} \subseteq EntitiesOf(r)'
        BY <2>2, <4>1, SlotByRelations
      <4> QED
        BY <3>1, <4>2 DEF DerivedSlot
    <3> QED
      BY <1>0, <1>1, <1>a, <1>b, <2>0, <2>2, <3>3, <3>4, <3>5, <3>6, SlotsOfAll
  <2> QED
    BY <1>12, <2>1, <2>2 DEF DeriveSlot
<1>13. CASE UpdateClaimSlot(j)
  <2>1. /\ Go(j, [pc |-> "derive"]) /\ l.pc = "assign" /\ SameBut(l.row)
        /\ l.row \in Ids /\ Ids' = Ids
        /\ rows'[l.row].slot \in {rows[l.row].slot, l.slot}
    BY <1>1, <1>13, UpdateClaimSlotRows DEF UpdateClaimSlot, At
  <2>2. /\ store'[j].pc = "derive" /\ store'[j].row = l.row
        /\ store'[j].missed = l.missed
    BY <1>1, <2>1, GoSets
  <2>3. j \in StoreJobs => Linked(j)'
    BY <1>0, <2>1, <2>2, LinkedOnward DEF Behind, Linking, Resolutions
  <2>4. DerivedSlot(j)' /\ FoundSlot(j)'
    BY <2>2 DEF DerivedSlot, FoundSlot
  <2>5. ASSUME NEW k \in StoreJobs PROVE RowSlot(k)'
    <3>1. store'[k].row = store[k].row
      BY <1>0, <1>b, <2>1, <2>2
    <3>2. CASE store[k].row # l.row \/ rows'[l.row].slot = rows[l.row].slot
      <4>1. \A r \in Ids : store[k].row = r => rows'[r].slot = rows[r].slot
        BY <2>1, <3>2 DEF SameBut
      <4> QED
        BY <1>0, <3>1, <4>1, RowSlotOnward
    <3>3. CASE store[k].row = l.row /\ rows'[l.row].slot = l.slot
      <4>1. DerivedSlot(j)
        BY <1>1 DEF SlotsInv
      <4>2. PICK r, s : r = l.row /\ s = l.slot
        OBVIOUS
      <4>3. rows'[r].status # "erased" =>
              {s.source, s.target} \subseteq EntitiesOf(r)'
        BY <1>0, <2>1, <4>1, <4>2 DEF DerivedSlot, Onward
      <4> QED
        BY <3>1, <3>3, <4>2, <4>3 DEF RowSlot
    <3> QED
      BY <2>1, <3>2, <3>3
  <2> QED
    BY <1>0, <1>1, <1>b, <2>1, <2>3, <2>4, <2>5, SlotsOfOthers
<1>14. CASE AbortLinking(j)
  <2>1. Go(j, [pc |-> "dead"]) /\ UNCHANGED rows
    BY <1>14 DEF AbortLinking
  <2>2. store'[j].pc = "dead" /\ store'[j].row = l.row
    BY <1>1, <2>1, GoSets
  <2>3. Linked(j)' /\ DerivedSlot(j)' /\ FoundSlot(j)'
    BY <2>2 DEF Linked, DerivedSlot, FoundSlot, Linking, Resolutions
  <2>4. j \in StoreJobs => RowSlot(j)'
    BY <1>0, <1>a, <2>1, <2>2, RowSlotOnward
  <2> QED
    BY <1>0, <1>1, <1>a, <1>b, <2>1, <2>3, <2>4, SlotsOfAll
<1> QED
  BY <1>1, <1>2, <1>3, <1>4, <1>5, <1>6, <1>7, <1>8, <1>9, <1>10, <1>11, <1>12,
     <1>13, <1>14, <1>15 DEF StoreStep

(* The slot of a claim is about entities its memory is linked to, once all *)
(* its mentions are linked, unless one of their names was raced            *)
(* (memory-storage.ts, claim-slotting.ts).                                 *)
THEOREM SlotsSafe == Spec => []SlotEntitiesAreMentioned
<1> DEFINE IInv == Typed /\ NamesInv /\ SlotsInv /\ LookedInv
<1>1. Init => IInv
  <2>1. Init => \A j \in Linkers : store[j].pc \in {"new", "none"} /\ store[j].row = None
    BY DEF Init, InitGraph
  <2>3. Init => SlotsInv
    BY <2>1 DEF SlotsInv, Linked, FoundSlot, DerivedSlot, RowSlot, Linking,
       Resolutions, Linkers
  <2>4. Init => LookedInv
    BY DEF Init, InitGraph, LookedInv, LookedUp, Linkers
  <2> QED
    BY <2>3, <2>4, InitTypes
<1>2. IInv /\ [Next]_vars => IInv'
  <2> SUFFICES ASSUME IInv, [Next]_vars PROVE IInv'
    OBVIOUS
  <2>1. Typed' /\ NamesInv'
    BY TypedStep, NamesNext
  <2>2. CASE NextGraph /\ UNCHANGED <<upkeep, history>>
    BY <2>1, <2>2, SlotsStep, LookedNext, GraphOnward
  <2>3. CASE NextUpkeep \/ UNCHANGED vars
    <3>1. /\ Onward /\ UNCHANGED store
          /\ \A r \in Ids : rows'[r].slot = rows[r].slot
      <4>1. UNCHANGED vars => Onward
        BY DEF vars, Onward, Has, EntitiesOf, Ids
      <4> QED
        BY <2>3, <4>1, UpkeepOnward, UpkeepApart DEF vars
    <3>2. ASSUME NEW j \in StoreJobs
          PROVE  Linked(j)' /\ FoundSlot(j)' /\ RowSlot(j)'
      BY <3>1, LinkedOnward, FoundSlotOnward, RowSlotOnward DEF Behind
    <3>3. \A j \in Linkers : DerivedSlot(j)'
      BY <3>1, DerivedSlotOnward
    <3>4. LookedInv'
      BY <3>1 DEF LookedInv, LookedUp, Onward
    <3> QED
      BY <2>1, <3>2, <3>3, <3>4 DEF SlotsInv
  <2> QED
    BY <2>2, <2>3 DEF Next
<1>3. IInv => SlotEntitiesAreMentioned
  <2> SUFFICES ASSUME IInv, NEW j \in StoreJobs,
                      NEW r, r = store[j].row, r # None,
                      store[j].pc = "done", ~store[j].missed,
                      rows[r].status # "erased", NEW s, s = rows[r].slot, s # None,
                      {Key(m) : m \in Range(Stores[j].mentions)} \cap raced = {},
                      NEW x \in {s.source, s.target}
               PROVE  x \in EntitiesOf(r)
    BY DEF SlotEntitiesAreMentioned, Key
  <2>1. r \in Ids /\ store[j].missed # TRUE
    BY DEF Typed, StoreTyped, Linkers, WithRow
  <2>2. CASE About(j, x)
    <3>1. PICK i \in DOMAIN Stores[j].mentions : Has(x, Stores[j].mentions[i])
      BY <2>2 DEF About
    <3>2. PICK m : m = Stores[j].mentions[i]
      OBVIOUS
    <3>3. Key(m) \notin raced
      BY <3>1, <3>2 DEF Range
    <3>4. PICK e \in EntitiesOf(r) : Has(e, m)
      BY <2>1, <3>1, <3>2 DEF SlotsInv, Linked, Linking, Behind, Resolutions
    <3>5. x = e
      BY <3>1, <3>2, <3>3, <3>4 DEF NamesInv, NamesOnOneEntity, Has, Key
    <3> QED
      BY <3>4, <3>5
  <2> QED
    BY <2>1, <2>2 DEF SlotsInv, RowSlot
<1> QED
  BY <1>1, <1>2, <1>3, PTL DEF Spec

-----------------------------------------------------------------------------
(* Opinions.                                                               *)

Step(u) ==
  \/ Consolidate(u) \/ EvaluateDecay(u) \/ ArchiveDecayed(u)
  \/ DeleteBySource(u) \/ FindVersion(u) \/ DeleteMemory(u)
  \/ InvalidateClaim(u)
  \/ ReadTarget(u) \/ UpdateMemoryContent(u) \/ EmitCanonicalUpdate(u)
  \/ UpdateOpinionConfidence(u) \/ FlagOpinion(u) \/ AbortUpkeep(u)

(* Somebody is asked about the opinion, or will be, or the request died.   *)
Flagged(r) ==
  \/ \E h \in Ids : rows[h].about = r
  \/ \E u \in UpkeepJobs : upkeep[u].row = r /\ upkeep[u].pc \in {"flag", "dead"}

(* A request that read a confidence of zero read it of such an opinion.    *)
Pending(u) ==
  \A r :
    /\ Work[u].kind = "opinion" /\ upkeep[u].pc = "write" /\ upkeep[u].row = r
    => upkeep[u].read \in Nat /\ (upkeep[u].read = 0 => Flagged(r))

OpinionInv ==
  /\ \A r \in Ids :
       /\ rows[r].confidence \in Nat \cup {None}
       /\ rows[r].status = "live" /\ rows[r].confidence = 0 => Flagged(r)
  /\ \A u \in UpkeepJobs : Pending(u)

(* Who is not about opinions.                                              *)
LEMMA NotAboutOpinions ==
  ASSUME NEW u, Step(u)
  PROVE  \/ ReadTarget(u) \/ UpdateOpinionConfidence(u) \/ FlagOpinion(u)
         \/ AbortUpkeep(u)
         \/ Work[u].kind # "opinion" /\ upkeep[u].pc \notin {"flag", "dead"}
<1>1. FindConsolidationCandidates(u) => Work[u].kind # "opinion" /\ upkeep[u].pc \notin {"flag", "dead"}
  BY DEF FindConsolidationCandidates, Is
<1>2. SkipCluster(u) => Work[u].kind # "opinion" /\ upkeep[u].pc \notin {"flag", "dead"}
  BY DEF SkipCluster, Is
<1>3. ReadMembers(u) => Work[u].kind # "opinion" /\ upkeep[u].pc \notin {"flag", "dead"}
  BY DEF ReadMembers, Is
<1>4. StoreSummary(u) => Work[u].kind # "opinion" /\ upkeep[u].pc \notin {"flag", "dead"}
  BY DEF StoreSummary, Is
<1>5. EmitConsolidationAdd(u) => Work[u].kind # "opinion" /\ upkeep[u].pc \notin {"flag", "dead"}
  BY DEF EmitConsolidationAdd, CreateSummaryClaim, CreateSummaryVersion,
     SetCurrentVersion, Is
<1>6. ArchiveMember(u) => Work[u].kind # "opinion" /\ upkeep[u].pc \notin {"flag", "dead"}
  BY DEF ArchiveMember, Is
<1>7. FinishConsolidation(u) => Work[u].kind # "opinion" /\ upkeep[u].pc \notin {"flag", "dead"}
  BY DEF FinishConsolidation, Is
<1>8. EvaluateDecay(u) => Work[u].kind # "opinion" /\ upkeep[u].pc \notin {"flag", "dead"}
  BY DEF EvaluateDecay, Is
<1>9. ArchiveDecayed(u) => Work[u].kind # "opinion" /\ upkeep[u].pc \notin {"flag", "dead"}
  BY DEF ArchiveDecayed, Is
<1>10. DeleteBySource(u) => Work[u].kind # "opinion" /\ upkeep[u].pc \notin {"flag", "dead"}
  BY DEF DeleteBySource, Is
<1>11. DeleteMemory(u) => Work[u].kind # "opinion" /\ upkeep[u].pc \notin {"flag", "dead"}
  BY DEF DeleteMemory, Is
<1>12. InvalidateClaim(u) => Work[u].kind # "opinion" /\ upkeep[u].pc \notin {"flag", "dead"}
  BY DEF InvalidateClaim, Is
<1>13. UpdateMemoryContent(u) => Work[u].kind # "opinion" /\ upkeep[u].pc \notin {"flag", "dead"}
  BY DEF UpdateMemoryContent, Is
<1>14. EmitCanonicalUpdate(u) => Work[u].kind # "opinion" /\ upkeep[u].pc \notin {"flag", "dead"}
  BY DEF EmitCanonicalUpdate, Is
<1>15. FindVersion(u) => Work[u].kind # "opinion" /\ upkeep[u].pc \notin {"flag", "dead"}
  BY DEF FindVersion, Is
<1> QED
  BY <1>1, <1>2, <1>3, <1>4, <1>5, <1>6, <1>7, <1>8, <1>9, <1>10,
      <1>11, <1>12, <1>13, <1>14, <1>15 DEF Step, Consolidate

(* A request changes its own state only.                                   *)
LEMMA StepIsLocal ==
  ASSUME Typed, NEW u \in UpkeepJobs, Step(u)
  PROVE  \A w \in UpkeepJobs : w # u => upkeep'[w] = upkeep[w]
<1>0. \A changes : Do(u, changes) =>
        \A w \in UpkeepJobs : w # u => upkeep'[w] = upkeep[w]
  BY DoFacts DEF Typed
<1>1. FindConsolidationCandidates(u) => \E changes : Do(u, changes)
  BY DEF FindConsolidationCandidates
<1>2. SkipCluster(u) => \E changes : Do(u, changes)
  BY DEF SkipCluster
<1>3. ReadMembers(u) => \E changes : Do(u, changes)
  BY DEF ReadMembers
<1>4. StoreSummary(u) => \E changes : Do(u, changes)
  BY DEF StoreSummary
<1>5. EmitConsolidationAdd(u) => \E changes : Do(u, changes)
  BY DEF EmitConsolidationAdd, CreateSummaryClaim, CreateSummaryVersion,
     SetCurrentVersion
<1>6. ArchiveMember(u) => \E changes : Do(u, changes)
  BY DEF ArchiveMember
<1>7. FinishConsolidation(u) => \E changes : Do(u, changes)
  BY DEF FinishConsolidation
<1>8. EvaluateDecay(u) => \E changes : Do(u, changes)
  BY DEF EvaluateDecay
<1>9. ArchiveDecayed(u) => \E changes : Do(u, changes)
  BY DEF ArchiveDecayed
<1>10. DeleteBySource(u) => \E changes : Do(u, changes)
  BY DEF DeleteBySource
<1>11. DeleteMemory(u) => \E changes : Do(u, changes)
  BY DEF DeleteMemory
<1>12. InvalidateClaim(u) => \E changes : Do(u, changes)
  BY DEF InvalidateClaim
<1>13. UpdateMemoryContent(u) => \E changes : Do(u, changes)
  BY DEF UpdateMemoryContent
<1>14. EmitCanonicalUpdate(u) => \E changes : Do(u, changes)
  BY DEF EmitCanonicalUpdate
<1>15. ReadTarget(u) => \E changes : Do(u, changes)
  BY DEF ReadTarget
<1>16. UpdateOpinionConfidence(u) => \E changes : Do(u, changes)
  BY DEF UpdateOpinionConfidence
<1>17. FlagOpinion(u) => \E changes : Do(u, changes)
  BY DEF FlagOpinion
<1>18. AbortUpkeep(u) => \E changes : Do(u, changes)
  BY DEF AbortUpkeep
<1>19. FindVersion(u) => \E changes : Do(u, changes)
  BY DEF FindVersion
<1> QED
  BY <1>0, <1>1, <1>2, <1>3, <1>4, <1>5, <1>6, <1>7, <1>8, <1>9, <1>10,
      <1>11, <1>12, <1>13, <1>14, <1>15, <1>16, <1>17, <1>18, <1>19 DEF Step, Consolidate

(* What the steps of requests leave of the rows.                           *)
LEMMA StepColumns ==
  ASSUME Typed, NEW u \in UpkeepJobs, Step(u)
  PROVE  /\ Ids \subseteq Ids'
         /\ \A r \in Ids :
              /\ rows'[r].about = rows[r].about
              /\ rows'[r].status = "live" => rows[r].status = "live"
              /\ ~UpdateOpinionConfidence(u) =>
                   rows'[r].confidence = rows[r].confidence
         /\ \A r \in Ids' \ Ids :
              \/ rows'[r].confidence = None
              \/ rows'[r].status = "held" /\ rows'[r].confidence = 0
<1>0. RowsTyped /\ UpkeepTyped(u)
  BY DEF Typed
<1> DEFINE Fine ==
      /\ Ids' = Ids
      /\ \A r \in Ids :
           /\ rows'[r].about = rows[r].about
           /\ rows'[r].status = "live" => rows[r].status = "live"
           /\ rows'[r].confidence = rows[r].confidence
<1>1. ASSUME NEW x \in Ids, rows' = SoftDeleted(x) PROVE Fine
  <2>1. Ids' = Ids
    BY <1>0, <1>1, SoftDeletedFacts
  <2>2. \A r \in Ids :
          /\ rows'[r].about = rows[r].about
          /\ rows'[r].confidence = rows[r].confidence
          /\ rows'[r].status = rows[r].status \/ rows'[r].status = "gone"
    BY <1>0, <1>1, SoftDeletedFacts
  <2> QED
    BY <2>1, <2>2
<1>2. CASE UNCHANGED rows
  <2>1. Fine
    BY <1>2 DEF Ids
  <2> QED
    BY <2>1
<1>3. CASE StoreSummary(u)
  BY <1>3, StoreSummaryRows
<1>4. CASE EmitConsolidationAdd(u) \/ InvalidateClaim(u) \/ EmitCanonicalUpdate(u)
  <2>1. Fine
    BY <1>4, ClaimColumns DEF SameBut
  <2> QED
    BY <2>1
<1>5. CASE ArchiveMember(u) \/ ArchiveDecayed(u)
  <2>1. UNCHANGED rows \/ \E x \in upkeep[u].members : rows' = SoftDeleted(x)
    BY <1>5 DEF ArchiveMember, ArchiveDecayed
  <2>2. upkeep[u].members \subseteq Ids
    BY <1>0 DEF UpkeepTyped
  <2> HIDE DEF Fine
  <2>3. UNCHANGED rows \/ Fine
    BY <1>1, <2>1, <2>2
  <2> QED
    BY <1>2, <2>3 DEF Fine
<1>6. CASE DeleteMemory(u)
  <2>1. \E x \in Ids : rows' = SoftDeleted(x)
    BY <1>0, <1>6 DEF DeleteMemory, UpkeepTyped, RowStates, Is
  <2> HIDE DEF Fine
  <2>2. Fine
    BY <1>1, <2>1
  <2> QED
    BY <2>2 DEF Fine
<1>7. CASE DeleteBySource(u)
  <2>1. Ids' = Ids
    BY <1>7, DeleteBySourceRows
  <2>2. \A r \in Ids :
          /\ rows'[r].about = rows[r].about
          /\ rows'[r].confidence = rows[r].confidence
          /\ rows'[r].status = rows[r].status \/ rows'[r].status = "erased"
    BY <1>7, DeleteBySourceRows
  <2> QED
    BY <2>1, <2>2
<1>8. CASE UpdateMemoryContent(u)
  BY <1>8, UpdateContentRows
<1>9. CASE UpdateOpinionConfidence(u)
  BY <1>9, UpdateOpinionRows
<1>10. CASE FlagOpinion(u)
  BY <1>10, FlagOpinionRows
<1>11. \/ FindConsolidationCandidates(u) \/ SkipCluster(u) \/ ReadMembers(u)
       \/ FinishConsolidation(u) \/ EvaluateDecay(u) \/ ReadTarget(u)
       \/ FindVersion(u) \/ AbortUpkeep(u)
       => UNCHANGED rows
  BY DEF FindConsolidationCandidates, SkipCluster, ReadMembers,
     FinishConsolidation, EvaluateDecay, ReadTarget, FindVersion, AbortUpkeep
<1> HIDE DEF Fine
<1> QED
  BY <1>2, <1>3, <1>4, <1>5, <1>6, <1>7, <1>8, <1>9, <1>10, <1>11
     DEF Step, Consolidate

(* What has to be kept for opinions.                                       *)
LEMMA OpinionsKept ==
  ASSUME OpinionInv, Ids \subseteq Ids',
         \A r \in Ids :
           /\ rows'[r].status = "live" => rows[r].status = "live"
           /\ rows'[r].confidence = rows[r].confidence,
         \A r \in Ids' \ Ids :
           \/ rows'[r].confidence = None
           \/ rows'[r].status = "held" /\ rows'[r].confidence = 0,
         \A r : Flagged(r) => Flagged(r)',
         \A u \in UpkeepJobs : Pending(u)'
  PROVE  OpinionInv'
<1>1. ASSUME NEW r \in Ids'
      PROVE  /\ rows'[r].confidence \in Nat \cup {None}
             /\ rows'[r].status = "live" /\ rows'[r].confidence = 0 => Flagged(r)'
  <2>1. CASE r \in Ids
    BY <2>1 DEF OpinionInv
  <2>2. CASE r \notin Ids
    BY <1>1, <2>2, NoneAssumption
  <2> QED
    BY <2>1, <2>2
<1> QED
  BY <1>1 DEF OpinionInv

(* A request that is not disturbed still knows what it read.               *)
LEMMA PendingKept ==
  ASSUME OpinionInv, NEW w \in UpkeepJobs, upkeep'[w] = upkeep[w],
         \A r : Flagged(r) => Flagged(r)'
  PROVE  Pending(w)'
<1>1. Pending(w)
  BY DEF OpinionInv
<1> QED
  BY <1>1 DEF Pending

(* The computed confidence.                                                *)
LEMMA SignalFacts ==
  ASSUME NEW c \in Nat, NEW action
  PROVE  ApplyOpinionSignal(c, action) \in Nat
<1>1. AudnActionToOpinionSignal(action) \in {10, -10, -20}
  BY DEF AudnActionToOpinionSignal
<1> QED
  BY <1>1 DEF ApplyOpinionSignal, Larger, Smaller

(* Steps of requests.                                                      *)
LEMMA OpinionsStep ==
  ASSUME Typed, OpinionInv, NEW u \in UpkeepJobs, Step(u)
  PROVE  OpinionInv'
<1> DEFINE l == upkeep[u]
<1>0. /\ Ids \subseteq Ids'
      /\ \A r \in Ids :
           /\ rows'[r].about = rows[r].about
           /\ rows'[r].status = "live" => rows[r].status = "live"
           /\ ~UpdateOpinionConfidence(u) =>
                rows'[r].confidence = rows[r].confidence
      /\ \A r \in Ids' \ Ids :
           \/ rows'[r].confidence = None
           \/ rows'[r].status = "held" /\ rows'[r].confidence = 0
      /\ \A w \in UpkeepJobs : w # u => upkeep'[w] = upkeep[w]
  BY StepColumns, StepIsLocal
<1>1. ASSUME l.pc \in {"flag", "dead"} =>
               \/ upkeep'[u].pc \in {"flag", "dead"} /\ upkeep'[u].row = l.row
               \/ \E h \in Ids' : rows'[h].about = l.row
      PROVE  \A r : Flagged(r) => Flagged(r)'
  <2> SUFFICES ASSUME NEW r, Flagged(r) PROVE Flagged(r)'
    OBVIOUS
  <2>1. CASE \E h \in Ids : rows[h].about = r
    BY <1>0, <2>1 DEF Flagged
  <2>2. ASSUME NEW w \in UpkeepJobs, upkeep[w].row = r,
               upkeep[w].pc \in {"flag", "dead"}
        PROVE  Flagged(r)'
    <3>1. CASE w # u
      BY <1>0, <2>2, <3>1 DEF Flagged
    <3>2. CASE w = u
      BY <1>1, <2>2, <3>2 DEF Flagged
    <3> QED
      BY <3>1, <3>2
  <2> QED
    BY <2>1, <2>2 DEF Flagged
<1>2. ASSUME ~UpdateOpinionConfidence(u), \A r : Flagged(r) => Flagged(r)',
             Pending(u)'
      PROVE  OpinionInv'
  <2>1. \A w \in UpkeepJobs : Pending(w)'
    BY <1>0, <1>2, PendingKept
  <2> QED
    BY <1>0, <1>2, <2>1, OpinionsKept
<1>3. CASE ReadTarget(u)
  <2>1. l.pc = "new" /\ UNCHANGED rows /\ ~UpdateOpinionConfidence(u)
    BY <1>3 DEF ReadTarget, UpdateOpinionConfidence, Is
  <2>2. \A r : Flagged(r) => Flagged(r)'
    BY <1>1, <2>1
  <2>3. Pending(u)'
    <3> SUFFICES ASSUME NEW r, Work[u].kind = "opinion", upkeep'[u].pc = "write",
                        upkeep'[u].row = r
                 PROVE  /\ upkeep'[u].read \in Nat
                        /\ upkeep'[u].read = 0 => Flagged(r)'
      BY DEF Pending
    <3>1. PICK x \in Ids :
            /\ Live(x) /\ rows[x].confidence # None
            /\ Do(u, [pc |-> "write", row |-> x, read |-> rows[x].confidence])
      BY <1>3 DEF ReadTarget, ListMemories
    <3>2. r = x /\ upkeep'[u].read = rows[x].confidence
      BY <3>1, DoSets
    <3> QED
      BY <2>2, <3>1, <3>2 DEF OpinionInv, Live
  <2> QED
    BY <1>2, <2>1, <2>2, <2>3
<1>4. CASE UpdateOpinionConfidence(u)
  <2> DEFINE new == ApplyOpinionSignal(l.read, Work[u].action)
             pc == IF Collapses(l.read, new) THEN "flag" ELSE "done"
  <2>1. /\ Do(u, [pc |-> pc]) /\ l.pc = "write" /\ Work[u].kind = "opinion"
    BY <1>4 DEF UpdateOpinionConfidence, Is
  <2>2. /\ l.read \in Nat /\ new \in Nat
        /\ \A r : l.read = 0 /\ r = l.row => Flagged(r)
    <3>1. Pending(u)
      BY DEF OpinionInv
    <3> QED
      BY <2>1, <3>1, SignalFacts DEF Pending
  <2>3. \A r : Flagged(r) => Flagged(r)'
    BY <1>1, <2>1
  <2>4. new = 0 => l.read = 0 \/ pc = "flag"
    BY <2>2 DEF Collapses
  <2> HIDE DEF new, pc
  <2>5. upkeep'[u].pc = pc /\ upkeep'[u].row = l.row /\ pc \in {"flag", "done"}
    BY <2>1, DoSets DEF pc
  <2>6. new = 0 => \A r : r = l.row => Flagged(r)'
    <3> SUFFICES ASSUME new = 0, NEW r, r = l.row PROVE Flagged(r)'
      OBVIOUS
    <3>1. CASE l.read = 0
      BY <2>2, <2>3, <3>1
    <3>2. CASE pc = "flag"
      BY <2>5, <3>2 DEF Flagged
    <3> QED
      BY <2>4, <3>1, <3>2
  <2>7. \A w \in UpkeepJobs : Pending(w)'
    <3>1. Pending(u)'
      BY <2>5 DEF Pending
    <3> QED
      BY <1>0, <2>3, <3>1, PendingKept
  <2>8. /\ Ids' = Ids
        /\ \A r \in Ids : r # l.row => rows'[r].confidence = rows[r].confidence
        /\ rows'[l.row].confidence \in {rows[l.row].confidence, new}
    BY <1>4, UpdateOpinionRows DEF new
  <2>9. ASSUME NEW r \in Ids
        PROVE  /\ rows'[r].confidence \in Nat \cup {None}
               /\ rows'[r].status = "live" /\ rows'[r].confidence = 0 => Flagged(r)'
    <3>1. CASE rows'[r].confidence = rows[r].confidence
      BY <1>0, <2>3, <3>1 DEF OpinionInv
    <3>2. CASE r = l.row /\ rows'[r].confidence = new
      BY <2>2, <2>6, <3>2
    <3> QED
      BY <2>8, <3>1, <3>2
  <2> QED
    BY <2>7, <2>8, <2>9 DEF OpinionInv
<1>5. CASE FlagOpinion(u)
  <2>1. /\ Do(u, [pc |-> "done"]) /\ ~UpdateOpinionConfidence(u)
        /\ \E h \in Ids' : rows'[h].about = l.row
    BY <1>5, FlagOpinionRows DEF FlagOpinion, UpdateOpinionConfidence, Is
  <2>2. upkeep'[u].pc = "done"
    BY <2>1, DoSets
  <2>3. Pending(u)'
    BY <2>2 DEF Pending
  <2>4. \A r : Flagged(r) => Flagged(r)'
    BY <1>1, <2>1
  <2> QED
    BY <1>2, <2>1, <2>3, <2>4
<1>6. CASE AbortUpkeep(u) /\ ~UpdateOpinionConfidence(u)
  <2>1. Do(u, [pc |-> "dead"])
    BY <1>6 DEF AbortUpkeep
  <2>2. upkeep'[u].pc = "dead" /\ upkeep'[u].row = l.row
    BY <2>1, DoSets
  <2>3. Pending(u)'
    BY <2>2 DEF Pending
  <2>4. \A r : Flagged(r) => Flagged(r)'
    BY <1>1, <2>2
  <2> QED
    BY <1>2, <1>6, <2>3, <2>4
<1>7. CASE Work[u].kind # "opinion" /\ l.pc \notin {"flag", "dead"}
  <2>1. ~UpdateOpinionConfidence(u)
    BY <1>7 DEF UpdateOpinionConfidence, Is
  <2>2. Pending(u)'
    BY <1>7 DEF Pending
  <2>3. \A r : Flagged(r) => Flagged(r)'
    BY <1>1, <1>7
  <2> QED
    BY <1>2, <2>1, <2>2, <2>3
<1> QED
  BY <1>3, <1>4, <1>5, <1>6, <1>7, NotAboutOpinions

(* Steps of ingests and repairs leave opinions alone.                      *)
LEMMA OpinionsGraph ==
  ASSUME Typed, OpinionInv, NextGraph, UNCHANGED <<upkeep, history>>
  PROVE  OpinionInv'
<1>1. PICK j \in Linkers : \/ StoreStep(j) \/ ListClaimsMissingSlots(j)
                           \/ DeriveSlot(j) \/ UpdateClaimSlot(j) \/ AbortLinking(j)
  BY DEF NextGraph
<1>2. /\ Ids \subseteq Ids'
      /\ \A r \in Ids : /\ rows'[r].about = rows[r].about
                        /\ rows'[r].status = rows[r].status
                        /\ rows'[r].confidence = rows[r].confidence
      /\ \A r \in Ids' \ Ids : rows'[r].confidence = None
  <2>1. CASE StoreRow(j)
    BY <2>1, StoreRowRows
  <2>2. CASE CreateClaim(j)
    BY <2>2, CreateClaimRows DEF SameBut
  <2>3. CASE CreateVersion(j)
    BY <2>3, CreateVersionRows DEF SameBut
  <2>4. CASE UpdateClaimSlot(j)
    BY <2>4, UpdateClaimSlotRows DEF SameBut
  <2>5. CASE UNCHANGED rows
    BY <2>5 DEF Ids
  <2> QED
    BY <1>1, <2>1, <2>2, <2>3, <2>4, <2>5, GraphApart
<1>3. \A r : Flagged(r) => Flagged(r)'
  BY <1>2 DEF Flagged
<1>4. \A u \in UpkeepJobs : Pending(u)'
  BY <1>3, PendingKept
<1> QED
  BY <1>2, <1>3, <1>4, OpinionsKept

(* An opinion whose confidence went down to zero has a row that asks for   *)
(* clarification, or its request is about to write one or died             *)
(* (memory-audn.ts:256).                                                   *)
THEOREM OpinionsSafe == Spec => []OpinionCollapseIsFlagged
<1>1. Init => Typed /\ OpinionInv
  <2> SUFFICES ASSUME Init PROVE OpinionInv
    BY InitTypes
  <2>1. PICK s \in Scenarios :
          /\ rows = s.rows
          /\ upkeep = [u \in UpkeepJobs |->
               [pc |-> IF u \in s.jobs THEN "new" ELSE "none",
                clusters |-> <<>>, next |-> 1, members |-> {}, row |-> None,
                read |-> None]]
    BY DEF Init, InitGraph
  <2>2. \A r \in Ids : rows[r].confidence \in (Nat \ {0}) \cup {None}
    BY <2>1, ScenarioRowsAssumption DEF Ids, Range
  <2>3. \A u \in UpkeepJobs : Pending(u)
    BY <2>1 DEF Pending
  <2> QED
    BY <2>2, <2>3, NoneAssumption DEF OpinionInv
<1>2. Typed /\ OpinionInv /\ [Next]_vars => (Typed /\ OpinionInv)'
  <2> SUFFICES ASSUME Typed, OpinionInv, [Next]_vars PROVE OpinionInv'
    BY TypedStep
  <2>1. CASE NextGraph /\ UNCHANGED <<upkeep, history>>
    BY <2>1, OpinionsGraph
  <2>2. CASE NextUpkeep
    BY <2>2, OpinionsStep DEF NextUpkeep, Step
  <2>3. CASE UNCHANGED vars
    <3>1. \A r : Flagged(r)' = Flagged(r)
      BY <2>3 DEF vars, Flagged, Ids
    <3>2. \A u \in UpkeepJobs : Pending(u)'
      BY <2>3, <3>1, PendingKept DEF vars
    <3> QED
      BY <2>3, <3>1, <3>2 DEF vars, OpinionInv, Ids
  <2> QED
    BY <2>1, <2>2, <2>3 DEF Next
<1>3. OpinionInv => OpinionCollapseIsFlagged
  BY DEF OpinionInv, OpinionCollapseIsFlagged, Flagged, Live
<1> QED
  BY <1>1, <1>2, <1>3, PTL DEF Spec

-----------------------------------------------------------------------------
(* What was stored.                                                        *)

Excused == retired \cup overtaken

(* A newer row says it.                                                    *)
Later(r, f) ==
  \E s \in Ids : s > r /\ f \in rows[s].says /\ rows[s].status # "held"

(* What went away is said by a newer row.                                  *)
Replaced ==
  \A r \in Ids : \A f \in rows[r].says :
    rows[r].status \notin {"live", "held"} /\ f \notin Excused => Later(r, f)

Consolidates(u, pcs) == Work[u].kind = "consolidate" /\ upkeep[u].pc \in pcs

(* The content of a cluster that is still to be summarized has all that    *)
(* its rows say.                                                           *)
Contained(u) ==
  Consolidates(u, {"synthesize", "summary", "lineage", "version", "pointer", "archive"}) =>
    \A k \in Nat : upkeep[u].next + k \in DOMAIN upkeep[u].clusters =>
      \A r \in upkeep[u].clusters[upkeep[u].next + k].members :
        /\ r \in Ids
        /\ \A f \in rows[r].says :
             f \notin Excused =>
               f \in upkeep[u].clusters[upkeep[u].next + k].says

(* Who is archived is of the cluster.                                      *)
Chosen(u) ==
  Consolidates(u, {"summary", "lineage", "version", "pointer", "archive"}) =>
    /\ upkeep[u].next \in DOMAIN upkeep[u].clusters
    /\ upkeep[u].members \subseteq
         upkeep[u].clusters[upkeep[u].next].members

(* What is archived is said by the summary, or a row that replaced it.     *)
Covered(u) ==
  Consolidates(u, {"lineage", "version", "pointer", "archive"}) =>
    \A r \in upkeep[u].members : \A f \in rows[r].says :
      f \notin Excused => Later(r, f)

(* What decays was given up.                                               *)
GivenUp(u) ==
  Work[u].kind = "decay" /\ upkeep[u].pc = "archive" =>
    \A r \in upkeep[u].members : rows[r].says \subseteq Excused

KeptInv ==
  /\ Replaced
  /\ \A u \in UpkeepJobs : Contained(u) /\ Chosen(u) /\ Covered(u) /\ GivenUp(u)

(* A row is replaced on purpose, or says what it said.                     *)
SaysOnward ==
  /\ Ids \subseteq Ids' /\ Excused \subseteq Excused'
  /\ \A r \in Ids :
       /\ rows'[r].status = "held" => rows[r].status = "held"
       /\ \/ rows'[r].says = rows[r].says
          \/ /\ rows[r].says \subseteq Excused'
             /\ rows'[r].status \in {"live", "held"}
             /\ Holding(r) # {} => rows'[r].says \subseteq Excused'
  /\ \A r \in Ids' \ Ids : rows'[r].status \in {"live", "held"}

(* What is removed, replaced or overtaken stays so.                        *)
LEMMA ExcusedGrows ==
  ASSUME NEW u, Step(u)
  PROVE  Excused \subseteq Excused'
<1>1. FindConsolidationCandidates(u) => Excused \subseteq Excused'
  BY DEF FindConsolidationCandidates, Excused, history
<1>2. SkipCluster(u) => Excused \subseteq Excused'
  BY DEF SkipCluster, Excused, history
<1>3. ReadMembers(u) => Excused \subseteq Excused'
  BY DEF ReadMembers, Excused, history
<1>4. StoreSummary(u) => Excused \subseteq Excused'
  BY DEF StoreSummary, Excused, history
<1>5. EmitConsolidationAdd(u) => Excused \subseteq Excused'
  BY DEF EmitConsolidationAdd, CreateSummaryClaim, CreateSummaryVersion,
     SetCurrentVersion, Excused, history
<1>6. ArchiveMember(u) => Excused \subseteq Excused'
  BY DEF ArchiveMember, Excused, history
<1>7. FinishConsolidation(u) => Excused \subseteq Excused'
  BY DEF FinishConsolidation, Excused, history
<1>8. EvaluateDecay(u) => Excused \subseteq Excused'
  BY DEF EvaluateDecay, Excused, history
<1>9. ArchiveDecayed(u) => Excused \subseteq Excused'
  BY DEF ArchiveDecayed, Excused, history
<1>10. DeleteBySource(u) => Excused \subseteq Excused'
  BY DEF DeleteBySource, Excused, history
<1>11. DeleteMemory(u) => Excused \subseteq Excused'
  BY DEF DeleteMemory, Excused, history
<1>12. InvalidateClaim(u) => Excused \subseteq Excused'
  BY DEF InvalidateClaim, Excused, history
<1>13. ReadTarget(u) => Excused \subseteq Excused'
  BY DEF ReadTarget, Excused, history
<1>14. UpdateMemoryContent(u) => Excused \subseteq Excused'
  BY DEF UpdateMemoryContent, Excused, history
<1>15. EmitCanonicalUpdate(u) => Excused \subseteq Excused'
  BY DEF EmitCanonicalUpdate, Excused, history
<1>16. UpdateOpinionConfidence(u) => Excused \subseteq Excused'
  BY DEF UpdateOpinionConfidence, Excused, history
<1>17. FlagOpinion(u) => Excused \subseteq Excused'
  BY DEF FlagOpinion, Excused, history
<1>18. AbortUpkeep(u) => Excused \subseteq Excused'
  BY DEF AbortUpkeep, Excused, history
<1>19. FindVersion(u) => Excused \subseteq Excused'
  BY DEF FindVersion, Excused, history
<1> QED
  BY <1>1, <1>2, <1>3, <1>4, <1>5, <1>6, <1>7, <1>8, <1>9, <1>10,
      <1>11, <1>12, <1>13, <1>14, <1>15, <1>16, <1>17, <1>18, <1>19 DEF Step, Consolidate

(* Steps of requests replace only what is excused.                         *)
LEMMA StepSays ==
  ASSUME Typed, NEW u \in UpkeepJobs, Step(u)
  PROVE  SaysOnward
<1>0. RowsTyped /\ UpkeepTyped(u) /\ Excused \subseteq Excused'
  BY ExcusedGrows DEF Typed
<1> DEFINE Same ==
      /\ Ids' = Ids
      /\ \A r \in Ids : /\ rows'[r].says = rows[r].says
                        /\ rows'[r].status = "held" => rows[r].status = "held"
<1>s. ASSUME Same PROVE SaysOnward
  BY <1>0, <1>s DEF SaysOnward
<1>1. ASSUME NEW x \in Ids, rows' = SoftDeleted(x) PROVE Same
  <2>1. Ids' = Ids
    BY <1>0, <1>1, SoftDeletedFacts
  <2>2. \A r \in Ids :
          /\ rows'[r].says = rows[r].says
          /\ rows'[r].status = rows[r].status \/ rows'[r].status = "gone"
    BY <1>0, <1>1, SoftDeletedFacts
  <2> QED
    BY <2>1, <2>2
<1>2. UNCHANGED rows => Same
  BY DEF Ids
<1>3. CASE StoreSummary(u)
  BY <1>0, <1>3, StoreSummaryRows DEF SaysOnward
<1>4. CASE EmitConsolidationAdd(u) \/ InvalidateClaim(u) \/ EmitCanonicalUpdate(u)
  <2>1. Same
    BY <1>4, ClaimColumns DEF SameBut
  <2> QED
    BY <1>s, <2>1
<1>5. CASE ArchiveMember(u) \/ ArchiveDecayed(u)
  <2>1. UNCHANGED rows \/ \E x \in upkeep[u].members : rows' = SoftDeleted(x)
    BY <1>5 DEF ArchiveMember, ArchiveDecayed
  <2>2. upkeep[u].members \subseteq Ids
    BY <1>0 DEF UpkeepTyped
  <2> HIDE DEF Same
  <2> QED
    BY <1>1, <1>2, <1>s, <2>1, <2>2
<1>6. CASE DeleteMemory(u)
  <2>1. \E x \in Ids : rows' = SoftDeleted(x)
    BY <1>0, <1>6 DEF DeleteMemory, UpkeepTyped, RowStates, Is
  <2> HIDE DEF Same
  <2> QED
    BY <1>1, <1>s, <2>1
<1>7. CASE DeleteBySource(u)
  <2>1. Ids' = Ids
    BY <1>7, DeleteBySourceRows
  <2>2. \A r \in Ids :
          /\ rows'[r].says = rows[r].says
          /\ rows'[r].status = rows[r].status \/ rows'[r].status = "erased"
    BY <1>7, DeleteBySourceRows
  <2>3. Same
    BY <2>1, <2>2
  <2> QED
    BY <1>s, <2>3
<1>8. CASE UpdateMemoryContent(u)
  <2> DEFINE x == upkeep[u].row
  <2>1. /\ Ids' = Ids /\ x \in Ids
        /\ \A r \in Ids : /\ rows'[r].status = rows[r].status
                          /\ r # x => rows'[r].says = rows[r].says
    BY <1>8, UpdateContentRows
  <2>2. CASE rows[x].status \in {"gone", "erased"}
    <3>1. UNCHANGED rows
      BY <1>8, <2>2, UpdateContentRows
    <3> QED
      BY <1>2, <1>s, <3>1
  <2>3. CASE rows[x].status \notin {"gone", "erased"}
    <3>1. rows'[x].says = {Work[u].fact} /\ retired' = retired \cup rows[x].says
      BY <1>8, <2>3, UpdateContentRows
    <3>2. Holding(x) # {} => Work[u].fact \in overtaken'
      BY <1>8, <2>3 DEF UpdateMemoryContent
    <3>3. rows[x].status \in {"live", "held"}
      BY <1>0, <2>1, <2>3 DEF RowsTyped, Statuses
    <3>4. /\ rows[x].says \subseteq Excused'
          /\ Holding(x) # {} => rows'[x].says \subseteq Excused'
      BY <3>1, <3>2 DEF Excused
    <3> QED
      BY <1>0, <2>1, <3>3, <3>4 DEF SaysOnward
  <2> QED
    BY <2>2, <2>3
<1>9. CASE UpdateOpinionConfidence(u)
  <2>1. Same
    BY <1>9, UpdateOpinionRows
  <2> QED
    BY <1>s, <2>1
<1>10. CASE FlagOpinion(u)
  BY <1>0, <1>10, FlagOpinionRows DEF SaysOnward
<1>11. \/ FindConsolidationCandidates(u) \/ SkipCluster(u) \/ ReadMembers(u)
       \/ FinishConsolidation(u) \/ EvaluateDecay(u) \/ ReadTarget(u)
       \/ FindVersion(u) \/ AbortUpkeep(u)
       => UNCHANGED rows
  BY DEF FindConsolidationCandidates, SkipCluster, ReadMembers,
     FinishConsolidation, EvaluateDecay, ReadTarget, FindVersion, AbortUpkeep
<1> HIDE DEF Same
<1> QED
  BY <1>2, <1>s, <1>3, <1>4, <1>5, <1>6, <1>7, <1>8, <1>9, <1>10, <1>11
     DEF Step, Consolidate

(* So do the steps of ingests and repairs.                                 *)
LEMMA GraphSays ==
  ASSUME Typed, NextGraph, UNCHANGED <<upkeep, history>>
  PROVE  /\ SaysOnward
         /\ \A r \in Ids : rows'[r].status = rows[r].status
<1>1. PICK j \in Linkers : \/ StoreStep(j) \/ ListClaimsMissingSlots(j)
                           \/ DeriveSlot(j) \/ UpdateClaimSlot(j) \/ AbortLinking(j)
  BY DEF NextGraph
<1>2. Excused \subseteq Excused'
  BY DEF Excused, history
<1>3. /\ Ids \subseteq Ids'
      /\ \A r \in Ids : /\ rows'[r].says = rows[r].says
                        /\ rows'[r].status = rows[r].status
      /\ \A r \in Ids' \ Ids : rows'[r].status = "live"
  <2>1. CASE StoreRow(j)
    BY <2>1, StoreRowRows
  <2>2. CASE CreateClaim(j)
    BY <2>2, CreateClaimRows DEF SameBut
  <2>3. CASE CreateVersion(j)
    BY <2>3, CreateVersionRows DEF SameBut
  <2>4. CASE UpdateClaimSlot(j)
    BY <2>4, UpdateClaimSlotRows DEF SameBut
  <2>5. CASE UNCHANGED rows
    BY <2>5 DEF Ids
  <2> QED
    BY <1>1, <2>1, <2>2, <2>3, <2>4, <2>5, GraphApart
<1> QED
  BY <1>2, <1>3 DEF SaysOnward

(* A newer row that says it goes on saying it, until it is excused.        *)
LEMMA LaterOnward ==
  ASSUME SaysOnward, NEW r, NEW f, Later(r, f), f \notin Excused'
  PROVE  Later(r, f)'
<1>1. PICK s \in Ids : s > r /\ f \in rows[s].says /\ rows[s].status # "held"
  BY DEF Later
<1>2. s \in Ids' /\ rows'[s].status # "held" /\ f \in rows'[s].says
  BY <1>1 DEF SaysOnward
<1> QED
  BY <1>1, <1>2 DEF Later

(* Rows that went away in this step have to be said by newer ones.         *)
LEMMA ReplacedOnward ==
  ASSUME Replaced, SaysOnward,
         \A r \in Ids :
           \/ rows'[r].status = rows[r].status
           \/ \A f \in rows[r].says : f \notin Excused' => Later(r, f)'
  PROVE  Replaced'
<1> SUFFICES ASSUME NEW r \in Ids', NEW f \in rows'[r].says,
                    rows'[r].status \notin {"live", "held"}, f \notin Excused'
             PROVE  Later(r, f)'
  BY DEF Replaced
<1>1. r \in Ids /\ rows'[r].says = rows[r].says /\ f \notin Excused
  BY DEF SaysOnward
<1>2. CASE rows'[r].status = rows[r].status
  <2>1. Later(r, f)
    BY <1>1, <1>2 DEF Replaced
  <2> QED
    BY <2>1, LaterOnward
<1> QED
  BY <1>1, <1>2

(* Contents stay complete.                                                 *)
LEMMA ContainedOnward ==
  ASSUME Typed, KeptInv, SaysOnward, NEW u \in UpkeepJobs,
         Consolidates(u, {"synthesize", "summary", "lineage", "version", "pointer", "archive"})' =>
           /\ Consolidates(u, {"synthesize", "summary", "lineage", "version", "pointer", "archive"})
           /\ upkeep'[u].clusters = upkeep[u].clusters
           /\ upkeep'[u].next \in {upkeep[u].next, upkeep[u].next + 1}
  PROVE  Contained(u)'
<1> SUFFICES ASSUME Consolidates(u, {"synthesize", "summary", "lineage", "version", "pointer", "archive"})',
                    NEW k \in Nat, upkeep'[u].next + k \in DOMAIN upkeep'[u].clusters,
                    NEW r \in upkeep'[u].clusters[upkeep'[u].next + k].members
             PROVE  /\ r \in Ids'
                    /\ \A f \in rows'[r].says :
                         f \notin Excused' =>
                           f \in upkeep'[u].clusters[upkeep'[u].next + k].says
  BY DEF Contained
<1>1. UpkeepTyped(u) /\ upkeep[u].next \in Nat /\ Contained(u)
  BY DEF Typed, UpkeepTyped, KeptInv
<1>2. PICK i \in Nat : upkeep'[u].next + k = upkeep[u].next + i
  <2>1. CASE upkeep'[u].next = upkeep[u].next
    BY <2>1
  <2>2. CASE upkeep'[u].next = upkeep[u].next + 1
    <3>1. upkeep'[u].next + k = upkeep[u].next + (k + 1) /\ k + 1 \in Nat
      BY <1>1, <2>2
    <3> QED
      BY <3>1
  <2> QED
    BY <2>1, <2>2
<1> DEFINE c == upkeep[u].next + i
<1>3. /\ c \in DOMAIN upkeep[u].clusters /\ r \in upkeep[u].clusters[c].members
      /\ c >= upkeep[u].next
  BY <1>1, <1>2
<1>4. /\ r \in Ids
      /\ \A f \in rows[r].says : f \notin Excused => f \in upkeep[u].clusters[c].says
  BY <1>1, <1>3 DEF Contained
<1>5. Holding(r) # {}
  <2>1. upkeep[u].pc # "dead"
    BY DEF Consolidates
  <2> HIDE DEF c
  <2> QED
    BY <1>3, <2>1 DEF Holding
<1>6. \A f \in rows'[r].says : f \notin Excused' => f \in upkeep[u].clusters[c].says
  BY <1>4, <1>5 DEF SaysOnward
<1> QED
  BY <1>2, <1>4, <1>6 DEF SaysOnward

(* The members stay among the cluster.                                     *)
LEMMA ChosenOnward ==
  ASSUME KeptInv, NEW u \in UpkeepJobs,
         Consolidates(u, {"summary", "lineage", "version", "pointer", "archive"})' =>
           /\ Consolidates(u, {"summary", "lineage", "version", "pointer", "archive"})
           /\ upkeep'[u].clusters = upkeep[u].clusters
           /\ upkeep'[u].next = upkeep[u].next
           /\ upkeep'[u].members \subseteq upkeep[u].members
  PROVE  Chosen(u)'
<1>1. Chosen(u)
  BY DEF KeptInv
<1> QED
  BY <1>1 DEF Chosen

(* The members stay covered, even if they are rewritten.                   *)
LEMMA CoveredOnward ==
  ASSUME Typed, KeptInv, SaysOnward, NEW u \in UpkeepJobs,
         Consolidates(u, {"lineage", "version", "pointer", "archive"})' =>
           /\ Consolidates(u, {"lineage", "version", "pointer", "archive"})
           /\ upkeep'[u].members \subseteq upkeep[u].members
  PROVE  Covered(u)'
<1> SUFFICES ASSUME Consolidates(u, {"lineage", "version", "pointer", "archive"})',
                    NEW r \in upkeep'[u].members, NEW f \in rows'[r].says,
                    f \notin Excused'
             PROVE  Later(r, f)'
  BY DEF Covered
<1>1. /\ r \in upkeep[u].members /\ r \in Ids /\ upkeep[u].pc # "dead"
      /\ Covered(u) /\ Consolidates(u, {"lineage", "version", "pointer", "archive"})
  BY DEF Typed, UpkeepTyped, KeptInv, Consolidates
<1>2. Holding(r) # {}
  BY <1>1 DEF Holding
<1>3. f \in rows[r].says /\ f \notin Excused
  BY <1>1, <1>2 DEF SaysOnward
<1>4. Later(r, f)
  BY <1>1, <1>3 DEF Covered
<1> QED
  BY <1>4, LaterOnward

(* What was given up stays so, even if it is rewritten.                    *)
LEMMA GivenUpOnward ==
  ASSUME Typed, KeptInv, SaysOnward, NEW u \in UpkeepJobs,
         Work[u].kind = "decay" /\ upkeep'[u].pc = "archive" =>
           upkeep[u].pc = "archive" /\ upkeep'[u].members \subseteq upkeep[u].members
  PROVE  GivenUp(u)'
<1> SUFFICES ASSUME Work[u].kind = "decay", upkeep'[u].pc = "archive",
                    NEW r \in upkeep'[u].members
             PROVE  rows'[r].says \subseteq Excused'
  BY DEF GivenUp
<1>1. /\ r \in upkeep[u].members /\ r \in Ids /\ upkeep[u].pc # "dead"
      /\ GivenUp(u) /\ upkeep[u].pc = "archive"
  BY DEF Typed, UpkeepTyped, KeptInv
<1>2. Holding(r) # {}
  BY <1>1 DEF Holding
<1>3. rows[r].says \subseteq Excused
  BY <1>1 DEF GivenUp
<1> QED
  BY <1>1, <1>2, <1>3 DEF SaysOnward

(* Who is not about consolidation or decay.                                *)
LEMMA OfOtherKinds ==
  ASSUME NEW u, Step(u)
  PROVE  \/ Consolidate(u) \/ EvaluateDecay(u) \/ ArchiveDecayed(u) \/ AbortUpkeep(u)
         \/ Work[u].kind \notin {"consolidate", "decay"}
<1>1. DeleteBySource(u) => Work[u].kind \notin {"consolidate", "decay"}
  BY DEF DeleteBySource, Is
<1>2. DeleteMemory(u) => Work[u].kind \notin {"consolidate", "decay"}
  BY DEF DeleteMemory, Is
<1>3. InvalidateClaim(u) => Work[u].kind \notin {"consolidate", "decay"}
  BY DEF InvalidateClaim, Is
<1>4. ReadTarget(u) => Work[u].kind \notin {"consolidate", "decay"}
  BY DEF ReadTarget, Is
<1>5. UpdateMemoryContent(u) => Work[u].kind \notin {"consolidate", "decay"}
  BY DEF UpdateMemoryContent, Is
<1>6. EmitCanonicalUpdate(u) => Work[u].kind \notin {"consolidate", "decay"}
  BY DEF EmitCanonicalUpdate, Is
<1>7. UpdateOpinionConfidence(u) => Work[u].kind \notin {"consolidate", "decay"}
  BY DEF UpdateOpinionConfidence, Is
<1>8. FlagOpinion(u) => Work[u].kind \notin {"consolidate", "decay"}
  BY DEF FlagOpinion, Is
<1>9. FindVersion(u) => Work[u].kind \notin {"consolidate", "decay"}
  BY DEF FindVersion, Is
<1> QED
  BY <1>1, <1>2, <1>3, <1>4, <1>5, <1>6, <1>7, <1>8, <1>9 DEF Step

(* What goes away is said by a newer row, or was given up.                 *)
LEMMA StepStatus ==
  ASSUME Typed, KeptInv, SaysOnward, NEW u \in UpkeepJobs, Step(u)
  PROVE  \A r \in Ids :
           \/ rows'[r].status = rows[r].status
           \/ \A f \in rows[r].says : f \notin Excused' => Later(r, f)'
<1>0. RowsTyped /\ UpkeepTyped(u) /\ Covered(u) /\ GivenUp(u) /\ Excused \subseteq Excused'
  BY DEF Typed, KeptInv, SaysOnward
<1>1. ASSUME NEW x \in Ids, rows' = SoftDeleted(x),
             \A f \in rows[x].says : f \notin Excused' => Later(x, f)'
      PROVE  \A r \in Ids :
               \/ rows'[r].status = rows[r].status
               \/ \A f \in rows[r].says : f \notin Excused' => Later(r, f)'
  <2>1. \A r \in Ids : rows'[r].status = rows[r].status \/ r = x
    BY <1>0, <1>1, SoftDeletedFacts
  <2> QED
    BY <1>1, <2>1
<1>2. CASE UNCHANGED rows
  BY <1>2
<1>3. CASE ArchiveMember(u)
  <2>1. Consolidates(u, {"lineage", "version", "pointer", "archive"})
    BY <1>3 DEF ArchiveMember, Is, Consolidates
  <2>2. UNCHANGED rows \/ \E x \in upkeep[u].members : rows' = SoftDeleted(x)
    BY <1>3 DEF ArchiveMember
  <2>3. ASSUME NEW x \in upkeep[u].members, NEW f \in rows[x].says, f \notin Excused'
        PROVE  Later(x, f)'
    <3>1. Later(x, f)
      BY <1>0, <2>1, <2>3 DEF Covered
    <3> QED
      BY <2>3, <3>1, LaterOnward
  <2>4. upkeep[u].members \subseteq Ids
    BY <1>0 DEF UpkeepTyped
  <2> QED
    BY <1>1, <1>2, <2>2, <2>3, <2>4
<1>4. CASE ArchiveDecayed(u)
  <2>1. Work[u].kind = "decay" /\ upkeep[u].pc = "archive"
    BY <1>4 DEF ArchiveDecayed, Is
  <2>2. UNCHANGED rows \/ \E x \in upkeep[u].members : rows' = SoftDeleted(x)
    BY <1>4 DEF ArchiveDecayed
  <2>3. \A x \in upkeep[u].members : \A f \in rows[x].says : f \in Excused'
    BY <1>0, <2>1 DEF GivenUp
  <2>4. upkeep[u].members \subseteq Ids
    BY <1>0 DEF UpkeepTyped
  <2> QED
    BY <1>1, <1>2, <2>2, <2>3, <2>4
<1>5. CASE DeleteMemory(u)
  <2>1. PICK x \in Ids : rows' = SoftDeleted(x) /\ retired' = retired \cup rows[x].says
    BY <1>0, <1>5 DEF DeleteMemory, UpkeepTyped, RowStates, Is
  <2>2. \A f \in rows[x].says : f \in Excused'
    BY <2>1 DEF Excused
  <2> QED
    BY <1>1, <2>1, <2>2
<1>6. CASE DeleteBySource(u)
  <2>1. \A r \in Ids : \/ rows'[r].status = rows[r].status
                       \/ rows[r].says \subseteq retired'
    BY <1>6, DeleteBySourceRows
  <2> QED
    BY <2>1 DEF Excused
<1>7. CASE StoreSummary(u)
  BY <1>7, StoreSummaryRows
<1>8. CASE EmitConsolidationAdd(u) \/ InvalidateClaim(u) \/ EmitCanonicalUpdate(u)
  BY <1>8, ClaimColumns DEF SameBut
<1>9. CASE UpdateMemoryContent(u)
  BY <1>9, UpdateContentRows
<1>10. CASE UpdateOpinionConfidence(u)
  BY <1>10, UpdateOpinionRows
<1>11. CASE FlagOpinion(u)
  BY <1>11, FlagOpinionRows
<1>12. \/ FindConsolidationCandidates(u) \/ SkipCluster(u) \/ ReadMembers(u)
       \/ FinishConsolidation(u) \/ EvaluateDecay(u) \/ ReadTarget(u)
       \/ FindVersion(u) \/ AbortUpkeep(u)
       => UNCHANGED rows
  BY DEF FindConsolidationCandidates, SkipCluster, ReadMembers,
     FinishConsolidation, EvaluateDecay, ReadTarget, FindVersion, AbortUpkeep
<1> QED
  BY <1>2, <1>3, <1>4, <1>5, <1>6, <1>7, <1>8, <1>9, <1>10, <1>11, <1>12
     DEF Step, Consolidate

(* The request itself: what it lists, chooses, writes and archives.        *)
LEMMA KeptByIts ==
  ASSUME Typed, KeptInv, SaysOnward,
         NEW u \in UpkeepJobs, Step(u)
  PROVE  Contained(u)' /\ Chosen(u)' /\ Covered(u)' /\ GivenUp(u)'
<1> DEFINE l == upkeep[u]
<1>0. /\ UpkeepTyped(u) /\ l.next \in Nat
      /\ Contained(u) /\ Chosen(u) /\ Covered(u) /\ GivenUp(u)
  BY DEF Typed, UpkeepTyped, KeptInv
<1>1. CASE Work[u].kind \notin {"consolidate", "decay"}
  BY <1>1 DEF Contained, Chosen, Covered, GivenUp, Consolidates
<1>2. CASE upkeep'[u].pc \in {"dead", "done"}
  BY <1>2 DEF Contained, Chosen, Covered, GivenUp, Consolidates
<1>3. CASE AbortUpkeep(u)
  <2>1. Do(u, [pc |-> "dead"])
    BY <1>3 DEF AbortUpkeep
  <2>2. upkeep'[u].pc = "dead"
    BY <2>1, DoSets
  <2> QED
    BY <1>2, <2>2
<1>4. CASE FinishConsolidation(u)
  <2>1. Do(u, [pc |-> "done", clusters |-> <<>>, next |-> 1])
    BY <1>4 DEF FinishConsolidation
  <2>2. upkeep'[u].pc = "done"
    BY <2>1, DoSets
  <2> QED
    BY <1>2, <2>2
<1>5. ASSUME Consolidates(u, {"synthesize", "archive"}), Do(u, NextCluster(u))
      PROVE  Contained(u)' /\ Chosen(u)' /\ Covered(u)' /\ GivenUp(u)'
  <2>1. Do(u, [pc |-> "synthesize", next |-> l.next + 1])
    BY <1>5 DEF NextCluster
  <2>2. /\ upkeep'[u].pc = "synthesize" /\ upkeep'[u].next = l.next + 1
        /\ upkeep'[u].clusters = l.clusters
    BY <2>1, DoSets
  <2>3. Contained(u)'
    BY <1>5, <2>2, ContainedOnward DEF Consolidates
  <2> QED
    BY <2>2, <2>3 DEF Chosen, Covered, GivenUp, Consolidates
<1>6. CASE FindConsolidationCandidates(u)
  <2> DEFINE listed == ListMemories(Settings.consolidationPage)
             lists == FormClusters(listed)
             of(c) == {r \in listed : r \in Range(lists[c])}
             clusters == [c \in DOMAIN lists |->
                [ids |-> lists[c], members |-> of(c),
                 says |-> UNION {rows[r].says : r \in of(c)}]]
  <2>1. /\ Do(u, [pc |-> "synthesize", clusters |-> clusters])
        /\ UNCHANGED <<rows, retired, overtaken>>
    BY <1>6 DEF FindConsolidationCandidates, history
  <2>2. \A c \in DOMAIN lists : of(c) \subseteq Ids
    <3>1. listed \subseteq Ids
      BY DEF ListMemories
    <3> HIDE DEF lists, listed
    <3> QED
      BY <3>1
  <2> HIDE DEF lists, of
  <2>3. \A c \in DOMAIN clusters : \A r \in clusters[c].members :
          r \in Ids /\ \A f \in rows[r].says : f \in clusters[c].says
    BY <2>2
  <2> HIDE DEF clusters
  <2>4. upkeep'[u].pc = "synthesize" /\ upkeep'[u].clusters = clusters
    BY <2>1, DoSets
  <2>5. Contained(u)'
    BY <2>1, <2>3, <2>4 DEF Contained, Ids
  <2> QED
    BY <2>4, <2>5 DEF Chosen, Covered, GivenUp, Consolidates
<1>7. CASE SkipCluster(u)
  <2>1. Consolidates(u, {"synthesize", "archive"}) /\ Do(u, NextCluster(u))
    BY <1>7 DEF SkipCluster, Consolidates, Is
  <2> QED
    BY <1>5, <2>1
<1>8. CASE ReadMembers(u)
  <2>1. /\ Work[u].kind = "consolidate" /\ l.pc = "synthesize"
        /\ l.next \in DOMAIN l.clusters
    BY <1>8 DEF ReadMembers, Is, More
  <2>2. CASE Do(u, NextCluster(u))
    BY <1>5, <2>1, <2>2 DEF Consolidates
  <2>3. ASSUME NEW read,
               Do(u, [pc |-> "summary", members |-> ValidMembers(u), read |-> read])
        PROVE  Contained(u)' /\ Chosen(u)' /\ Covered(u)' /\ GivenUp(u)'
    <3>1. /\ upkeep'[u].pc = "summary" /\ upkeep'[u].next = l.next
          /\ upkeep'[u].clusters = l.clusters
          /\ upkeep'[u].members = ValidMembers(u)
      BY <2>3, DoSets
    <3>2. Contained(u)'
      BY <2>1, <3>1, ContainedOnward DEF Consolidates
    <3>3. ValidMembers(u) \subseteq l.clusters[l.next].members
      BY DEF ValidMembers, Cluster
    <3>4. Chosen(u)'
      BY <2>1, <3>1, <3>3 DEF Chosen
    <3> QED
      BY <2>1, <3>1, <3>2, <3>4 DEF Covered, GivenUp, Consolidates
  <2>4. \/ Do(u, NextCluster(u))
        \/ \E read :
             Do(u, [pc |-> "summary", members |-> ValidMembers(u), read |-> read])
    BY <1>8 DEF ReadMembers
  <2> QED
    BY <2>2, <2>3, <2>4
<1>9. CASE StoreSummary(u)
  <2> DEFINE n == Len(rows) + 1
  <2>1. /\ Consolidates(u, {"summary", "lineage", "version", "pointer", "archive"})
        /\ Work[u].kind = "consolidate" /\ l.pc = "summary"
        /\ Do(u, [pc |-> "lineage", row |-> n])
        /\ UNCHANGED <<retired, overtaken>>
    BY <1>9 DEF StoreSummary, Is, Consolidates, history
  <2>2. /\ upkeep'[u].pc = "lineage" /\ upkeep'[u].next = l.next
        /\ upkeep'[u].clusters = l.clusters /\ upkeep'[u].members = l.members
    BY <2>1, DoSets
  <2>3. Contained(u)'
    BY <2>1, <2>2, ContainedOnward DEF Consolidates
  <2>4. Chosen(u)'
    BY <2>1, <2>2, ChosenOnward
  <2>5. Covered(u)'
    <3> SUFFICES ASSUME NEW r \in l.members, NEW f \in rows'[r].says, f \notin Excused'
                 PROVE  Later(r, f)'
      BY <2>2 DEF Covered
    <3>1. /\ r \in Ids /\ n \notin Ids /\ n \in Ids' /\ rows'[r] = rows[r]
          /\ rows'[n].says = Cluster(u).says /\ rows'[n].status = "live"
      BY <1>0, <1>9, StoreSummaryRows DEF UpkeepTyped
    <3>2. /\ l.next \in DOMAIN l.clusters /\ r \in l.clusters[l.next].members
      BY <1>0, <2>1 DEF Chosen
    <3>3. f \in rows[r].says /\ f \notin Excused
      BY <2>1, <3>1 DEF Excused
    <3>4. f \in l.clusters[l.next].says
      <4>1. l.next + 0 = l.next /\ 0 \in Nat
        BY <1>0
      <4>2. Consolidates(u, {"synthesize", "summary", "lineage", "version", "pointer", "archive"})
        BY <2>1 DEF Consolidates
      <4>3. PICK k \in Nat : l.next + k = l.next
        BY <4>1
      <4>4. \A g \in rows[r].says : g \notin Excused =>
              g \in l.clusters[l.next + k].says
        BY <1>0, <3>2, <4>2, <4>3 DEF Contained
      <4> QED
        BY <3>3, <4>3, <4>4
    <3>5. n > r
      BY <3>1, Places DEF Typed, RowsTyped, Ids
    <3> QED
      BY <3>1, <3>4, <3>5 DEF Later, Cluster
  <2> QED
    BY <2>1, <2>3, <2>4, <2>5 DEF GivenUp
<1>10. CASE EmitConsolidationAdd(u)
  <2>1. /\ Work[u].kind = "consolidate"
        /\ l.pc \in {"lineage", "version", "pointer"}
        /\ \E pc \in {"version", "pointer", "archive"} : Do(u, [pc |-> pc])
    BY <1>10 DEF EmitConsolidationAdd, CreateSummaryClaim,
       CreateSummaryVersion, SetCurrentVersion, Is
  <2>2. /\ upkeep'[u].pc \in {"version", "pointer", "archive"}
        /\ upkeep'[u].next = l.next
        /\ upkeep'[u].clusters = l.clusters /\ upkeep'[u].members = l.members
    BY <2>1, DoSets
  <2>3. Contained(u)'
    BY <2>1, <2>2, ContainedOnward DEF Consolidates
  <2>4. Chosen(u)'
    BY <2>1, <2>2, ChosenOnward DEF Consolidates
  <2>5. Covered(u)'
    BY <2>1, <2>2, CoveredOnward DEF Consolidates
  <2> QED
    BY <2>1, <2>3, <2>4, <2>5 DEF GivenUp
<1>11. CASE ArchiveMember(u)
  <2>1. Work[u].kind = "consolidate" /\ l.pc = "archive"
    BY <1>11 DEF ArchiveMember, Is
  <2>2. CASE l.members = {}
    BY <1>5, <1>11, <2>1, <2>2 DEF ArchiveMember, Consolidates
  <2>3. ASSUME NEW r, Do(u, [members |-> l.members \ {r}])
        PROVE  Contained(u)' /\ Chosen(u)' /\ Covered(u)' /\ GivenUp(u)'
    <3>1. /\ upkeep'[u].pc = l.pc /\ upkeep'[u].next = l.next
          /\ upkeep'[u].clusters = l.clusters
          /\ upkeep'[u].members \subseteq l.members
      BY <2>3, DoSets
    <3>2. Contained(u)'
      BY <2>1, <3>1, ContainedOnward DEF Consolidates
    <3>3. Chosen(u)'
      BY <2>1, <3>1, ChosenOnward DEF Consolidates
    <3>4. Covered(u)'
      BY <2>1, <3>1, CoveredOnward DEF Consolidates
    <3> QED
      BY <2>1, <3>2, <3>3, <3>4 DEF GivenUp
  <2> QED
    BY <1>11, <2>2, <2>3 DEF ArchiveMember
<1>12. CASE EvaluateDecay(u)
  <2>1. PICK stale \in SUBSET Ids :
          /\ Do(u, [pc |-> "archive", members |-> stale])
          /\ retired' = retired \cup UNION {rows[r].says : r \in stale}
    BY <1>12 DEF EvaluateDecay, EvaluateDecayCandidates, ListMemories
  <2>2. Work[u].kind = "decay" /\ UNCHANGED rows
    BY <1>12 DEF EvaluateDecay, Is
  <2>3. upkeep'[u].members = stale
    BY <2>1, DoSets
  <2>4. GivenUp(u)'
    BY <2>1, <2>2, <2>3 DEF GivenUp, Excused
  <2> QED
    BY <2>2, <2>4 DEF Contained, Chosen, Covered, Consolidates
<1>13. CASE ArchiveDecayed(u)
  <2>1. Work[u].kind = "decay" /\ l.pc = "archive"
    BY <1>13 DEF ArchiveDecayed, Is
  <2>2. Contained(u)' /\ Chosen(u)' /\ Covered(u)'
    BY <2>1 DEF Contained, Chosen, Covered, Consolidates
  <2>3. CASE Do(u, [pc |-> "done"])
    <3>1. upkeep'[u].pc = "done"
      BY <2>3, DoSets
    <3> QED
      BY <1>2, <3>1
  <2>4. ASSUME NEW r, Do(u, [members |-> l.members \ {r}])
        PROVE  GivenUp(u)'
    <3>1. upkeep'[u].pc = l.pc /\ upkeep'[u].members \subseteq l.members
      BY <2>4, DoSets
    <3> QED
      BY <2>1, <3>1, GivenUpOnward
  <2>5. Do(u, [pc |-> "done"]) \/ \E r : Do(u, [members |-> l.members \ {r}])
    BY <1>13 DEF ArchiveDecayed
  <2> QED
    BY <2>2, <2>3, <2>4, <2>5
<1> QED
  BY <1>1, <1>3, <1>4, <1>6, <1>7, <1>8, <1>9, <1>10, <1>11, <1>12, <1>13,
     OfOtherKinds DEF Consolidate

(* Every step.                                                             *)
LEMMA KeptStep ==
  ASSUME Typed, KeptInv, [Next]_vars
  PROVE  KeptInv'
<1>1. ASSUME SaysOnward, NEW w \in UpkeepJobs, upkeep'[w] = upkeep[w]
      PROVE  Contained(w)' /\ Chosen(w)' /\ Covered(w)' /\ GivenUp(w)'
  BY <1>1, ContainedOnward, ChosenOnward, CoveredOnward, GivenUpOnward
     DEF Consolidates
<1>2. CASE NextGraph /\ UNCHANGED <<upkeep, history>>
  <2>1. SaysOnward /\ \A r \in Ids : rows'[r].status = rows[r].status
    BY <1>2, GraphSays
  <2>2. Replaced'
    BY <2>1, ReplacedOnward DEF KeptInv
  <2> QED
    BY <1>1, <1>2, <2>1, <2>2 DEF KeptInv
<1>3. ASSUME NEW u \in UpkeepJobs, Step(u) PROVE KeptInv'
  <2>1. SaysOnward
    BY <1>3, StepSays
  <2>2. Replaced'
    BY <1>3, <2>1, StepStatus, ReplacedOnward DEF KeptInv
  <2>3. \A w \in UpkeepJobs : w # u => upkeep'[w] = upkeep[w]
    BY <1>3, StepIsLocal
  <2>4. Contained(u)' /\ Chosen(u)' /\ Covered(u)' /\ GivenUp(u)'
    BY <1>3, <2>1, KeptByIts
  <2> QED
    BY <1>1, <2>1, <2>2, <2>3, <2>4 DEF KeptInv
<1>4. CASE UNCHANGED vars
  <2>1. SaysOnward /\ \A r \in Ids : rows'[r].status = rows[r].status
    BY <1>4 DEF vars, SaysOnward, Ids, Excused
  <2>2. Replaced'
    BY <2>1, ReplacedOnward DEF KeptInv
  <2>3. \A w \in UpkeepJobs : upkeep'[w] = upkeep[w]
    BY <1>4 DEF vars
  <2> QED
    BY <1>1, <2>1, <2>2, <2>3 DEF KeptInv
<1> QED
  BY <1>2, <1>3, <1>4 DEF Next, NextUpkeep, Step

(* A set of rows that is not empty has a newest one.                       *)
LEMMA NewestOf ==
  ASSUME Typed, NEW S \in SUBSET Ids, S # {}
  PROVE  \E r \in S : \A s \in S : ~(s > r)
<1>1. Ids \subseteq Nat /\ Len(rows) \in Nat /\ \A r \in Ids : r <= Len(rows)
  BY Places DEF Typed, RowsTyped, Ids
<1> DEFINE left == {Len(rows) - r : r \in S}
<1>2. left \in SUBSET Nat /\ left # {}
  BY <1>1
<1> HIDE DEF left
<1>3. PICK m \in left : \A d \in left : m <= d
  BY <1>2, LeastOf
<1>4. PICK r \in S : m = Len(rows) - r
  BY <1>3 DEF left
<1>5. ASSUME NEW s \in S PROVE ~(s > r)
  <2>1. Len(rows) - s \in left
    BY DEF left
  <2> QED
    BY <1>1, <1>3, <1>4, <2>1
<1> QED
  BY <1>5

(* Consolidation and decay lose nothing by themselves, whatever runs       *)
(* beside them and wherever they die (consolidation-service.ts,            *)
(* memory-lifecycle.ts).                                                   *)
THEOREM KeptSafe == Spec => []KeptByConsolidation
<1>1. Init => Typed /\ KeptInv
  <2> SUFFICES ASSUME Init PROVE KeptInv
    BY InitTypes
  <2>1. PICK s \in Scenarios :
          /\ rows = s.rows
          /\ upkeep = [u \in UpkeepJobs |->
               [pc |-> IF u \in s.jobs THEN "new" ELSE "none",
                clusters |-> <<>>, next |-> 1, members |-> {}, row |-> None,
                read |-> None]]
    BY DEF Init, InitGraph
  <2>2. \A r \in Ids : rows[r].status = "live"
    BY <2>1, ScenarioRowsAssumption DEF Ids, Range
  <2> QED
    BY <2>1, <2>2 DEF KeptInv, Replaced, Contained, Chosen, Covered, GivenUp,
       Consolidates
<1>2. Typed /\ KeptInv /\ [Next]_vars => (Typed /\ KeptInv)'
  BY TypedStep, KeptStep
<1>3. Typed /\ KeptInv => KeptByConsolidation
  <2> SUFFICES ASSUME Typed, KeptInv, NEW f \in Stored, f \notin Excused
               PROVE  \E r \in Ids : Live(r) /\ f \in rows[r].says
    BY DEF KeptByConsolidation, Excused
  <2> DEFINE S == {r \in Ids : rows[r].status # "held" /\ f \in rows[r].says}
  <2>1. S \in SUBSET Ids /\ S # {}
    BY DEF Stored
  <2>2. PICK r \in S : \A s \in S : ~(s > r)
    <3> HIDE DEF S
    <3> QED
      BY <2>1, NewestOf
  <2>3. ~Later(r, f)
    BY <2>2 DEF Later
  <2>4. rows[r].status \in {"live", "held"}
    BY <2>2, <2>3 DEF KeptInv, Replaced
  <2> QED
    BY <2>2, <2>4 DEF Live
<1> QED
  BY <1>1, <1>2, <1>3, PTL DEF Spec
=============================================================================
