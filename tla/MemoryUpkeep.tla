---------------------------- MODULE MemoryUpkeep ----------------------------
(***************************************************************************)
(* What is done to memories after they were stored: consolidation into     *)
(* summaries, the archiving of decayed ones, the reset of a source, a      *)
(* deletion, an UPDATE in place and the confidence of opinions             *)
(* (consolidation-service.ts, affinity-clustering.ts, memory-lifecycle.ts, *)
(* memory-crud.ts, memory-network.ts), running beside ingests.  All but    *)
(* the reset are statements without a transaction, on rows read earlier.   *)
(*                                                                         *)
(* What a row says is a set of statements; the model that writes a summary *)
(* keeps them all, as it is told to.                                       *)
(***************************************************************************)
EXTENDS EntityGraph

CONSTANTS
  UpkeepJobs,   \* requests of this kind
  Work,         \* the kind of each, and what it is about
  Alike,        \* cosine of two statements, in percent
  Recency,      \* exp(-t / tau) of a number of days, in percent
  Settings      \* thresholds, weights in percent, and page sizes

ASSUME UpkeepAssumption ==
  /\ Settings.minCluster \in Nat \ {0}
  /\ Settings.beta \in 0..100

(* What the jobs find: live rows, and no opinion that is given up already. *)
ASSUME ScenarioRowsAssumption ==
  \A s \in Scenarios :
    /\ s.rows \in Seq(Range(s.rows))
    /\ \A r \in Range(s.rows) :
         /\ DOMAIN r = DOMAIN NewRow({}, None, 0)
         /\ r.status = "live" /\ r.confidence \in (Nat \ {0}) \cup {None}

VARIABLES
  upkeep,     \* the state of each request
  retired,    \* statements removed or replaced on purpose (history)
  overtaken   \* statements written to rows already listed (history)

vars == <<rows, entities, mentions, relations, store, raced,
          upkeep, retired, overtaken>>
graphOnly == <<entities, mentions, relations, store, raced>>
history == <<retired, overtaken>>

Init == \E scenario \in Scenarios :
  /\ InitGraph(scenario)
  /\ upkeep = [u \in UpkeepJobs |->
       [pc |-> IF u \in scenario.jobs THEN "new" ELSE "none",
        clusters |-> <<>>, next |-> 1, members |-> {}, row |-> None,
        read |-> None]]
  /\ retired = {} /\ overtaken = {}

Is(u, kind, pc) == Work[u].kind = kind /\ upkeep[u].pc = pc
Do(u, changes) == upkeep' = [upkeep EXCEPT ![u] = Changed(@, changes)]

Larger(a, b) == IF a >= b THEN a ELSE b
Smaller(a, b) == IF a <= b THEN a ELSE b
Largest(S) == CHOOSE x \in S : \A y \in S : y <= x

Live(r) == rows[r].status = "live"

(* listMemories: a page of the newest.                                     *)
ListMemories(limit) ==
  LET newer(r) == {s \in Ids : /\ Live(s)
                               /\ \/ rows[s].age < rows[r].age
                                  \/ rows[s].age = rows[r].age /\ s > r}
  IN {r \in Ids : Live(r) /\ Cardinality(newer(r)) < limit}

SoftDeleted(r) ==
  [rows EXCEPT ![r].status = IF @ \in {"live", "held"} THEN "gone" ELSE @]

-----------------------------------------------------------------------------
(* Affinity clustering.                                                    *)

Likeness(r, s) ==
  LET pairs == rows[r].says \X rows[s].says
  IN FoldSet(LAMBDA p, sum : sum + Alike[p[1]][p[2]], 0, pairs)
       \div Cardinality(pairs)

ComputeTemporalProximity(r, s) ==
  Recency[Larger(rows[r].age, rows[s].age)
            - Smaller(rows[r].age, rows[s].age)]

ComputeAffinity(r, s) ==
  (Settings.beta * Likeness(r, s)
     + (100 - Settings.beta) * ComputeTemporalProximity(r, s)) \div 100

(* Greedily: the most important of the rest with all that is near to it.   *)
FormClusters(listed) ==
  LET byImportance ==
        SetToSortSeq(listed, LAMBDA r, s :
          \/ rows[r].importance > rows[s].importance
          \/ rows[r].importance = rows[s].importance /\ r > s)
      near(r, rest) ==
        SetToSortSeq({s \in rest \ {r} :
                        ComputeAffinity(r, s) >= Settings.affinity},
          LAMBDA s, t : \/ ComputeAffinity(r, s) > ComputeAffinity(r, t)
                        \/ /\ ComputeAffinity(r, s) = ComputeAffinity(r, t)
                           /\ s > t)
      grow(clusters, r) ==
        LET rest == listed \ UNION {Range(c) : c \in Range(clusters)}
            cluster == <<r>> \o near(r, rest)
        IN IF r \in rest /\ Len(cluster) >= Settings.minCluster
           THEN Append(clusters, cluster) ELSE clusters
  IN FoldLeft(grow, <<>>, byImportance)

(* findConsolidationCandidates: ids and contents of this moment, of those  *)
(* that are in the map of what was listed.                                 *)
FindConsolidationCandidates(u) ==
  /\ Is(u, "consolidate", "new")
  /\ LET listed == ListMemories(Settings.consolidationPage)
         clusters == FormClusters(listed)
         members(c) == {r \in listed : r \in Range(clusters[c])}
     IN Do(u, [pc |-> "synthesize",
               clusters |-> [c \in DOMAIN clusters |->
                  [ids |-> clusters[c], members |-> members(c),
                   says |-> UNION {rows[r].says : r \in members(c)}]]])
  /\ UNCHANGED <<rows, graphOnly, history>>

More(u) == upkeep[u].next \in DOMAIN upkeep[u].clusters
Cluster(u) == upkeep[u].clusters[upkeep[u].next]
NextCluster(u) == [pc |-> "synthesize", next |-> upkeep[u].next + 1]
ValidMembers(u) == {r \in Ids : r \in Cluster(u).members /\ Live(r)}
FirstValid(u) ==
  LET ids == Cluster(u).ids IN
  ids[CHOOSE i \in DOMAIN ids :
        Live(ids[i]) /\ \A k \in 1..(i - 1) : ~Live(ids[k])]

(* An error of the model, or an answer that is too short, skips a cluster. *)
SkipCluster(u) ==
  /\ Is(u, "consolidate", "synthesize") /\ More(u)
  /\ Do(u, NextCluster(u))
  /\ UNCHANGED <<rows, graphOnly, history>>

FinishConsolidation(u) ==
  /\ Is(u, "consolidate", "synthesize") /\ ~More(u)
  /\ Do(u, [pc |-> "done", clusters |-> <<>>, next |-> 1])
  /\ UNCHANGED <<rows, graphOnly, history>>

ArchiveThenStore(u) ==
  /\ Is(u, "consolidate", "synthesize") /\ More(u)
  /\ IF Cardinality(ValidMembers(u)) < 2 THEN Do(u, NextCluster(u)) /\ UNCHANGED rows
     ELSE /\ Do(u, [pc |-> "summary", members |-> {},
                    read |-> [site |-> rows[FirstValid(u)].site,
                              importance |-> 50]])
          /\ rows' = [r \in Ids |-> IF r \in ValidMembers(u)
                        THEN [rows[r] EXCEPT !.status = "gone"]
                        ELSE rows[r]]
  /\ UNCHANGED <<graphOnly, history>>
(* After the synthesis: getMemory of every member.                         *)
ReadMembers(u) ==
  /\ Is(u, "consolidate", "synthesize") /\ More(u)
  /\ IF Cardinality(ValidMembers(u)) < 2 THEN Do(u, NextCluster(u))
     ELSE Do(u, [pc |-> "summary", members |-> ValidMembers(u),
                 read |-> [site |-> rows[FirstValid(u)].site,
                           importance |-> Largest({rows[r].importance :
                                                     r \in ValidMembers(u)})]])
  /\ UNCHANGED <<rows, graphOnly, history>>

(* In the site of one member, whatever the sites of the others.            *)
StoreSummary(u) ==
  /\ Is(u, "consolidate", "summary")
  /\ rows' = Append(rows,
               NewRow(Cluster(u).says, upkeep[u].read.site,
                      Smaller(100, upkeep[u].read.importance + 5)))
  /\ Do(u, [pc |-> "lineage", row |-> Len(rows) + 1])
  /\ UNCHANGED <<graphOnly, history>>

(* The claim of the summary, its version, and the pointer between them,    *)
(* which opens a claim that was closed meanwhile.  A reset removes claims  *)
(* without a version, and rows: then the version cannot be inserted.       *)
CreateSummaryClaim(u) ==
  /\ Is(u, "consolidate", "lineage")
  /\ rows' = [rows EXCEPT ![upkeep[u].row].claim = "open"]
  /\ Do(u, [pc |-> "version"])
  /\ UNCHANGED <<graphOnly, history>>

CreateSummaryVersion(u) ==
  /\ Is(u, "consolidate", "version")
  /\ rows[upkeep[u].row].claim # "none" /\ rows[upkeep[u].row].status # "erased"
  /\ rows' = [rows EXCEPT ![upkeep[u].row].versions = {upkeep[u].read.site},
                          ![upkeep[u].row].current = upkeep[u].read.site]
  /\ Do(u, [pc |-> "pointer"])
  /\ UNCHANGED <<graphOnly, history>>

SetCurrentVersion(u) ==
  /\ Is(u, "consolidate", "pointer")
  /\ rows' = [rows EXCEPT ![upkeep[u].row].claim =
                             IF @ = "none" THEN @ ELSE "open"]
  /\ Do(u, [pc |-> "archive"])
  /\ UNCHANGED <<graphOnly, history>>

EmitConsolidationAdd(u) ==
  CreateSummaryClaim(u) \/ CreateSummaryVersion(u) \/ SetCurrentVersion(u)

(* One statement per member; claims stay as they are.                      *)
ArchiveMember(u) ==
  /\ Is(u, "consolidate", "archive")
  /\ IF upkeep[u].members = {} THEN Do(u, NextCluster(u)) /\ UNCHANGED rows
     ELSE \E r \in upkeep[u].members :
            /\ rows' = SoftDeleted(r)
            /\ Do(u, [members |-> upkeep[u].members \ {r}])
  /\ UNCHANGED <<graphOnly, history>>

-----------------------------------------------------------------------------
(* Decay.                                                                  *)

ComputeRetentionScore(r) ==
  (rows[r].trust
     * (Settings.importanceWeight * rows[r].importance
          + Settings.recencyWeight * Recency[rows[r].idle]
          + Settings.accessWeight * Smaller(100, 10 * rows[r].hits)))
  \div 10000

EvaluateDecayCandidates(listed) ==
  {r \in listed : /\ rows[r].age >= Settings.minAge
                  /\ ComputeRetentionScore(r) < Settings.retention}

EvaluateDecay(u) ==
  /\ Is(u, "decay", "new")
  /\ LET stale == EvaluateDecayCandidates(ListMemories(Settings.decayPage))
     IN /\ Do(u, [pc |-> "archive", members |-> stale])
        /\ retired' = retired \cup UNION {rows[r].says : r \in stale}
  /\ UNCHANGED <<rows, graphOnly, overtaken>>

(* Nothing is looked at again.                                             *)
ArchiveDecayed(u) ==
  /\ Is(u, "decay", "archive")
  /\ IF upkeep[u].members = {} THEN Do(u, [pc |-> "done"]) /\ UNCHANGED rows
     ELSE \E r \in upkeep[u].members :
            /\ rows' = SoftDeleted(r)
            /\ Do(u, [members |-> upkeep[u].members \ {r}])
  /\ UNCHANGED <<graphOnly, history>>

-----------------------------------------------------------------------------
(* Deletions.                                                              *)

(* deleteBySource, in one transaction: versions of the site, claims that   *)
(* are left without a version, rows of the site and their mentions.        *)
DeleteBySource(u) ==
  /\ Is(u, "reset", "new")
  /\ LET site == Work[u].site
         erased == {r \in Ids : rows[r].site = site}
         left(r) == rows[r].versions \ {site}
     IN /\ rows' = [r \in Ids |->
             [rows[r] EXCEPT
                !.status = IF r \in erased THEN "erased" ELSE @,
                !.versions = left(r),
                !.current = IF @ = site THEN None ELSE @,
                !.claim = IF left(r) = {} THEN "none" ELSE @]]
        /\ mentions' = {m \in mentions : m[1] \notin erased}
        /\ retired' = retired \cup UNION {rows[r].says : r \in erased}
  /\ Do(u, [pc |-> "done"])
  /\ UNCHANGED <<entities, relations, store, raced, overtaken>>

(* deleteMemory: the version it has now, the row, the version and claim.   *)
FindVersion(u) ==
  /\ Is(u, "delete", "new")
  /\ \E r \in Ids :
       Do(u, [pc |-> "target", row |-> r, read |-> rows[r].current])
  /\ UNCHANGED <<rows, graphOnly, history>>

DeleteMemory(u) ==
  /\ Is(u, "delete", "target")
  /\ LET r == upkeep[u].row IN
       /\ rows' = SoftDeleted(r)
       /\ retired' = retired \cup rows[r].says
  /\ Do(u, [pc |-> IF upkeep[u].read = None THEN "done" ELSE "claim"])
  /\ UNCHANGED <<graphOnly, overtaken>>

InvalidateClaim(u) ==
  /\ Is(u, "delete", "claim")
  /\ rows' = [rows EXCEPT ![upkeep[u].row].claim =
                             IF @ = "open" THEN "closed" ELSE @]
  /\ Do(u, [pc |-> "done"])
  /\ UNCHANGED <<graphOnly, history>>

-----------------------------------------------------------------------------
(* What an ingest does to a row it chose among its candidates.             *)

ReadTarget(u) ==
  /\ Work[u].kind \in {"update", "opinion"} /\ upkeep[u].pc = "new"
  /\ \E r \in ListMemories(Len(rows)) :
       \/ Work[u].kind = "update" /\ Do(u, [pc |-> "write", row |-> r])
       \/ /\ Work[u].kind = "opinion" /\ rows[r].confidence # None
          /\ Do(u, [pc |-> "write", row |-> r, read |-> rows[r].confidence])
  /\ UNCHANGED <<rows, graphOnly, history>>

(* Requests that work on rows they read before.                            *)
Holding(r) == {u \in UpkeepJobs :
  /\ upkeep[u].pc # "dead"
  /\ \/ r \in upkeep[u].members
     \/ \E c \in DOMAIN upkeep[u].clusters :
          c >= upkeep[u].next /\ r \in upkeep[u].clusters[c].members}

(* The row keeps its site; a row that went away is left alone.             *)
(* The model composes the new text; only the fact it was asked about is    *)
(* taken to be in it, so that all the row said before counts as replaced.  *)
UpdateMemoryContent(u) ==
  /\ Is(u, "update", "write")
  /\ LET r == upkeep[u].row IN
       IF rows[r].status \in {"gone", "erased"}
       THEN overtaken' = overtaken \cup {Work[u].fact}
            /\ UNCHANGED <<rows, retired>>
       ELSE /\ rows' = [rows EXCEPT ![r].says = {Work[u].fact},
                                    ![r].importance = Work[u].importance,
                                    ![r].trust = 100, ![r].idle = 0]
            /\ retired' = retired \cup rows[r].says
            /\ overtaken' = IF Holding(r) = {} THEN overtaken
                            ELSE overtaken \cup {Work[u].fact}
  /\ Do(u, [pc |-> "version"])
  /\ UNCHANGED graphOnly

EmitCanonicalUpdate(u) ==
  /\ Is(u, "update", "version")
  /\ rows[upkeep[u].row].claim # "none" /\ rows[upkeep[u].row].status # "erased"
  /\ rows' = [rows EXCEPT ![upkeep[u].row].claim = "open",
                          ![upkeep[u].row].versions = @ \cup {Work[u].site},
                          ![upkeep[u].row].current = Work[u].site]
  /\ Do(u, [pc |-> "done"])
  /\ UNCHANGED <<graphOnly, history>>

AudnActionToOpinionSignal(action) ==
  CASE action = "NOOP" -> 10 [] action = "UPDATE" -> -10 [] OTHER -> -20

ApplyOpinionSignal(confidence, action) ==
  Larger(0, Smaller(100, confidence + AudnActionToOpinionSignal(action)))

NeverCollapses(before, after) == after < 0 /\ before > 0
Collapses(before, after) == after <= 0 /\ before > 0

(* tryOpinionIntercept writes what it computed from what it read.          *)
UpdateOpinionConfidence(u) ==
  /\ Is(u, "opinion", "write")
  /\ LET r == upkeep[u].row
         new == ApplyOpinionSignal(upkeep[u].read, Work[u].action)
     IN /\ rows' = IF rows[r].status \in {"gone", "erased"} THEN rows
                   ELSE [rows EXCEPT ![r].confidence = new, ![r].idle = 0]
        /\ Do(u, [pc |-> IF Collapses(upkeep[u].read, new) THEN "flag"
                         ELSE "done"])
  /\ UNCHANGED <<graphOnly, history>>

(* A row that waits for clarification; the new opinion itself is stored    *)
(* only for a SUPERSEDE, which is an ingest like any other.                *)
FlagOpinion(u) ==
  /\ Is(u, "opinion", "flag")
  /\ rows' = Append(rows, [NewRow({Work[u].fact}, Work[u].site, 50)
                             EXCEPT !.status = "held", !.confidence = 0,
                                    !.about = upkeep[u].row])
  /\ Do(u, [pc |-> "done"])
  /\ UNCHANGED <<graphOnly, history>>

(* The process dies, or a statement fails.                                 *)
AbortUpkeep(u) ==
  /\ upkeep[u].pc \notin {"none", "done", "dead"}
  /\ Do(u, [pc |-> "dead"])
  /\ UNCHANGED <<rows, graphOnly, history>>

Consolidate(u) ==
  \/ FindConsolidationCandidates(u) \/ SkipCluster(u) \/ ReadMembers(u)
  \/ StoreSummary(u) \/ EmitConsolidationAdd(u) \/ ArchiveMember(u)
  \/ FinishConsolidation(u)

NextUpkeep == \E u \in UpkeepJobs :
  \/ Consolidate(u) \/ EvaluateDecay(u) \/ ArchiveDecayed(u)
  \/ DeleteBySource(u)
  \/ FindVersion(u) \/ DeleteMemory(u) \/ InvalidateClaim(u)
  \/ ReadTarget(u) \/ UpdateMemoryContent(u) \/ EmitCanonicalUpdate(u)
  \/ UpdateOpinionConfidence(u) \/ FlagOpinion(u) \/ AbortUpkeep(u)

Next ==
  \/ NextGraph /\ UNCHANGED <<upkeep, history>>
  \/ NextUpkeep

Spec == Init /\ [][Next]_vars

-----------------------------------------------------------------------------
(* Consolidation and decay lose nothing by themselves: whatever was stored *)
(* and neither removed nor replaced on purpose is said by a live row, at   *)
(* every moment and after any failure.  Left out is what an UPDATE wrote   *)
(* into a row that one of them had already listed: the summary is made of  *)
(* the older content (consolidation-service.ts:111).                       *)
Stored == UNION {rows[r].says : r \in {r \in Ids : rows[r].status # "held"}}

KeptByConsolidation ==
  \A f \in Stored \ (retired \cup overtaken) :
    \E r \in Ids : Live(r) /\ f \in rows[r].says

(* Two entities of a type have a name in common only when two ingests were *)
(* resolving that name at the same time; there is no constraint in the     *)
(* schema that would exclude it (repository-entities.ts:102).              *)
NamesOnOneEntity ==
  \A d, e \in DOMAIN entities :
    d # e /\ entities[d].type = entities[e].type =>
      \A n \in entities[d].names \cap entities[e].names :
        <<entities[d].type, n>> \in raced

(* The slot of a claim, found by name before the row exists or derived     *)
(* from the relations afterwards, is about entities its memory is linked   *)
(* to, once all its mentions are linked; unless a name was being resolved  *)
(* twice at that time, so that two entities had it.                        *)
SlotEntitiesAreMentioned ==
  \A j \in StoreJobs :
    LET r == store[j].row IN
    /\ r # None
    /\ store[j].pc = "done" /\ ~store[j].missed
    /\ rows[r].status # "erased" /\ rows[r].slot # None
    /\ {<<m.type, Normal[m.name]>> : m \in Range(Stores[j].mentions)}
         \cap raced = {}
    => {rows[r].slot.source, rows[r].slot.target} \subseteq EntitiesOf(r)

(* memory-audn.ts:256: an opinion whose confidence is down to zero has a   *)
(* row that asks for clarification, or the request that took it down is    *)
(* about to write one, or died.                                            *)
OpinionCollapseIsFlagged ==
  \A r \in Ids :
    /\ Live(r) /\ rows[r].confidence = 0
    => \/ \E h \in Ids : rows[h].about = r
       \/ \E u \in UpkeepJobs : /\ upkeep[u].row = r
                                /\ upkeep[u].pc \in {"flag", "dead"}

=============================================================================
