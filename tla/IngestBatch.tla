----------------------------- MODULE IngestBatch -----------------------------
(***************************************************************************)
(* One ingest request from its extracted facts to its composites           *)
(* (memory-ingest.ts, ingest-fact-pipeline.ts, ingest-post-write.ts), and  *)
(* several of them on one table.  A request stores fact after fact without *)
(* a transaction; it can fail between any two steps, and its client sends  *)
(* it again.                                                               *)
(*                                                                         *)
(* A statement is a model value; how alike two statements are, in percent, *)
(* is data.  What a mutation writes into the claim tables is in module     *)
(* ClaimLineage, what a deferred decision does later in DeferredAudn.      *)
(***************************************************************************)
EXTENDS Integers, FiniteSets, SequencesExt

CONSTANTS
  Jobs,         \* requests
  Job,          \* mode, user, workspace, site, session and facts of each
  Alike,        \* cosine of two statements, in percent
  Keywords,     \* keywords of a statement
  Words,        \* words of a statement, by which it is searched for
  Findings,     \* what the sanitizer finds in a statement
  Literals,     \* words a statement quotes
  Slot,         \* claim slot of a statement: who, which relation, to what
  Trusted,      \* source sites of TRUSTED_DOMAINS
  Settings,     \* thresholds and switches of the configuration
  Composed,     \* what a model composes for an update
  Together,     \* bound: sets of requests that meet in one behaviour
  MaxAttempts,  \* bound: how often each request is sent
  None          \* no workspace, no session date, no slot

Today == 0      \* the date of what is stored without a session date

Statements == DOMAIN Alike

(* Embeddings of one statement are the same, none are more alike, and      *)
(* statements with the same embedding quote the same.                      *)
ASSUME AlikeAssumption == \A f \in Statements :
  /\ Alike[f] \in [Statements -> Int]
  /\ Alike[f][f] = 100
  /\ \A g \in Statements :
       /\ Alike[f][g] <= 100
       /\ Alike[f][g] = 100 => Literals[f] \subseteq Literals[g]

ASSUME WordsAssumption == \A f \in Statements : IsFiniteSet(Words[f])

ASSUME ComposedAssumption == Composed \subseteq Statements

(* Only requests of a workspace name one.                                  *)
ASSUME JobAssumption == \A j \in Jobs :
  /\ Job[j].mode \in {"full", "quick", "workspace", "verbatim"}
  /\ Job[j].mode = "workspace" <=> Job[j].workspace # None
  /\ Job[j].facts \in Seq(Statements)
  /\ Job[j].mode = "verbatim" => Job[j].facts # <<>>

ASSUME SettingsAssumption ==
  /\ Settings.candidate \in 0..99 /\ Settings.duplicate \in 0..100
  /\ Settings.candidate <= Settings.duplicate
  /\ Settings.alpha \in 0..100
  /\ Settings.minCluster \in Nat \ {0}

VARIABLES
  rows,   \* the memories table, in the order of the inserts
  links,  \* memory_links
  job     \* the state of each request

batchVars == <<rows, links, job>>

Ids == DOMAIN rows

(* What a request knows when it begins; touched is a history variable.     *)
Fresh(attempt, touched) ==
  [pc |-> "fact", next |-> 1, attempt |-> attempt, candidates |-> {},
   top |-> {}, superseded |-> {}, seen |-> {}, previous |-> None,
   ids |-> {}, embedded |-> {}, stored |-> <<>>, touched |-> touched]

InitBatch ==
  /\ rows = <<>>
  /\ links = {}
  /\ \E met \in Together :
       job = [j \in Jobs |-> [Fresh(0, {}) EXCEPT
                                !.pc = IF j \in met THEN "new" ELSE "none"]]

CurrentFact(j) == Job[j].facts[job[j].next]
At(j, pc) == job[j].pc = pc

Go(j, pc) == job' = [job EXCEPT ![j].pc = pc]

-----------------------------------------------------------------------------
(* Write security: where a statement comes from and what it contains.      *)

Larger(a, b) == IF a >= b THEN a ELSE b
Smaller(a, b) == IF a <= b THEN a ELSE b

ComputeTrustScore(site, f) ==
  LET score == 10 - (IF site \in Trusted THEN 0 ELSE 2)
                  - Smaller(3 * Findings[f].injections, 9)
                  - Findings[f].anomalies
  IN Larger(0, score)

(* Injections block, anomalies warn.                                       *)
Passed(f) == Findings[f].injections = 0

Allowed(site, f) ==
  \/ ~Settings.trustScoring
  \/ /\ Passed(f)
     /\ ComputeTrustScore(site, f) >= Settings.minTrust

(* The entropy gate: new keywords, and the distance to the fact before.    *)
EntityNovelty(words, seen) ==
  IF words = {} THEN 100
  ELSE (100 * Cardinality(words \ seen)) \div Cardinality(words)

SemanticNovelty(f, previous) ==
  IF previous = None THEN 100 ELSE 100 - Alike[f][previous]

EntropyScore(f, seen, previous) ==
  Settings.alpha * EntityNovelty(Keywords[f], seen)
    + (100 - Settings.alpha) * SemanticNovelty(f, previous)

Accepted(j, f) ==
  \/ ~Settings.entropyGate \/ Job[j].mode # "full"
  \/ EntropyScore(f, job[j].seen, job[j].previous)
       >= 100 * Settings.entropyThreshold

-----------------------------------------------------------------------------
(* A composite is as alike as its statements are on average.               *)
Likeness(f, says) ==
  LET order == SetToSeq(says)
      sum[i \in 0..Len(order)] ==
        IF i = 0 THEN 0 ELSE sum[i - 1] + Alike[f][order[i]]
  IN sum[Len(order)] \div Len(order)

(* Rows of the user outside workspaces, or of the workspace and whomever.  *)
InReach(j, r) ==
  /\ rows[r].status = "live"
  /\ rows[r].workspace = Job[j].workspace
  /\ Job[j].mode = "workspace" \/ rows[r].user = Job[j].user

SlotOf(j, f) == IF Job[j].mode \in {"full", "quick"} THEN Slot[f] ELSE None

(* One row whose claim is active and has the slot, if there is any.        *)
SlotTargets(j, f) ==
  LET of == {r \in Ids : /\ rows[r].status = "live"
                         /\ rows[r].user = Job[j].user
                         /\ rows[r].slot = SlotOf(j, f) /\ rows[r].slot # None}
  IN IF of = {} THEN {{}} ELSE {{r} : r \in of}

(* The n rows that are most alike; of equals, any.                         *)
Nearest(rs, n, alike) ==
  {S \in kSubset(Smaller(n, Cardinality(rs)), rs) :
     \A r \in S, c \in rs \ S : alike[c] <= alike[r]}

(* How many near duplicates are read, by default and in a workspace.       *)
Limit(j) == IF Job[j].mode = "workspace" THEN 10 ELSE 3

FindNearDuplicates(j, f) ==
  LET near == {r \in Ids : /\ InReach(j, r)
                           /\ Likeness(f, rows[r].says) > Settings.candidate}
  IN Nearest(near, Limit(j), [r \in near |-> Likeness(f, rows[r].says)])

WordsOf(says) == UNION {Words[g] : g \in says}

(* All words weigh the same here.                                          *)
EstimateKeywordSimilarity(f, says) ==
  Smaller(89, 45 + (44 * Cardinality(Words[f] \cap WordsOf(says)))
                     \div Cardinality(Words[f]))

(* Only full ingests look for rows with a word of the fact, five of them.  *)
FindKeywordCandidates(j, f) ==
  LET worded == {r \in Ids : /\ Job[j].mode = "full" /\ InReach(j, r)
                             /\ Words[f] \cap WordsOf(rows[r].says) # {}}
  IN Nearest(worded, 5,
             [r \in worded |-> EstimateKeywordSimilarity(f, rows[r].says)])

(* How alike each row counts as: the better of what the two queries say,   *)
(* and alike in every respect when it has the slot.                        *)
MergeCandidates(f, near, worded, target) ==
  [r \in near \cup worded \cup target |->
     IF r \in target THEN 100
     ELSE Larger(IF r \in near THEN Likeness(f, rows[r].says) ELSE 0,
                 IF r \in worded
                 THEN EstimateKeywordSimilarity(f, rows[r].says) ELSE 0)]

FilteredOutsideBatch(j, found) == found \ (job[j].superseded \cup job[j].ids)
(* Only full ingests leave out what the batch superseded.                  *)
FilteredCandidates(j, found) ==
  {r \in found : Job[j].mode = "full" => r \notin job[j].superseded}

(* The candidate the list begins with: among equals the near duplicates    *)
(* come before the others, in their own order.  The quick path takes the   *)
(* last of equals.                                                         *)
TopCandidates(j, f, near, left, alike) ==
  LET top == {r \in left : \A c \in left : alike[c] <= alike[r]}
      first == {r \in top \cap near : \A c \in top \cap near :
                  Likeness(f, rows[c].says) <= Likeness(f, rows[r].says)}
  IN IF Job[j].mode = "quick" \/ first = {} THEN top ELSE first

(* What the search leaves, and its first candidate as it was read.         *)
FilteredSearch(j, f, near, worded, target) ==
  LET alike == MergeCandidates(f, near, worded, target)
      left == FilteredCandidates(j, near \cup worded \cup target)
      read(r) == [id |-> r, says |-> rows[r].says, similarity |-> alike[r]]
  IN IF left = {} THEN {[candidates |-> {}, top |-> {}]}
     ELSE {[candidates |-> left, top |-> {read(r)}] :
             r \in TopCandidates(j, f, near, left, alike)}

IsDuplicate(j) == \E c \in job[j].top : c.similarity >= Settings.duplicate

(* A statement that quotes something else is left to the model.            *)
TryFastAudn(j) ==
  /\ Settings.fastAudn
  /\ IsDuplicate(j)
  /\ \E c \in job[j].top :
       Literals[CurrentFact(j)] \subseteq UNION {Literals[g] : g \in c.says}

-----------------------------------------------------------------------------
(* A request arrives, for the first time or again.                         *)
Start(j) ==
  /\ job[j].pc \in {"new", "failed"}
  /\ job[j].attempt < MaxAttempts[j]
  /\ Job[j].mode # "verbatim"
  /\ job' = [job EXCEPT ![j] = Fresh(@.attempt + 1, @.touched)]
  /\ UNCHANGED <<rows, links>>

(* A provider or the database fails: the request ends where it is.         *)
Fail(j) ==
  /\ job[j].pc \in {"fact", "decide", "backdate", "links", "composites"}
  /\ Go(j, "failed")
  /\ UNCHANGED <<rows, links>>

NewRow(j, says, status, created, members) ==
  [says |-> says, status |-> status, created |-> created,
   members |-> members, slot |-> None,
   user |-> Job[j].user, workspace |-> Job[j].workspace,
   first |-> j, by |-> j]

(* Facts of a workspace get no logical timestamp.                          *)
StoringDate(j) ==
  IF Job[j].mode = "workspace" \/ Job[j].session = None THEN Today
  ELSE Job[j].session

(* A stored text of the user, neither checked nor compared.                *)
PerformStoreVerbatim(j) ==
  /\ At(j, "new") /\ Job[j].mode = "verbatim"
  /\ rows' = Append(rows, NewRow(j, {Job[j].facts[1]}, "live", Today, {}))
  /\ job' = [job EXCEPT ![j].pc = "done", ![j].ids = {Len(rows) + 1}]
  /\ UNCHANGED links

(* accumulateFactResult: the fact is done, with the rows it is about.      *)
Record(j, ids, embedded) ==
  job' = [job EXCEPT ![j].pc = "fact", ![j].next = @ + 1,
                     ![j].candidates = {}, ![j].top = {},
                     ![j].ids = @ \cup ids, ![j].embedded = @ \cup embedded,
                     ![j].stored = @ \o SetToSeq(ids \X {CurrentFact(j)})]

MoreFacts(j) == At(j, "fact") /\ job[j].next <= Len(Job[j].facts)

BlockFact(j) ==
  /\ MoreFacts(j)
  /\ ~Allowed(Job[j].site, CurrentFact(j))
  /\ Record(j, {}, {})
  /\ UNCHANGED <<rows, links>>

(* The context of the gate is brought up to date whatever it decides.      *)
Gated(j) ==
  [job[j] EXCEPT !.seen = @ \cup Keywords[CurrentFact(j)],
                 !.previous = CurrentFact(j)]

GateFact(j) ==
  /\ MoreFacts(j)
  /\ Allowed(Job[j].site, CurrentFact(j))
  /\ ~Accepted(j, CurrentFact(j))
  /\ job' = [job EXCEPT ![j] = [Gated(j) EXCEPT !.next = @ + 1]]
  /\ UNCHANGED <<rows, links>>

(* The queries are one read here.                                          *)
FindCandidates(j) ==
  /\ MoreFacts(j)
  /\ Allowed(Job[j].site, CurrentFact(j))
  /\ Accepted(j, CurrentFact(j))
  /\ \E near \in FindNearDuplicates(j, CurrentFact(j)),
        worded \in FindKeywordCandidates(j, CurrentFact(j)),
        target \in SlotTargets(j, CurrentFact(j)) :
       \E found \in FilteredSearch(j, CurrentFact(j), near, worded, target) :
         job' = [job EXCEPT ![j] =
                   [IF Job[j].mode = "full" THEN Gated(j) ELSE job[j]
                      EXCEPT !.pc = "decide", !.top = found.top,
                             !.candidates = found.candidates]]
  /\ UNCHANGED <<rows, links>>

-----------------------------------------------------------------------------
(* What is decided on the candidates that were read.                       *)

Deciding(j) == At(j, "decide")
LeftToModel(j) ==
  /\ Deciding(j)
  /\ IF Job[j].mode = "quick"
     THEN ~IsDuplicate(j) ELSE ~TryFastAudn(j)

Store(j) ==
  /\ rows' = Append(rows,
                    [NewRow(j, {CurrentFact(j)}, "live", StoringDate(j), {})
                       EXCEPT !.slot = SlotOf(j, CurrentFact(j))])
  /\ Record(j, {Len(rows) + 1}, {Len(rows) + 1})
  /\ UNCHANGED links

(* No candidates, ADD, a deferred decision, a target that was no           *)
(* candidate; for a quick ingest whatever is not a duplicate.              *)
StoreFact(j) == LeftToModel(j) /\ Store(j)

(* tryFastAUDN, and the NOOP of a model.                                   *)
SkipFact(j) ==
  /\ Deciding(j) /\ Job[j].mode # "quick" /\ job[j].candidates # {}
  /\ Record(j, {}, {})
  /\ UNCHANGED <<rows, links>>

(* A quick ingest reports the row it found, without an embedding.          *)
SkipDuplicate(j) ==
  /\ Deciding(j) /\ Job[j].mode = "quick"
  /\ IsDuplicate(j)
  /\ \E c \in job[j].top : Record(j, {c.id}, {})
  /\ UNCHANGED <<rows, links>>

ByModel(j) == /\ LeftToModel(j) /\ Job[j].mode # "quick"
              /\ job[j].candidates # {}

ClarifyFact(j) ==
  /\ ByModel(j)
  /\ rows' = Append(rows,
                    NewRow(j, {CurrentFact(j)}, "held", StoringDate(j), {}))
  /\ Record(j, {}, {})
  /\ UNCHANGED links

(* ensureClaimTarget throws for a row of another user.                     *)
Targets(j) == {r \in job[j].candidates : rows[r].user = Job[j].user}

(* UPDATE, in place, with the text the model composed, which may say       *)
(* anything: lost when the row was deleted since it was read.              *)
UpdateTarget(j) ==
  /\ ByModel(j)
  /\ \E r \in Targets(j), text \in Composed :
       /\ rows' = IF rows[r].status = "deleted" THEN rows
                   ELSE [rows EXCEPT ![r].says = {text}, ![r].by = j]
       /\ Record(j, {r}, {r})
  /\ UNCHANGED links

DeleteTarget(j) ==
  /\ ByModel(j)
  /\ \E r \in Targets(j) : rows' = [rows EXCEPT ![r].status = "deleted"]
  /\ Record(j, {}, {})
  /\ UNCHANGED links

(* The new row takes over the claim and its slot.  The id that is kept     *)
(* from later facts is its own.                                            *)
SupersedeTarget(j) ==
  /\ ByModel(j)
  /\ \E r \in Targets(j) :
       rows' = Append([rows EXCEPT ![r].status =
                         IF @ = "deleted" THEN @ ELSE "expired"],
                      [NewRow(j, {CurrentFact(j)}, "live", StoringDate(j), {})
                         EXCEPT !.slot = rows[r].slot])
  /\ LET new == Len(rows) + 1 IN
       job' = [job EXCEPT ![j].pc = "fact", ![j].next = @ + 1,
                          ![j].candidates = {}, ![j].top = {},
                          ![j].superseded = @ \cup {new},
                          ![j].ids = @ \cup {new},
                          ![j].embedded = @ \cup {new},
                          ![j].stored = Append(@, <<new, CurrentFact(j)>>)]
  /\ UNCHANGED links

(* In a workspace the candidate may be another user's: the request ends.   *)
MutateForeignTarget(j) ==
  /\ ByModel(j)
  /\ job[j].candidates # Targets(j)
  /\ Go(j, "failed")
  /\ UNCHANGED <<rows, links>>

-----------------------------------------------------------------------------
(* runPostWriteProcessors.                                                 *)

FinishFacts(j) ==
  /\ At(j, "fact") /\ job[j].next > Len(Job[j].facts)
  /\ Go(j, "backdate")
  /\ UNCHANGED <<rows, links>>

BackdateMemories(j) ==
  /\ At(j, "backdate")
  /\ IF Job[j].session = None THEN Go(j, "links") /\ UNCHANGED rows
     ELSE /\ rows' = [r \in Ids |-> IF r \in job[j].ids
                        THEN [rows[r] EXCEPT !.created = Job[j].session]
                        ELSE rows[r]]
          /\ job' = [job EXCEPT ![j].pc = "links",
                                ![j].touched = @ \cup job[j].ids]
  /\ UNCHANGED links

(* Rows of the user in any workspace; pairs in the order of their ids.     *)
GenerateLinks(j) ==
  /\ At(j, "links")
  /\ LET active == {r \in job[j].ids \cap job[j].embedded :
                      /\ rows[r].status \in {"live", "held"}
                      /\ rows[r].user = Job[j].user}
         alike(r) == {c \in Ids \ {r} :
                        /\ rows[c].status = "live"
                        /\ rows[c].user = Job[j].user
                        /\ \E f \in rows[r].says :
                             Likeness(f, rows[c].says) > Settings.link}
     IN links' = links \cup UNION {{<<Smaller(r, c), Larger(r, c)>> :
                                      c \in alike(r)} : r \in active}
  /\ Go(j, "composites")
  /\ UNCHANGED rows

(* What is at the places, in its order.                                    *)
Taken(s, places) ==
  LET taken[i \in 0..Len(s)] ==
        IF i = 0 THEN <<>>
        ELSE IF i \in places THEN Append(taken[i - 1], s[i]) ELSE taken[i - 1]
  IN taken[Len(s)]

(* To the most alike of the clusters that are not full.                    *)
Place(clusters, x) ==
  LET open == {k \in DOMAIN clusters : Len(clusters[k]) < Settings.maxCluster}
      alike(k) == Likeness(x[2], {clusters[k][i][2] : i \in DOMAIN clusters[k]})
      fits == {k \in open : /\ alike(k) >= Settings.cluster
                            /\ \A l \in open : alike(l) < alike(k)
                                 \/ (alike(l) = alike(k) /\ k <= l)}
  IN IF fits = {} THEN Append(clusters, <<x>>)
     ELSE [clusters EXCEPT ![CHOOSE k \in fits : TRUE] = Append(@, x)]

ClusterBySimilarity(inputs) ==
  LET clusters[i \in 0..Len(inputs)] ==
        IF i = 0 THEN <<>> ELSE Place(clusters[i - 1], inputs[i])
  IN clusters[Len(inputs)]

BuildComposites(inputs) ==
  LET clusters == ClusterBySimilarity(inputs)
  IN Taken(clusters, {k \in DOMAIN clusters :
                        Len(clusters[k]) >= Settings.minCluster})

CompositeRowUndated(j, cluster) ==
  NewRow(j, {cluster[i][2] : i \in DOMAIN cluster}, "live", Today,
         {cluster[i][1] : i \in DOMAIN cluster})
CompositeRow(j, cluster) ==
  NewRow(j, {cluster[i][2] : i \in DOMAIN cluster}, "live", StoringDate(j),
         {cluster[i][1] : i \in DOMAIN cluster})

(* Only full ingests; members may have gone away by now.                   *)
GenerateAndStoreComposites(j) ==
  /\ At(j, "composites")
  /\ LET stored == job[j].stored
         inputs == Taken(stored, {i \in DOMAIN stored :
                                    stored[i][1] \in job[j].embedded})
         clusters == IF /\ Job[j].mode = "full" /\ Settings.composites
                        /\ Len(stored) >= Settings.minCluster
                     THEN BuildComposites(inputs) ELSE <<>>
     IN rows' = rows \o
                  [k \in DOMAIN clusters |-> CompositeRow(j, clusters[k])]
  /\ Go(j, "done")
  /\ UNCHANGED links

ProcessFact(j) ==
  \/ BlockFact(j) \/ GateFact(j) \/ FindCandidates(j)
  \/ StoreFact(j) \/ SkipFact(j) \/ SkipDuplicate(j) \/ ClarifyFact(j)
  \/ UpdateTarget(j) \/ DeleteTarget(j) \/ SupersedeTarget(j)
  \/ MutateForeignTarget(j)

PostWrite(j) ==
  \/ FinishFacts(j) \/ BackdateMemories(j) \/ GenerateLinks(j)
  \/ GenerateAndStoreComposites(j)

NextBatch == \E j \in Jobs :
  Start(j) \/ Fail(j) \/ PerformStoreVerbatim(j)
    \/ ProcessFact(j) \/ PostWrite(j)

BatchSpec == InitBatch /\ [][NextBatch]_batchVars

-----------------------------------------------------------------------------
(* A row in which the request itself says the fact it is at, word for word. *)
Saying(j, r) ==
  /\ rows[r].status = "live" /\ rows[r].members = {} /\ rows[r].by = j
  /\ rows[r].says = {CurrentFact(j)}

(* What replaced another row is hidden from the rest of the attempt        *)
(* (memory-audn.ts:122); so is any row when as many of those are the       *)
(* nearest as the query returns.                                           *)
Hidden(j, r) ==
  /\ Job[j].mode = "full"
  /\ \/ r \in job[j].superseded
     \/ \E S \in SUBSET job[j].superseded : Cardinality(S) = Limit(j)

(* A request that is sent again after a failure, or that states a thing    *)
(* twice, adds no row for what a row it wrote still says word for word,    *)
(* unless that row is hidden: the search finds it, or one that is as       *)
(* alike, and the fast path leaves the fact out.                           *)
SentAgainStoredOnce ==
  [][\A j \in Jobs, r \in Ids :
       /\ Deciding(j) /\ job'[j] # job[j] /\ Len(rows') > Len(rows)
       /\ Saying(j, r)
       => Hidden(j, r)]_batchVars

(* The dates of the requests that stored a row or reported it.             *)
DatesOf(r) ==
  {Job[rows[r].first].session} \cup
  {Job[k].session : k \in {k \in Jobs : r \in job[k].touched}}

(* Every row of a conversation with a date has that date when the request  *)
(* ends, or the date of another conversation that mentioned it; what a     *)
(* personal ingest stored, composites included, has it from the start, so  *)
(* that no failure leaves it with today's.                                 *)
BatchIsDated ==
  \A j \in Jobs : Job[j].session # None /\ Job[j].mode # "verbatim" =>
    /\ At(j, "done") => \A r \in job[j].ids : rows[r].created \in DatesOf(r)
    /\ Job[j].mode # "workspace" =>
         \A r \in Ids : rows[r].first = j => rows[r].created \in DatesOf(r)

(* memory-audn.ts:484 "near-duplicate -> NOOP (skip storing)": what a      *)
(* quick ingest leaves out as a duplicate resembles a row that was found.  *)
DroppedIsDuplicate ==
  LET LikeWhatWasFound(j) ==
        \E r \in job[j].candidates :
          Likeness(CurrentFact(j), rows[r].says) >= Settings.duplicate
  IN [][\A j \in Jobs :
          Deciding(j) /\ Job[j].mode = "quick" /\ job'[j].pc = "fact"
            /\ rows' = rows
          => LikeWhatWasFound(j)]_batchVars

=============================================================================
