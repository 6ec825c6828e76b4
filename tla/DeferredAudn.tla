---------------------------- MODULE DeferredAudn ----------------------------
(***************************************************************************)
(* Deferred reconciliation (deferred-audn.ts): a fact that resembles       *)
(* stored memories is stored at once and flagged, and passes started by    *)
(* POST /reconcile ask the LLM later what to do with it.  Ingests, passes  *)
(* and other users of the table take turns at every database statement.    *)
(*                                                                         *)
(* Memories are numbered in the order of created_at, which backdating      *)
(* makes independent of the order in which they are stored.  UPDATE and    *)
(* NOOP do not occur: without keywords the policies never leave one        *)
(* (KeywordlessNeverMerges).                                               *)
(***************************************************************************)
EXTENDS Integers, FiniteSets

CONSTANTS
  Memories,    \* facts that are ingested with deferral enabled
  Passes,      \* requests to POST /reconcile that run at the same time
  BatchSize,   \* deferredAudnBatchSize
  Answers,     \* decisions the policies can leave of the LLM's answers
  Poison,      \* memories on which the call of the LLM always fails
  Failures,    \* whether other calls and processes may fail
  Deletions    \* whether memories are deleted and expired from outside

None == 0

ASSUME MemoriesAssumption == Memories \subseteq Nat \ {None}
ASSUME BatchSizeAssumption == BatchSize \in Nat \ {0}
ASSUME AnswersAssumption == Answers \subseteq {"ADD", "SUPERSEDE", "DELETE"}
ASSUME PoisonAssumption == Poison \subseteq Memories
ASSUME SwitchesAssumption == {Failures, Deletions} \subseteq BOOLEAN

VARIABLES
  memory,      \* rows: status and deferred_audn
  found,       \* candidates found by the ingest, later audn_candidates
  ingest,      \* how far the ingest of each memory has come
  pass,        \* local variables of the passes
  storedAt,    \* history: position in the order of storing
  replacedBy,  \* history: memories for which a pass deleted a memory
  settled      \* history: memories whose decision has been applied

vars == <<memory, found, ingest, pass, storedAt, replacedBy, settled>>

Row == [status: {"none", "live", "expired", "deleted"}, flagged: BOOLEAN]

Local ==
  [step: {"idle", "next", "reading", "applying", "clearing"},
   batch: SUBSET Memories, memory: Memories \cup {None},
   unread: SUBSET Memories, fresh: SUBSET Memories,
   action: {"ADD", "SUPERSEDE", "DELETE"}, target: Memories \cup {None}]

Idle ==
  [step |-> "idle", batch |-> {}, memory |-> None, unread |-> {},
   fresh |-> {}, action |-> "ADD", target |-> None]

Live == {m \in Memories : memory[m].status = "live"}

Stored == {m \in Memories : storedAt[m] # 0}

Deferred ==
  {m \in Memories : memory[m].flagged /\ memory[m].status # "deleted"}

Init ==
  /\ memory = [m \in Memories |-> [status |-> "none", flagged |-> FALSE]]
  /\ found = [m \in Memories |-> {}]
  /\ ingest = [m \in Memories |-> "new"]
  /\ pass = [p \in Passes |-> Idle]
  /\ storedAt = [m \in Memories |-> 0]
  /\ replacedBy = [m \in Memories |-> {}]
  /\ settled = {}

-----------------------------------------------------------------------------
(* The ingest of a fact: search, store, flag.                              *)

FindCandidatesAfterStoring(m) ==
  /\ ingest[m] = "new"
  /\ \E C \in SUBSET (Live \cup {m}) : found' = [found EXCEPT ![m] = C]
  /\ ingest' = [ingest EXCEPT ![m] = "searched"]
  /\ UNCHANGED <<memory, pass, storedAt, replacedBy, settled>>
FindFilteredCandidates(m) ==
  /\ ingest[m] = "new"
  /\ \E C \in SUBSET Live : found' = [found EXCEPT ![m] = C]
  /\ ingest' = [ingest EXCEPT ![m] = "searched"]
  /\ UNCHANGED <<memory, pass, storedAt, replacedBy, settled>>

StoreCanonicalFact(m) ==
  /\ ingest[m] = "searched"
  /\ memory' = [memory EXCEPT ![m].status = "live"]
  /\ storedAt' = [storedAt EXCEPT ![m] = Cardinality(Stored) + 1]
  /\ ingest' = [ingest EXCEPT ![m] = IF found[m] = {} THEN "done" ELSE "stored"]
  /\ UNCHANGED <<found, pass, replacedBy, settled>>

MarkMemoryDeferred(m) ==
  /\ ingest[m] = "stored"
  /\ memory' = [memory EXCEPT ![m].flagged = TRUE]
  /\ ingest' = [ingest EXCEPT ![m] = "done"]
  /\ UNCHANGED <<found, pass, storedAt, replacedBy, settled>>

(* The process, or the statement that sets the flag, fails.                *)
FailIngest(m) ==
  /\ Failures
  /\ ingest[m] = "stored"
  /\ ingest' = [ingest EXCEPT ![m] = "done"]
  /\ UNCHANGED <<memory, found, pass, storedAt, replacedBy, settled>>

-----------------------------------------------------------------------------
(* A pass.                                                                 *)

Oldest(S) == {m \in S : Cardinality({n \in S : n < m}) < BatchSize}

FindDeferredMemories(p) ==
  /\ pass[p].step = "idle"
  /\ Deferred # {}
  /\ pass' = [pass EXCEPT ![p].step = "next", ![p].batch = Oldest(Deferred)]
  /\ UNCHANGED <<memory, found, ingest, storedAt, replacedBy, settled>>

ReconcileSingleMemory(p) ==
  /\ pass[p].step = "next"
  /\ \E m \in pass[p].batch :
       /\ \A n \in pass[p].batch : m <= n
       /\ pass' = [pass EXCEPT ![p].step = "reading", ![p].memory = m,
                               ![p].batch = @ \ {m},
                               ![p].unread = found[m], ![p].fresh = {}]
  /\ UNCHANGED <<memory, found, ingest, storedAt, replacedBy, settled>>

EndPass(p) ==
  /\ pass[p].step = "next"
  /\ pass[p].batch = {}
  /\ pass' = [pass EXCEPT ![p] = Idle]
  /\ UNCHANGED <<memory, found, ingest, storedAt, replacedBy, settled>>

(* getMemory finds neither deleted nor expired memories.                   *)
RefreshCandidate(p) ==
  /\ pass[p].step = "reading"
  /\ \E c \in pass[p].unread :
       pass' = [pass EXCEPT ![p].unread = @ \ {c},
                            ![p].fresh = IF c \in Live THEN @ \cup {c} ELSE @]
  /\ UNCHANGED <<memory, found, ingest, storedAt, replacedBy, settled>>

Refreshed(p) == pass[p].step = "reading" /\ pass[p].unread = {}

(* The memory stays: no candidates are left, the decision is ADD or        *)
(* CLARIFY, or it names no target.                                         *)
Keep(p) ==
  /\ Refreshed(p)
  /\ pass[p].fresh # {} => pass[p].memory \notin Poison
  /\ pass' = [pass EXCEPT ![p].step = "clearing", ![p].action = "ADD",
                          ![p].target = None]
  /\ settled' = settled \cup {pass[p].memory}
  /\ UNCHANGED <<memory, found, ingest, storedAt, replacedBy>>

(* The model is shown what was fetched again and is assumed to name one of *)
(* these, or nothing that exists (Keep): the code would soft-delete any    *)
(* memory of the user it names.                                            *)
ResolveAUDN(p) ==
  /\ Refreshed(p)
  /\ pass[p].memory \notin Poison
  /\ \E t \in pass[p].fresh, a \in Answers \ {"ADD"} :
       pass' = [pass EXCEPT ![p].step = "applying", ![p].action = a,
                            ![p].target = t]
  /\ UNCHANGED <<memory, found, ingest, storedAt, replacedBy, settled>>

SoftDelete(m) ==
  memory' = [memory EXCEPT ![m].status = "deleted"]

(* SUPERSEDE deletes the target; DELETE deletes the new memory.            *)
ApplyDeferredDecision(p) ==
  LET m == pass[p].memory
      t == pass[p].target
  IN
  /\ pass[p].step = "applying"
  /\ \/ /\ pass[p].action = "SUPERSEDE"
        /\ SoftDelete(t)
        /\ replacedBy' =
             IF memory[t].status = "deleted" THEN replacedBy
             ELSE [replacedBy EXCEPT ![t] = @ \cup {m}]
     \/ /\ pass[p].action = "DELETE"
        /\ SoftDelete(m)
        /\ UNCHANGED replacedBy
  /\ settled' = settled \cup {m}
  /\ pass' = [pass EXCEPT ![p].step = "clearing"]
  /\ UNCHANGED <<found, ingest, storedAt>>

ClearDeferredFlagNever(p) ==
  /\ pass[p].step = "clearing"
  /\ pass' = [pass EXCEPT ![p].step = "next"]
  /\ UNCHANGED <<memory, found, ingest, storedAt, replacedBy, settled>>
ClearDeferredFlag(p) ==
  /\ pass[p].step = "clearing"
  /\ memory' = [memory EXCEPT ![pass[p].memory].flagged = FALSE]
  /\ pass' = [pass EXCEPT ![p].step = "next"]
  /\ UNCHANGED <<found, ingest, storedAt, replacedBy, settled>>

Fails(p) ==
  \/ Failures /\ pass[p].step \in {"reading", "applying", "clearing"}
  \/ Refreshed(p) /\ pass[p].fresh # {} /\ pass[p].memory \in Poison

FailReconciliationFinally(p) ==
  /\ Fails(p)
  /\ memory' = [memory EXCEPT ![pass[p].memory].flagged = FALSE]
  /\ pass' = [pass EXCEPT ![p].step = "next"]
  /\ UNCHANGED <<found, ingest, storedAt, replacedBy, settled>>
(* An error is counted and leaves the flag for a later pass.               *)
FailReconciliation(p) ==
  /\ Fails(p)
  /\ pass' = [pass EXCEPT ![p].step = "next"]
  /\ UNCHANGED <<memory, found, ingest, storedAt, replacedBy, settled>>

CrashPass(p) ==
  /\ Failures
  /\ pass[p].step # "idle"
  /\ pass' = [pass EXCEPT ![p] = Idle]
  /\ UNCHANGED <<memory, found, ingest, storedAt, replacedBy, settled>>

-----------------------------------------------------------------------------
(* Other users of the table: deletions by users, decay and consolidation,  *)
(* and supersession by a process that does not defer.                      *)

DeleteMemory(m) ==
  /\ Deletions
  /\ memory[m].status \in {"live", "expired"}
  /\ SoftDelete(m)
  /\ UNCHANGED <<found, ingest, pass, storedAt, replacedBy, settled>>

ExpireMemory(m) ==
  /\ Deletions
  /\ memory[m].status = "live"
  /\ memory' = [memory EXCEPT ![m].status = "expired"]
  /\ UNCHANGED <<found, ingest, pass, storedAt, replacedBy, settled>>

-----------------------------------------------------------------------------
IngestStep(m) ==
  \/ FindFilteredCandidates(m) \/ StoreCanonicalFact(m)
  \/ MarkMemoryDeferred(m) \/ FailIngest(m)

(* The loop of a pass that has read its batch.                             *)
PassStep(p) ==
  \/ ReconcileSingleMemory(p) \/ RefreshCandidate(p) \/ Keep(p)
  \/ ResolveAUDN(p) \/ ApplyDeferredDecision(p) \/ ClearDeferredFlag(p)
  \/ FailReconciliation(p) \/ EndPass(p)

Next ==
  \/ \E m \in Memories : IngestStep(m) \/ DeleteMemory(m) \/ ExpireMemory(m)
  \/ \E p \in Passes : FindDeferredMemories(p) \/ PassStep(p) \/ CrashPass(p)

Spec == Init /\ [][Next]_vars

(* A pass that runs goes on, and whoever posts /reconcile does it again    *)
(* and again.                                                              *)
FairSpec ==
  /\ Spec
  /\ \A p \in Passes : WF_vars(PassStep(p)) /\ WF_vars(FindDeferredMemories(p))

-----------------------------------------------------------------------------
(* Properties.                                                             *)

TypeOK ==
  /\ memory \in [Memories -> Row]
  /\ found \in [Memories -> SUBSET Memories]
  /\ ingest \in [Memories -> {"new", "searched", "stored", "done"}]
  /\ pass \in [Passes -> Local]
  /\ storedAt \in [Memories -> Nat]
  /\ replacedBy \in [Memories -> SUBSET Memories]
  /\ settled \in SUBSET Memories

(* Passes delete a memory only in favour of one that was stored later, so  *)
(* that two memories never delete each other.                              *)
SupersessionMovesBack ==
  \A t \in Memories : \A m \in replacedBy[t] : storedAt[t] < storedAt[m]

(* Whatever fails, a memory loses its flag only after a decision about it  *)
(* has been applied.                                                       *)
FlagClearedWhenSettled ==
  [][\A m \in Memories :
       memory[m].flagged /\ ~memory'[m].flagged => m \in settled]_vars

(* As long as nobody else deletes memories, the passes never lose a fact   *)
(* altogether: of the memories stored after one that was replaced, one is  *)
(* still there.                                                            *)
ReplacementSurvives ==
  \A t \in Memories :
    replacedBy[t] # {} => \E m \in Live : storedAt[t] < storedAt[m]

(* A deferred memory is reconciled in the end unless the LLM always fails  *)
(* on it.                                                                  *)
EventuallyReconciled ==
  \A m \in Memories \ Poison : m \in Deferred ~> m \notin Deferred

(* What the prompt says of DELETE: it removes the existing memory, not the *)
(* new one.                                                                *)
DeleteRemovesExisting ==
  [][\A p \in Passes :
       (/\ pass[p].step = "applying" /\ pass[p].action = "DELETE"
        /\ pass'[p].step = "clearing")
         => memory'[pass[p].memory] = memory[pass[p].memory]]_vars

(* What refreshCandidates says: data that may have been deleted since the  *)
(* ingest is fetched again, so that no memory is deleted in favour of one  *)
(* that is gone.                                                           *)
ReplacerIsLive ==
  [][\A t, m \in Memories :
       m \in replacedBy'[t] \ replacedBy[t] => memory[m].status = "live"]_vars

=============================================================================
