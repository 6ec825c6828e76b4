--------------------------- MODULE TemporalLinkage ---------------------------
(***************************************************************************)
(* The temporal linkage list (repository-tll.ts): for every entity the     *)
(* chain of the memories that mention it.  Appends are started after a     *)
(* fact was stored and not awaited (maybeAppendTll); each runs one         *)
(* transaction per entity under an advisory lock of the chain.  A reset of *)
(* a source deletes memories, and foreign keys cascade into the chains.    *)
(*                                                                         *)
(* One user.  observation_date only sorts answers and is left out.         *)
(***************************************************************************)
EXTENDS Integers, FiniteSets

CONSTANTS
  Memories,    \* facts that are stored
  Entities,    \* entities they can mention
  Mentions,    \* the entities each memory mentions
  Sources,     \* source sites
  Source,      \* the source site of each memory
  Null         \* NULL

ASSUME NullAssumption == Null \notin Memories \cup Entities
ASSUME MentionsAssumption == Mentions \in [Memories -> SUBSET Entities]
ASSUME SourceAssumption == Source \in [Memories -> Sources]

VARIABLES
  memory,      \* whether a memory is stored, and whether it was deleted
  append,      \* the append of each memory: entities to do, transaction
  lock,        \* advisory locks: the memory whose append holds it
  chain        \* committed rows of temporal_linkage_list

chainVars == <<memory, append, lock, chain>>

Row ==
  [entity: Entities, memory: Memories, predecessor: Memories \cup {Null},
   position: Nat]

Local ==
  [todo: SUBSET Entities, step: {"idle", "locked", "inserted"},
   entity: Entities \cup {Null}, predecessor: Memories \cup {Null},
   position: Nat]

Idle ==
  [todo |-> {}, step |-> "idle", entity |-> Null, predecessor |-> Null,
   position |-> 0]

Chain(e) == {r \in chain : r.entity = e}

(* The row with the highest position.                                      *)
Tip(e) == {r \in Chain(e) : \A q \in Chain(e) : q.position <= r.position}

InitChains ==
  /\ memory = [m \in Memories |-> "new"]
  /\ append = [m \in Memories |-> Idle]
  /\ lock = [e \in Entities |-> Null]
  /\ chain = {}

-----------------------------------------------------------------------------
(* Entities that cannot be resolved are skipped.                           *)
StoreAndLink(m) ==
  /\ memory[m] = "new"
  /\ memory' = [memory EXCEPT ![m] = "live"]
  /\ \E E \in SUBSET Mentions[m] : append' = [append EXCEPT ![m].todo = E]
  /\ UNCHANGED <<lock, chain>>

LockChainWithoutWaiting(m) ==
  /\ append[m].step = "idle"
  /\ \E e \in append[m].todo :
       /\ append' = [append EXCEPT ![m].step = "locked", ![m].entity = e]
       /\ lock' = [lock EXCEPT ![e] = m]
  /\ UNCHANGED <<memory, chain>>
(* pg_advisory_xact_lock waits until the chain is free.                    *)
LockChain(m) ==
  /\ append[m].step = "idle"
  /\ \E e \in append[m].todo :
       /\ lock[e] = Null
       /\ append' = [append EXCEPT ![m].step = "locked", ![m].entity = e]
       /\ lock' = [lock EXCEPT ![e] = m]
  /\ UNCHANGED <<memory, chain>>

NextRowsAtLength(e) ==
  IF Chain(e) = {}
    THEN {[predecessor |-> Null, position |-> 0]}
    ELSE {[predecessor |-> r.memory, position |-> Cardinality(Chain(e))] :
            r \in Tip(e)}
(* The row that is inserted: after the tip, or at position 0.              *)
NextRows(e) ==
  IF Chain(e) = {}
    THEN {[predecessor |-> Null, position |-> 0]}
    ELSE {[predecessor |-> r.memory, position |-> r.position + 1] : r \in Tip(e)}

InsertRow(m) ==
  /\ append[m].step = "locked"
  /\ memory[m] = "live"
  /\ \E r \in NextRows(append[m].entity) :
       append' = [append EXCEPT ![m].step = "inserted",
                                ![m].predecessor = r.predecessor,
                                ![m].position = r.position]
  /\ UNCHANGED <<memory, lock, chain>>

Inserted(m) ==
  [entity |-> append[m].entity, memory |-> m,
   predecessor |-> append[m].predecessor, position |-> append[m].position]

Commit(m) ==
  /\ append[m].step = "inserted"
  /\ chain' = chain \cup {Inserted(m)}
  /\ lock' = [lock EXCEPT ![append[m].entity] = Null]
  /\ append' = [append EXCEPT ![m] = [Idle EXCEPT !.todo =
                  append[m].todo \ {append[m].entity}]]
  /\ UNCHANGED memory

(* An exception ends the loop over the entities: the others are skipped.   *)
RollbackKeepsLock(m) ==
  /\ append' = [append EXCEPT ![m] = Idle]
  /\ UNCHANGED <<memory, lock, chain>>
Rollback(m) ==
  /\ append' = [append EXCEPT ![m] = Idle]
  /\ lock' = [e \in Entities |-> IF lock[e] = m THEN Null ELSE lock[e]]
  /\ UNCHANGED <<memory, chain>>

(* The foreign key of a memory that was deleted in the meantime.           *)
RejectDeleted(m) ==
  /\ append[m].step = "locked"
  /\ memory[m] = "gone"
  /\ Rollback(m)

(* A statement fails or the process dies.                                  *)
FailAppend(m) ==
  /\ append[m].todo # {}
  /\ Rollback(m)

(* deleteBySource, which waits for transactions that refer to what it      *)
(* deletes.  Rows of the memories and rows that name one as predecessor go *)
(* with them.                                                              *)
DeleteBySource(s) ==
  LET D == {m \in Memories : Source[m] = s /\ memory[m] = "live"} IN
  /\ D # {}
  /\ \A m \in Memories :
       append[m].step = "inserted" =>
         m \notin D /\ append[m].predecessor \notin D
  /\ memory' = [m \in Memories |-> IF m \in D THEN "gone" ELSE memory[m]]
  /\ chain' = {r \in chain : r.memory \notin D /\ r.predecessor \notin D}
  /\ UNCHANGED <<append, lock>>

AppendStep(m) ==
  LockChain(m) \/ InsertRow(m) \/ Commit(m) \/ RejectDeleted(m)

NextChains ==
  \/ \E m \in Memories : StoreAndLink(m) \/ AppendStep(m) \/ FailAppend(m)
  \/ \E s \in Sources : DeleteBySource(s)

(* Appends that were started go on.                                        *)
Fairness == \A m \in Memories : WF_chainVars(AppendStep(m))

ChainSpec == InitChains /\ [][NextChains]_chainVars

FairChainSpec == ChainSpec /\ Fairness

-----------------------------------------------------------------------------
(* Properties.                                                             *)

ChainTypeOK ==
  /\ memory \in [Memories -> {"new", "live", "gone"}]
  /\ append \in [Memories -> Local]
  /\ lock \in [Entities -> Memories \cup {Null}]
  /\ chain \subseteq Row

(* "The unique index is the defense-in-depth backstop": it never fires.    *)
(* Whatever was deleted from the chain and whoever appends at the same     *)
(* time, a row that is inserted gets a position of its own.                *)
BackstopNeverFires ==
  \A m \in Memories :
    append[m].step = "inserted" =>
      \A r \in chain \cup {Inserted(n) : n \in {n \in Memories \ {m} :
                                                  append[n].step = "inserted"}} :
        r.entity = append[m].entity => r.position # append[m].position

(* What the predecessors describe is one line, in the order of positions,  *)
(* that deletions cut but never fork: behind another row comes none        *)
(* without predecessor, none with the same one and none that it names as   *)
(* its own, and no row stands between a row and its predecessor.           *)
ChainIsLine ==
  \A q, r \in chain :
    q.entity = r.entity /\ q.position < r.position =>
      /\ r.predecessor # Null
      /\ r.predecessor # q.predecessor
      /\ q.predecessor # r.memory
      /\ r.predecessor = q.memory =>
           ~\E t \in Chain(r.entity) :
              q.position < t.position /\ t.position < r.position

(* Every append ends, whatever fails: no failure leaves a chain locked.    *)
AppendsEnd ==
  \A m \in Memories : append[m].todo # {} ~> append[m].todo = {}

(* What schema.sql says of ON DELETE CASCADE: no predecessor pointer is    *)
(* left that breaks the traversal of a chain.                              *)
BackwardTraversal ==
  \A r \in chain :
    r.predecessor # Null =>
      \E q \in Chain(r.entity) : q.memory = r.predecessor

=============================================================================
