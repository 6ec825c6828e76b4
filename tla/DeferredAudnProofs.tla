------------------------- MODULE DeferredAudnProofs -------------------------
(***************************************************************************)
(* Types, the order of supersession and the life of the flag, for any      *)
(* number of memories and passes, with failures and deletions; and that    *)
(* supersession alone never loses a fact altogether.                       *)
(***************************************************************************)
EXTENDS DeferredAudn, FiniteSetTheorems, TLAPS

(* Rows exist from the time they are stored, in the order of storing.      *)
Ordered ==
  /\ IsFiniteSet(Stored)
  /\ \A m \in Memories :
       /\ storedAt[m] <= Cardinality(Stored)
       /\ storedAt[m] = 0 <=> ingest[m] \in {"new", "searched"}
       /\ storedAt[m] = 0 => memory[m].status = "none" /\ ~memory[m].flagged
       /\ \A c \in found[m] :
            storedAt[c] # 0 /\ (storedAt[m] # 0 => storedAt[c] < storedAt[m])

(* What was replaced had been stored.                                      *)
ReplacedWasStored ==
  \A t \in Memories : replacedBy[t] # {} => storedAt[t] # 0

(* What a pass remembers of a memory that has been stored.                 *)
Remembered(p) ==
  /\ \A m \in pass[p].batch : storedAt[m] # 0
  /\ pass[p].step \in {"reading", "applying", "clearing"} =>
       /\ pass[p].memory \in Memories
       /\ storedAt[pass[p].memory] # 0
       /\ pass[p].unread \cup pass[p].fresh \subseteq found[pass[p].memory]
  /\ pass[p].step = "applying" => pass[p].target \in found[pass[p].memory]
  /\ pass[p].step = "clearing" => pass[p].memory \in settled

IInv ==
  /\ TypeOK
  /\ Ordered
  /\ \A p \in Passes : Remembered(p)
  /\ SupersessionMovesBack
  /\ ReplacedWasStored

-----------------------------------------------------------------------------
(* Counting the stored memories gives a new one a place after all others.  *)
LEMMA StoringAddsOne ==
  ASSUME IInv, NEW m \in Memories, StoreCanonicalFact(m)
  PROVE  /\ IsFiniteSet(Stored)' /\ Cardinality(Stored)' = Cardinality(Stored) + 1
         /\ Cardinality(Stored) \in Nat
         /\ storedAt' = [storedAt EXCEPT ![m] = Cardinality(Stored) + 1]
<1>1. IsFiniteSet(Stored) /\ m \notin Stored
  BY DEF IInv, Ordered, StoreCanonicalFact, Stored
<1>2. Cardinality(Stored) \in Nat
  BY <1>1, FS_CardinalityType
<1>3. storedAt' = [storedAt EXCEPT ![m] = Cardinality(Stored) + 1]
  BY DEF StoreCanonicalFact
<1>4. Stored' = Stored \cup {m}
  <2>1. storedAt \in [Memories -> Nat] /\ Cardinality(Stored) + 1 # 0
    BY <1>2 DEF IInv, TypeOK
  <2>2. \A c \in Memories :
          storedAt'[c] = IF c = m THEN Cardinality(Stored) + 1 ELSE storedAt[c]
    BY <1>3, <2>1
  <2>3. \A c \in Memories : storedAt'[c] # 0 <=> storedAt[c] # 0 \/ c = m
    BY <2>1, <2>2
  <2>4. QED
    BY <2>3 DEF Stored
<1>5. QED
  BY <1>1, <1>2, <1>3, <1>4, FS_AddElement

(* Steps that change neither the candidates nor the order of storing keep  *)
(* what the passes remember, if they leave the passes alone.               *)
LEMMA PassesUndisturbed ==
  ASSUME IInv, UNCHANGED <<found, pass, storedAt>>, settled \subseteq settled'
  PROVE  (\A p \in Passes : Remembered(p))'
BY DEF IInv, Remembered

(* Steps of a pass that change neither rows nor history.                   *)
LEMMA OthersUndisturbed ==
  ASSUME IInv, NEW p \in Passes, NEW l, pass' = [pass EXCEPT ![p] = l],
         UNCHANGED <<found, storedAt>>, settled \subseteq settled',
         Remembered(p)'
  PROVE  (\A q \in Passes : Remembered(q))'
<1>1. SUFFICES ASSUME NEW q \in Passes, q # p PROVE Remembered(q)'
  OBVIOUS
<1>2. pass'[q] = pass[q]
  BY <1>1 DEF IInv, TypeOK
<1>3. QED
  BY <1>1, <1>2 DEF IInv, Remembered

(* Steps that leave the order of storing and the ingests alone and touch   *)
(* rows that exist keep the order.                                         *)
LEMMA OrderUndisturbed ==
  ASSUME IInv, UNCHANGED <<found, ingest, storedAt>>,
         \A m \in Memories : storedAt[m] = 0 => memory'[m] = memory[m]
  PROVE  Ordered'
BY DEF IInv, Ordered, Stored

-----------------------------------------------------------------------------
(* Types.                                                                  *)

(* Every step of an ingest keeps the types.                                *)
LEMMA IngestTypes ==
  ASSUME TypeOK, IsFiniteSet(Stored), NEW m \in Memories, IngestStep(m)
  PROVE  TypeOK'
<1>1. CASE FindFilteredCandidates(m)
  BY <1>1 DEF TypeOK, FindFilteredCandidates, Live
<1>2. CASE StoreCanonicalFact(m)
  <2>1. Cardinality(Stored) + 1 \in Nat
    BY FS_CardinalityType
  <2>2. [memory[m] EXCEPT !.status = "live"] \in Row
    BY DEF TypeOK, Row
  <2>3. QED
    BY <1>2, <2>1, <2>2 DEF TypeOK, StoreCanonicalFact
<1>3. CASE MarkMemoryDeferred(m)
  <2>1. [memory[m] EXCEPT !.flagged = TRUE] \in Row
    BY DEF TypeOK, Row
  <2>2. QED
    BY <1>3, <2>1 DEF TypeOK, MarkMemoryDeferred
<1>4. CASE FailIngest(m)
  BY <1>4 DEF TypeOK, FailIngest
<1>5. QED
  BY <1>1, <1>2, <1>3, <1>4 DEF IngestStep

(* A soft delete keeps the type of the rows.                               *)
LEMMA SoftDeleteType ==
  ASSUME TypeOK, NEW m \in Memories, SoftDelete(m)
  PROVE  memory' \in [Memories -> Row]
<1>1. [memory[m] EXCEPT !.status = "deleted"] \in Row
  BY DEF TypeOK, Row
<1>2. QED
  BY <1>1 DEF TypeOK, SoftDelete

(* Every step of a pass keeps the types.                                   *)
LEMMA PassTypes ==
  ASSUME IInv, NEW p \in Passes,
         FindDeferredMemories(p) \/ PassStep(p) \/ CrashPass(p)
  PROVE  TypeOK'
<1> DEFINE l == pass[p]
<1>0. TypeOK /\ l \in Local /\ Idle \in Local
  BY DEF IInv, TypeOK, Idle, Local
<1>1. CASE FindDeferredMemories(p)
  <2>1. Oldest(Deferred) \subseteq Memories
    BY DEF Oldest, Deferred
  <2>2. [l EXCEPT !.step = "next", !.batch = Oldest(Deferred)] \in Local
    BY <1>0, <2>1 DEF Local
  <2>3. QED
    BY <1>0, <1>1, <2>2 DEF TypeOK, FindDeferredMemories
<1>2. CASE ReconcileSingleMemory(p)
  <2>1. PICK m \in l.batch :
          pass' = [pass EXCEPT ![p].step = "reading", ![p].memory = m,
                               ![p].batch = @ \ {m},
                               ![p].unread = found[m], ![p].fresh = {}]
    BY <1>2 DEF ReconcileSingleMemory
  <2>2. m \in Memories /\ found[m] \subseteq Memories
    BY <1>0, <2>1 DEF Local, TypeOK
  <2>3. [l EXCEPT !.step = "reading", !.memory = m, !.batch = @ \ {m},
                  !.unread = found[m], !.fresh = {}] \in Local
    BY <1>0, <2>2 DEF Local
  <2>4. QED
    BY <1>0, <1>2, <2>1, <2>3 DEF TypeOK, ReconcileSingleMemory
<1>3. CASE EndPass(p)
  BY <1>0, <1>3 DEF TypeOK, EndPass
<1>4. CASE RefreshCandidate(p)
  <2>1. PICK c \in l.unread :
          pass' = [pass EXCEPT ![p].unread = @ \ {c},
                     ![p].fresh = IF c \in Live THEN @ \cup {c} ELSE @]
    BY <1>4 DEF RefreshCandidate
  <2>2. [l EXCEPT !.unread = @ \ {c},
                  !.fresh = IF c \in Live THEN @ \cup {c} ELSE @] \in Local
    BY <1>0 DEF Local
  <2>3. QED
    BY <1>0, <1>4, <2>1, <2>2 DEF TypeOK, RefreshCandidate
<1>5. CASE Keep(p)
  <2>1. [l EXCEPT !.step = "clearing", !.action = "ADD", !.target = None] \in Local
    BY <1>0 DEF Local
  <2>2. l.memory \in Memories
    BY <1>5 DEF Keep, Refreshed, IInv, Remembered
  <2>3. QED
    BY <1>0, <1>5, <2>1, <2>2 DEF TypeOK, Keep
<1>6. CASE ResolveAUDN(p)
  <2>1. PICK t \in l.fresh, a \in Answers \ {"ADD"} :
          pass' = [pass EXCEPT ![p].step = "applying", ![p].action = a,
                               ![p].target = t]
    BY <1>6 DEF ResolveAUDN
  <2>2. [l EXCEPT !.step = "applying", !.action = a, !.target = t] \in Local
    BY <1>0, AnswersAssumption DEF Local
  <2>3. QED
    BY <1>0, <1>6, <2>1, <2>2 DEF TypeOK, ResolveAUDN
<1>7. CASE ApplyDeferredDecision(p)
  <2>1. l.memory \in Memories /\ l.target \in Memories
    BY <1>7 DEF ApplyDeferredDecision, IInv, Remembered, TypeOK
  <2>2. memory' \in [Memories -> Row]
    BY <1>0, <1>7, <2>1, SoftDeleteType DEF ApplyDeferredDecision
  <2>3. replacedBy' \in [Memories -> SUBSET Memories]
    BY <1>0, <1>7, <2>1 DEF ApplyDeferredDecision, TypeOK
  <2>4. [l EXCEPT !.step = "clearing"] \in Local
    BY <1>0 DEF Local
  <2>5. QED
    BY <1>0, <1>7, <2>1, <2>2, <2>3, <2>4 DEF TypeOK, ApplyDeferredDecision
<1>8. CASE ClearDeferredFlag(p)
  <2>1. [l EXCEPT !.step = "next"] \in Local
    BY <1>0 DEF Local
  <2>2. l.memory \in Memories
    BY <1>8 DEF ClearDeferredFlag, IInv, Remembered
  <2>3. \A m \in Memories : [memory[m] EXCEPT !.flagged = FALSE] \in Row
    BY <1>0 DEF TypeOK, Row
  <2>4. QED
    BY <1>0, <1>8, <2>1, <2>2, <2>3 DEF TypeOK, ClearDeferredFlag
<1>9. CASE FailReconciliation(p)
  <2>1. [l EXCEPT !.step = "next"] \in Local
    BY <1>0 DEF Local
  <2>2. QED
    BY <1>0, <1>9, <2>1 DEF TypeOK, FailReconciliation
<1>10. CASE CrashPass(p)
  BY <1>0, <1>10 DEF TypeOK, CrashPass
<1>11. QED
  BY <1>1, <1>2, <1>3, <1>4, <1>5, <1>6, <1>7, <1>8, <1>9, <1>10 DEF PassStep

-----------------------------------------------------------------------------
(* Steps of an ingest keep the invariant.                                  *)

(* Searching changes the candidates of a memory that is not stored.        *)
LEMMA SearchKeeps ==
  ASSUME IInv, NEW m \in Memories, FindFilteredCandidates(m)
  PROVE  Ordered' /\ (\A p \in Passes : Remembered(p))'
<1>1. PICK C \in SUBSET Live : found' = [found EXCEPT ![m] = C]
  BY DEF FindFilteredCandidates
<1>2. storedAt[m] = 0 /\ \A c \in C : c \in Memories /\ storedAt[c] # 0
  BY <1>1 DEF IInv, Ordered, FindFilteredCandidates, Live
<1>3. Ordered'
  <2>1. UNCHANGED Stored
    BY DEF FindFilteredCandidates, Stored
  <2>2. QED
    BY <1>1, <1>2, <2>1 DEF IInv, TypeOK, Ordered, FindFilteredCandidates
<1>4. (\A p \in Passes : Remembered(p))'
  BY <1>1, <1>2 DEF IInv, TypeOK, Remembered, FindFilteredCandidates
<1>5. QED
  BY <1>3, <1>4

(* Storing puts a memory after everything stored so far.                   *)
LEMMA StoreKeeps ==
  ASSUME IInv, NEW m \in Memories, StoreCanonicalFact(m)
  PROVE  /\ Ordered' /\ (\A p \in Passes : Remembered(p))'
         /\ SupersessionMovesBack' /\ ReplacedWasStored'
<1> DEFINE n == Cardinality(Stored)
<1>1. /\ IsFiniteSet(Stored)' /\ Cardinality(Stored)' = n + 1 /\ n \in Nat
      /\ storedAt' = [storedAt EXCEPT ![m] = n + 1]
  BY StoringAddsOne
<1>2. storedAt \in [Memories -> Nat] /\ ingest[m] = "searched" /\ storedAt[m] = 0
  BY DEF IInv, TypeOK, Ordered, StoreCanonicalFact
<1>3. \A c \in Memories : storedAt[c] <= n
  BY DEF IInv, Ordered
<1> HIDE DEF n
<1>4. \A c \in Memories : storedAt'[c] = IF c = m THEN n + 1 ELSE storedAt[c]
  BY <1>1, <1>2
<1>5. \A c \in Memories : memory'[c] = memory[c] \/ c = m
  BY DEF IInv, TypeOK, StoreCanonicalFact
<1>6. ingest'[m] \in {"stored", "done"}
      /\ \A c \in Memories : c # m => ingest'[c] = ingest[c]
  <2>1. PICK e \in {"stored", "done"} : ingest' = [ingest EXCEPT ![m] = e]
    BY DEF StoreCanonicalFact
  <2>2. QED
    BY <2>1 DEF IInv, TypeOK
<1>7. Ordered'
  <2>1. ASSUME NEW k \in Memories
        PROVE  /\ storedAt'[k] <= n + 1
               /\ storedAt'[k] = 0 <=> ingest'[k] \in {"new", "searched"}
               /\ storedAt'[k] = 0 =>
                    memory'[k].status = "none" /\ ~memory'[k].flagged
    BY <1>1, <1>2, <1>3, <1>4, <1>5, <1>6 DEF IInv, Ordered
  <2>2. ASSUME NEW k \in Memories, NEW c \in found'[k]
        PROVE  /\ storedAt'[c] # 0
               /\ storedAt'[k] # 0 => storedAt'[c] < storedAt'[k]
    <3>1. found' = found /\ c \in Memories
      BY DEF StoreCanonicalFact, IInv, TypeOK
    <3>2. storedAt[c] # 0 /\ (storedAt[k] # 0 => storedAt[c] < storedAt[k])
      BY <3>1 DEF IInv, Ordered
    <3>3. QED
      BY <1>1, <1>2, <1>3, <1>4, <3>1, <3>2
  <2>3. QED
    BY <1>1, <2>1, <2>2 DEF Ordered
<1>8. ASSUME NEW p \in Passes PROVE Remembered(p)'
  <2>1. UNCHANGED <<found, pass, settled>>
    BY DEF StoreCanonicalFact
  <2>2. pass[p] \in Local
    BY DEF IInv, TypeOK
  <2>3. \A c \in Memories : storedAt[c] # 0 => storedAt'[c] # 0
    BY <1>1, <1>2, <1>4
  <2>4. QED
    BY <2>1, <2>2, <2>3 DEF IInv, Remembered, Local
<1>9. SupersessionMovesBack'
  <2> SUFFICES ASSUME NEW t \in Memories, NEW r \in replacedBy[t]
               PROVE  storedAt'[t] < storedAt'[r]
    BY DEF SupersessionMovesBack, StoreCanonicalFact
  <2>1. r \in Memories /\ storedAt[t] < storedAt[r]
    BY DEF IInv, TypeOK, SupersessionMovesBack
  <2>2. t # m
    BY <1>2 DEF IInv, ReplacedWasStored
  <2>3. QED
    BY <1>1, <1>2, <1>3, <1>4, <2>1, <2>2
<1>10. ReplacedWasStored'
  <2>1. UNCHANGED replacedBy
    BY DEF StoreCanonicalFact
  <2>2. QED
    BY <1>1, <1>2, <1>4, <2>1 DEF IInv, ReplacedWasStored
<1>11. QED
  BY <1>7, <1>8, <1>9, <1>10

(* Setting the flag, or failing to, keeps the invariant.                   *)
LEMMA MarkKeeps ==
  ASSUME IInv, NEW m \in Memories, MarkMemoryDeferred(m) \/ FailIngest(m)
  PROVE  Ordered' /\ (\A p \in Passes : Remembered(p))'
<1>1. /\ UNCHANGED <<found, pass, storedAt, settled>>
      /\ ingest[m] = "stored" /\ ingest' = [ingest EXCEPT ![m] = "done"]
  BY DEF MarkMemoryDeferred, FailIngest
<1>2. storedAt[m] # 0 /\ UNCHANGED Stored
  BY <1>1 DEF IInv, Ordered, Stored
<1>3. \A k \in Memories : k # m => memory'[k] = memory[k]
  BY DEF IInv, TypeOK, MarkMemoryDeferred, FailIngest
<1>4. Ordered'
  BY <1>1, <1>2, <1>3 DEF IInv, TypeOK, Ordered
<1>5. QED
  BY <1>1, <1>4, PassesUndisturbed

-----------------------------------------------------------------------------
(* Steps of a pass keep the invariant.                                     *)
LEMMA PassKeeps ==
  ASSUME IInv, NEW p \in Passes,
         FindDeferredMemories(p) \/ PassStep(p) \/ CrashPass(p)
  PROVE  /\ Ordered' /\ (\A q \in Passes : Remembered(q))'
         /\ SupersessionMovesBack' /\ ReplacedWasStored'
<1> DEFINE l == pass[p]
<1>0. TypeOK /\ l \in Local /\ Remembered(p) /\ Ordered
  BY DEF IInv, TypeOK
<1>a. UNCHANGED <<found, ingest, storedAt>> /\ settled \subseteq settled'
  BY DEF PassStep, FindDeferredMemories, CrashPass, ReconcileSingleMemory,
         EndPass, RefreshCandidate, Keep, ResolveAUDN, ApplyDeferredDecision,
         ClearDeferredFlag, FailReconciliation
<1>b. ASSUME UNCHANGED <<memory, replacedBy>>
      PROVE  Ordered' /\ SupersessionMovesBack' /\ ReplacedWasStored'
  BY <1>a, <1>b, OrderUndisturbed
     DEF IInv, SupersessionMovesBack, ReplacedWasStored
<1>1. CASE FindDeferredMemories(p)
  <2>1. \A m \in Oldest(Deferred) : storedAt[m] # 0
    BY <1>0 DEF Oldest, Deferred, Ordered
  <2>2. Remembered(p)'
    BY <1>0, <1>1, <2>1 DEF TypeOK, FindDeferredMemories, Remembered
  <2>3. QED
    BY <1>1, <1>a, <1>b, <2>2, OthersUndisturbed DEF FindDeferredMemories
<1>2. CASE ReconcileSingleMemory(p)
  <2>1. Remembered(p)'
    BY <1>0, <1>2 DEF TypeOK, ReconcileSingleMemory, Remembered, Local
  <2>2. QED
    BY <1>2, <1>a, <1>b, <2>1, OthersUndisturbed DEF ReconcileSingleMemory
<1>3. CASE EndPass(p)
  <2>1. Remembered(p)'
    BY <1>0, <1>3 DEF TypeOK, EndPass, Remembered, Idle
  <2>2. QED
    BY <1>3, <1>a, <1>b, <2>1, OthersUndisturbed DEF EndPass
<1>4. CASE RefreshCandidate(p)
  <2>1. Remembered(p)'
    BY <1>0, <1>4 DEF TypeOK, RefreshCandidate, Remembered
  <2>2. QED
    BY <1>4, <1>a, <1>b, <2>1, OthersUndisturbed DEF RefreshCandidate
<1>5. CASE Keep(p)
  <2>1. Remembered(p)'
    BY <1>0, <1>5 DEF TypeOK, Keep, Refreshed, Remembered
  <2>2. QED
    BY <1>5, <1>a, <1>b, <2>1, OthersUndisturbed DEF Keep
<1>6. CASE ResolveAUDN(p)
  <2>1. Remembered(p)'
    BY <1>0, <1>6 DEF TypeOK, ResolveAUDN, Refreshed, Remembered
  <2>2. QED
    BY <1>6, <1>a, <1>b, <2>1, OthersUndisturbed DEF ResolveAUDN
<1>7. CASE ApplyDeferredDecision(p)
  <2> DEFINE m == l.memory
             t == l.target
  <2>1. m \in Memories /\ t \in found[m] /\ t \in Memories
    BY <1>0, <1>7 DEF ApplyDeferredDecision, Remembered, TypeOK
  <2>2. storedAt[m] # 0 /\ storedAt[t] # 0 /\ storedAt[t] < storedAt[m]
    BY <1>0, <1>7, <2>1 DEF ApplyDeferredDecision, Remembered, Ordered
  <2>3. Ordered'
    BY <1>0, <1>7, <1>a, <2>1, <2>2, OrderUndisturbed
       DEF ApplyDeferredDecision, SoftDelete, TypeOK
  <2>4. Remembered(p)'
    BY <1>0, <1>7 DEF TypeOK, ApplyDeferredDecision, Remembered
  <2>5. SupersessionMovesBack' /\ ReplacedWasStored'
    <3>1. \A k \in Memories : \A r \in replacedBy'[k] :
            r \in replacedBy[k] \/ (k = t /\ r = m)
      BY <1>0, <1>7, <2>1 DEF ApplyDeferredDecision, TypeOK
    <3>2. QED
      BY <1>a, <2>2, <3>1 DEF IInv, SupersessionMovesBack, ReplacedWasStored
  <2>6. QED
    BY <1>7, <1>a, <2>3, <2>4, <2>5, OthersUndisturbed DEF ApplyDeferredDecision
<1>8. CASE ClearDeferredFlag(p)
  <2>1. storedAt[l.memory] # 0
    BY <1>0, <1>8 DEF ClearDeferredFlag, Remembered
  <2>2. Ordered'
    BY <1>0, <1>8, <1>a, <2>1, OrderUndisturbed DEF ClearDeferredFlag, TypeOK
  <2>3. Remembered(p)'
    BY <1>0, <1>8 DEF TypeOK, ClearDeferredFlag, Remembered
  <2>4. SupersessionMovesBack' /\ ReplacedWasStored'
    BY <1>8, <1>a
       DEF ClearDeferredFlag, IInv, SupersessionMovesBack, ReplacedWasStored
  <2>5. QED
    BY <1>8, <1>a, <2>2, <2>3, <2>4, OthersUndisturbed DEF ClearDeferredFlag
<1>9. CASE FailReconciliation(p)
  <2>1. Remembered(p)'
    BY <1>0, <1>9 DEF TypeOK, FailReconciliation, Remembered
  <2>2. QED
    BY <1>9, <1>a, <1>b, <2>1, OthersUndisturbed DEF FailReconciliation
<1>10. CASE CrashPass(p)
  <2>1. Remembered(p)'
    BY <1>0, <1>10 DEF TypeOK, CrashPass, Remembered, Idle
  <2>2. QED
    BY <1>10, <1>a, <1>b, <2>1, OthersUndisturbed DEF CrashPass
<1>11. QED
  BY <1>1, <1>2, <1>3, <1>4, <1>5, <1>6, <1>7, <1>8, <1>9, <1>10 DEF PassStep

-----------------------------------------------------------------------------
(* Deletions from outside touch rows that exist.                           *)
LEMMA OutsideKeeps ==
  ASSUME IInv, NEW m \in Memories, DeleteMemory(m) \/ ExpireMemory(m)
  PROVE  IInv'
<1>1. UNCHANGED <<found, ingest, pass, storedAt, replacedBy, settled>>
      /\ memory[m].status # "none"
  BY DEF DeleteMemory, ExpireMemory
<1>2. memory' \in [Memories -> Row]
  <2>1. [memory[m] EXCEPT !.status = "expired"] \in Row
    BY DEF IInv, TypeOK, Row
  <2>2. CASE ExpireMemory(m)
    BY <2>1, <2>2 DEF IInv, TypeOK, ExpireMemory
  <2>3. CASE DeleteMemory(m)
    BY <2>3, SoftDeleteType DEF IInv, DeleteMemory
  <2>4. QED
    BY <2>2, <2>3
<1>3. Ordered'
  <2>1. storedAt[m] # 0
    BY <1>1 DEF IInv, Ordered
  <2>2. \A k \in Memories : k # m => memory'[k] = memory[k]
    BY DEF IInv, TypeOK, DeleteMemory, ExpireMemory, SoftDelete
  <2>3. QED
    BY <1>1, <2>1, <2>2, OrderUndisturbed
<1>4. QED
  BY <1>1, <1>2, <1>3, PassesUndisturbed
     DEF IInv, TypeOK, SupersessionMovesBack, ReplacedWasStored

(* Together: the invariant holds of every reachable state.                 *)
THEOREM Invariance == Spec => []IInv
<1>1. Init => IInv
  <2> SUFFICES ASSUME Init PROVE IInv
    OBVIOUS
  <2>1. Stored = {}
    BY DEF Init, Stored
  <2>2. IsFiniteSet(Stored) /\ Cardinality(Stored) = 0
    BY <2>1, FS_EmptySet
  <2>3. TypeOK
    BY DEF Init, TypeOK, Row, Idle, Local
  <2>4. Ordered
    BY <2>2 DEF Init, Ordered
  <2>5. \A p \in Passes : Remembered(p)
    BY DEF Init, Remembered, Idle
  <2>6. QED
    BY <2>3, <2>4, <2>5
       DEF IInv, Init, SupersessionMovesBack, ReplacedWasStored
<1>2. IInv /\ [Next]_vars => IInv'
  <2> SUFFICES ASSUME IInv, [Next]_vars PROVE IInv'
    OBVIOUS
  <2>1. ASSUME NEW m \in Memories, IngestStep(m) PROVE IInv'
    <3>1. TypeOK'
      BY <2>1, IngestTypes DEF IInv, Ordered
    <3>2. CASE StoreCanonicalFact(m)
      BY <3>1, <3>2, StoreKeeps DEF IInv
    <3>3. CASE FindFilteredCandidates(m)
      BY <3>1, <3>3, SearchKeeps
         DEF IInv, FindFilteredCandidates, SupersessionMovesBack, ReplacedWasStored
    <3>4. CASE MarkMemoryDeferred(m) \/ FailIngest(m)
      BY <3>1, <3>4, MarkKeeps
         DEF IInv, MarkMemoryDeferred, FailIngest, SupersessionMovesBack,
             ReplacedWasStored
    <3>5. QED
      BY <2>1, <3>2, <3>3, <3>4 DEF IngestStep
  <2>2. ASSUME NEW m \in Memories, DeleteMemory(m) \/ ExpireMemory(m) PROVE IInv'
    BY <2>2, OutsideKeeps
  <2>3. ASSUME NEW p \in Passes,
               FindDeferredMemories(p) \/ PassStep(p) \/ CrashPass(p)
        PROVE  IInv'
    BY <2>3, PassTypes, PassKeeps DEF IInv
  <2>4. CASE UNCHANGED vars
    <3>1. Ordered' /\ (\A p \in Passes : Remembered(p))'
      BY <2>4, OrderUndisturbed, PassesUndisturbed DEF vars
    <3>2. QED
      BY <2>4, <3>1 DEF vars, IInv, TypeOK, SupersessionMovesBack, ReplacedWasStored
  <2>5. QED
    BY <2>1, <2>2, <2>3, <2>4 DEF Next
<1>3. QED
  BY <1>1, <1>2, PTL DEF Spec

(* Variables keep their types.                                             *)
THEOREM TypeCorrect == Spec => []TypeOK
<1>1. IInv => TypeOK
  BY DEF IInv
<1>2. QED
  BY Invariance, <1>1, PTL

(* However many passes run and whatever fails, supersession goes from      *)
(* newer to older memories, so that no two memories delete each other.     *)
THEOREM OrderSafe == Spec => []SupersessionMovesBack
<1>1. IInv => SupersessionMovesBack
  BY DEF IInv
<1>2. QED
  BY Invariance, <1>1, PTL

(* No memory loses its flag before a decision about it was applied.        *)
THEOREM FlagSafe == Spec => FlagClearedWhenSettled
<1> DEFINE Kept == \A m \in Memories :
             memory[m].flagged /\ ~memory'[m].flagged => m \in settled
<1>1. IInv /\ [Next]_vars => [Kept]_vars
  <2> SUFFICES ASSUME IInv, Next, NEW m \in Memories,
                      memory[m].flagged, ~memory'[m].flagged
               PROVE  m \in settled
    OBVIOUS
  <2>1. memory \in [Memories -> Row] /\ memory' # memory
    BY DEF IInv, TypeOK
  <2>2. ASSUME NEW k \in Memories, SoftDelete(k) PROVE FALSE
    BY <2>1, <2>2 DEF SoftDelete, Row
  <2>3. ASSUME NEW k \in Memories, IngestStep(k) PROVE FALSE
    BY <2>1, <2>3 DEF IngestStep, FindFilteredCandidates, StoreCanonicalFact,
                      MarkMemoryDeferred, FailIngest, Row
  <2>4. ASSUME NEW k \in Memories, DeleteMemory(k) \/ ExpireMemory(k) PROVE FALSE
    BY <2>1, <2>2, <2>4 DEF DeleteMemory, ExpireMemory, Row
  <2>5. ASSUME NEW p \in Passes,
               FindDeferredMemories(p) \/ PassStep(p) \/ CrashPass(p)
        PROVE  m \in settled
    <3>1. CASE ApplyDeferredDecision(p)
      <4>1. pass[p].memory \in Memories /\ pass[p].target \in Memories
        BY <3>1, <2>5 DEF ApplyDeferredDecision, IInv, Remembered, TypeOK
      <4>2. QED
        BY <2>2, <3>1, <4>1 DEF ApplyDeferredDecision
    <3>2. CASE ClearDeferredFlag(p)
      <4>1. pass[p].memory \in Memories /\ pass[p].memory \in settled
        BY <2>5, <3>2 DEF ClearDeferredFlag, IInv, Remembered
      <4>2. m = pass[p].memory
        BY <2>1, <3>2, <4>1 DEF ClearDeferredFlag
      <4>3. QED
        BY <4>1, <4>2
    <3>3. CASE ~ApplyDeferredDecision(p) /\ ~ClearDeferredFlag(p)
      BY <2>1, <2>5, <3>3
         DEF PassStep, FindDeferredMemories, CrashPass, ReconcileSingleMemory,
             EndPass, RefreshCandidate, Keep, ResolveAUDN, FailReconciliation
    <3>4. QED
      BY <3>1, <3>2, <3>3
  <2>6. QED
    BY <2>3, <2>4, <2>5 DEF Next
<1>2. QED
  BY Invariance, <1>1, PTL DEF Spec, FlagClearedWhenSettled
-----------------------------------------------------------------------------
(* What is left when only passes delete, and none applies a DELETE: DELETE *)
(* removes the memory that may itself have replaced the others.            *)
OnlySupersession == ~Deletions /\ "DELETE" \notin Answers

(* The memory stored last has a place that nothing stored is after, and    *)
(* what is no longer there was replaced.                                   *)
LastStands ==
  /\ Stored # {} => \E m \in Stored : storedAt[m] = Cardinality(Stored)
  /\ \A m \in Stored : memory[m].status = "live" \/ replacedBy[m] # {}
  /\ \A p \in Passes :
       pass[p].step = "applying" => pass[p].action = "SUPERSEDE"

(* Ingest steps only add rows that are there.                              *)
LEMMA IngestLastStands ==
  ASSUME IInv, LastStands, NEW m \in Memories, IngestStep(m)
  PROVE  LastStands'
<1>0. TypeOK /\ UNCHANGED <<pass, replacedBy>>
  BY DEF IInv, IngestStep, FindFilteredCandidates, StoreCanonicalFact,
         MarkMemoryDeferred, FailIngest
<1>1. \A k \in Memories :
        memory'[k].status = memory[k].status \/ memory'[k].status = "live"
  BY <1>0 DEF TypeOK, IngestStep, FindFilteredCandidates, StoreCanonicalFact,
         MarkMemoryDeferred, FailIngest, Row
<1>2. CASE StoreCanonicalFact(m)
  <2> DEFINE n == Cardinality(Stored)
  <2>1. /\ Cardinality(Stored)' = n + 1 /\ n \in Nat
        /\ storedAt' = [storedAt EXCEPT ![m] = n + 1]
    BY <1>2, StoringAddsOne
  <2>2. memory'[m].status = "live"
    BY <1>0, <1>2 DEF StoreCanonicalFact, TypeOK
  <2> HIDE DEF n
  <2>3. m \in Stored' /\ storedAt'[m] = Cardinality(Stored)'
    BY <1>0, <2>1 DEF Stored, TypeOK
  <2>4. \A k \in Stored' : k = m \/ k \in Stored
    BY <1>0, <2>1 DEF Stored, TypeOK
  <2>5. \A k \in Stored' : memory'[k].status = "live" \/ replacedBy'[k] # {}
    <3> SUFFICES ASSUME NEW k \in Stored'
                 PROVE  memory'[k].status = "live" \/ replacedBy'[k] # {}
      OBVIOUS
    <3>1. k \in Memories
      BY DEF Stored
    <3> QED
      BY <1>0, <1>1, <2>2, <2>4, <3>1 DEF LastStands
  <2> QED
    BY <1>0, <2>3, <2>5 DEF LastStands
<1>3. CASE ~StoreCanonicalFact(m)
  <2>1. UNCHANGED <<storedAt, Stored>>
    BY <1>3 DEF IngestStep, FindFilteredCandidates, MarkMemoryDeferred,
       FailIngest, Stored
  <2>2. \A k \in Stored : memory'[k].status = "live" \/ replacedBy'[k] # {}
    BY <1>0, <1>1 DEF LastStands, Stored
  <2> QED
    BY <1>0, <2>1, <2>2 DEF LastStands
<1> QED
  BY <1>2, <1>3

(* What a pass deletes it replaces.                                        *)
LEMMA PassLastStands ==
  ASSUME OnlySupersession, IInv, LastStands, NEW p \in Passes,
         FindDeferredMemories(p) \/ PassStep(p) \/ CrashPass(p)
  PROVE  LastStands'
<1>0. /\ TypeOK /\ Remembered(p)
      /\ UNCHANGED <<storedAt, Stored>>
  BY DEF IInv, PassStep, FindDeferredMemories, CrashPass,
         ReconcileSingleMemory, EndPass, RefreshCandidate, Keep, ResolveAUDN,
         ApplyDeferredDecision, ClearDeferredFlag, FailReconciliation, Stored
<1>1. \A k \in Stored : memory'[k].status = "live" \/ replacedBy'[k] # {}
  <2>1. CASE ApplyDeferredDecision(p)
    <3> DEFINE t == pass[p].target
    <3>1. t \in Memories /\ pass[p].action = "SUPERSEDE"
      BY <1>0, <2>1 DEF ApplyDeferredDecision, Remembered, TypeOK, LastStands
    <3>2. /\ memory' = [memory EXCEPT ![t].status = "deleted"]
          /\ \/ memory[t].status = "deleted" /\ replacedBy' = replacedBy
             \/ replacedBy' = [replacedBy EXCEPT ![t] = @ \cup {pass[p].memory}]
      BY <2>1, <3>1 DEF ApplyDeferredDecision, SoftDelete
    <3>3. ASSUME NEW k \in Stored, k # t
          PROVE  memory'[k].status = "live" \/ replacedBy'[k] # {}
      BY <1>0, <3>1, <3>2, <3>3 DEF TypeOK, LastStands, Stored
    <3>4. ASSUME t \in Stored
          PROVE  replacedBy'[t] # {}
      <4>1. CASE replacedBy' = replacedBy /\ memory[t].status = "deleted"
        BY <3>4, <4>1 DEF LastStands
      <4>2. CASE replacedBy' = [replacedBy EXCEPT ![t] = @ \cup {pass[p].memory}]
        <5>1. pass[p].memory \in replacedBy'[t]
          BY <1>0, <3>1, <4>2 DEF TypeOK
        <5> QED
          BY <5>1
      <4> QED
        BY <3>2, <4>1, <4>2
    <3> QED
      BY <3>3, <3>4
  <2>2. CASE ~ApplyDeferredDecision(p)
    <3>1. \A k \in Memories : memory'[k].status = memory[k].status
      <4>1. CASE ClearDeferredFlag(p)
        <5> DEFINE x == pass[p].memory
        <5>1. memory' = [memory EXCEPT ![x] = [@ EXCEPT !.flagged = FALSE]]
          BY <4>1 DEF ClearDeferredFlag
        <5> HIDE DEF x
        <5>2. \A k \in Memories : memory[k] \in Row
          BY <1>0 DEF TypeOK
        <5> QED
          BY <1>0, <5>1, <5>2 DEF TypeOK, Row
      <4>2. CASE ~ClearDeferredFlag(p)
        <5>1. memory' = memory
          BY <2>2, <4>2 DEF PassStep, FindDeferredMemories, CrashPass,
             ReconcileSingleMemory, EndPass, RefreshCandidate, Keep,
             ResolveAUDN, FailReconciliation
        <5> QED
          BY <5>1
      <4> QED
        BY <4>1, <4>2
    <3>2. UNCHANGED replacedBy
      BY <2>2 DEF PassStep, FindDeferredMemories, CrashPass,
         ReconcileSingleMemory, EndPass, RefreshCandidate, Keep, ResolveAUDN,
         ClearDeferredFlag, FailReconciliation
    <3> QED
      BY <3>1, <3>2 DEF LastStands, Stored
  <2> QED
    BY <2>1, <2>2
<1>2. ASSUME NEW q \in Passes, pass'[q].step = "applying"
      PROVE  pass'[q].action = "SUPERSEDE"
  <2>1. CASE ResolveAUDN(p)
    <3>1. PICK t \in pass[p].fresh, a \in Answers \ {"ADD"} :
            pass' = [pass EXCEPT ![p].step = "applying", ![p].action = a,
                                 ![p].target = t]
      BY <2>1 DEF ResolveAUDN
    <3>2. a = "SUPERSEDE"
      BY AnswersAssumption DEF OnlySupersession
    <3> QED
      BY <1>0, <1>2, <3>1, <3>2 DEF TypeOK, Local, LastStands
  <2>2. CASE ~ResolveAUDN(p)
    <3>1. q # p => pass'[q] = pass[q]
      BY <1>0 DEF PassStep, FindDeferredMemories, CrashPass,
         ReconcileSingleMemory, EndPass, RefreshCandidate, Keep, ResolveAUDN,
         ApplyDeferredDecision, ClearDeferredFlag, FailReconciliation, TypeOK
    <3>2. pass'[p].step # "applying"
      <4> DEFINE l == pass[p]
      <4>0. pass \in [Passes -> Local] /\ l \in Local
        BY <1>0 DEF TypeOK
      <4>1. CASE FindDeferredMemories(p)
        BY <4>0, <4>1 DEF FindDeferredMemories, Local
      <4>2. CASE ReconcileSingleMemory(p)
        BY <4>0, <4>2 DEF ReconcileSingleMemory, Local
      <4>3. CASE EndPass(p) \/ CrashPass(p)
        BY <4>0, <4>3 DEF EndPass, CrashPass, Idle
      <4>4. CASE RefreshCandidate(p)
        BY <4>0, <4>4 DEF RefreshCandidate, Local
      <4>5. CASE Keep(p)
        BY <4>0, <4>5 DEF Keep, Local
      <4>6. CASE ApplyDeferredDecision(p)
        BY <4>0, <4>6 DEF ApplyDeferredDecision, Local
      <4>7. CASE ClearDeferredFlag(p) \/ FailReconciliation(p)
        BY <4>0, <4>7 DEF ClearDeferredFlag, FailReconciliation, Local
      <4> QED
        BY <2>2, <4>1, <4>2, <4>3, <4>4, <4>5, <4>6, <4>7 DEF PassStep
    <3> QED
      BY <1>2, <3>1, <3>2 DEF LastStands
  <2> QED
    BY <2>1, <2>2
<1> QED
  BY <1>0, <1>1, <1>2 DEF LastStands

(* As long as nobody else deletes memories and no DELETE is applied, the   *)
(* passes, however many run and whatever fails, never delete a memory      *)
(* without leaving one that was stored after it.                           *)
THEOREM ReplacementSafe == OnlySupersession => (Spec => []ReplacementSurvives)
<1> SUFFICES ASSUME OnlySupersession
             PROVE  Spec => []ReplacementSurvives
  OBVIOUS
<1>1. Init => LastStands
  BY DEF Init, LastStands, Stored, Idle
<1>2. OnlySupersession /\ IInv /\ LastStands /\ [Next]_vars => LastStands'
  <2> SUFFICES ASSUME OnlySupersession, IInv, LastStands, [Next]_vars
               PROVE  LastStands'
    OBVIOUS
  <2>1. CASE UNCHANGED vars
    BY <2>1 DEF vars, LastStands, Stored
  <2>2. ASSUME NEW m \in Memories, DeleteMemory(m) \/ ExpireMemory(m)
        PROVE  FALSE
    BY <2>2 DEF DeleteMemory, ExpireMemory, OnlySupersession
  <2> QED
    BY <2>1, <2>2, IngestLastStands, PassLastStands DEF Next
<1>3. IInv /\ LastStands => ReplacementSurvives
  <2> SUFFICES ASSUME IInv, LastStands, NEW t \in Memories, NEW r \in replacedBy[t]
               PROVE  \E m \in Live : storedAt[t] < storedAt[m]
    BY DEF ReplacementSurvives
  <2> DEFINE n == Cardinality(Stored)
  <2>1. /\ r \in Memories /\ storedAt[t] < storedAt[r] /\ storedAt[r] <= n
        /\ storedAt[t] \in Nat /\ storedAt[r] \in Nat /\ r \in Stored
        /\ n \in Nat
    <3>1. r \in Memories /\ storedAt[t] \in Nat /\ storedAt[r] \in Nat
      BY DEF IInv, TypeOK
    <3>2. storedAt[t] < storedAt[r] /\ storedAt[r] <= n /\ n \in Nat
      BY <3>1, FS_CardinalityType DEF IInv, SupersessionMovesBack, Ordered
    <3> QED
      BY <3>1, <3>2 DEF Stored
  <2>2. PICK m \in Stored : storedAt[m] = n
    BY <2>1 DEF LastStands
  <2>3. m \in Memories
    BY DEF Stored
  <2>4. replacedBy[m] = {}
    <3> SUFFICES ASSUME NEW k \in replacedBy[m] PROVE FALSE
      OBVIOUS
    <3>1. k \in Memories /\ storedAt[k] \in Nat
      BY <2>3 DEF IInv, TypeOK
    <3>2. storedAt[m] < storedAt[k] /\ storedAt[k] <= n
      BY <2>3, <3>1 DEF IInv, SupersessionMovesBack, Ordered
    <3> QED
      BY <2>1, <2>2, <3>1, <3>2
  <2>5. m \in Live
    BY <2>3, <2>4 DEF LastStands, Live
  <2>6. storedAt[t] < storedAt[m]
    BY <2>1, <2>2
  <2> QED
    BY <2>5, <2>6
<1>4. Spec => []LastStands
  BY <1>1, <1>2, Invariance, PTL DEF Spec
<1> QED
  BY <1>3, <1>4, Invariance, PTL
=============================================================================
