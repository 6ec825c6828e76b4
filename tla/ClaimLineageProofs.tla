------------------------- MODULE ClaimLineageProofs -------------------------
(***************************************************************************)
(* The safety of ClaimLineage, for every set of requests and every bound:  *)
(* what no interleaving breaks, and then what holds in addition as long as *)
(* requests do not overlap, whatever fails between their statements.       *)
(***************************************************************************)
EXTENDS ClaimLineageSerial, SequenceTheorems, FiniteSetTheorems,
        WellFoundedInduction, TLAPS

-----------------------------------------------------------------------------
(* Facts about lists of statements.                                        *)

(* Tail drops the first statement and keeps the order of the others.       *)
LEMMA TailFacts ==
  ASSUME NEW s \in Seq(Statements), s # <<>>
  PROVE  /\ Tail(s) \in Seq(Statements)
         /\ \A i \in DOMAIN Tail(s) :
              i \in Nat /\ i + 1 \in DOMAIN s /\ Tail(s)[i] = s[i + 1]
         /\ \A i \in DOMAIN s : i = 1 \/ (i - 1 \in DOMAIN Tail(s) /\ i \in Nat)
         /\ 1 \in DOMAIN s /\ s[1] = Head(s)
  OBVIOUS

(* What a list does not have, its tail does not have.                      *)
LEMMA HasTail ==
  ASSUME NEW s \in Seq(Statements), s # <<>>, NEW S, ~Has(s, S)
  PROVE  ~Has(Tail(s), S)
  BY TailFacts DEF Has

(* NoneAfter survives running the head; the head rules out its successors. *)
LEMMA NoneAfterTail ==
  ASSUME NEW s \in Seq(Statements), s # <<>>, NEW S, NEW T, NoneAfter(s, S, T)
  PROVE  /\ NoneAfter(Tail(s), S, T)
         /\ Head(s) \in S => ~Has(Tail(s), T)
  BY TailFacts DEF NoneAfter, Has

(* AllAfter survives running a head that is not itself the condition.      *)
LEMMA AllAfterTail ==
  ASSUME NEW s \in Seq(Statements), s # <<>>, NEW S, NEW T,
         AllAfter(s, S, T), Head(s) \notin T
  PROVE  /\ AllAfter(Tail(s), S, T)
         /\ Head(s) \notin S
  BY TailFacts DEF AllAfter

(* The shape of a list with the backfill statements in front.              *)
LEMMA BackfillFacts ==
  ASSUME NEW s \in Seq(Statements)
  PROVE  /\ BackfillProgram \o s \in Seq(Statements)
         /\ DOMAIN (BackfillProgram \o s) = 1..(4 + Len(s))
         /\ (BackfillProgram \o s)[1] = "createClaim"
         /\ (BackfillProgram \o s)[2] = "backfillVersion"
         /\ (BackfillProgram \o s)[3] = "backfillCurrent"
         /\ (BackfillProgram \o s)[4] = "citeTarget"
         /\ \A i \in 5..(4 + Len(s)) : (BackfillProgram \o s)[i] = s[i - 4]
  BY DEF BackfillProgram, Statements

(* Putting the backfill in front of a list keeps what must come first.     *)
LEMMA AllAfterBackfill ==
  ASSUME NEW t \in Seq(Statements), NEW S, NEW T, AllAfter(t, S, T),
         S \cap {"createClaim", "backfillVersion", "backfillCurrent", "citeTarget"}
           = {}
  PROVE  AllAfter(BackfillProgram \o t, S, T)
<1> DEFINE b == BackfillProgram \o t
<1>1. /\ DOMAIN b = 1..(4 + Len(t)) /\ Len(t) \in Nat /\ DOMAIN t = 1..Len(t)
      /\ b[1] \notin S /\ b[2] \notin S /\ b[3] \notin S /\ b[4] \notin S
      /\ \A i \in 5..(4 + Len(t)) : b[i] = t[i - 4]
  BY BackfillFacts
<1> HIDE DEF b
<1>2. ASSUME NEW i \in DOMAIN b, b[i] \in S
      PROVE  \E j \in DOMAIN b : j < i /\ b[j] \in T
  <2>1. i - 4 \in DOMAIN t /\ t[i - 4] \in S /\ i \in Nat
    BY <1>1, <1>2
  <2>2. PICK j \in DOMAIN t : j < i - 4 /\ t[j] \in T
    BY <2>1 DEF AllAfter
  <2>3. j + 4 \in DOMAIN b /\ b[j + 4] = t[j] /\ j + 4 < i
    BY <1>1, <2>1, <2>2
  <2> QED
    BY <2>2, <2>3
<1>3. AllAfter(b, S, T)
  BY <1>2 DEF AllAfter
<1> QED
  BY <1>3 DEF b

(* A request that turns to the backfill still has a well-ordered list.     *)
LEMMA BackfillOrder ==
  ASSUME NEW t \in Seq(Statements), NEW op \in Targeted,
         ProgramOrder(t), ProgramOf(op, t), ~Has(t, BeforeOldVersion)
  PROVE  /\ ProgramOrder(BackfillProgram \o t)
         /\ ProgramOf(op, BackfillProgram \o t)
         /\ AllAfter(BackfillProgram \o t, {"citeTarget"},
                     {"ensureClaimTarget", "backfillVersion"})
<1> DEFINE b == BackfillProgram \o t
<1>1. /\ DOMAIN b = 1..(4 + Len(t)) /\ Len(t) \in Nat /\ DOMAIN t = 1..Len(t)
      /\ b[1] = "createClaim" /\ b[2] = "backfillVersion"
      /\ b[3] = "backfillCurrent" /\ b[4] = "citeTarget"
      /\ \A i \in 5..(4 + Len(t)) : b[i] = t[i - 4]
  BY BackfillFacts
<1> HIDE DEF b
<1>2. ASSUME NEW i \in DOMAIN b
      PROVE  /\ i \in Nat
             /\ i \in {1, 2, 3, 4} \/ (i - 4 \in DOMAIN t /\ b[i] = t[i - 4])
  BY <1>1
<1>3. NoneAfter(b, OldVersionStatements, BeforeOldVersion)
  <2>1. ASSUME NEW i \in DOMAIN b, NEW j \in DOMAIN b, i < j,
               b[j] \in BeforeOldVersion
        PROVE  j = 2
    BY <1>1, <1>2, <2>1 DEF Has, OldVersionStatements, BeforeOldVersion
  <2>2. b[1] \notin OldVersionStatements
    BY <1>1 DEF OldVersionStatements
  <2> QED
    BY <1>1, <1>2, <2>1, <2>2 DEF NoneAfter
<1>4. NoneAfter(b, NewVersionStatements, BeforeNewVersion)
  <2>1. ASSUME NEW i \in DOMAIN b, NEW j \in DOMAIN b, i < j,
               b[i] \in NewVersionStatements
        PROVE  i - 4 \in DOMAIN t /\ j - 4 \in DOMAIN t /\ i - 4 < j - 4
    BY <1>1, <1>2, <2>1 DEF NewVersionStatements
  <2>2. NoneAfter(t, NewVersionStatements, BeforeNewVersion)
    BY DEF ProgramOrder
  <2> QED
    BY <1>1, <1>2, <2>1, <2>2 DEF NoneAfter
<1>5. ProgramOf(op, b)
  <2>1. ASSUME NEW S, ~Has(t, S), S \cap {"createClaim", "backfillVersion",
                                         "backfillCurrent", "citeTarget"} = {}
        PROVE  ~Has(b, S)
    BY <1>1, <1>2, <2>1 DEF Has
  <2> QED
    BY <2>1 DEF ProgramOf
<1>6. AllAfter(b, {"citeTarget"}, {"ensureClaimTarget", "backfillVersion"})
  <2>1. 2 \in DOMAIN b /\ \A i \in DOMAIN b : b[i] = "citeTarget" => i > 2
    BY <1>1, <1>2
  <2> QED
    BY <1>1, <2>1 DEF AllAfter
<1> QED
  BY <1>3, <1>4, <1>5, <1>6 DEF b, ProgramOrder

(* The shape of a list with the claim deletion appended.                   *)
LEMMA RemoveClaimFacts ==
  ASSUME NEW s \in Seq(Statements), s # <<>>
  PROVE  /\ Tail(s) \o RemoveClaim \in Seq(Statements)
         /\ DOMAIN (Tail(s) \o RemoveClaim) = 1..(Len(s) + 1)
         /\ \A i \in 1..(Len(s) - 1) :
              (Tail(s) \o RemoveClaim)[i] = s[i + 1]
         /\ (Tail(s) \o RemoveClaim)[Len(s)] = "closeOld"
         /\ (Tail(s) \o RemoveClaim)[Len(s) + 1] = "invalidateClaim"
  BY DEF RemoveClaim, Statements

(* Appending the claim deletion keeps a list well ordered.                 *)
LEMMA RemoveClaimOrder ==
  ASSUME NEW s \in Seq(Statements), s # <<>>, NEW S, NEW T,
         S \cap {"closeOld", "invalidateClaim"} = {}
  PROVE  /\ ~Has(Tail(s), S) => ~Has(Tail(s) \o RemoveClaim, S)
         /\ NoneAfter(Tail(s), T, S) => NoneAfter(Tail(s) \o RemoveClaim, T, S)
         /\ AllAfter(Tail(s), S, T) => AllAfter(Tail(s) \o RemoveClaim, S, T)
<1> DEFINE t == Tail(s)
           b == t \o RemoveClaim
<1>1. /\ Len(s) \in Nat /\ DOMAIN t = 1..(Len(s) - 1) /\ DOMAIN b = 1..(Len(s) + 1)
      /\ \A i \in DOMAIN t : b[i] = t[i]
      /\ b[Len(s)] = "closeOld" /\ b[Len(s) + 1] = "invalidateClaim"
  BY RemoveClaimFacts, TailFacts
<1> HIDE DEF b, t
<1>2. /\ DOMAIN t \subseteq DOMAIN b
      /\ \A i \in DOMAIN b : i \in DOMAIN t \/ b[i] \notin S
      /\ \A i \in DOMAIN b, j \in DOMAIN t : i < j => i \in DOMAIN t
  BY <1>1
<1>3. ~Has(t, S) => ~Has(b, S)
  BY <1>1, <1>2 DEF Has
<1>4. NoneAfter(t, T, S) => NoneAfter(b, T, S)
  BY <1>1, <1>2 DEF NoneAfter
<1>5. AllAfter(t, S, T) => AllAfter(b, S, T)
  BY <1>1, <1>2 DEF AllAfter
<1> QED
  BY <1>3, <1>4, <1>5 DEF b, t

(* Every program is a list of statements.                                  *)
LEMMA ProgramTyped ==
  ASSUME NEW op \in Operations
  PROVE  Program[op] \in Seq(Statements) /\ Program[op] # <<>>
<1> DEFINE Typed(s) == s \in Seq(Statements) /\ s # <<>>
<1>1. /\ Typed(StoreProgram) /\ Typed(RemoveProgram) /\ Typed(ArchiveProgram)
      /\ Typed(VerbatimProgram) /\ Typed(ClarifyProgram)
  BY DEF Statements, StoreProgram, RemoveProgram, ArchiveProgram,
     VerbatimProgram, ClarifyProgram
<1>2. Typed(UpdateProgram)
  BY DEF Statements, EnsureProgram, UpdateProgram
<1>3. Typed(SupersedeProgram)
  BY DEF Statements, EnsureProgram, SupersedeProgram
<1>4. Typed(DeleteProgram) /\ Typed(NoopProgram)
  BY DEF Statements, EnsureProgram, DeleteProgram, NoopProgram
<1> HIDE DEF Typed
<1>5. Typed(Program[op])
  BY <1>1, <1>2, <1>3, <1>4 DEF Operations, Program
<1> QED
  BY <1>5 DEF Typed

-----------------------------------------------------------------------------
(* Types.                                                                  *)

(* Continue keeps the requests typed.                                      *)
LEMMA ContinueTyped ==
  ASSUME TypeOK, NEW r \in Requests, NEW local \in Local,
         NEW rest \in Seq(Statements), Continue(r, local, rest)
  PROVE  request' \in [Requests -> Local] /\ failures' \in Nat
<1>1. [local EXCEPT !.todo = rest] \in Local
  BY DEF Local
<1> QED
  BY <1>1 DEF Continue, TypeOK

(* Proceed keeps the requests typed.                                       *)
LEMMA ProceedTyped ==
  ASSUME TypeOK, NEW r \in Requests, NEW local \in Local,
         request[r].todo # <<>>, Proceed(r, local)
  PROVE  request' \in [Requests -> Local] /\ failures' \in Nat
<1>1. Tail(request[r].todo) \in Seq(Statements)
  BY TailFacts DEF TypeOK, Local
<1> QED
  BY <1>1, ContinueTyped DEF Proceed

(* A table stays typed when a typed row is appended.                       *)
LEMMA AppendTyped ==
  ASSUME NEW S, NEW s \in Seq(S), NEW e \in S
  PROVE  Append(s, e) \in Seq(S) /\ Len(s) \in Nat
  OBVIOUS

(* Replacing a row keeps a table typed, also where there is no such row.   *)
LEMMA RowTyped ==
  ASSUME NEW S, NEW s \in Seq(S), NEW k, NEW e, k \in DOMAIN s => e \in S
  PROVE  [s EXCEPT ![k] = e] \in Seq(S)
<1>1. DOMAIN s = 1..Len(s)
  OBVIOUS
<1>2. CASE k \in DOMAIN s
  BY <1>1, <1>2, ExceptSeq
<1>3. CASE k \notin DOMAIN s
  <2>1. s = [i \in DOMAIN s |-> s[i]]
    OBVIOUS
  <2>2. [s EXCEPT ![k] = e] = [i \in DOMAIN s |-> s[i]]
    BY <1>3
  <2> QED
    BY <2>1, <2>2
<1> QED
  BY <1>2, <1>3

(* Each in-place edit of a memory row gives a memory row.                  *)
LEMMA MemoryEdits ==
  ASSUME TypeOK, NEW m
  PROVE  /\ \A r \in Requests :
              /\ [memories EXCEPT ![m].facts = @ \cup {r}] \in Seq(MemoryRow)
              /\ [memories EXCEPT ![m].content = r] \in Seq(MemoryRow)
         /\ [memories EXCEPT ![m].facts = {}] \in Seq(MemoryRow)
         /\ \A life \in Lives :
              [memories EXCEPT ![m].life = life] \in Seq(MemoryRow)
         /\ \A n \in Nat : [memories EXCEPT ![m].cmo = n] \in Seq(MemoryRow)
<1>1. memories \in Seq(MemoryRow)
  BY DEF TypeOK
<1>2. ASSUME NEW x \in MemoryRow
      PROVE  /\ \A r \in Requests :
                  /\ [x EXCEPT !.facts = x.facts \cup {r}] \in MemoryRow
                  /\ [x EXCEPT !.content = r] \in MemoryRow
             /\ [x EXCEPT !.facts = {}] \in MemoryRow
             /\ \A life \in Lives : [x EXCEPT !.life = life] \in MemoryRow
             /\ \A n \in Nat : [x EXCEPT !.cmo = n] \in MemoryRow
  BY DEF MemoryRow
<1>3. m \in DOMAIN memories => memories[m] \in MemoryRow
  BY <1>1
<1>4. ASSUME NEW r \in Requests
      PROVE  [memories EXCEPT ![m].facts = @ \cup {r}] \in Seq(MemoryRow)
  BY <1>1, <1>2, <1>3, RowTyped
<1>5. [memories EXCEPT ![m].facts = {}] \in Seq(MemoryRow)
  BY <1>1, <1>2, <1>3, RowTyped
<1>6. ASSUME NEW r \in Requests
      PROVE  [memories EXCEPT ![m].content = r] \in Seq(MemoryRow)
  BY <1>1, <1>2, <1>3, RowTyped
<1>7. ASSUME NEW life \in Lives
      PROVE  [memories EXCEPT ![m].life = life] \in Seq(MemoryRow)
  BY <1>1, <1>2, <1>3, RowTyped
<1>8. ASSUME NEW n \in Nat
      PROVE  [memories EXCEPT ![m].cmo = n] \in Seq(MemoryRow)
  BY <1>1, <1>2, <1>3, RowTyped
<1> QED
  BY <1>4, <1>5, <1>6, <1>7, <1>8

(* Each in-place edit of a version row gives a version row.                *)
LEMMA VersionEdits ==
  ASSUME TypeOK, NEW v, NEW n \in Nat
  PROVE  /\ [versions EXCEPT ![v] = [@ EXCEPT !.open = FALSE, !.supersededBy = n]]
              \in Seq(VersionRow)
         /\ [versions EXCEPT ![v].memory = None] \in Seq(VersionRow)
         /\ [versions EXCEPT ![v].supersededBy = n] \in Seq(VersionRow)
<1>1. versions \in Seq(VersionRow)
  BY DEF TypeOK
<1>2. ASSUME NEW x \in VersionRow
      PROVE  /\ [x EXCEPT !.open = FALSE, !.supersededBy = n] \in VersionRow
             /\ [x EXCEPT !.memory = None] \in VersionRow
             /\ [x EXCEPT !.supersededBy = n] \in VersionRow
  BY DEF VersionRow, None
<1>3. v \in DOMAIN versions => versions[v] \in VersionRow
  BY <1>1
<1>4. [versions EXCEPT ![v] = [@ EXCEPT !.open = FALSE, !.supersededBy = n]]
        \in Seq(VersionRow)
  BY <1>1, <1>2, <1>3, RowTyped
<1>5. [versions EXCEPT ![v].memory = None] \in Seq(VersionRow)
  BY <1>1, <1>2, <1>3, RowTyped
<1>6. [versions EXCEPT ![v].supersededBy = n] \in Seq(VersionRow)
  BY <1>1, <1>2, <1>3, RowTyped
<1> QED
  BY <1>4, <1>5, <1>6

(* Each edit of a request's locals gives well-typed locals.                *)
LEMMA LocalEdits ==
  ASSUME NEW l \in Local, NEW n \in Nat, NEW k \in Nat, NEW w \in Writer
  PROVE  /\ [l EXCEPT !.newCmo = n] \in Local
         /\ [l EXCEPT !.projection = n] \in Local
         /\ [l EXCEPT !.newVersion = n] \in Local
         /\ [l EXCEPT !.version = n] \in Local
         /\ [l EXCEPT !.claim = n] \in Local
         /\ [l EXCEPT !.claim = n, !.version = k] \in Local
         /\ [l EXCEPT !.seen = w, !.cmo = n, !.projection = k] \in Local
  BY DEF Local

-----------------------------------------------------------------------------
(* Type correctness.                                                       *)

(* The fields of a request's locals have their types.                      *)
LEMMA LocalFields ==
  ASSUME TypeOK, NEW r \in Requests
  PROVE  LET l == request[r] IN
         /\ l \in Local /\ l.todo \in Seq(Statements) /\ l.op \in Kind
         /\ l.target \in Nat /\ l.claim \in Nat /\ l.version \in Nat
         /\ l.seen \in Writer /\ l.cmo \in Nat /\ l.projection \in Nat
         /\ l.newVersion \in Nat /\ l.newCmo \in Nat
         /\ l.todo # <<>> => Tail(l.todo) \in Seq(Statements)
  BY TailFacts DEF TypeOK, Local, Kind

(* The tables as functions on their row ids.                               *)
LEMMA TableFacts ==
  ASSUME TypeOK
  PROVE  /\ Len(memories) + 1 \in Nat /\ Len(claims) + 1 \in Nat
         /\ Len(versions) + 1 \in Nat /\ Len(cmos) + 1 \in Nat
         /\ DOMAIN memories = 1..Len(memories) /\ DOMAIN claims = 1..Len(claims)
         /\ DOMAIN versions = 1..Len(versions)
         /\ \A m \in DOMAIN memories : memories[m] \in MemoryRow
         /\ \A c \in DOMAIN claims : claims[c] \in ClaimRow
         /\ \A v \in DOMAIN versions : versions[v] \in VersionRow
<1>1. Len(memories) \in Nat /\ DOMAIN memories = 1..Len(memories)
  BY DEF TypeOK
<1>2. Len(claims) \in Nat /\ DOMAIN claims = 1..Len(claims)
  BY DEF TypeOK
<1>3. Len(versions) \in Nat /\ DOMAIN versions = 1..Len(versions)
  BY DEF TypeOK
<1>4. Len(cmos) \in Nat
  BY DEF TypeOK
<1> QED
  BY <1>1, <1>2, <1>3, <1>4 DEF TypeOK

(* InsertVersion keeps versions typed.                                     *)
LEMMA VersionInsertTyped ==
  ASSUME TypeOK, NEW r \in Requests, NEW m \in Nat, NEW content \in Writer,
         NEW kind \in Kind, NEW previous \in Nat,
         InsertVersion(r, m, content, kind, previous)
  PROVE  versions' \in Seq(VersionRow)
<1>1. [claim |-> request[r].claim, memory |-> m, born |-> m,
       content |-> content, kind |-> kind, previous |-> previous,
       supersededBy |-> None, open |-> TRUE] \in VersionRow
  BY LocalFields DEF VersionRow, None
<1>2. versions \in Seq(VersionRow)
  BY DEF TypeOK
<1> QED
  BY <1>1, <1>2, AppendTyped DEF InsertVersion

(* InsertMemory keeps memories and requests typed.                         *)
LEMMA MemoryInsertTyped ==
  ASSUME TypeOK, NEW r \in Requests, NEW life \in Lives,
         request[r].todo # <<>>, InsertMemory(r, life)
  PROVE  TypeOK'
<1>1. [life |-> life, content |-> r, facts |-> {}, cmo |-> request[r].newCmo]
        \in MemoryRow
  BY LocalFields DEF MemoryRow
<1>2. memories' \in Seq(MemoryRow)
  BY <1>1, AppendTyped DEF InsertMemory, TypeOK
<1>3. [request[r] EXCEPT !.projection = Len(memories) + 1] \in Local
  BY LocalFields, TableFacts, LocalEdits DEF Writer
<1> QED
  BY <1>2, <1>3, ProceedTyped DEF InsertMemory, TypeOK

(* PointClaim keeps claims and requests typed.                             *)
LEMMA PointClaimTyped ==
  ASSUME TypeOK, NEW r \in Requests, NEW v \in Nat, request[r].todo # <<>>,
         PointClaim(r, v)
  PROVE  TypeOK'
<1>1. [status |-> "active", current |-> v, invalidatedBy |-> None] \in ClaimRow
  BY DEF ClaimRow, None
<1>2. claims' \in Seq(ClaimRow)
  BY <1>1, RowTyped DEF PointClaim, TypeOK
<1> QED
  BY <1>2, LocalFields, ProceedTyped DEF PointClaim, TypeOK

(* Cite keeps evidence and requests typed.                                 *)
LEMMA CiteTyped ==
  ASSUME TypeOK, NEW r \in Requests, NEW v \in Nat, NEW m \in Nat,
         request[r].todo # <<>>, Cite(r, v, m)
  PROVE  TypeOK'
<1>1. evidence' \subseteq Nat \X Nat
  BY DEF Cite, TypeOK
<1> QED
  BY <1>1, LocalFields, ProceedTyped DEF Cite, TypeOK

(* A request that drops the rest of its list stays typed.                  *)
LEMMA DropTyped ==
  ASSUME TypeOK, NEW r \in Requests
  PROVE  [request EXCEPT ![r].todo = <<>>] \in [Requests -> Local]
<1>1. ASSUME NEW l \in Local
      PROVE  [l EXCEPT !.todo = <<>>] \in Local
  <2>1. <<>> \in Seq(Statements)
    OBVIOUS
  <2> QED
    BY <2>1 DEF Local
<1> QED
  BY <1>1 DEF TypeOK

(* Every statement preserves TypeOK.                                       *)
LEMMA TypeStatement ==
  ASSUME TypeOK, LocalsAgree, NEW r \in Requests, Statement(r)
  PROVE  TypeOK'
<1> DEFINE l == request[r]
<1>l. /\ l \in Local /\ l.todo \in Seq(Statements)
      /\ l.target \in Nat /\ l.claim \in Nat /\ l.version \in Nat
      /\ l.projection \in Nat /\ l.newVersion \in Nat /\ l.newCmo \in Nat
  BY LocalFields
<1>1. CASE StoreCmo(r)
  <2>1. [l EXCEPT !.newCmo = Len(cmos) + 1] \in Local
    BY <1>l, TableFacts, LocalEdits DEF Writer
  <2>2. [kind |-> l.op, previous |-> l.cmo, version |-> l.newVersion] \in CmoRow
    BY <1>l, LocalFields DEF CmoRow
  <2>3. cmos' \in Seq(CmoRow)
    BY <1>1, <2>2, AppendTyped DEF StoreCmo, TypeOK
  <2> QED
    BY <1>1, <2>1, <2>3, ProceedTyped DEF StoreCmo, At, TypeOK
<1>2. CASE StoreMemory(r)
  BY <1>2, MemoryInsertTyped DEF StoreMemory, At, Lives
<1>3. CASE InsertClarification(r)
  BY <1>3, MemoryInsertTyped DEF InsertClarification, At, Lives
<1>4. CASE StoreFacts(r)
  <2>1. memories' \in Seq(MemoryRow)
    BY <1>4, <1>l, MemoryEdits DEF StoreFacts, TypeOK
  <2> QED
    BY <1>4, <1>l, <2>1, ProceedTyped DEF StoreFacts, At, TypeOK
<1>5. CASE DeleteFacts(r)
  <2>1. memories' \in Seq(MemoryRow)
    BY <1>5, <1>l, MemoryEdits DEF DeleteFacts, TypeOK
  <2> QED
    BY <1>5, <1>l, <2>1, ProceedTyped DEF DeleteFacts, At, TypeOK
<1>6. CASE UpdateContent(r)
  <2>1. memories' \in Seq(MemoryRow)
    BY <1>6, <1>l, MemoryEdits DEF UpdateContent, TypeOK
  <2> QED
    BY <1>6, <1>l, <2>1, ProceedTyped DEF UpdateContent, At, TypeOK
<1>7. CASE ExpireMemory(r)
  <2>1. memories' \in Seq(MemoryRow)
    BY <1>7, <1>l, MemoryEdits DEF ExpireMemory, TypeOK, Lives
  <2> QED
    BY <1>7, <1>l, <2>1, ProceedTyped DEF ExpireMemory, At, TypeOK
<1>8. CASE SoftDelete(r)
  <2>1. memories' \in Seq(MemoryRow)
    BY <1>8, <1>l, MemoryEdits DEF SoftDelete, TypeOK, Lives
  <2> QED
    BY <1>8, <1>l, <2>1, ProceedTyped DEF SoftDelete, At, TypeOK
<1>9. CASE RelinkCmo(r)
  <2>1. memories' \in Seq(MemoryRow)
    BY <1>9, <1>l, MemoryEdits DEF RelinkCmo, TypeOK
  <2> QED
    BY <1>9, <1>l, <2>1, ProceedTyped DEF RelinkCmo, At, TypeOK
<1>10. CASE GetMemory(r)
  <2>1. l.target \in DOMAIN memories
    <3>1. Has(l.todo, {"getMemory", "ensureClaimTarget", "getClaimVersion"})
      BY <1>10, <1>l, TailFacts DEF GetMemory, At, Has
    <3> QED
      BY <3>1 DEF LocalsAgree, LocalAgrees, ProgramOf
  <2>2. memories[l.target].content \in Writer /\ memories[l.target].cmo \in Nat
    BY <2>1, TableFacts DEF MemoryRow, Writer
  <2>3. [l EXCEPT !.seen = memories[l.target].content,
                  !.cmo = memories[l.target].cmo,
                  !.projection = l.target] \in Local
    BY <1>l, <2>2, LocalEdits
  <2> QED
    BY <1>10, <2>3, ProceedTyped DEF GetMemory, At, tables, TypeOK
<1>11. CASE EnsureClaimTarget(r)
  <2>1. CASE VersionsOf(l.target) # {}
    <3>1. PICK v \in VersionsOf(l.target) :
            Proceed(r, [l EXCEPT !.claim = versions[v].claim, !.version = v])
      BY <1>11, <2>1 DEF EnsureClaimTarget
    <3>2. v \in Nat /\ versions[v].claim \in Nat
      BY TableFacts DEF VersionsOf, VersionRow
    <3>3. [l EXCEPT !.claim = versions[v].claim, !.version = v] \in Local
      BY <1>l, <3>2, LocalEdits DEF Writer
    <3> QED
      BY <1>11, <3>1, <3>3, ProceedTyped DEF EnsureClaimTarget, At, tables, TypeOK
  <2>2. CASE VersionsOf(l.target) = {}
    <3>1. Continue(r, l, BackfillProgram \o Tail(l.todo))
      BY <1>11, <2>2 DEF EnsureClaimTarget
    <3>2. BackfillProgram \o Tail(l.todo) \in Seq(Statements)
      BY <1>11, LocalFields, BackfillFacts DEF EnsureClaimTarget, At
    <3> QED
      BY <1>11, <1>l, <3>1, <3>2, ContinueTyped DEF EnsureClaimTarget, tables, TypeOK
  <2> QED
    BY <2>1, <2>2
<1>12. CASE GetClaimVersion(r)
  <2>1. CASE VersionsOf(l.target) # {}
    <3>1. PICK v \in VersionsOf(l.target) :
            Continue(r, [l EXCEPT !.claim = versions[v].claim, !.version = v],
                        Tail(l.todo) \o RemoveClaim)
      BY <1>12, <2>1 DEF GetClaimVersion
    <3>2. v \in Nat /\ versions[v].claim \in Nat
      BY TableFacts DEF VersionsOf, VersionRow
    <3>3. [l EXCEPT !.claim = versions[v].claim, !.version = v] \in Local
      BY <1>l, <3>2, LocalEdits DEF Writer
    <3>4. Tail(l.todo) \o RemoveClaim \in Seq(Statements)
      BY <1>12, <1>l, RemoveClaimFacts DEF GetClaimVersion, At
    <3> QED
      BY <1>12, <3>1, <3>3, <3>4, ContinueTyped DEF GetClaimVersion, tables, TypeOK
  <2>2. CASE VersionsOf(l.target) = {}
    BY <1>12, <2>2, <1>l, ProceedTyped DEF GetClaimVersion, At, tables, TypeOK
  <2> QED
    BY <2>1, <2>2
<1>13. CASE CreateClaim(r)
  <2>1. [l EXCEPT !.claim = Len(claims) + 1] \in Local
    BY <1>l, TableFacts, LocalEdits DEF Writer
  <2>2. [status |-> "active", current |-> None, invalidatedBy |-> None] \in ClaimRow
    BY DEF ClaimRow, None
  <2>3. claims' \in Seq(ClaimRow)
    BY <1>13, <2>2, AppendTyped DEF CreateClaim, TypeOK
  <2> QED
    BY <1>13, <2>1, <2>3, ProceedTyped DEF CreateClaim, At, TypeOK
<1>14. CASE CreateVersion(r)
  <2>1. versions' \in Seq(VersionRow)
    BY <1>14, LocalFields, VersionInsertTyped DEF CreateVersion, Writer
  <2>2. [l EXCEPT !.newVersion = Len(versions) + 1] \in Local
    BY <1>l, TableFacts, LocalEdits DEF Writer
  <2> QED
    BY <1>14, <2>1, <2>2, ProceedTyped DEF CreateVersion, At, TypeOK
<1>15. CASE CreateTombstone(r)
  <2>1. versions' \in Seq(VersionRow)
    BY <1>15, LocalFields, VersionInsertTyped
       DEF CreateTombstone, Writer, None, Kind, Operations
  <2>2. [l EXCEPT !.newVersion = Len(versions) + 1] \in Local
    BY <1>l, TableFacts, LocalEdits DEF Writer
  <2> QED
    BY <1>15, <2>1, <2>2, ProceedTyped DEF CreateTombstone, At, TypeOK
<1>16. CASE BackfillVersion(r)
  <2>1. versions' \in Seq(VersionRow)
    BY <1>16, LocalFields, VersionInsertTyped DEF BackfillVersion, None, Kind
  <2>2. [l EXCEPT !.version = Len(versions) + 1] \in Local
    BY <1>l, TableFacts, LocalEdits DEF Writer
  <2> QED
    BY <1>16, <2>1, <2>2, ProceedTyped DEF BackfillVersion, At, TypeOK
<1>17. CASE RejectDuplicate(r)
  BY <1>17, DropTyped DEF RejectDuplicate, tables, TypeOK
<1>18. CASE CloseOld(r)
  <2>1. versions' \in Seq(VersionRow)
    BY <1>18, <1>l, VersionEdits DEF CloseOld, TypeOK
  <2> QED
    BY <1>18, <1>l, <2>1, ProceedTyped DEF CloseOld, At, TypeOK
<1>19. CASE ReleaseOld(r)
  <2>1. versions' \in Seq(VersionRow)
    BY <1>19, <1>l, VersionEdits DEF ReleaseOld, TypeOK
  <2> QED
    BY <1>19, <1>l, <2>1, ProceedTyped DEF ReleaseOld, At, TypeOK
<1>20. CASE LinkOld(r)
  <2>1. versions' \in Seq(VersionRow)
    BY <1>20, <1>l, VersionEdits DEF LinkOld, TypeOK
  <2> QED
    BY <1>20, <1>l, <2>1, ProceedTyped DEF LinkOld, At, TypeOK
<1>21. CASE SetCurrent(r)
  BY <1>21, <1>l, PointClaimTyped DEF SetCurrent, At
<1>22. CASE BackfillCurrent(r)
  BY <1>22, <1>l, PointClaimTyped DEF BackfillCurrent, At
<1>23. CASE InvalidateClaim(r)
  <2>1. [status |-> "deleted", current |-> None, invalidatedBy |-> l.newVersion]
          \in ClaimRow
    BY <1>l DEF ClaimRow, None
  <2>2. claims' \in Seq(ClaimRow)
    BY <1>23, <2>1, RowTyped DEF InvalidateClaim, TypeOK
  <2> QED
    BY <1>23, <1>l, <2>2, ProceedTyped DEF InvalidateClaim, At, TypeOK
<1>24. CASE AddEvidence(r)
  BY <1>24, <1>l, CiteTyped DEF AddEvidence, At
<1>25. CASE CiteTarget(r)
  BY <1>25, <1>l, CiteTyped DEF CiteTarget, At
<1> QED
  BY <1>1, <1>2, <1>3, <1>4, <1>5, <1>6, <1>7, <1>8, <1>9, <1>10, <1>11,
     <1>12, <1>13, <1>14, <1>15, <1>16, <1>17, <1>18, <1>19, <1>20, <1>21,
     <1>22, <1>23, <1>24, <1>25 DEF Statement

-----------------------------------------------------------------------------
(* What every step preserves of the rows that requests remember.           *)

(* Rows are never removed, a retired memory stays retired, and a version   *)
(* keeps its claim, the memory it was written for, its kind and its        *)
(* previous version; memory_id is at most released.                        *)
RowsKept ==
  /\ DOMAIN memories \subseteq DOMAIN memories'
  /\ \A m \in DOMAIN memories : Retired(m) => Retired(m)'
  /\ DOMAIN versions \subseteq DOMAIN versions'
  /\ \A v \in DOMAIN versions :
       /\ versions'[v].claim = versions[v].claim
       /\ versions'[v].born = versions[v].born
       /\ versions'[v].kind = versions[v].kind
       /\ versions'[v].previous = versions[v].previous
       /\ versions'[v].memory \in {versions[v].memory, None}

(* An edit of a memory keeps every row and revives no retired one.         *)
LEMMA MemoryEditKept ==
  ASSUME TypeOK, UNCHANGED versions, NEW m, NEW e,
         memories' = [memories EXCEPT ![m] = e],
         m \in DOMAIN memories =>
           e.life = memories[m].life \/ e.life \in {"expired", "deleted"}
  PROVE  RowsKept
  BY DEF RowsKept, Retired, TypeOK

(* An edit of a version keeps its claim, birth and previous version.       *)
LEMMA VersionEditKept ==
  ASSUME TypeOK, UNCHANGED memories, NEW v, NEW e,
         versions' = [versions EXCEPT ![v] = e],
         v \in DOMAIN versions =>
           /\ e.claim = versions[v].claim /\ e.born = versions[v].born
           /\ e.kind = versions[v].kind /\ e.previous = versions[v].previous
           /\ e.memory \in {versions[v].memory, None}
  PROVE  RowsKept
  BY DEF RowsKept, Retired

(* Unchanged memories and versions are kept.                               *)
LEMMA UnchangedKept ==
  ASSUME UNCHANGED <<memories, versions>>
  PROVE  RowsKept
  BY DEF RowsKept, Retired

(* Inserting a memory keeps the memories there were.                       *)
LEMMA MemoryInsertKept ==
  ASSUME TypeOK, UNCHANGED versions, NEW e, memories' = Append(memories, e)
  PROVE  RowsKept
<1>1. /\ DOMAIN memories \subseteq DOMAIN memories'
      /\ \A m \in DOMAIN memories : memories'[m] = memories[m]
  BY DEF TypeOK
<1> QED
  BY <1>1 DEF RowsKept, Retired

(* Inserting a version keeps the versions there were.                      *)
LEMMA VersionInsertKept ==
  ASSUME TypeOK, UNCHANGED memories, NEW e, versions' = Append(versions, e)
  PROVE  RowsKept
<1>1. /\ DOMAIN versions \subseteq DOMAIN versions'
      /\ \A v \in DOMAIN versions : versions'[v] = versions[v]
  BY DEF TypeOK
<1> QED
  BY <1>1 DEF RowsKept, Retired

(* Whatever statement runs, rows other requests rely on are kept.          *)
LEMMA StatementKept ==
  ASSUME TypeOK, NEW r \in Requests, Statement(r)
  PROVE  RowsKept
<1> DEFINE p == request[r].projection
           m == request[r].target
           v == request[r].version
<1>t. /\ \A i \in DOMAIN memories : memories[i] \in MemoryRow
      /\ \A i \in DOMAIN versions : versions[i] \in VersionRow
  BY TableFacts
<1>1. CASE StoreCmo(r)
  BY <1>1, UnchangedKept DEF StoreCmo
<1>2. CASE StoreMemory(r)
  BY <1>2, MemoryInsertKept DEF StoreMemory, InsertMemory
<1>3. CASE InsertClarification(r)
  BY <1>3, MemoryInsertKept DEF InsertClarification, InsertMemory
<1>4. CASE StoreFacts(r)
  <2>1. memories' = [memories EXCEPT ![p] =
                       [memories[p] EXCEPT !.facts = memories[p].facts \cup {r}]]
    BY <1>4 DEF StoreFacts
  <2> QED
    BY <1>4, <1>t, <2>1, MemoryEditKept DEF StoreFacts, MemoryRow
<1>5. CASE DeleteFacts(r)
  <2>1. memories' = [memories EXCEPT ![p] = [memories[p] EXCEPT !.facts = {}]]
    BY <1>5 DEF DeleteFacts
  <2> QED
    BY <1>5, <1>t, <2>1, MemoryEditKept DEF DeleteFacts, MemoryRow
<1>6. CASE UpdateContent(r)
  <2>1. CASE memories' = memories
    BY <1>6, <2>1, UnchangedKept DEF UpdateContent
  <2>2. CASE memories' = [memories EXCEPT ![m] = [memories[m] EXCEPT !.content = r]]
    BY <1>6, <1>t, <2>2, MemoryEditKept DEF UpdateContent, MemoryRow
  <2> QED
    BY <1>6, <2>1, <2>2 DEF UpdateContent
<1>7. CASE ExpireMemory(r)
  <2>1. CASE memories' = memories
    BY <1>7, <2>1, UnchangedKept DEF ExpireMemory
  <2>2. CASE memories' = [memories EXCEPT ![m] =
                            [memories[m] EXCEPT !.life = "expired"]]
    BY <1>7, <1>t, <2>2, MemoryEditKept DEF ExpireMemory, MemoryRow
  <2> QED
    BY <1>7, <2>1, <2>2 DEF ExpireMemory
<1>8. CASE SoftDelete(r)
  <2>1. memories' = [memories EXCEPT ![m] = [memories[m] EXCEPT !.life = "deleted"]]
    BY <1>8 DEF SoftDelete
  <2> QED
    BY <1>8, <1>t, <2>1, MemoryEditKept DEF SoftDelete, MemoryRow
<1>9. CASE RelinkCmo(r)
  <2>1. memories' = [memories EXCEPT ![p] =
                       [memories[p] EXCEPT !.cmo = request[r].newCmo]]
    BY <1>9 DEF RelinkCmo
  <2> QED
    BY <1>9, <1>t, <2>1, MemoryEditKept DEF RelinkCmo, MemoryRow
<1>10. CASE GetMemory(r) \/ EnsureClaimTarget(r) \/ GetClaimVersion(r)
            \/ RejectDuplicate(r)
  BY <1>10, UnchangedKept
     DEF GetMemory, EnsureClaimTarget, GetClaimVersion, RejectDuplicate, tables
<1>11. CASE CreateClaim(r) \/ SetCurrent(r) \/ BackfillCurrent(r)
            \/ InvalidateClaim(r) \/ AddEvidence(r) \/ CiteTarget(r)
  BY <1>11, UnchangedKept
     DEF CreateClaim, SetCurrent, BackfillCurrent, PointClaim,
         InvalidateClaim, AddEvidence, CiteTarget, Cite
<1>12. CASE CreateVersion(r) \/ CreateTombstone(r) \/ BackfillVersion(r)
  BY <1>12, VersionInsertKept
     DEF CreateVersion, CreateTombstone, BackfillVersion, InsertVersion
<1>13. CASE CloseOld(r)
  <2>1. versions' = [versions EXCEPT ![v] =
                       [versions[v] EXCEPT !.open = FALSE,
                          !.supersededBy = request[r].newVersion]]
    BY <1>13 DEF CloseOld
  <2> QED
    BY <1>13, <1>t, <2>1, VersionEditKept DEF CloseOld, VersionRow
<1>14. CASE ReleaseOld(r)
  <2>1. versions' = [versions EXCEPT ![v] = [versions[v] EXCEPT !.memory = None]]
    BY <1>14 DEF ReleaseOld
  <2> QED
    BY <1>14, <1>t, <2>1, VersionEditKept DEF ReleaseOld, VersionRow
<1>15. CASE LinkOld(r)
  <2>1. versions' = [versions EXCEPT ![v] =
                       [versions[v] EXCEPT !.supersededBy = request[r].newVersion]]
    BY <1>15 DEF LinkOld
  <2> QED
    BY <1>15, <1>t, <2>1, VersionEditKept DEF LinkOld, VersionRow
<1> QED
  BY <1>1, <1>2, <1>3, <1>4, <1>5, <1>6, <1>7, <1>8, <1>9, <1>10, <1>11,
     <1>12, <1>13, <1>14, <1>15 DEF Statement

-----------------------------------------------------------------------------
(* What the locals of a request mean survives the steps of the others, and *)
(* its own steps that do not set version or newVersion.                    *)

(* Locals that agree with the tables agree with any table that keeps rows. *)
LEMMA OtherLocal ==
  ASSUME RowsKept, NEW q \in Requests, request'[q] = request[q],
         LocalAgrees(request[q])
  PROVE  LocalAgrees(request[q])'
<1>1. OldVersionKnown(request[q])'
  BY DEF LocalAgrees, OldVersionKnown, RowsKept
<1>2. NewVersionKnown(request[q])'
  BY DEF LocalAgrees, NewVersionKnown, RowsKept
<1>3. TargetRetiredFirst(request[q])'
  BY DEF LocalAgrees, TargetRetiredFirst, RowsKept, Retired
<1>4. CitedVersionKnown(request[q])'
  BY DEF LocalAgrees, CitedVersionKnown
<1> QED
  BY <1>1, <1>2, <1>3, <1>4 DEF LocalAgrees, RowsKept

(* The statements after which a list of statements has to be looked at.    *)
Milestones ==
  NewVersionStatements
    \cup {"ensureClaimTarget", "backfillVersion", "expireMemory", "softDelete"}

(* A request that runs a statement without new locals still agrees.        *)
LEMMA AdvanceLocal ==
  ASSUME TypeOK, RowsKept, NEW r \in Requests, LocalAgrees(request[r]),
         request[r].todo # <<>>,
         request'[r].todo = Tail(request[r].todo),
         request'[r].op = request[r].op,
         request'[r].target = request[r].target,
         request'[r].version = request[r].version,
         request'[r].newVersion = request[r].newVersion,
         \/ request'[r].claim = request[r].claim
         \/ Head(request[r].todo) = "createClaim",
         \/ request'[r].projection = request[r].projection
         \/ Head(request[r].todo) \in
              {"storeMemory", "storeClarification", "getMemory"},
         \/ Head(request[r].todo) \notin Milestones
         \/ Head(request[r].todo) \in {"expireMemory", "softDelete"}
              /\ (request[r].op \in Replacing => Retired(request[r].target)')
  PROVE  LocalAgrees(request[r])'
<1> DEFINE l == request[r]
           s == request[r].todo
<1>s. s \in Seq(Statements) /\ s # <<>>
  BY LocalFields
<1>h. 1 \in DOMAIN s /\ s[1] = Head(s)
  BY <1>s, TailFacts
<1>1. l.op # "none"
  BY <1>s DEF LocalAgrees, Idle
<1>2. (l.op \in Targeted => l.target \in DOMAIN memories)'
  BY DEF LocalAgrees, RowsKept
<1>3. ProgramOrder(s)'
  BY <1>s, NoneAfterTail DEF LocalAgrees, ProgramOrder
<1>4. ProgramOf(l.op, s)'
  BY <1>s, HasTail DEF LocalAgrees, ProgramOf
<1>5. OldVersionKnown(l)'
  <2>1. CASE l.version = None
    BY <2>1 DEF OldVersionKnown
  <2>2. CASE l.version # None
    <3>1. ~Has(s, BeforeOldVersion)
      BY <2>2 DEF LocalAgrees, OldVersionKnown
    <3>2. l'.claim = l.claim
      BY <1>h, <3>1 DEF Has, BeforeOldVersion
    <3> QED
      BY <1>s, <2>2, <3>1, <3>2, HasTail DEF LocalAgrees, OldVersionKnown, RowsKept
  <2> QED
    BY <2>1, <2>2
<1>6. NewVersionKnown(l)'
  <2>1. CASE l.newVersion = None
    BY <2>1 DEF NewVersionKnown
  <2>2. CASE l.newVersion # None
    <3>1. ~Has(s, BeforeNewVersion)
      BY <2>2 DEF LocalAgrees, NewVersionKnown
    <3>2. l'.claim = l.claim /\ l'.projection = l.projection
      BY <1>h, <3>1 DEF Has, BeforeNewVersion, BeforeOldVersion
    <3> QED
      BY <1>s, <2>2, <3>1, <3>2, HasTail DEF LocalAgrees, NewVersionKnown, RowsKept
  <2> QED
    BY <2>1, <2>2
<1>7. TargetRetiredFirst(l)'
  <2>1. CASE Retired(l.target)
    BY <2>1 DEF TargetRetiredFirst, RowsKept, Retired
  <2>2. CASE Head(s) \in {"expireMemory", "softDelete"}
    BY <2>2 DEF TargetRetiredFirst, Retired, Milestones
  <2>3. CASE /\ AllAfter(s, NewVersionStatements, {"expireMemory", "softDelete"})
             /\ Head(s) \notin {"expireMemory", "softDelete"}
    BY <1>s, <2>3, AllAfterTail DEF TargetRetiredFirst
  <2> QED
    BY <2>1, <2>2, <2>3 DEF LocalAgrees, TargetRetiredFirst
<1>8. CitedVersionKnown(l)'
  <2>1. /\ Head(s) \notin NewVersionStatements
        /\ Head(s) \notin {"ensureClaimTarget", "backfillVersion"}
    BY DEF Milestones, NewVersionStatements
  <2> QED
    BY <1>s, <2>1, AllAfterTail DEF LocalAgrees, CitedVersionKnown
<1> QED
  BY <1>1, <1>2, <1>3, <1>4, <1>5, <1>6, <1>7, <1>8 DEF LocalAgrees

(* A request that stops, whatever it had left to do.                       *)
LEMMA DropLocal ==
  ASSUME TypeOK, RowsKept, NEW r \in Requests, LocalAgrees(request[r]),
         request' = [request EXCEPT ![r].todo = <<>>]
  PROVE  LocalAgrees(request[r])'
<1>1. request'[r] = [request[r] EXCEPT !.todo = <<>>] /\ request[r] \in Local
  BY DEF TypeOK
<1>2. /\ request'[r].todo = <<>> /\ request'[r].op = request[r].op
      /\ request'[r].target = request[r].target
      /\ request'[r].claim = request[r].claim
      /\ request'[r].version = request[r].version
      /\ request'[r].projection = request[r].projection
      /\ request'[r].newVersion = request[r].newVersion
  BY <1>1 DEF Local
<1>3. \A S, T : /\ ~Has(<<>>, S) /\ NoneAfter(<<>>, S, T) /\ AllAfter(<<>>, S, T)
  BY DEF Has, NoneAfter, AllAfter
<1>4. request[r].op = "none" => request'[r] = Idle
  BY <1>1 DEF LocalAgrees, Idle
<1>5. OldVersionKnown(request[r])'
  BY <1>2, <1>3 DEF LocalAgrees, OldVersionKnown, RowsKept
<1>6. NewVersionKnown(request[r])'
  BY <1>2, <1>3 DEF LocalAgrees, NewVersionKnown, RowsKept
<1>7. /\ ProgramOrder(request[r].todo)' /\ ProgramOf(request[r].op, request[r].todo)'
      /\ TargetRetiredFirst(request[r])' /\ CitedVersionKnown(request[r])'
  BY <1>2, <1>3 DEF ProgramOrder, ProgramOf, TargetRetiredFirst, CitedVersionKnown
<1> QED
  BY <1>2, <1>4, <1>5, <1>6, <1>7 DEF LocalAgrees, RowsKept

(* The statements that set version or newVersion find them unset.          *)
LEMMA HeadUnset ==
  ASSUME TypeOK, NEW r \in Requests, LocalAgrees(request[r]),
         request[r].todo # <<>>
  PROVE  /\ Head(request[r].todo) \in BeforeOldVersion =>
              request[r].version = None /\ request[r].newVersion = None
         /\ Head(request[r].todo) \in BeforeNewVersion =>
              request[r].newVersion = None
         /\ Head(request[r].todo) \in
              {"getMemory", "ensureClaimTarget", "getClaimVersion"} =>
                 request[r].op \in Targeted /\ request[r].target \in DOMAIN memories
         /\ Head(request[r].todo) = "createVersion" => request[r].op # "delete"
         /\ Head(request[r].todo) = "createTombstone" => request[r].op = "delete"
         /\ request[r].op # "none"
<1> DEFINE s == request[r].todo
<1>1. 1 \in DOMAIN s /\ s[1] = Head(s)
  BY LocalFields, TailFacts
<1>2. \A S : Head(s) \in S => Has(s, S)
  BY <1>1 DEF Has
<1>3. BeforeOldVersion \subseteq BeforeNewVersion
  BY DEF BeforeNewVersion
<1>4. request[r].version # None => ~Has(s, BeforeOldVersion)
  BY DEF LocalAgrees, OldVersionKnown
<1>5. request[r].newVersion # None => ~Has(s, BeforeNewVersion)
  BY DEF LocalAgrees, NewVersionKnown
<1>6. ProgramOf(request[r].op, s)
  BY DEF LocalAgrees
<1>7. request[r].op # "none"
  BY DEF LocalAgrees, Idle
<1>8. Head(s) \in {"getMemory", "ensureClaimTarget", "getClaimVersion"} =>
        request[r].op \in Targeted /\ request[r].target \in DOMAIN memories
  BY <1>2, <1>6 DEF ProgramOf, LocalAgrees
<1>9. /\ Head(s) = "createVersion" => request[r].op # "delete"
      /\ Head(s) = "createTombstone" => request[r].op = "delete"
  BY <1>2, <1>6 DEF ProgramOf
<1> QED
  BY <1>2, <1>3, <1>4, <1>5, <1>7, <1>8, <1>9

(* The version found by ensureClaimTarget or getClaimVersion, with the     *)
(* statements that follow.                                                 *)
LEMMA FoundVersion ==
  ASSUME TypeOK, MemoryOrReleased, NEW r \in Requests,
         LocalAgrees(request[r]), request[r].todo # <<>>,
         Head(request[r].todo) \in {"ensureClaimTarget", "getClaimVersion"},
         NEW v \in VersionsOf(request[r].target),
         NEW rest \in Seq(Statements),
         Continue(r, [request[r] EXCEPT !.claim = versions[v].claim,
                                        !.version = v], rest),
         UNCHANGED tables,
         ProgramOrder(rest), ProgramOf(request[r].op, rest),
         ~Has(rest, BeforeOldVersion),
         AllAfter(request[r].todo, NewVersionStatements, {"expireMemory", "softDelete"})
           => AllAfter(rest, NewVersionStatements, {"expireMemory", "softDelete"}),
         AllAfter(request[r].todo, {"addEvidence"}, NewVersionStatements)
           => AllAfter(rest, {"addEvidence"}, NewVersionStatements)
  PROVE  LocalAgrees(request[r])'
<1>1. /\ request[r] \in Local
      /\ request'[r] = [request[r] EXCEPT !.claim = versions[v].claim,
                                          !.version = v, !.todo = rest]
  BY DEF Continue, TypeOK
<1>2. /\ request'[r].todo = rest /\ request'[r].op = request[r].op
      /\ request'[r].target = request[r].target
      /\ request'[r].claim = versions[v].claim
      /\ request'[r].version = v
      /\ request'[r].newVersion = request[r].newVersion
  BY <1>1 DEF Local
<1>3. /\ request[r].newVersion = None
      /\ request[r].op \in Targeted /\ request[r].target \in DOMAIN memories
      /\ request[r].op # "none"
  BY HeadUnset DEF BeforeOldVersion, OldVersionStatements
<1>4. v \in DOMAIN versions /\ versions[v].memory = request[r].target
  BY DEF VersionsOf
<1>5. v # None /\ request[r].target # None
  BY <1>3, <1>4, TableFacts DEF None
<1>6. versions[v].born = request[r].target
  BY <1>4, <1>5 DEF MemoryOrReleased
<1>7. OldVersionKnown(request[r])'
  BY <1>2, <1>4, <1>6 DEF OldVersionKnown, tables
<1>8. NewVersionKnown(request[r])'
  BY <1>2, <1>3 DEF NewVersionKnown
<1>9. TargetRetiredFirst(request[r])'
  BY <1>2 DEF LocalAgrees, TargetRetiredFirst, Retired, tables
<1>10. CitedVersionKnown(request[r])'
  BY <1>2, <1>3, <1>5 DEF LocalAgrees, CitedVersionKnown
<1> QED
  BY <1>2, <1>3, <1>7, <1>8, <1>9, <1>10 DEF LocalAgrees, tables

(* The locals ensureClaimTarget leaves agree with the tables.              *)
LEMMA EnsureLocal ==
  ASSUME TypeOK, MemoryOrReleased, NEW r \in Requests,
         LocalAgrees(request[r]), EnsureClaimTarget(r)
  PROVE  LocalAgrees(request[r])'
<1> DEFINE s == request[r].todo
           t == Tail(request[r].todo)
           b == BackfillProgram \o t
<1>1. /\ s \in Seq(Statements) /\ t \in Seq(Statements) /\ s # <<>>
      /\ Head(s) = "ensureClaimTarget"
  BY LocalFields DEF EnsureClaimTarget, At
<1>2. ProgramOrder(t) /\ ~Has(t, BeforeOldVersion)
  BY <1>1, NoneAfterTail DEF LocalAgrees, ProgramOrder, OldVersionStatements
<1>3. ProgramOf(request[r].op, t)
  BY <1>1, HasTail DEF LocalAgrees, ProgramOf
<1>4. /\ AllAfter(s, NewVersionStatements, {"expireMemory", "softDelete"})
           => AllAfter(t, NewVersionStatements, {"expireMemory", "softDelete"})
      /\ AllAfter(s, {"addEvidence"}, NewVersionStatements)
           => AllAfter(t, {"addEvidence"}, NewVersionStatements)
  BY <1>1, AllAfterTail DEF NewVersionStatements
<1>5. CASE VersionsOf(request[r].target) # {}
  <2>1. PICK v \in VersionsOf(request[r].target) :
          Proceed(r, [request[r] EXCEPT !.claim = versions[v].claim, !.version = v])
    BY <1>5 DEF EnsureClaimTarget
  <2>2. UNCHANGED tables
    BY DEF EnsureClaimTarget
  <2> QED
    BY <1>1, <1>2, <1>3, <1>4, <2>1, <2>2, FoundVersion DEF Proceed
<1>6. CASE VersionsOf(request[r].target) = {}
  <2>1. /\ request[r] \in Local
        /\ request'[r] = [request[r] EXCEPT !.todo = b]
        /\ UNCHANGED tables
    BY <1>6 DEF EnsureClaimTarget, Continue, TypeOK
  <2>2. /\ request'[r].todo = b /\ request'[r].op = request[r].op
        /\ request'[r].target = request[r].target
        /\ request'[r].version = request[r].version
        /\ request'[r].newVersion = request[r].newVersion
    BY <2>1 DEF Local
  <2>3. /\ request[r].version = None /\ request[r].newVersion = None
        /\ request[r].op \in Targeted /\ request[r].target \in DOMAIN memories
        /\ request[r].op # "none"
    BY <1>1, HeadUnset DEF BeforeOldVersion, OldVersionStatements
  <2>4. /\ ProgramOrder(b) /\ ProgramOf(request[r].op, b)
        /\ AllAfter(b, {"citeTarget"}, {"ensureClaimTarget", "backfillVersion"})
    BY <1>1, <1>2, <1>3, <2>3, BackfillOrder
  <2>5. TargetRetiredFirst(request[r])'
    <3>1. AllAfter(t, NewVersionStatements, {"expireMemory", "softDelete"})
            => AllAfter(b, NewVersionStatements, {"expireMemory", "softDelete"})
      BY AllAfterBackfill, <1>1 DEF NewVersionStatements
    <3> QED
      BY <1>4, <2>1, <2>2, <3>1 DEF LocalAgrees, TargetRetiredFirst, Retired, tables
  <2>6. CitedVersionKnown(request[r])'
    <3>1. AllAfter(t, {"addEvidence"}, NewVersionStatements)
            => AllAfter(b, {"addEvidence"}, NewVersionStatements)
      BY AllAfterBackfill, <1>1
    <3> QED
      BY <1>4, <2>2, <2>3, <2>4, <3>1 DEF LocalAgrees, CitedVersionKnown
  <2> QED
    BY <2>1, <2>2, <2>3, <2>4, <2>5, <2>6
       DEF LocalAgrees, OldVersionKnown, NewVersionKnown, tables
<1> QED
  BY <1>5, <1>6

(* The locals deleteMemory's read leaves agree with the tables.            *)
LEMMA GetClaimVersionLocal ==
  ASSUME TypeOK, MemoryOrReleased, NEW r \in Requests,
         LocalAgrees(request[r]), GetClaimVersion(r),
         VersionsOf(request[r].target) # {}
  PROVE  LocalAgrees(request[r])'
<1> DEFINE s == request[r].todo
           rest == Tail(request[r].todo) \o RemoveClaim
<1>1. /\ s \in Seq(Statements) /\ Tail(s) \in Seq(Statements) /\ s # <<>>
      /\ Head(s) = "getClaimVersion" /\ rest \in Seq(Statements)
  BY LocalFields, RemoveClaimFacts DEF GetClaimVersion, At
<1>2. PICK v \in VersionsOf(request[r].target) :
        Continue(r, [request[r] EXCEPT !.claim = versions[v].claim,
                                       !.version = v], rest)
  BY DEF GetClaimVersion
<1>3. ProgramOrder(Tail(s)) /\ ~Has(Tail(s), BeforeOldVersion)
  BY <1>1, NoneAfterTail DEF LocalAgrees, ProgramOrder, OldVersionStatements
<1>4. ProgramOrder(rest) /\ ~Has(rest, BeforeOldVersion)
  <2>1. /\ BeforeOldVersion \cap {"closeOld", "invalidateClaim"} = {}
        /\ BeforeNewVersion \cap {"closeOld", "invalidateClaim"} = {}
    BY DEF BeforeOldVersion, BeforeNewVersion, OldVersionStatements,
           NewVersionStatements
  <2> QED
    BY <1>1, <1>3, <2>1, RemoveClaimOrder DEF ProgramOrder
<1>5. ProgramOf(request[r].op, rest)
  BY <1>1, HasTail, RemoveClaimOrder DEF LocalAgrees, ProgramOf
<1>6. /\ AllAfter(s, NewVersionStatements, {"expireMemory", "softDelete"})
           => AllAfter(rest, NewVersionStatements, {"expireMemory", "softDelete"})
      /\ AllAfter(s, {"addEvidence"}, NewVersionStatements)
           => AllAfter(rest, {"addEvidence"}, NewVersionStatements)
  BY <1>1, AllAfterTail, RemoveClaimOrder DEF NewVersionStatements
<1>7. UNCHANGED tables
  BY DEF GetClaimVersion
<1> HIDE DEF rest
<1> QED
  BY <1>1, <1>2, <1>4, <1>5, <1>6, <1>7, FoundVersion

(* A version inserted by a request is known to it as its newVersion.       *)
LEMMA NewVersionLocal ==
  ASSUME TypeOK, RowsKept, NEW r \in Requests, LocalAgrees(request[r]),
         CreateVersion(r) \/ CreateTombstone(r)
  PROVE  LocalAgrees(request[r])'
<1> DEFINE l == request[r]
           s == request[r].todo
           n == Len(versions) + 1
<1>1. /\ s \in Seq(Statements) /\ Tail(s) \in Seq(Statements) /\ s # <<>>
      /\ Head(s) \in NewVersionStatements
  BY LocalFields DEF CreateVersion, CreateTombstone, At, NewVersionStatements
<1>2. /\ request'[r] = [l EXCEPT !.newVersion = n, !.todo = Tail(s)]
      /\ l \in Local
  BY DEF CreateVersion, CreateTombstone, Proceed, Continue, TypeOK
<1>3. /\ request'[r].todo = Tail(s) /\ request'[r].op = l.op
      /\ request'[r].target = l.target /\ request'[r].claim = l.claim
      /\ request'[r].version = l.version /\ request'[r].projection = l.projection
      /\ request'[r].newVersion = n
  BY <1>2 DEF Local
<1>4. n \in Nat /\ n # None /\ DOMAIN versions = 1..Len(versions) /\ Len(versions) \in Nat
  <2>1. Len(versions) \in Nat /\ DOMAIN versions = 1..Len(versions)
    BY DEF TypeOK
  <2> QED
    BY <2>1 DEF None
<1>5. /\ n \in DOMAIN versions' /\ versions'[n].claim = l.claim
      /\ versions'[n].previous = l.version
      /\ l.op # "delete" => versions'[n].born = l.projection
  <2>1. CASE CreateVersion(r)
    BY <1>4, <2>1 DEF CreateVersion, InsertVersion, TypeOK
  <2>2. CASE CreateTombstone(r)
    <3>1. l.op = "delete"
      BY <1>1, <2>2, HeadUnset DEF CreateTombstone, At
    <3> QED
      BY <1>4, <2>2, <3>1 DEF CreateTombstone, InsertVersion, TypeOK
  <2> QED
    BY <2>1, <2>2
<1>6. n > l.version
  BY <1>4, LocalFields DEF LocalAgrees, OldVersionKnown, None
<1>7. ProgramOrder(Tail(s)) /\ ~Has(Tail(s), BeforeNewVersion)
  BY <1>1, NoneAfterTail DEF LocalAgrees, ProgramOrder
<1>8. ProgramOf(l.op, Tail(s))
  BY <1>1, HasTail DEF LocalAgrees, ProgramOf
<1>9. l.op # "none"
  BY <1>1, HeadUnset
<1>10. OldVersionKnown(l)'
  BY <1>1, <1>3, HasTail DEF LocalAgrees, OldVersionKnown, RowsKept
<1>11. NewVersionKnown(l)'
  BY <1>3, <1>5, <1>6, <1>7 DEF NewVersionKnown
<1>12. TargetRetiredFirst(l)'
  BY <1>1, <1>3, AllAfterTail
     DEF LocalAgrees, TargetRetiredFirst, RowsKept, Retired, NewVersionStatements
<1>13. CitedVersionKnown(l)'
  BY <1>1, <1>3, <1>4, AllAfterTail
     DEF LocalAgrees, CitedVersionKnown, NewVersionStatements
<1> QED
  BY <1>3, <1>7, <1>8, <1>9, <1>10, <1>11, <1>12, <1>13 DEF LocalAgrees, RowsKept

(* The backfilled version is the version of the request's target.          *)
LEMMA BackfillLocal ==
  ASSUME TypeOK, RowsKept, NEW r \in Requests, LocalAgrees(request[r]),
         BackfillVersion(r)
  PROVE  LocalAgrees(request[r])'
<1> DEFINE l == request[r]
           s == request[r].todo
           n == Len(versions) + 1
<1>1. /\ s \in Seq(Statements) /\ Tail(s) \in Seq(Statements) /\ s # <<>>
      /\ Head(s) = "backfillVersion"
  BY LocalFields DEF BackfillVersion, At
<1>2. /\ request'[r] = [l EXCEPT !.version = n, !.todo = Tail(s)]
      /\ l \in Local
  BY DEF BackfillVersion, Proceed, Continue, TypeOK
<1>3. /\ request'[r].todo = Tail(s) /\ request'[r].op = l.op
      /\ request'[r].target = l.target /\ request'[r].claim = l.claim
      /\ request'[r].version = n /\ request'[r].newVersion = l.newVersion
  BY <1>2 DEF Local
<1>4. n # None /\ DOMAIN versions = 1..Len(versions) /\ Len(versions) \in Nat
  <2>1. Len(versions) \in Nat /\ DOMAIN versions = 1..Len(versions)
    BY DEF TypeOK
  <2> QED
    BY <2>1 DEF None
<1>5. /\ n \in DOMAIN versions' /\ versions'[n].claim = l.claim
      /\ versions'[n].born = l.target
  BY <1>4 DEF BackfillVersion, InsertVersion, TypeOK
<1>6. l.newVersion = None /\ l.op # "none"
  BY <1>1, HeadUnset DEF BeforeOldVersion, OldVersionStatements
<1>7. ProgramOrder(Tail(s)) /\ ~Has(Tail(s), BeforeOldVersion)
  BY <1>1, NoneAfterTail DEF LocalAgrees, ProgramOrder, OldVersionStatements
<1>8. ProgramOf(l.op, Tail(s))
  BY <1>1, HasTail DEF LocalAgrees, ProgramOf
<1>9. OldVersionKnown(l)' /\ NewVersionKnown(l)'
  BY <1>3, <1>5, <1>6, <1>7 DEF OldVersionKnown, NewVersionKnown
<1>10. TargetRetiredFirst(l)'
  BY <1>1, <1>3, AllAfterTail DEF LocalAgrees, TargetRetiredFirst, RowsKept, Retired
<1>11. CitedVersionKnown(l)'
  BY <1>1, <1>3, <1>4, AllAfterTail DEF LocalAgrees, CitedVersionKnown, NewVersionStatements
<1> QED
  BY <1>3, <1>6, <1>7, <1>8, <1>9, <1>10, <1>11 DEF LocalAgrees, RowsKept

(* Whatever statement a request runs, its own locals agree afterwards.     *)
LEMMA StatementLocal ==
  ASSUME TypeOK, MemoryOrReleased, RowsKept, NEW r \in Requests,
         LocalAgrees(request[r]), Statement(r)
  PROVE  LocalAgrees(request[r])'
<1> DEFINE l == request[r]
<1>1. l \in Local /\ request \in [Requests -> Local]
  BY DEF TypeOK
(* A statement that leaves l2 and runs no milestone.                       *)
<1>2. ASSUME NEW l2 \in Local, Proceed(r, l2), l.todo # <<>>,
             l2.op = l.op, l2.target = l.target,
             l2.version = l.version, l2.newVersion = l.newVersion,
             l2.claim = l.claim \/ Head(l.todo) = "createClaim",
             \/ l2.projection = l.projection
             \/ Head(l.todo) \in {"storeMemory", "storeClarification", "getMemory"},
             \/ Head(l.todo) \notin Milestones
             \/ Head(l.todo) \in {"expireMemory", "softDelete"}
                  /\ (l.op \in Replacing => Retired(l.target)')
      PROVE  LocalAgrees(request[r])'
  <2>1. request'[r] = [l2 EXCEPT !.todo = Tail(l.todo)]
    BY <1>1, <1>2 DEF Proceed, Continue
  <2>2. /\ request'[r].todo = Tail(l.todo) /\ request'[r].op = l2.op
        /\ request'[r].target = l2.target /\ request'[r].claim = l2.claim
        /\ request'[r].version = l2.version
        /\ request'[r].newVersion = l2.newVersion
        /\ request'[r].projection = l2.projection
    BY <1>2, <2>1 DEF Local
  <2> QED
    BY <1>2, <2>2, AdvanceLocal
<1>3. CASE StoreCmo(r)
  <2>1. [l EXCEPT !.newCmo = Len(cmos) + 1] \in Local
    BY <1>1, TableFacts, LocalEdits DEF Writer
  <2> QED
    BY <1>1, <1>2, <1>3, <2>1 DEF StoreCmo, At, Milestones, NewVersionStatements, Local
<1>4. CASE StoreMemory(r) \/ InsertClarification(r)
  <2>1. [l EXCEPT !.projection = Len(memories) + 1] \in Local
    BY <1>1, TableFacts, LocalEdits DEF Writer
  <2> QED
    BY <1>1, <1>2, <1>4, <2>1
       DEF StoreMemory, InsertClarification, InsertMemory, At, Milestones,
           NewVersionStatements, Local
<1>5. CASE StoreFacts(r) \/ DeleteFacts(r) \/ UpdateContent(r) \/ RelinkCmo(r)
  BY <1>1, <1>2, <1>5
     DEF StoreFacts, DeleteFacts, UpdateContent, RelinkCmo, At, Milestones,
         NewVersionStatements
<1>6. CASE CloseOld(r) \/ ReleaseOld(r) \/ LinkOld(r)
  BY <1>1, <1>2, <1>6
     DEF CloseOld, ReleaseOld, LinkOld, At, Milestones, NewVersionStatements
<1>7. CASE SetCurrent(r) \/ BackfillCurrent(r) \/ InvalidateClaim(r)
  BY <1>1, <1>2, <1>7
     DEF SetCurrent, BackfillCurrent, PointClaim, InvalidateClaim, At,
         Milestones, NewVersionStatements
<1>8. CASE AddEvidence(r) \/ CiteTarget(r)
  BY <1>1, <1>2, <1>8
     DEF AddEvidence, CiteTarget, Cite, At, Milestones, NewVersionStatements
<1>9. CASE ExpireMemory(r) \/ SoftDelete(r)
  <2>1. l.op \in Replacing => Retired(l.target)'
    <3>1. l.op \in Replacing => l.target \in DOMAIN memories
      BY DEF LocalAgrees, Replacing, Targeted
    <3>2. l.op \in Replacing => memories'[l.target].life \in {"expired", "deleted"}
      BY <1>9, <3>1, TableFacts DEF ExpireMemory, SoftDelete, MemoryRow
    <3>3. request'[r] = [l EXCEPT !.todo = Tail(l.todo)]
      BY <1>1, <1>9 DEF ExpireMemory, SoftDelete, Proceed, Continue
    <3>4. request'[r].op = l.op /\ request'[r].target = l.target
      BY <1>1, <3>3 DEF Local
    <3> QED
      BY <3>1, <3>2, <3>4 DEF Retired, RowsKept
  <2> QED
    BY <1>1, <1>2, <1>9, <2>1 DEF ExpireMemory, SoftDelete, At
<1>10. CASE GetMemory(r)
  <2>1. l.target \in DOMAIN memories /\ l.target \in Nat
    BY <1>10, HeadUnset, LocalFields DEF GetMemory, At
  <2>2. memories[l.target].content \in Writer /\ memories[l.target].cmo \in Nat
    BY <2>1, TableFacts DEF MemoryRow, Writer
  <2>3. [l EXCEPT !.seen = memories[l.target].content,
                  !.cmo = memories[l.target].cmo,
                  !.projection = l.target] \in Local
    BY <1>1, <2>1, <2>2, LocalEdits
  <2> QED
    BY <1>1, <1>2, <1>10, <2>3
       DEF GetMemory, At, Milestones, NewVersionStatements, Local
<1>11. CASE CreateClaim(r)
  <2>1. [l EXCEPT !.claim = Len(claims) + 1] \in Local
    BY <1>1, TableFacts, LocalEdits DEF Writer
  <2> QED
    BY <1>1, <1>2, <1>11, <2>1
       DEF CreateClaim, At, Milestones, NewVersionStatements, Local
<1>12. CASE EnsureClaimTarget(r)
  BY <1>12, EnsureLocal
<1>13. CASE GetClaimVersion(r)
  <2>1. CASE VersionsOf(l.target) # {}
    BY <1>13, <2>1, GetClaimVersionLocal
  <2>2. CASE VersionsOf(l.target) = {}
    BY <1>1, <1>2, <1>13, <2>2
       DEF GetClaimVersion, At, Milestones, NewVersionStatements
  <2> QED
    BY <2>1, <2>2
<1>14. CASE CreateVersion(r) \/ CreateTombstone(r)
  BY <1>14, NewVersionLocal
<1>15. CASE BackfillVersion(r)
  BY <1>15, BackfillLocal
<1>16. CASE RejectDuplicate(r)
  BY <1>16, DropLocal DEF RejectDuplicate
<1> QED
  BY <1>3, <1>4, <1>5, <1>6, <1>7, <1>8, <1>9, <1>10, <1>11, <1>12, <1>13,
     <1>14, <1>15, <1>16 DEF Statement

(* A statement changes the locals of the request that runs it only.        *)
LEMMA OnlyOwnLocal ==
  ASSUME TypeOK, NEW r \in Requests, Statement(r) \/ Fail(r),
         NEW q \in Requests, q # r
  PROVE  request'[q] = request[q]
<1>1. \A local, rest : Continue(r, local, rest) => request'[q] = request[q]
  BY DEF Continue, TypeOK
<1>2. \A local : Proceed(r, local) => request'[q] = request[q]
  BY <1>1 DEF Proceed
<1>3. CASE RejectDuplicate(r) \/ Fail(r)
  BY <1>3 DEF RejectDuplicate, Fail, TypeOK
<1>4. CASE EnsureClaimTarget(r) \/ GetClaimVersion(r) \/ GetMemory(r)
  BY <1>1, <1>2, <1>4 DEF EnsureClaimTarget, GetClaimVersion, GetMemory
<1>5. CASE \/ StoreCmo(r) \/ StoreMemory(r) \/ InsertClarification(r)
           \/ StoreFacts(r) \/ DeleteFacts(r) \/ UpdateContent(r)
           \/ ExpireMemory(r) \/ SoftDelete(r) \/ RelinkCmo(r)
  BY <1>2, <1>5 DEF StoreCmo, StoreMemory, InsertClarification, InsertMemory,
     StoreFacts, DeleteFacts, UpdateContent, ExpireMemory, SoftDelete, RelinkCmo
<1>6. CASE \/ CreateClaim(r) \/ CreateVersion(r) \/ CreateTombstone(r)
           \/ BackfillVersion(r) \/ CloseOld(r) \/ ReleaseOld(r) \/ LinkOld(r)
           \/ SetCurrent(r) \/ BackfillCurrent(r) \/ InvalidateClaim(r)
           \/ AddEvidence(r) \/ CiteTarget(r)
  BY <1>2, <1>6 DEF CreateClaim, CreateVersion, CreateTombstone,
     BackfillVersion, CloseOld, ReleaseOld, LinkOld, SetCurrent,
     BackfillCurrent, PointClaim, InvalidateClaim, AddEvidence, CiteTarget, Cite
<1> QED
  BY <1>3, <1>4, <1>5, <1>6 DEF Statement

(* Every operation starts with a list of statements in a proper order.     *)
WellOrdered(op, todo) ==
  /\ ProgramOrder(todo)
  /\ ProgramOf(op, todo)
  /\ op \in Replacing =>
       AllAfter(todo, NewVersionStatements, {"expireMemory", "softDelete"})
  /\ AllAfter(todo, {"addEvidence"}, NewVersionStatements)
  /\ AllAfter(todo, {"citeTarget"}, {"ensureClaimTarget", "backfillVersion"})

(* The statements of an update are well ordered.                           *)
LEMMA UpdateProgramOrdered == WellOrdered("update", UpdateProgram)
<1> DEFINE s == UpdateProgram
<1>1. /\ DOMAIN s = 1..13
      /\ s[1] = "getMemory" /\ s[2] = "ensureClaimTarget"
      /\ s[3] = "updateContent" /\ s[4] = "deleteFacts"
      /\ s[5] = "storeFacts" /\ s[6] = "closeOld"
      /\ s[7] = "releaseOld" /\ s[8] = "createVersion"
      /\ s[9] = "linkOld" /\ s[10] = "setCurrent"
      /\ s[11] = "addEvidence" /\ s[12] = "storeCmo"
      /\ s[13] = "relinkCmo"
  BY DEF UpdateProgram, EnsureProgram
<1> HIDE DEF s
<1>2. ProgramOrder(s)
  BY <1>1 DEF ProgramOrder, NoneAfter, NewVersionStatements,
     OldVersionStatements, BeforeOldVersion, BeforeNewVersion
<1>3. ProgramOf("update", s)
  BY <1>1 DEF ProgramOf, Has, Targeted
<1>4. /\ "update" \in Replacing =>
           AllAfter(s, NewVersionStatements, {"expireMemory", "softDelete"})
      /\ AllAfter(s, {"addEvidence"}, NewVersionStatements)
      /\ AllAfter(s, {"citeTarget"}, {"ensureClaimTarget", "backfillVersion"})
  BY <1>1 DEF AllAfter, NewVersionStatements, Replacing
<1> QED
  BY <1>2, <1>3, <1>4 DEF WellOrdered, s

(* The statements of a supersession are well ordered: it expires first.    *)
LEMMA SupersedeProgramOrdered == WellOrdered("supersede", SupersedeProgram)
<1> DEFINE s == SupersedeProgram
<1>1. /\ DOMAIN s = 1..11
      /\ s[1] = "getMemory" /\ s[2] = "ensureClaimTarget"
      /\ s[3] = "expireMemory" /\ s[4] = "storeMemory"
      /\ s[5] = "storeFacts" /\ s[6] = "createVersion"
      /\ s[7] = "closeOld" /\ s[8] = "setCurrent"
      /\ s[9] = "addEvidence" /\ s[10] = "storeCmo"
      /\ s[11] = "relinkCmo"
  BY DEF SupersedeProgram, EnsureProgram
<1> HIDE DEF s
<1>2. ProgramOrder(s)
  BY <1>1 DEF ProgramOrder, NoneAfter, NewVersionStatements,
     OldVersionStatements, BeforeOldVersion, BeforeNewVersion
<1>3. ProgramOf("supersede", s)
  BY <1>1 DEF ProgramOf, Has, Targeted
<1>4. /\ "supersede" \in Replacing =>
           AllAfter(s, NewVersionStatements, {"expireMemory", "softDelete"})
      /\ AllAfter(s, {"addEvidence"}, NewVersionStatements)
      /\ AllAfter(s, {"citeTarget"}, {"ensureClaimTarget", "backfillVersion"})
  BY <1>1 DEF AllAfter, NewVersionStatements, Replacing
<1> QED
  BY <1>2, <1>3, <1>4 DEF WellOrdered, s

(* The statements of a deletion are well ordered: it deletes first.        *)
LEMMA DeleteProgramOrdered == WellOrdered("delete", DeleteProgram)
<1> DEFINE s == DeleteProgram
<1>1. /\ DOMAIN s = 1..7
      /\ s[1] = "getMemory" /\ s[2] = "ensureClaimTarget"
      /\ s[3] = "softDelete" /\ s[4] = "createTombstone"
      /\ s[5] = "closeOld" /\ s[6] = "invalidateClaim"
      /\ s[7] = "storeCmo"
  BY DEF DeleteProgram, EnsureProgram
<1> HIDE DEF s
<1>2. ProgramOrder(s)
  BY <1>1 DEF ProgramOrder, NoneAfter, NewVersionStatements,
     OldVersionStatements, BeforeOldVersion, BeforeNewVersion
<1>3. ProgramOf("delete", s)
  BY <1>1 DEF ProgramOf, Has, Targeted
<1>4. /\ "delete" \in Replacing =>
           AllAfter(s, NewVersionStatements, {"expireMemory", "softDelete"})
      /\ AllAfter(s, {"addEvidence"}, NewVersionStatements)
      /\ AllAfter(s, {"citeTarget"}, {"ensureClaimTarget", "backfillVersion"})
  BY <1>1 DEF AllAfter, NewVersionStatements, Replacing
<1> QED
  BY <1>2, <1>3, <1>4 DEF WellOrdered, s

(* The statements of a noop are well ordered.                              *)
LEMMA NoopProgramOrdered == WellOrdered("noop", NoopProgram)
<1> DEFINE s == NoopProgram
<1>1. /\ DOMAIN s = 1..3
      /\ s[1] = "getMemory" /\ s[2] = "ensureClaimTarget"
      /\ s[3] = "citeTarget"
  BY DEF NoopProgram, EnsureProgram
<1> HIDE DEF s
<1>2. ProgramOrder(s)
  BY <1>1 DEF ProgramOrder, NoneAfter, NewVersionStatements,
     OldVersionStatements, BeforeOldVersion, BeforeNewVersion
<1>3. ProgramOf("noop", s)
  BY <1>1 DEF ProgramOf, Has, Targeted
<1>4. /\ "noop" \in Replacing =>
           AllAfter(s, NewVersionStatements, {"expireMemory", "softDelete"})
      /\ AllAfter(s, {"addEvidence"}, NewVersionStatements)
      /\ AllAfter(s, {"citeTarget"}, {"ensureClaimTarget", "backfillVersion"})
  BY <1>1 DEF AllAfter, NewVersionStatements, Replacing
<1> QED
  BY <1>2, <1>3, <1>4 DEF WellOrdered, s

(* Every program is well ordered.                                          *)
LEMMA ProgramOrdered ==
  ASSUME NEW op \in Operations
  PROVE  WellOrdered(op, Program[op])
<1>1. CASE op = "add"
  BY <1>1 DEF Program, StoreProgram, WellOrdered, ProgramOrder, ProgramOf,
     NoneAfter, Has, AllAfter, Replacing, NewVersionStatements,
     OldVersionStatements, BeforeOldVersion, BeforeNewVersion
<1>2. CASE op \in {"remove", "archive", "verbatim", "clarify"}
  <2>1. CASE op = "remove"
    BY <2>1 DEF Program, RemoveProgram, WellOrdered, ProgramOrder, ProgramOf,
       NoneAfter, Has, AllAfter, Replacing, Targeted, NewVersionStatements,
       OldVersionStatements, BeforeOldVersion, BeforeNewVersion
  <2>2. CASE op = "archive"
    BY <2>2 DEF Program, ArchiveProgram, WellOrdered, ProgramOrder, ProgramOf,
       NoneAfter, Has, AllAfter, Replacing, Targeted, NewVersionStatements,
       OldVersionStatements, BeforeOldVersion, BeforeNewVersion
  <2>3. CASE op = "verbatim"
    BY <2>3 DEF Program, VerbatimProgram, WellOrdered, ProgramOrder, ProgramOf,
       NoneAfter, Has, AllAfter, Replacing, Targeted, NewVersionStatements,
       OldVersionStatements, BeforeOldVersion, BeforeNewVersion
  <2>4. CASE op = "clarify"
    BY <2>4 DEF Program, ClarifyProgram, WellOrdered, ProgramOrder, ProgramOf,
       NoneAfter, Has, AllAfter, Replacing, Targeted, NewVersionStatements,
       OldVersionStatements, BeforeOldVersion, BeforeNewVersion
  <2> QED
    BY <1>2, <2>1, <2>2, <2>3, <2>4
<1>3. CASE op \in {"update", "supersede", "delete", "noop"}
  BY <1>3, UpdateProgramOrdered, SupersedeProgramOrdered, DeleteProgramOrdered,
     NoopProgramOrdered DEF Program
<1> QED
  BY <1>1, <1>2, <1>3 DEF Operations

(* A request that just started agrees with the tables.                     *)
LEMMA AdmitLocal ==
  ASSUME TypeOK, LocalsAgree, NEW r \in Requests, NEW op \in Operations,
         NEW m \in Nat, Admit(r, op, m),
         op \in Targeted => m \in DOMAIN memories
  PROVE  TypeOK' /\ LocalsAgree'
<1>1. request[r] = Idle /\ request \in [Requests -> Local]
  BY DEF Admit, LocalsAgree, LocalAgrees, TypeOK
<1>2. request'[r] = [Idle EXCEPT !.op = op, !.target = m, !.todo = Program[op]]
  BY <1>1 DEF Admit
<1>3. /\ request'[r].op = op /\ request'[r].target = m
      /\ request'[r].todo = Program[op]
      /\ request'[r].version = None /\ request'[r].newVersion = None
  BY <1>2 DEF Idle
<1>4. UNCHANGED tables /\ UNCHANGED failures
  BY DEF Admit
<1>5. request'[r] \in Local
  BY <1>1, <1>2, ProgramTyped DEF Local
<1>6. TypeOK'
  BY <1>1, <1>4, <1>5 DEF Admit, TypeOK, tables
<1>7. LocalAgrees(request[r])'
  <2>1. op # "none"
    BY DEF Operations
  <2>2. OldVersionKnown(request[r])' /\ NewVersionKnown(request[r])'
    BY <1>3 DEF OldVersionKnown, NewVersionKnown
  <2>3. TargetRetiredFirst(request[r])' /\ CitedVersionKnown(request[r])'
    BY <1>3, ProgramOrdered DEF WellOrdered, TargetRetiredFirst, CitedVersionKnown
  <2> QED
    BY <1>3, <1>4, <2>1, <2>2, <2>3, ProgramOrdered DEF WellOrdered, LocalAgrees, tables
<1>8. RowsKept
  BY <1>4, UnchangedKept DEF tables
<1>9. ASSUME NEW q \in Requests, q # r
      PROVE  LocalAgrees(request[q])'
  <2>1. request'[q] = request[q]
    BY <1>1, <1>9 DEF Admit
  <2> QED
    BY <1>8, <2>1, OtherLocal DEF LocalsAgree
<1> QED
  BY <1>6, <1>7, <1>9 DEF LocalsAgree

-----------------------------------------------------------------------------
(* The rows.                                                               *)

(* Steps that leave claims, versions and evidence alone.                   *)
LEMMA RowsSame ==
  ASSUME RowsAgree, RowsKept, UNCHANGED <<claims, versions, evidence>>
  PROVE  RowsAgree'
<1>1. MemoryOrReleased' /\ LineageStaysInClaim' /\ SupersessionMovesForward'
        /\ EvidenceCitesOwnMemory'
  BY DEF RowsAgree, MemoryOrReleased, LineageStaysInClaim,
         SupersessionMovesForward, EvidenceCitesOwnMemory
<1>2. ASSUME NEW v \in DOMAIN versions'
      PROVE  ReplacedRow(v)'
  BY DEF RowsAgree, ReplacedRow, RowsKept, Retired
<1> QED
  BY <1>1, <1>2 DEF RowsAgree

(* Inserting a version that follows one of the same claim.                 *)
LEMMA RowsInsert ==
  ASSUME TypeOK, RowsAgree, RowsKept, NEW r \in Requests, NEW m \in Nat,
         NEW content, NEW kind, NEW previous \in Nat,
         InsertVersion(r, m, content, kind, previous),
         UNCHANGED <<memories, claims, evidence>>,
         previous # None =>
           /\ previous \in DOMAIN versions
           /\ versions[previous].claim = request[r].claim
           /\ kind \in Replacing => Retired(versions[previous].born)
  PROVE  RowsAgree'
<1> DEFINE n == Len(versions) + 1
<1>1. Len(versions) \in Nat /\ DOMAIN versions = 1..Len(versions)
  BY DEF TypeOK
<1>2. /\ DOMAIN versions' = 1..n
      /\ \A v \in DOMAIN versions : versions'[v] = versions[v]
      /\ versions'[n] = [claim |-> request[r].claim, memory |-> m, born |-> m,
                         content |-> content, kind |-> kind,
                         previous |-> previous, supersededBy |-> None,
                         open |-> TRUE]
  BY <1>1 DEF InsertVersion, TypeOK
<1>3. \A v \in DOMAIN versions' : v = n \/ v \in DOMAIN versions
  BY <1>1, <1>2
<1>4. /\ versions'[n].claim = request[r].claim /\ versions'[n].memory = m
      /\ versions'[n].born = m /\ versions'[n].kind = kind
      /\ versions'[n].previous = previous /\ versions'[n].supersededBy = None
  BY <1>2
<1>5. DOMAIN versions \subseteq DOMAIN versions'
  BY <1>1, <1>2
<1>6. MemoryOrReleased'
  BY <1>2, <1>3, <1>4 DEF RowsAgree, MemoryOrReleased
<1>7. LineageStaysInClaim'
  BY <1>2, <1>3, <1>4, <1>5 DEF RowsAgree, LineageStaysInClaim
<1>8. SupersessionMovesForward'
  BY <1>2, <1>3, <1>4, <1>5 DEF RowsAgree, SupersessionMovesForward
<1>9. EvidenceCitesOwnMemory'
  BY <1>2, <1>5 DEF RowsAgree, EvidenceCitesOwnMemory
<1>10. ASSUME NEW v \in DOMAIN versions'
       PROVE  ReplacedRow(v)'
  <2>1. CASE v = n
    BY <1>2, <1>4, <1>5, <2>1 DEF ReplacedRow, Retired
  <2>2. CASE v \in DOMAIN versions
    BY <1>2, <1>5, <2>2 DEF RowsAgree, ReplacedRow, Retired
  <2> QED
    BY <1>3, <2>1, <2>2
<1> QED
  BY <1>6, <1>7, <1>8, <1>9, <1>10 DEF RowsAgree

(* Giving a version a successor that names it, or none.                    *)
LEMMA RowsLink ==
  ASSUME TypeOK, RowsAgree, RowsKept, UNCHANGED <<memories, claims, evidence>>,
         NEW v \in Nat, NEW w \in Nat, NEW e,
         versions' = [versions EXCEPT ![v] = e],
         v \in DOMAIN versions =>
           /\ e.memory \in {versions[v].memory, None}
           /\ e.supersededBy \in {versions[v].supersededBy, w},
         v # None /\ w # None =>
           /\ w \in DOMAIN versions /\ w > v
           /\ v \in DOMAIN versions
           /\ versions[w].claim = versions[v].claim
           /\ versions[w].previous = v
  PROVE  RowsAgree'
<1>1. /\ DOMAIN versions' = DOMAIN versions
      /\ \A u \in DOMAIN versions :
           /\ versions'[u].claim = versions[u].claim
           /\ versions'[u].born = versions[u].born
           /\ versions'[u].kind = versions[u].kind
           /\ versions'[u].previous = versions[u].previous
           /\ versions'[u].memory \in {versions[u].memory, None}
  BY DEF RowsKept
<1>2. \A u \in DOMAIN versions :
        versions'[u].supersededBy # versions[u].supersededBy =>
          u = v /\ versions'[u].supersededBy = w
  BY <1>1
<1>3. \A u \in DOMAIN versions : u # None
  BY TableFacts DEF None
<1>4. MemoryOrReleased' /\ EvidenceCitesOwnMemory'
  BY <1>1 DEF RowsAgree, MemoryOrReleased, EvidenceCitesOwnMemory
<1>5. LineageStaysInClaim'
  BY <1>1, <1>2, <1>3 DEF RowsAgree, LineageStaysInClaim
<1>6. SupersessionMovesForward'
  BY <1>1, <1>2, <1>3 DEF RowsAgree, SupersessionMovesForward
<1>7. ASSUME NEW u \in DOMAIN versions'
      PROVE  ReplacedRow(u)'
  BY <1>1 DEF RowsAgree, ReplacedRow, Retired
<1> QED
  BY <1>4, <1>5, <1>6, <1>7 DEF RowsAgree

(* Pointing a claim at its own versions.                                   *)
LEMMA RowsPoint ==
  ASSUME RowsAgree, UNCHANGED <<memories, versions, evidence>>, NEW c, NEW e,
         claims' = [claims EXCEPT ![c] = e],
         \A v \in {e.current, e.invalidatedBy} \ {None} :
           v \in DOMAIN versions /\ versions[v].claim = c
  PROVE  RowsAgree'
<1>1. /\ DOMAIN claims' = DOMAIN claims
      /\ \A d \in DOMAIN claims : claims'[d] = claims[d] \/ (d = c /\ claims'[d] = e)
  OBVIOUS
<1>2. LineageStaysInClaim'
  BY <1>1 DEF RowsAgree, LineageStaysInClaim
<1>3. MemoryOrReleased' /\ SupersessionMovesForward' /\ EvidenceCitesOwnMemory'
  BY DEF RowsAgree, MemoryOrReleased, SupersessionMovesForward, EvidenceCitesOwnMemory
<1>4. ASSUME NEW v \in DOMAIN versions'
      PROVE  ReplacedRow(v)'
  BY DEF RowsAgree, ReplacedRow, Retired
<1> QED
  BY <1>2, <1>3, <1>4 DEF RowsAgree

(* Evidence for a known version of that memory keeps the rows in agreement. *)
LEMMA RowsCite ==
  ASSUME RowsAgree, UNCHANGED <<memories, claims, versions>>, NEW v, NEW m,
         evidence' = evidence \cup {<<v, m>>},
         v \in DOMAIN versions, versions[v].born = m
  PROVE  RowsAgree'
<1>1. EvidenceCitesOwnMemory'
  BY DEF RowsAgree, EvidenceCitesOwnMemory
<1>2. MemoryOrReleased' /\ SupersessionMovesForward' /\ LineageStaysInClaim'
  BY DEF RowsAgree, MemoryOrReleased, SupersessionMovesForward, LineageStaysInClaim
<1>3. ASSUME NEW u \in DOMAIN versions'
      PROVE  ReplacedRow(u)'
  BY DEF RowsAgree, ReplacedRow, Retired
<1> QED
  BY <1>1, <1>2, <1>3 DEF RowsAgree

(* Every statement of a request that agrees keeps the rows in agreement.   *)
LEMMA RowsStatement ==
  ASSUME TypeOK, RowsAgree, RowsKept, NEW r \in Requests,
         LocalAgrees(request[r]), Statement(r)
  PROVE  RowsAgree'
<1> DEFINE l == request[r]
           s == request[r].todo
<1>l. /\ s \in Seq(Statements) /\ l.op \in Kind /\ l.target \in Nat
      /\ l.version \in Nat /\ l.newVersion \in Nat /\ l.projection \in Nat
  BY LocalFields
<1>v. l.version # None =>
        /\ l.version \in DOMAIN versions /\ versions[l.version].claim = l.claim
        /\ versions[l.version].born = l.target
  BY DEF LocalAgrees, OldVersionKnown
<1>n. l.newVersion # None =>
        /\ l.newVersion \in DOMAIN versions /\ l.newVersion > l.version
        /\ versions[l.newVersion].claim = l.claim
        /\ versions[l.newVersion].previous = l.version
        /\ l.op # "delete" => versions[l.newVersion].born = l.projection
  BY DEF LocalAgrees, NewVersionKnown
(* The target of a replacing request is retired by the time it inserts.    *)
<1>r. s # <<>> /\ Head(s) \in NewVersionStatements /\ l.op \in Replacing
        => Retired(l.target)
  BY <1>l, AllAfterTail DEF LocalAgrees, TargetRetiredFirst, NewVersionStatements
<1>1. CASE \/ StoreCmo(r) \/ StoreMemory(r) \/ InsertClarification(r)
           \/ StoreFacts(r) \/ DeleteFacts(r) \/ UpdateContent(r)
           \/ ExpireMemory(r) \/ SoftDelete(r) \/ RelinkCmo(r)
           \/ GetMemory(r) \/ EnsureClaimTarget(r) \/ GetClaimVersion(r)
           \/ RejectDuplicate(r)
  BY <1>1, RowsSame
     DEF StoreCmo, StoreMemory, InsertClarification, InsertMemory, StoreFacts,
         DeleteFacts, UpdateContent, ExpireMemory, SoftDelete, RelinkCmo,
         GetMemory, EnsureClaimTarget, GetClaimVersion, RejectDuplicate, tables
<1>2. CASE CreateClaim(r)
  <2>1. /\ DOMAIN claims \subseteq DOMAIN claims'
        /\ \A c \in DOMAIN claims' :
             \/ c \in DOMAIN claims /\ claims'[c] = claims[c]
             \/ claims'[c].current = None /\ claims'[c].invalidatedBy = None
    BY <1>2 DEF CreateClaim, TypeOK
  <2>2. UNCHANGED <<memories, versions, evidence>>
    BY <1>2 DEF CreateClaim
  <2>3. LineageStaysInClaim'
    BY <2>1, <2>2 DEF RowsAgree, LineageStaysInClaim
  <2>4. MemoryOrReleased' /\ SupersessionMovesForward' /\ EvidenceCitesOwnMemory'
    BY <2>2 DEF RowsAgree, MemoryOrReleased, SupersessionMovesForward,
                EvidenceCitesOwnMemory
  <2>5. ASSUME NEW v \in DOMAIN versions'
        PROVE  ReplacedRow(v)'
    BY <2>2 DEF RowsAgree, ReplacedRow, Retired
  <2> QED
    BY <2>3, <2>4, <2>5 DEF RowsAgree
<1>3. CASE CreateVersion(r)
  <2>1. l.op \in Replacing => Retired(l.target)
    BY <1>3, <1>r DEF CreateVersion, At, NewVersionStatements
  <2>2. /\ InsertVersion(r, l.projection, r, l.op, l.version)
        /\ UNCHANGED <<memories, claims, evidence>>
    BY <1>3 DEF CreateVersion
  <2> QED
    BY <1>l, <1>v, <2>1, <2>2, RowsInsert
<1>4. CASE CreateTombstone(r)
  <2>1. Retired(l.target)
    BY <1>4, <1>r, HeadUnset DEF CreateTombstone, At, NewVersionStatements, Replacing
  <2>2. /\ InsertVersion(r, None, r, "delete", l.version)
        /\ UNCHANGED <<memories, claims, evidence>>
    BY <1>4 DEF CreateTombstone
  <2> QED
    BY <1>l, <1>v, <2>1, <2>2, RowsInsert DEF None
<1>5. CASE BackfillVersion(r)
  <2>1. /\ InsertVersion(r, l.target, l.seen, "backfill", None)
        /\ UNCHANGED <<memories, claims, evidence>>
    BY <1>5 DEF BackfillVersion
  <2> QED
    BY <1>l, <2>1, RowsInsert DEF None
<1>6. CASE CloseOld(r)
  <2>1. /\ versions' = [versions EXCEPT ![l.version] =
                          [versions[l.version] EXCEPT !.open = FALSE,
                             !.supersededBy = l.newVersion]]
        /\ UNCHANGED <<memories, claims, evidence>>
    BY <1>6 DEF CloseOld
  <2>2. l.version \in DOMAIN versions =>
          /\ [versions[l.version] EXCEPT !.open = FALSE,
                !.supersededBy = l.newVersion].memory = versions[l.version].memory
          /\ [versions[l.version] EXCEPT !.open = FALSE,
                !.supersededBy = l.newVersion].supersededBy = l.newVersion
    BY TableFacts DEF VersionRow
  <2> QED
    BY <1>l, <1>v, <1>n, <2>1, <2>2, RowsLink
<1>7. CASE ReleaseOld(r)
  <2>1. /\ versions' = [versions EXCEPT ![l.version] =
                          [versions[l.version] EXCEPT !.memory = None]]
        /\ UNCHANGED <<memories, claims, evidence>>
    BY <1>7 DEF ReleaseOld
  <2>2. l.version \in DOMAIN versions =>
          /\ [versions[l.version] EXCEPT !.memory = None].memory = None
          /\ [versions[l.version] EXCEPT !.memory = None].supersededBy
               = versions[l.version].supersededBy
    BY TableFacts DEF VersionRow
  <2> QED
    BY <1>l, <1>v, <1>n, <2>1, <2>2, RowsLink
<1>8. CASE LinkOld(r)
  <2>1. /\ versions' = [versions EXCEPT ![l.version] =
                          [versions[l.version] EXCEPT !.supersededBy = l.newVersion]]
        /\ UNCHANGED <<memories, claims, evidence>>
    BY <1>8 DEF LinkOld
  <2>2. l.version \in DOMAIN versions =>
          /\ [versions[l.version] EXCEPT !.supersededBy = l.newVersion].memory
               = versions[l.version].memory
          /\ [versions[l.version] EXCEPT !.supersededBy = l.newVersion].supersededBy
               = l.newVersion
    BY TableFacts DEF VersionRow
  <2> QED
    BY <1>l, <1>v, <1>n, <2>1, <2>2, RowsLink
<1>9. CASE SetCurrent(r) \/ BackfillCurrent(r)
  <2>1. PICK v \in {l.newVersion, l.version} : PointClaim(r, v)
    BY <1>9 DEF SetCurrent, BackfillCurrent
  <2>2. /\ claims' = [claims EXCEPT ![l.claim] =
                        [status |-> "active", current |-> v, invalidatedBy |-> None]]
        /\ UNCHANGED <<memories, versions, evidence>>
    BY <2>1 DEF PointClaim
  <2> QED
    BY <1>v, <1>n, <2>1, <2>2, RowsPoint
<1>10. CASE InvalidateClaim(r)
  <2>1. /\ claims' = [claims EXCEPT ![l.claim] =
                        [status |-> "deleted", current |-> None,
                         invalidatedBy |-> l.newVersion]]
        /\ UNCHANGED <<memories, versions, evidence>>
    BY <1>10 DEF InvalidateClaim
  <2> QED
    BY <1>n, <2>1, RowsPoint
<1>11. CASE AddEvidence(r)
  <2>1. s # <<>> /\ Head(s) = "addEvidence" /\ Cite(r, l.newVersion, l.projection)
    BY <1>11 DEF AddEvidence, At
  <2>2. l.newVersion # None
    BY <1>l, <2>1, AllAfterTail DEF LocalAgrees, CitedVersionKnown, NewVersionStatements
  <2>3. l.op # "delete"
    BY <1>l, <2>1, TailFacts DEF LocalAgrees, ProgramOf, Has
  <2> QED
    BY <1>n, <2>1, <2>2, <2>3, RowsCite DEF Cite
<1>12. CASE CiteTarget(r)
  <2>1. s # <<>> /\ Head(s) = "citeTarget" /\ Cite(r, l.version, l.target)
    BY <1>12 DEF CiteTarget, At
  <2>2. l.version # None
    BY <1>l, <2>1, AllAfterTail DEF LocalAgrees, CitedVersionKnown
  <2> QED
    BY <1>v, <2>1, <2>2, RowsCite DEF Cite
<1> QED
  BY <1>1, <1>2, <1>3, <1>4, <1>5, <1>6, <1>7, <1>8, <1>9, <1>10, <1>11,
     <1>12 DEF Statement

-----------------------------------------------------------------------------
(* The invariant.                                                          *)

(* The invariant holds in empty tables.                                    *)
LEMMA InvInit == Init => IInv
<1> SUFFICES ASSUME Init PROVE IInv
  OBVIOUS
<1>1. \A S : <<>> \in Seq(S)
  OBVIOUS
<1>2. Idle \in Local
  BY <1>1 DEF Idle, Local, Writer, None
<1>3. TypeOK
  BY <1>1, <1>2 DEF Init, TypeOK
<1>4. LocalAgrees(Idle)
  BY DEF Idle, LocalAgrees, ProgramOrder, ProgramOf, NoneAfter, Has, AllAfter,
     OldVersionKnown, NewVersionKnown, TargetRetiredFirst, CitedVersionKnown,
     Targeted, Replacing
<1>5. LocalsAgree
  BY <1>4 DEF Init, LocalsAgree
<1>6. RowsAgree
  BY DEF Init, RowsAgree, MemoryOrReleased, LineageStaysInClaim,
     SupersessionMovesForward, EvidenceCitesOwnMemory
<1> QED
  BY <1>3, <1>5, <1>6 DEF IInv

(* Starting a request preserves the invariant.                             *)
LEMMA InvStart ==
  ASSUME IInv, NEW r \in Requests, Start(r)
  PROVE  IInv'
<1>1. \A m \in DOMAIN memories : m \in Nat
  BY TableFacts DEF IInv
<1>2. PICK op \in Operations, m \in Nat :
        Admit(r, op, m) /\ (op \in Targeted => m \in DOMAIN memories)
  <2>1. CASE StoreCanonicalFact(r) \/ StoreClarification(r) \/ StoreVerbatim(r)
    BY <2>1 DEF StoreCanonicalFact, StoreClarification, StoreVerbatim,
       Operations, Targeted, None
  <2>2. CASE \/ UpdateCanonicalFact(r) \/ SupersedeCanonicalFact(r)
             \/ DeleteCanonicalFact(r) \/ RecordNoop(r) \/ ArchiveMemory(r)
    BY <1>1, <2>2 DEF UpdateCanonicalFact, SupersedeCanonicalFact,
       DeleteCanonicalFact, RecordNoop, ArchiveMemory, Operations, Candidates
  <2>3. CASE DeleteMemory(r)
    BY <1>1, <2>3 DEF DeleteMemory, Operations
  <2> QED
    BY <2>1, <2>2, <2>3 DEF Start
<1>3. TypeOK' /\ LocalsAgree'
  BY <1>2, AdmitLocal DEF IInv
<1>4. UNCHANGED tables
  BY <1>2 DEF Admit
<1>5. RowsAgree'
  BY <1>4, UnchangedKept, RowsSame DEF IInv, tables
<1> QED
  BY <1>3, <1>5 DEF IInv

(* Running a statement preserves the invariant.                            *)
LEMMA InvStatement ==
  ASSUME IInv, NEW r \in Requests, Statement(r) \/ Fail(r)
  PROVE  IInv'
<1>1. RowsKept
  <2>1. CASE Statement(r)
    BY <2>1, StatementKept DEF IInv
  <2>2. CASE Fail(r)
    BY <2>2, UnchangedKept DEF Fail, tables
  <2> QED
    BY <2>1, <2>2
<1>2. TypeOK'
  <2>1. CASE Statement(r)
    BY <2>1, TypeStatement DEF IInv
  <2>2. CASE Fail(r)
    BY <2>2, DropTyped DEF Fail, tables, IInv, TypeOK
  <2> QED
    BY <2>1, <2>2
<1>3. LocalAgrees(request[r])'
  <2>1. CASE Statement(r)
    BY <1>1, <2>1, StatementLocal DEF IInv, RowsAgree, LocalsAgree
  <2>2. CASE Fail(r)
    BY <1>1, <2>2, DropLocal DEF Fail, IInv, LocalsAgree
  <2> QED
    BY <2>1, <2>2
<1>4. ASSUME NEW q \in Requests, q # r
      PROVE  LocalAgrees(request[q])'
  <2>1. request'[q] = request[q]
    BY <1>4, OnlyOwnLocal DEF IInv
  <2> QED
    BY <1>1, <2>1, OtherLocal DEF IInv, LocalsAgree
<1>5. RowsAgree'
  <2>1. CASE Statement(r)
    BY <1>1, <2>1, RowsStatement DEF IInv, LocalsAgree
  <2>2. CASE Fail(r)
    BY <1>1, <2>2, RowsSame DEF Fail, tables, IInv
  <2> QED
    BY <2>1, <2>2
<1> QED
  BY <1>2, <1>3, <1>4, <1>5 DEF IInv, LocalsAgree

(* Every step preserves the invariant.                                     *)
LEMMA InvNext == IInv /\ [Next]_vars => IInv'
<1> SUFFICES ASSUME IInv, [Next]_vars PROVE IInv'
  OBVIOUS
<1>1. CASE Next
  BY <1>1, InvStart, InvStatement DEF Next
<1>2. CASE UNCHANGED vars
  <2>1. UNCHANGED <<memories, claims, versions, evidence, cmos, request, failures>>
    BY <1>2 DEF vars
  <2>2. RowsKept
    BY <2>1, UnchangedKept
  <2>3. TypeOK'
    BY <2>1 DEF IInv, TypeOK
  <2>4. LocalsAgree'
    BY <2>1, <2>2, OtherLocal DEF IInv, LocalsAgree
  <2>5. RowsAgree'
    BY <2>1, <2>2, RowsSame DEF IInv
  <2> QED
    BY <2>3, <2>4, <2>5 DEF IInv
<1> QED
  BY <1>1, <1>2

(* IInv holds in every reachable state.                                    *)
THEOREM Invariance == Spec => []IInv
  BY InvInit, InvNext, PTL DEF Spec

-----------------------------------------------------------------------------
(* The results.                                                            *)

(* Every table and every local has its type, however many requests run.    *)
THEOREM TypeCorrect == Spec => []TypeOK
<1>1. IInv => TypeOK
  BY DEF IInv
<1> QED
  BY <1>1, Invariance, PTL

(* No pointer of the lineage leaves its claim.                             *)
THEOREM LineageSafe == Spec => []LineageStaysInClaim
<1>1. IInv => LineageStaysInClaim
  BY DEF IInv, RowsAgree
<1> QED
  BY <1>1, Invariance, PTL

(* Reversal chains are acyclic and agree with previous_version_id.         *)
THEOREM ChainSafe == Spec => []SupersessionMovesForward
<1>1. IInv => SupersessionMovesForward
  BY DEF IInv, RowsAgree
<1> QED
  BY <1>1, Invariance, PTL

(* A replaced fact is never retrievable beside the one that replaced it.   *)
THEOREM RetiredSafe == Spec => []ReplacedIsRetired
<1>1. IInv => ReplacedIsRetired
  BY DEF IInv, RowsAgree, ReplacedRow, Replacing, Retired, ReplacedIsRetired
<1> QED
  BY <1>1, Invariance, PTL

(* The locals of every request in flight still agree with the tables.      *)
THEOREM LocalsSafe == Spec => []LocalsAgree
<1>1. IInv => LocalsAgree
  BY DEF IInv
<1> QED
  BY <1>1, Invariance, PTL

(* Evidence is attached to the version written for the memory it cites.    *)
THEOREM EvidenceSafe == Spec => []EvidenceCitesOwnMemory
<1>1. IInv => EvidenceCitesOwnMemory
  BY DEF IInv, RowsAgree
<1> QED
  BY <1>1, Invariance, PTL

-----------------------------------------------------------------------------
(* What is ahead of a request after each statement.                        *)

(* What is ahead is the next statement and what is ahead after it.         *)
LEMMA AheadTail ==
  ASSUME NEW s \in Seq(Statements), s # <<>>
  PROVE  Ahead(s) = {Head(s)} \cup Ahead(Tail(s))
<1>1. ASSUME NEW x \in Ahead(s)
      PROVE  x \in {Head(s)} \cup Ahead(Tail(s))
  <2>1. PICK i \in DOMAIN s : x = s[i]
    BY <1>1 DEF Ahead
  <2> QED
    BY <2>1, TailFacts DEF Ahead
<1>2. {Head(s)} \cup Ahead(Tail(s)) \subseteq Ahead(s)
  BY TailFacts DEF Ahead
<1> QED
  BY <1>1, <1>2

(* The suffixes of a list by where they begin.                             *)
LEMMA SuffixForm ==
  ASSUME NEW p \in Seq(Statements)
  PROVE  Suffixes(p) = {SubSeq(p, k, Len(p)) : k \in 1..(Len(p) + 1)}
<1>1. Len(p) \in Nat /\ SubSeq(p, Len(p) + 1, Len(p)) = <<>>
  OBVIOUS
<1>2. ASSUME NEW x \in Suffixes(p)
      PROVE  \E k \in 1..(Len(p) + 1) : x = SubSeq(p, k, Len(p))
  <2>1. CASE x = <<>>
    <3>1. Len(p) + 1 \in 1..(Len(p) + 1)
      BY <1>1
    <3> QED
      BY <1>1, <2>1, <3>1
  <2>2. CASE x # <<>>
    <3>1. PICK k \in 1..Len(p) : x = SubSeq(p, k, Len(p))
      BY <1>2, <2>2 DEF Suffixes
    <3>2. k \in 1..(Len(p) + 1)
      BY <1>1
    <3> QED
      BY <3>1, <3>2
  <2> QED
    BY <2>1, <2>2
<1>3. ASSUME NEW k \in 1..(Len(p) + 1)
      PROVE  SubSeq(p, k, Len(p)) \in Suffixes(p)
  <2>1. k \in 1..Len(p) \/ k = Len(p) + 1
    BY <1>1
  <2> QED
    BY <1>1, <2>1 DEF Suffixes
<1> QED
  BY <1>2, <1>3

(* A suffix of a list and what follows its head.                           *)
LEMMA SuffixTail ==
  ASSUME NEW p \in Seq(Statements), NEW n, n = Len(p),
         NEW s \in Suffixes(p), s # <<>>
  PROVE  \E k \in 1..n :
           /\ Head(s) = p[k]
           /\ Tail(s) \in Suffixes(p)
           /\ Ahead(Tail(s)) = {p[i] : i \in (k + 1)..n}
<1>1. PICK k \in 1..(Len(p) + 1) : s = SubSeq(p, k, Len(p))
  BY SuffixForm
<1>2. /\ Len(p) \in Nat /\ k # Len(p) + 1
      /\ Len(s) = Len(p) - k + 1
      /\ \A i \in 1..Len(s) : s[i] = p[k + i - 1]
  BY <1>1
<1>3. Tail(s) = SubSeq(p, k + 1, Len(p))
  BY <1>1, <1>2
<1>4. /\ DOMAIN Tail(s) = 1..(Len(p) - k)
      /\ \A i \in 1..(Len(p) - k) : Tail(s)[i] = p[k + i]
  BY <1>1, <1>2, <1>3
<1>5. Ahead(Tail(s)) = {p[i] : i \in (k + 1)..Len(p)}
  <2>1. ASSUME NEW x \in Ahead(Tail(s))
        PROVE  x \in {p[i] : i \in (k + 1)..Len(p)}
    <3>1. PICK j \in 1..(Len(p) - k) : x = p[k + j]
      BY <1>4, <2>1 DEF Ahead
    <3>2. k + j \in (k + 1)..Len(p)
      BY <1>2, <3>1
    <3> QED
      BY <3>1, <3>2
  <2>2. ASSUME NEW i \in (k + 1)..Len(p)
        PROVE  p[i] \in Ahead(Tail(s))
    <3>1. i - k \in 1..(Len(p) - k) /\ Tail(s)[i - k] = p[i]
      BY <1>2, <1>4
    <3> QED
      BY <1>4, <3>1 DEF Ahead
  <2> QED
    BY <2>1, <2>2
<1>6. Tail(s) \in Suffixes(p)
  <2>1. k + 1 \in 1..(Len(p) + 1)
    BY <1>2
  <2> QED
    BY <1>3, <2>1, SuffixForm
<1>7. Head(s) = p[k]
  BY <1>1, <1>2
<1> QED
  BY <1>2, <1>5, <1>6, <1>7

(* What is ahead after each statement of add.                               *)
LEMMA AddTrack ==
  ASSUME NEW s \in Track("add"), s # <<>>
  PROVE  /\ Tail(s) \in Track("add")
         /\ Head(s) \in {"storeCmo", "storeMemory", "storeFacts",
                        "createClaim", "createVersion", "setCurrent",
                        "addEvidence"}
         /\ Head(s) = "storeCmo" => Ahead(Tail(s)) =
              {"storeMemory", "storeFacts", "createClaim", "createVersion",
               "setCurrent", "addEvidence"}
         /\ Head(s) = "storeMemory" => Ahead(Tail(s)) =
              {"storeFacts", "createClaim", "createVersion", "setCurrent",
               "addEvidence"}
         /\ Head(s) = "storeFacts" => Ahead(Tail(s)) =
              {"createClaim", "createVersion", "setCurrent", "addEvidence"}
         /\ Head(s) = "createClaim" => Ahead(Tail(s)) =
              {"createVersion", "setCurrent", "addEvidence"}
         /\ Head(s) = "createVersion" => Ahead(Tail(s)) =
              {"setCurrent", "addEvidence"}
         /\ Head(s) = "setCurrent" => Ahead(Tail(s)) =
              {"addEvidence"}
         /\ Head(s) = "addEvidence" => Ahead(Tail(s)) =
              {}
<1> DEFINE p == Program["add"]
<1>1. /\ p \in Seq(Statements) /\ Len(p) = 7
      /\ p[1] = "storeCmo" /\ p[2] = "storeMemory" /\ p[3] = "storeFacts"
      /\ p[4] = "createClaim" /\ p[5] = "createVersion"
      /\ p[6] = "setCurrent" /\ p[7] = "addEvidence"
  BY DEF Program, StoreProgram, Statements
<1>2. s \in Suffixes(p)
  BY DEF Track
<1> HIDE DEF p
<1>3. CASE s \in Suffixes(p)
  <2>1. PICK k \in 1..7 : /\ Head(s) = p[k]
                           /\ Tail(s) \in Suffixes(p)
                           /\ Ahead(Tail(s)) = {p[i] : i \in (k + 1)..7}
    BY <1>1, <1>3, SuffixTail
  <2>2. Tail(s) \in Track("add")
    BY <2>1 DEF Track, p
  <2>3. CASE k \in {1, 2, 3, 4}
    BY <1>1, <2>1, <2>2, <2>3
  <2>4. CASE k \in {5, 6, 7}
    BY <1>1, <2>1, <2>2, <2>4
  <2> QED
    BY <2>1, <2>3, <2>4
<1> QED
  BY <1>2, <1>3

(* What is ahead after each statement of update.                            *)
LEMMA UpdateTrack ==
  ASSUME NEW s \in Track("update"), s # <<>>
  PROVE  /\ Tail(s) \in Track("update")
         /\ Head(s) \in {"getMemory", "ensureClaimTarget", "updateContent",
                        "deleteFacts", "storeFacts", "closeOld",
                        "releaseOld", "createVersion", "linkOld",
                        "setCurrent", "addEvidence", "storeCmo",
                        "relinkCmo", "createClaim", "backfillVersion",
                        "backfillCurrent", "citeTarget"}
         /\ Head(s) = "getMemory" => Ahead(Tail(s)) =
              {"ensureClaimTarget", "updateContent", "deleteFacts",
               "storeFacts", "closeOld", "releaseOld", "createVersion",
               "linkOld", "setCurrent", "addEvidence", "storeCmo",
               "relinkCmo"}
         /\ Head(s) = "ensureClaimTarget" => Ahead(Tail(s)) =
              {"updateContent", "deleteFacts", "storeFacts", "closeOld",
               "releaseOld", "createVersion", "linkOld", "setCurrent",
               "addEvidence", "storeCmo", "relinkCmo"}
         /\ Head(s) = "updateContent" => Ahead(Tail(s)) =
              {"deleteFacts", "storeFacts", "closeOld", "releaseOld",
               "createVersion", "linkOld", "setCurrent", "addEvidence",
               "storeCmo", "relinkCmo"}
         /\ Head(s) = "deleteFacts" => Ahead(Tail(s)) =
              {"storeFacts", "closeOld", "releaseOld", "createVersion",
               "linkOld", "setCurrent", "addEvidence", "storeCmo",
               "relinkCmo"}
         /\ Head(s) = "storeFacts" => Ahead(Tail(s)) =
              {"closeOld", "releaseOld", "createVersion", "linkOld",
               "setCurrent", "addEvidence", "storeCmo", "relinkCmo"}
         /\ Head(s) = "closeOld" => Ahead(Tail(s)) =
              {"releaseOld", "createVersion", "linkOld", "setCurrent",
               "addEvidence", "storeCmo", "relinkCmo"}
         /\ Head(s) = "releaseOld" => Ahead(Tail(s)) =
              {"createVersion", "linkOld", "setCurrent", "addEvidence",
               "storeCmo", "relinkCmo"}
         /\ Head(s) = "createVersion" => Ahead(Tail(s)) =
              {"linkOld", "setCurrent", "addEvidence", "storeCmo",
               "relinkCmo"}
         /\ Head(s) = "linkOld" => Ahead(Tail(s)) =
              {"setCurrent", "addEvidence", "storeCmo", "relinkCmo"}
         /\ Head(s) = "setCurrent" => Ahead(Tail(s)) =
              {"addEvidence", "storeCmo", "relinkCmo"}
         /\ Head(s) = "addEvidence" => Ahead(Tail(s)) =
              {"storeCmo", "relinkCmo"}
         /\ Head(s) = "storeCmo" => Ahead(Tail(s)) =
              {"relinkCmo"}
         /\ Head(s) = "relinkCmo" => Ahead(Tail(s)) =
              {}
         /\ Head(s) = "createClaim" => Ahead(Tail(s)) =
              {"backfillVersion", "backfillCurrent", "citeTarget",
               "updateContent", "deleteFacts", "storeFacts", "closeOld",
               "releaseOld", "createVersion", "linkOld", "setCurrent",
               "addEvidence", "storeCmo", "relinkCmo"}
         /\ Head(s) = "backfillVersion" => Ahead(Tail(s)) =
              {"backfillCurrent", "citeTarget", "updateContent",
               "deleteFacts", "storeFacts", "closeOld", "releaseOld",
               "createVersion", "linkOld", "setCurrent", "addEvidence",
               "storeCmo", "relinkCmo"}
         /\ Head(s) = "backfillCurrent" => Ahead(Tail(s)) =
              {"citeTarget", "updateContent", "deleteFacts", "storeFacts",
               "closeOld", "releaseOld", "createVersion", "linkOld",
               "setCurrent", "addEvidence", "storeCmo", "relinkCmo"}
         /\ Head(s) = "citeTarget" => Ahead(Tail(s)) =
              {"updateContent", "deleteFacts", "storeFacts", "closeOld",
               "releaseOld", "createVersion", "linkOld", "setCurrent",
               "addEvidence", "storeCmo", "relinkCmo"}
<1> DEFINE p == Program["update"]
           b == BackfillProgram \o Decided("update")
<1>1. /\ p \in Seq(Statements) /\ Len(p) = 13
      /\ p[1] = "getMemory" /\ p[2] = "ensureClaimTarget"
      /\ p[3] = "updateContent" /\ p[4] = "deleteFacts"
      /\ p[5] = "storeFacts" /\ p[6] = "closeOld" /\ p[7] = "releaseOld"
      /\ p[8] = "createVersion" /\ p[9] = "linkOld" /\ p[10] = "setCurrent"
      /\ p[11] = "addEvidence" /\ p[12] = "storeCmo" /\ p[13] = "relinkCmo"
  BY DEF Program, UpdateProgram, EnsureProgram, Statements
<1>2. /\ b \in Seq(Statements) /\ Len(b) = 15
      /\ b[1] = "createClaim" /\ b[2] = "backfillVersion"
      /\ b[3] = "backfillCurrent" /\ b[4] = "citeTarget"
      /\ b[5] = "updateContent" /\ b[6] = "deleteFacts"
      /\ b[7] = "storeFacts" /\ b[8] = "closeOld" /\ b[9] = "releaseOld"
      /\ b[10] = "createVersion" /\ b[11] = "linkOld"
      /\ b[12] = "setCurrent" /\ b[13] = "addEvidence"
      /\ b[14] = "storeCmo" /\ b[15] = "relinkCmo"
  BY DEF Program, UpdateProgram, EnsureProgram, Statements, Decided, BackfillProgram
<1>3. s \in Suffixes(p) \/ s \in Suffixes(b)
  BY DEF Track
<1> HIDE DEF p, b
<1>4. CASE s \in Suffixes(p)
  <2>1. PICK k \in 1..13 : /\ Head(s) = p[k]
                           /\ Tail(s) \in Suffixes(p)
                           /\ Ahead(Tail(s)) = {p[i] : i \in (k + 1)..13}
    BY <1>1, <1>4, SuffixTail
  <2>2. Tail(s) \in Track("update")
    BY <2>1 DEF Track, p, b
  <2>3. CASE k \in {1, 2, 3, 4}
    BY <1>1, <2>1, <2>2, <2>3
  <2>4. CASE k \in {5, 6, 7, 8}
    BY <1>1, <2>1, <2>2, <2>4
  <2>5. CASE k \in {9, 10, 11, 12}
    BY <1>1, <2>1, <2>2, <2>5
  <2>6. CASE k \in {13}
    BY <1>1, <2>1, <2>2, <2>6
  <2> QED
    BY <2>1, <2>3, <2>4, <2>5, <2>6
<1>5. CASE s \in Suffixes(b)
  <2>1. PICK k \in 1..15 : /\ Head(s) = b[k]
                           /\ Tail(s) \in Suffixes(b)
                           /\ Ahead(Tail(s)) = {b[i] : i \in (k + 1)..15}
    BY <1>2, <1>5, SuffixTail
  <2>2. Tail(s) \in Track("update")
    BY <2>1 DEF Track, p, b
  <2>3. CASE k \in {1, 2, 3, 4}
    BY <1>2, <2>1, <2>2, <2>3
  <2>4. CASE k \in {5, 6, 7, 8}
    BY <1>2, <2>1, <2>2, <2>4
  <2>5. CASE k \in {9, 10, 11, 12}
    BY <1>2, <2>1, <2>2, <2>5
  <2>6. CASE k \in {13, 14, 15}
    BY <1>2, <2>1, <2>2, <2>6
  <2> QED
    BY <2>1, <2>3, <2>4, <2>5, <2>6
<1> QED
  BY <1>3, <1>4, <1>5

(* What is ahead after each statement of supersede.                         *)
LEMMA SupersedeTrack ==
  ASSUME NEW s \in Track("supersede"), s # <<>>
  PROVE  /\ Tail(s) \in Track("supersede")
         /\ Head(s) \in {"getMemory", "ensureClaimTarget", "expireMemory",
                        "storeMemory", "storeFacts", "createVersion",
                        "closeOld", "setCurrent", "addEvidence", "storeCmo",
                        "relinkCmo", "createClaim", "backfillVersion",
                        "backfillCurrent", "citeTarget"}
         /\ Head(s) = "getMemory" => Ahead(Tail(s)) =
              {"ensureClaimTarget", "expireMemory", "storeMemory",
               "storeFacts", "createVersion", "closeOld", "setCurrent",
               "addEvidence", "storeCmo", "relinkCmo"}
         /\ Head(s) = "ensureClaimTarget" => Ahead(Tail(s)) =
              {"expireMemory", "storeMemory", "storeFacts", "createVersion",
               "closeOld", "setCurrent", "addEvidence", "storeCmo",
               "relinkCmo"}
         /\ Head(s) = "expireMemory" => Ahead(Tail(s)) =
              {"storeMemory", "storeFacts", "createVersion", "closeOld",
               "setCurrent", "addEvidence", "storeCmo", "relinkCmo"}
         /\ Head(s) = "storeMemory" => Ahead(Tail(s)) =
              {"storeFacts", "createVersion", "closeOld", "setCurrent",
               "addEvidence", "storeCmo", "relinkCmo"}
         /\ Head(s) = "storeFacts" => Ahead(Tail(s)) =
              {"createVersion", "closeOld", "setCurrent", "addEvidence",
               "storeCmo", "relinkCmo"}
         /\ Head(s) = "createVersion" => Ahead(Tail(s)) =
              {"closeOld", "setCurrent", "addEvidence", "storeCmo",
               "relinkCmo"}
         /\ Head(s) = "closeOld" => Ahead(Tail(s)) =
              {"setCurrent", "addEvidence", "storeCmo", "relinkCmo"}
         /\ Head(s) = "setCurrent" => Ahead(Tail(s)) =
              {"addEvidence", "storeCmo", "relinkCmo"}
         /\ Head(s) = "addEvidence" => Ahead(Tail(s)) =
              {"storeCmo", "relinkCmo"}
         /\ Head(s) = "storeCmo" => Ahead(Tail(s)) =
              {"relinkCmo"}
         /\ Head(s) = "relinkCmo" => Ahead(Tail(s)) =
              {}
         /\ Head(s) = "createClaim" => Ahead(Tail(s)) =
              {"backfillVersion", "backfillCurrent", "citeTarget",
               "expireMemory", "storeMemory", "storeFacts", "createVersion",
               "closeOld", "setCurrent", "addEvidence", "storeCmo",
               "relinkCmo"}
         /\ Head(s) = "backfillVersion" => Ahead(Tail(s)) =
              {"backfillCurrent", "citeTarget", "expireMemory",
               "storeMemory", "storeFacts", "createVersion", "closeOld",
               "setCurrent", "addEvidence", "storeCmo", "relinkCmo"}
         /\ Head(s) = "backfillCurrent" => Ahead(Tail(s)) =
              {"citeTarget", "expireMemory", "storeMemory", "storeFacts",
               "createVersion", "closeOld", "setCurrent", "addEvidence",
               "storeCmo", "relinkCmo"}
         /\ Head(s) = "citeTarget" => Ahead(Tail(s)) =
              {"expireMemory", "storeMemory", "storeFacts", "createVersion",
               "closeOld", "setCurrent", "addEvidence", "storeCmo",
               "relinkCmo"}
<1> DEFINE p == Program["supersede"]
           b == BackfillProgram \o Decided("supersede")
<1>1. /\ p \in Seq(Statements) /\ Len(p) = 11
      /\ p[1] = "getMemory" /\ p[2] = "ensureClaimTarget"
      /\ p[3] = "expireMemory" /\ p[4] = "storeMemory"
      /\ p[5] = "storeFacts" /\ p[6] = "createVersion" /\ p[7] = "closeOld"
      /\ p[8] = "setCurrent" /\ p[9] = "addEvidence" /\ p[10] = "storeCmo"
      /\ p[11] = "relinkCmo"
  BY DEF Program, SupersedeProgram, EnsureProgram, Statements
<1>2. /\ b \in Seq(Statements) /\ Len(b) = 13
      /\ b[1] = "createClaim" /\ b[2] = "backfillVersion"
      /\ b[3] = "backfillCurrent" /\ b[4] = "citeTarget"
      /\ b[5] = "expireMemory" /\ b[6] = "storeMemory"
      /\ b[7] = "storeFacts" /\ b[8] = "createVersion" /\ b[9] = "closeOld"
      /\ b[10] = "setCurrent" /\ b[11] = "addEvidence"
      /\ b[12] = "storeCmo" /\ b[13] = "relinkCmo"
  BY DEF Program, SupersedeProgram, EnsureProgram, Statements, Decided, BackfillProgram
<1>3. s \in Suffixes(p) \/ s \in Suffixes(b)
  BY DEF Track
<1> HIDE DEF p, b
<1>4. CASE s \in Suffixes(p)
  <2>1. PICK k \in 1..11 : /\ Head(s) = p[k]
                           /\ Tail(s) \in Suffixes(p)
                           /\ Ahead(Tail(s)) = {p[i] : i \in (k + 1)..11}
    BY <1>1, <1>4, SuffixTail
  <2>2. Tail(s) \in Track("supersede")
    BY <2>1 DEF Track, p, b
  <2>3. CASE k \in {1, 2, 3, 4}
    BY <1>1, <2>1, <2>2, <2>3
  <2>4. CASE k \in {5, 6, 7, 8}
    BY <1>1, <2>1, <2>2, <2>4
  <2>5. CASE k \in {9, 10, 11}
    BY <1>1, <2>1, <2>2, <2>5
  <2> QED
    BY <2>1, <2>3, <2>4, <2>5
<1>5. CASE s \in Suffixes(b)
  <2>1. PICK k \in 1..13 : /\ Head(s) = b[k]
                           /\ Tail(s) \in Suffixes(b)
                           /\ Ahead(Tail(s)) = {b[i] : i \in (k + 1)..13}
    BY <1>2, <1>5, SuffixTail
  <2>2. Tail(s) \in Track("supersede")
    BY <2>1 DEF Track, p, b
  <2>3. CASE k \in {1, 2, 3, 4}
    BY <1>2, <2>1, <2>2, <2>3
  <2>4. CASE k \in {5, 6, 7, 8}
    BY <1>2, <2>1, <2>2, <2>4
  <2>5. CASE k \in {9, 10, 11, 12}
    BY <1>2, <2>1, <2>2, <2>5
  <2>6. CASE k \in {13}
    BY <1>2, <2>1, <2>2, <2>6
  <2> QED
    BY <2>1, <2>3, <2>4, <2>5, <2>6
<1> QED
  BY <1>3, <1>4, <1>5

(* What is ahead after each statement of delete.                            *)
LEMMA DeleteTrack ==
  ASSUME NEW s \in Track("delete"), s # <<>>
  PROVE  /\ Tail(s) \in Track("delete")
         /\ Head(s) \in {"getMemory", "ensureClaimTarget", "softDelete",
                        "createTombstone", "closeOld", "invalidateClaim",
                        "storeCmo", "createClaim", "backfillVersion",
                        "backfillCurrent", "citeTarget"}
         /\ Head(s) = "getMemory" => Ahead(Tail(s)) =
              {"ensureClaimTarget", "softDelete", "createTombstone",
               "closeOld", "invalidateClaim", "storeCmo"}
         /\ Head(s) = "ensureClaimTarget" => Ahead(Tail(s)) =
              {"softDelete", "createTombstone", "closeOld",
               "invalidateClaim", "storeCmo"}
         /\ Head(s) = "softDelete" => Ahead(Tail(s)) =
              {"createTombstone", "closeOld", "invalidateClaim", "storeCmo"}
         /\ Head(s) = "createTombstone" => Ahead(Tail(s)) =
              {"closeOld", "invalidateClaim", "storeCmo"}
         /\ Head(s) = "closeOld" => Ahead(Tail(s)) =
              {"invalidateClaim", "storeCmo"}
         /\ Head(s) = "invalidateClaim" => Ahead(Tail(s)) =
              {"storeCmo"}
         /\ Head(s) = "storeCmo" => Ahead(Tail(s)) =
              {}
         /\ Head(s) = "createClaim" => Ahead(Tail(s)) =
              {"backfillVersion", "backfillCurrent", "citeTarget",
               "softDelete", "createTombstone", "closeOld",
               "invalidateClaim", "storeCmo"}
         /\ Head(s) = "backfillVersion" => Ahead(Tail(s)) =
              {"backfillCurrent", "citeTarget", "softDelete",
               "createTombstone", "closeOld", "invalidateClaim", "storeCmo"}
         /\ Head(s) = "backfillCurrent" => Ahead(Tail(s)) =
              {"citeTarget", "softDelete", "createTombstone", "closeOld",
               "invalidateClaim", "storeCmo"}
         /\ Head(s) = "citeTarget" => Ahead(Tail(s)) =
              {"softDelete", "createTombstone", "closeOld",
               "invalidateClaim", "storeCmo"}
<1> DEFINE p == Program["delete"]
           b == BackfillProgram \o Decided("delete")
<1>1. /\ p \in Seq(Statements) /\ Len(p) = 7
      /\ p[1] = "getMemory" /\ p[2] = "ensureClaimTarget"
      /\ p[3] = "softDelete" /\ p[4] = "createTombstone"
      /\ p[5] = "closeOld" /\ p[6] = "invalidateClaim" /\ p[7] = "storeCmo"
  BY DEF Program, DeleteProgram, EnsureProgram, Statements
<1>2. /\ b \in Seq(Statements) /\ Len(b) = 9
      /\ b[1] = "createClaim" /\ b[2] = "backfillVersion"
      /\ b[3] = "backfillCurrent" /\ b[4] = "citeTarget"
      /\ b[5] = "softDelete" /\ b[6] = "createTombstone"
      /\ b[7] = "closeOld" /\ b[8] = "invalidateClaim" /\ b[9] = "storeCmo"
  BY DEF Program, DeleteProgram, EnsureProgram, Statements, Decided, BackfillProgram
<1>3. s \in Suffixes(p) \/ s \in Suffixes(b)
  BY DEF Track
<1> HIDE DEF p, b
<1>4. CASE s \in Suffixes(p)
  <2>1. PICK k \in 1..7 : /\ Head(s) = p[k]
                           /\ Tail(s) \in Suffixes(p)
                           /\ Ahead(Tail(s)) = {p[i] : i \in (k + 1)..7}
    BY <1>1, <1>4, SuffixTail
  <2>2. Tail(s) \in Track("delete")
    BY <2>1 DEF Track, p, b
  <2>3. CASE k \in {1, 2, 3, 4}
    BY <1>1, <2>1, <2>2, <2>3
  <2>4. CASE k \in {5, 6, 7}
    BY <1>1, <2>1, <2>2, <2>4
  <2> QED
    BY <2>1, <2>3, <2>4
<1>5. CASE s \in Suffixes(b)
  <2>1. PICK k \in 1..9 : /\ Head(s) = b[k]
                           /\ Tail(s) \in Suffixes(b)
                           /\ Ahead(Tail(s)) = {b[i] : i \in (k + 1)..9}
    BY <1>2, <1>5, SuffixTail
  <2>2. Tail(s) \in Track("delete")
    BY <2>1 DEF Track, p, b
  <2>3. CASE k \in {1, 2, 3, 4}
    BY <1>2, <2>1, <2>2, <2>3
  <2>4. CASE k \in {5, 6, 7, 8}
    BY <1>2, <2>1, <2>2, <2>4
  <2>5. CASE k \in {9}
    BY <1>2, <2>1, <2>2, <2>5
  <2> QED
    BY <2>1, <2>3, <2>4, <2>5
<1> QED
  BY <1>3, <1>4, <1>5

(* What is ahead after each statement of noop.                              *)
LEMMA NoopTrack ==
  ASSUME NEW s \in Track("noop"), s # <<>>
  PROVE  /\ Tail(s) \in Track("noop")
         /\ Head(s) \in {"getMemory", "ensureClaimTarget", "citeTarget",
                        "createClaim", "backfillVersion", "backfillCurrent"}
         /\ Head(s) = "getMemory" => Ahead(Tail(s)) =
              {"ensureClaimTarget", "citeTarget"}
         /\ Head(s) = "ensureClaimTarget" => Ahead(Tail(s)) =
              {"citeTarget"}
         /\ Head(s) = "citeTarget" => \/ Ahead(Tail(s)) = {}
                                     \/ Ahead(Tail(s)) = {"citeTarget"}
         /\ Head(s) = "createClaim" => Ahead(Tail(s)) =
              {"backfillVersion", "backfillCurrent", "citeTarget"}
         /\ Head(s) = "backfillVersion" => Ahead(Tail(s)) =
              {"backfillCurrent", "citeTarget"}
         /\ Head(s) = "backfillCurrent" => Ahead(Tail(s)) =
              {"citeTarget"}
<1> DEFINE p == Program["noop"]
           b == BackfillProgram \o Decided("noop")
<1>1. /\ p \in Seq(Statements) /\ Len(p) = 3
      /\ p[1] = "getMemory" /\ p[2] = "ensureClaimTarget"
      /\ p[3] = "citeTarget"
  BY DEF Program, NoopProgram, EnsureProgram, Statements
<1>2. /\ b \in Seq(Statements) /\ Len(b) = 5
      /\ b[1] = "createClaim" /\ b[2] = "backfillVersion"
      /\ b[3] = "backfillCurrent" /\ b[4] = "citeTarget"
      /\ b[5] = "citeTarget"
  BY DEF Program, NoopProgram, EnsureProgram, Statements, Decided, BackfillProgram
<1>3. s \in Suffixes(p) \/ s \in Suffixes(b)
  BY DEF Track
<1> HIDE DEF p, b
<1>4. CASE s \in Suffixes(p)
  <2>1. PICK k \in 1..3 : /\ Head(s) = p[k]
                           /\ Tail(s) \in Suffixes(p)
                           /\ Ahead(Tail(s)) = {p[i] : i \in (k + 1)..3}
    BY <1>1, <1>4, SuffixTail
  <2>2. Tail(s) \in Track("noop")
    BY <2>1 DEF Track, p, b
  <2>3. CASE k \in {1, 2, 3}
    BY <1>1, <2>1, <2>2, <2>3
  <2> QED
    BY <2>1, <2>3
<1>5. CASE s \in Suffixes(b)
  <2>1. PICK k \in 1..5 : /\ Head(s) = b[k]
                           /\ Tail(s) \in Suffixes(b)
                           /\ Ahead(Tail(s)) = {b[i] : i \in (k + 1)..5}
    BY <1>2, <1>5, SuffixTail
  <2>2. Tail(s) \in Track("noop")
    BY <2>1 DEF Track, p, b
  <2>3. CASE k \in {1, 2, 3, 4}
    BY <1>2, <2>1, <2>2, <2>3
  <2>4. CASE k \in {5}
    BY <1>2, <2>1, <2>2, <2>4
  <2> QED
    BY <2>1, <2>3, <2>4
<1> QED
  BY <1>3, <1>4, <1>5

(* What is ahead after each statement of remove.                            *)
LEMMA RemoveTrack ==
  ASSUME NEW s \in Track("remove"), s # <<>>
  PROVE  /\ Tail(s) \in Track("remove")
         /\ Head(s) \in {"getClaimVersion", "softDelete", "closeOld",
                        "invalidateClaim"}
         /\ Head(s) = "getClaimVersion" => Ahead(Tail(s)) =
              {"softDelete"}
         /\ Head(s) = "softDelete" => \/ Ahead(Tail(s)) = {}
                                     \/ Ahead(Tail(s)) = {"closeOld",
                                                  "invalidateClaim"}
         /\ Head(s) = "closeOld" => Ahead(Tail(s)) =
              {"invalidateClaim"}
         /\ Head(s) = "invalidateClaim" => Ahead(Tail(s)) =
              {}
<1> DEFINE p == Program["remove"]
           b == <<"softDelete">> \o RemoveClaim
<1>1. /\ p \in Seq(Statements) /\ Len(p) = 2
      /\ p[1] = "getClaimVersion" /\ p[2] = "softDelete"
  BY DEF Program, RemoveProgram, Statements
<1>2. /\ b \in Seq(Statements) /\ Len(b) = 3
      /\ b[1] = "softDelete" /\ b[2] = "closeOld"
      /\ b[3] = "invalidateClaim"
  BY DEF RemoveClaim, Statements
<1>3. s \in Suffixes(p) \/ s \in Suffixes(b)
  BY DEF Track
<1> HIDE DEF p, b
<1>4. CASE s \in Suffixes(p)
  <2>1. PICK k \in 1..2 : /\ Head(s) = p[k]
                           /\ Tail(s) \in Suffixes(p)
                           /\ Ahead(Tail(s)) = {p[i] : i \in (k + 1)..2}
    BY <1>1, <1>4, SuffixTail
  <2>2. Tail(s) \in Track("remove")
    BY <2>1 DEF Track, p, b
  <2>3. CASE k \in {1, 2}
    BY <1>1, <2>1, <2>2, <2>3
  <2> QED
    BY <2>1, <2>3
<1>5. CASE s \in Suffixes(b)
  <2>1. PICK k \in 1..3 : /\ Head(s) = b[k]
                           /\ Tail(s) \in Suffixes(b)
                           /\ Ahead(Tail(s)) = {b[i] : i \in (k + 1)..3}
    BY <1>2, <1>5, SuffixTail
  <2>2. Tail(s) \in Track("remove")
    BY <2>1 DEF Track, p, b
  <2>3. CASE k \in {1, 2, 3}
    BY <1>2, <2>1, <2>2, <2>3
  <2> QED
    BY <2>1, <2>3
<1> QED
  BY <1>3, <1>4, <1>5

(* The operations that are one statement.                                  *)
LEMMA ShortTrack ==
  ASSUME NEW op \in {"archive", "verbatim", "clarify"},
         NEW s \in Track(op), s # <<>>
  PROVE  /\ Tail(s) \in Track(op) /\ Ahead(Tail(s)) = {}
         /\ Head(s) = CASE op = "archive"  -> "softDelete"
                        [] op = "verbatim" -> "storeMemory"
                        [] op = "clarify"  -> "storeClarification"
<1> DEFINE p == Program[op]
<1>1. /\ p \in Seq(Statements) /\ Len(p) = 1
      /\ p[1] = CASE op = "archive"  -> "softDelete"
                  [] op = "verbatim" -> "storeMemory"
                  [] op = "clarify"  -> "storeClarification"
  <2>1. CASE op = "archive"
    BY <2>1 DEF Program, ArchiveProgram, Statements
  <2>2. CASE op = "verbatim"
    BY <2>2 DEF Program, VerbatimProgram, Statements
  <2>3. CASE op = "clarify"
    BY <2>3 DEF Program, ClarifyProgram, Statements
  <2> QED
    BY <2>1, <2>2, <2>3
<1>2. s \in Suffixes(p)
  BY DEF Track
<1> HIDE DEF p
<1>3. PICK k \in 1..1 : /\ Head(s) = p[k]
                        /\ Tail(s) \in Suffixes(p)
                        /\ Ahead(Tail(s)) = {p[i] : i \in (k + 1)..1}
  BY <1>1, <1>2, SuffixTail
<1>4. Tail(s) \in Track(op)
  BY <1>3 DEF Track, p
<1> QED
  BY <1>1, <1>3, <1>4

(* Running a statement and giving up both stay on the track.               *)
LEMMA TrackTail ==
  ASSUME NEW op \in Operations
  PROVE  /\ \A s \in Track(op) : s # <<>> => Tail(s) \in Track(op)
         /\ <<>> \in Track(op)
<1>1. ASSUME NEW s \in Track(op), s # <<>>
      PROVE  Tail(s) \in Track(op)
  BY <1>1, AddTrack, UpdateTrack, SupersedeTrack, DeleteTrack, NoopTrack,
     RemoveTrack, ShortTrack DEF Operations
<1>2. <<>> \in Track(op)
  <2> DEFINE p == Program[op]
  <2>1. p \in Seq(Statements)
    BY ProgramTyped
  <2> HIDE DEF p
  <2>2. SubSeq(p, Len(p) + 1, Len(p)) = <<>> /\ Len(p) + 1 \in 1..(Len(p) + 1)
    BY <2>1
  <2>3. <<>> \in Suffixes(p)
    BY <2>1, <2>2, SuffixForm
  <2> QED
    BY <2>3 DEF Track, p
<1> QED
  BY <1>1, <1>2

(* An operation starts at the beginning of its track.                      *)
LEMMA TrackStart ==
  ASSUME NEW op \in Operations
  PROVE  Program[op] \in Track(op)
<1> DEFINE p == Program[op]
<1>1. p \in Seq(Statements)
  BY ProgramTyped
<1> HIDE DEF p
<1>2. SubSeq(p, 1, Len(p)) = p /\ 1 \in 1..(Len(p) + 1)
  BY <1>1
<1>3. p \in Suffixes(p)
  BY <1>1, <1>2, SuffixForm
<1> QED
  BY <1>3 DEF Track, p

(* The backfill starts at the beginning of its track, and so does the      *)
(* deletion of a claim.                                                    *)
LEMMA TrackDetour ==
  ASSUME NEW op \in Operations, NEW s \in Track(op), s # <<>>
  PROVE  /\ Head(s) = "ensureClaimTarget" =>
              BackfillProgram \o Tail(s) \in Track(op)
         /\ Head(s) = "getClaimVersion" =>
              Tail(s) \o RemoveClaim \in Track(op)
<1> DEFINE p == Program[op]
<1>1. ASSUME NEW b \in Seq(Statements)
      PROVE  b \in Suffixes(b)
  <2>1. SubSeq(b, 1, Len(b)) = b /\ 1 \in 1..(Len(b) + 1)
    BY <1>1
  <2> QED
    BY <1>1, <2>1, SuffixForm
<1>2. p \in Seq(Statements)
  BY ProgramTyped
<1>3. CASE Head(s) = "ensureClaimTarget"
  <2>1. op \in {"update", "supersede", "delete", "noop"}
    BY <1>3, AddTrack, RemoveTrack, ShortTrack DEF Operations
  <2>2. /\ p[2] = "ensureClaimTarget" /\ Len(p) >= 2
        /\ \A k \in 1..Len(p) : p[k] = "ensureClaimTarget" => k = 2
    <3>1. CASE op = "update"
      BY <3>1 DEF Program, EnsureProgram, UpdateProgram
    <3>2. CASE op = "supersede"
      BY <3>2 DEF Program, EnsureProgram, SupersedeProgram
    <3>3. CASE op = "delete"
      BY <3>3 DEF Program, EnsureProgram, DeleteProgram
    <3>4. CASE op = "noop"
      BY <3>4 DEF Program, EnsureProgram, NoopProgram
    <3> QED
      BY <2>1, <3>1, <3>2, <3>3, <3>4
  <2>3. /\ Decided(op) \in Seq(Statements)
        /\ BackfillProgram \o Decided(op) \in Seq(Statements)
    BY <1>2, <2>2, BackfillFacts DEF Decided
  <2>4. BackfillProgram \o Decided(op) \in Track(op)
    BY <1>1, <2>1, <2>3 DEF Track
  <2>5. s \in Suffixes(p)
    <3>1. s \notin Suffixes(BackfillProgram \o Decided(op))
      <4> DEFINE d == Decided(op)
                 b == BackfillProgram \o d
      <4>1. /\ DOMAIN b = 1..(4 + Len(d)) /\ Len(b) = 4 + Len(d)
            /\ \A i \in 1..Len(b) : b[i] # "ensureClaimTarget"
        <5>1. \A i \in 1..Len(d) : d[i] # "ensureClaimTarget"
          BY <1>2, <2>2 DEF Decided
        <5>2. Len(d) \in Nat
          BY <2>3
        <5> QED
          BY <2>3, <5>1, <5>2, BackfillFacts
      <4>2. b \in Seq(Statements)
        BY <2>3
      <4> HIDE DEF b, d
      <4>3. ASSUME s \in Suffixes(b)
            PROVE  \E k \in 1..Len(b) : Head(s) = b[k]
        BY <4>2, <4>3, SuffixTail
      <4> QED
        BY <1>3, <4>1, <4>3 DEF b, d
    <3> QED
      BY <2>1, <3>1 DEF Track
  <2>6. PICK k \in 1..(Len(p) + 1) : s = SubSeq(p, k, Len(p))
    BY <1>2, <2>5, SuffixForm
  <2> HIDE DEF p
  <2>7. k # Len(p) + 1 /\ Head(s) = p[k] /\ Tail(s) = SubSeq(p, k + 1, Len(p))
    BY <1>2, <2>6
  <2>8. Tail(s) = Decided(op)
    BY <1>3, <2>2, <2>7 DEF Decided, p
  <2> QED
    BY <1>3, <2>4, <2>8
<1>4. CASE Head(s) = "getClaimVersion"
  <2>1. op = "remove"
    BY <1>4, AddTrack, UpdateTrack, SupersedeTrack, DeleteTrack, NoopTrack,
       ShortTrack DEF Operations
  <2>2. p = <<"getClaimVersion", "softDelete">>
    BY <2>1 DEF Program, RemoveProgram
  <2> DEFINE b == <<"softDelete">> \o RemoveClaim
  <2>3. /\ b \in Seq(Statements) /\ Len(b) = 3
        /\ \A i \in 1..3 : b[i] # "getClaimVersion"
    BY DEF RemoveClaim, Statements
  <2>4. b \in Track(op)
    BY <1>1, <2>1, <2>3 DEF Track
  <2> HIDE DEF b
  <2>5. s \in Suffixes(p)
    <3>1. s \notin Suffixes(b)
      BY <1>4, <2>3, SuffixTail
    <3> QED
      BY <2>1, <3>1 DEF Track, b
  <2>6. PICK k \in 1..3 : s = SubSeq(p, k, 2)
    <3>1. Len(p) = 2 /\ s \in {SubSeq(p, k, Len(p)) : k \in 1..(Len(p) + 1)}
      BY <1>2, <2>2, <2>5, SuffixForm
    <3> QED
      BY <3>1
  <2> HIDE DEF p
  <2>7. Tail(s) = <<"softDelete">>
    <3>1. /\ p \in Seq(Statements) /\ Len(p) = 2
          /\ p[1] = "getClaimVersion" /\ p[2] = "softDelete"
      BY <2>2 DEF Statements
    <3>2. k = 1
      BY <1>4, <2>6, <3>1
    <3>3. s = p
      BY <2>6, <3>1, <3>2
    <3> QED
      BY <2>2, <3>3
  <2> QED
    BY <1>4, <2>4, <2>7 DEF b
<1> QED
  BY <1>3, <1>4

-----------------------------------------------------------------------------
(* Whatever fails: the statements that change nothing SInv looks at.       *)

(* A step that keeps which memories are retrieved, which claims are        *)
(* deleted, and the claim and memory of every version.                     *)
SameRows ==
  /\ DOMAIN memories' = DOMAIN memories
  /\ \A m \in DOMAIN memories : memories'[m].life = memories[m].life
  /\ DOMAIN claims' = DOMAIN claims
  /\ \A c \in DOMAIN claims : claims'[c].status = claims[c].status
  /\ DOMAIN versions' = DOMAIN versions
  /\ \A v \in DOMAIN versions :
       /\ versions'[v].claim = versions[v].claim
       /\ versions'[v].memory = versions[v].memory

(* The locals SInv looks at, after a statement that changes none of them.  *)
SameLocals(l, k) ==
  /\ k.op = l.op /\ k.target = l.target /\ k.claim = l.claim
  /\ k.version = l.version /\ k.projection = l.projection
  /\ k.newVersion = l.newVersion /\ k.todo = Tail(l.todo)

(* Which memories are served and which versions there are of one.          *)
LEMMA SameServed ==
  ASSUME SameRows
  PROVE  /\ Candidates' = Candidates
         /\ \A v \in DOMAIN versions : Served(v)' = Served(v)
         /\ \A m : VersionsOf(m)' = VersionsOf(m)
<1>1. Candidates' = Candidates
  BY DEF SameRows, Candidates
<1>2. \A m : VersionsOf(m)' = VersionsOf(m)
  BY DEF SameRows, VersionsOf
<1> QED
  BY <1>1, <1>2 DEF SameRows, Served

(* Such a step keeps what the tables say.                                  *)
LEMMA SameTables ==
  ASSUME TablesSerial, SameRows
  PROVE  TablesSerial'
<1>1. VersionRowsAgree'
  BY DEF TablesSerial, VersionRowsAgree, SameRows
<1>2. MemoryIdIsUnique'
  BY DEF TablesSerial, MemoryIdIsUnique, SameRows
<1>3. OneServedVersion'
  BY SameServed DEF TablesSerial, OneServedVersion, SameRows
<1>4. DeletedServesNothing'
  BY SameServed DEF TablesSerial, DeletedServesNothing, VersionRowsAgree, SameRows
<1> QED
  BY <1>1, <1>2, <1>3, <1>4 DEF TablesSerial

(* The statements after which the locals mean something new.               *)
Turning ==
  {"getMemory", "ensureClaimTarget", "getClaimVersion", "createClaim",
   "storeMemory", "releaseOld", "backfillVersion", "softDelete"}

(* The locals mean what they meant.                                        *)
LEMMA SameLocal ==
  ASSUME TypeOK, SameRows, TablesSerial, NEW r \in Requests,
         request[r].op \in Operations, request[r].todo # <<>>,
         LocalAgrees(request[r]), LocalSerial(request[r]),
         SameLocals(request[r], request'[r]),
         Head(request[r].todo) \notin Turning
  PROVE  LocalSerial(request[r])'
<1> DEFINE l == request[r]
           A == Ahead(l.todo)
           B == Ahead(Tail(l.todo))
<1>1. A = {Head(l.todo)} \cup B
  BY LocalFields, AheadTail
<1>2. /\ TargetServed(l) /\ ClaimKnown(l) /\ ProjectionFree(l)
      /\ l.op # "none" /\ l.todo \in Track(l.op)
  BY DEF LocalSerial, Operations
<1>3. request'[r].todo \in Track(l.op)
  BY <1>2, TrackTail DEF SameLocals
<1>4. /\ l.version # None => l.version \in DOMAIN versions
      /\ l.newVersion # None => l.newVersion \in DOMAIN versions
      /\ l.op \in Targeted => l.target \in DOMAIN memories
  BY DEF LocalAgrees, OldVersionKnown, NewVersionKnown
<1> HIDE DEF A, B
<1>5. TargetServed(request[r])'
  <2>1. "getClaimVersion" \in B => l.target \in DOMAIN memories
    <3>1. ASSUME "getClaimVersion" \in B PROVE l.op = "remove"
      BY <1>1, <1>2, <3>1, AddTrack, UpdateTrack, SupersedeTrack, DeleteTrack,
         NoopTrack, RemoveTrack, ShortTrack DEF Operations, B
    <3> QED
      BY <1>4, <3>1 DEF Targeted
  <2> QED
    BY <1>1, <1>2, <2>1, SameServed DEF TargetServed, SameLocals, SameRows, Turning, A, B
<1>6. ClaimKnown(request[r])'
  <2>1. ASSUME NEW v \in DOMAIN versions', l.claim # None,
               versions'[v].claim = l.claim, Served(v)'
        PROVE  versions'[v].memory = l.target \/ v = l.newVersion
    BY <1>2, <2>1, SameServed DEF ClaimKnown, SameRows
  <2> QED
    BY <1>1, <1>2, <1>4, <2>1
       DEF ClaimKnown, SameLocals, SameRows, Turning, ClaimReads, A, B
<1>7. ProjectionFree(request[r])'
  BY <1>1, <1>2, <1>4, SameServed
     DEF ProjectionFree, SameLocals, SameRows, Turning, A, B
<1> QED
  BY <1>2, <1>3, <1>5, <1>6, <1>7 DEF LocalSerial, SameLocals

(* The statements that edit neither a life, a status nor a memory_id.      *)
LEMMA QuietStatement ==
  ASSUME IInv, NEW r \in Requests, LocalSerial(request[r]),
         request[r].op \in Operations,
         \/ StoreCmo(r) \/ StoreFacts(r) \/ DeleteFacts(r) \/ UpdateContent(r)
         \/ RelinkCmo(r) \/ CloseOld(r) \/ LinkOld(r) \/ SetCurrent(r)
         \/ BackfillCurrent(r) \/ AddEvidence(r) \/ CiteTarget(r)
  PROVE  /\ SameRows
         /\ SameLocals(request[r], request'[r])
         /\ request[r].todo # <<>> /\ Head(request[r].todo) \notin Turning
<1> DEFINE l == request[r]
           p == l.projection
           m == l.target
           v == l.version
<1>t. /\ \A i \in DOMAIN memories : memories[i] \in MemoryRow
      /\ \A i \in DOMAIN claims : claims[i] \in ClaimRow
      /\ \A i \in DOMAIN versions : versions[i] \in VersionRow
  BY TableFacts DEF IInv
<1>l. l \in Local /\ request \in [Requests -> Local] /\ l.todo \in Seq(Statements)
  BY LocalFields DEF IInv, TypeOK
<1>p. /\ \A k : Proceed(r, l) => request'[r] = [l EXCEPT !.todo = Tail(l.todo)]
      /\ Proceed(r, l) => SameLocals(l, request'[r])
  BY <1>l DEF Proceed, Continue, Local, SameLocals
<1>m. ASSUME NEW i, NEW e, UNCHANGED <<claims, versions>>,
             memories' = [memories EXCEPT ![i] = e],
             i \in DOMAIN memories => e.life = memories[i].life
      PROVE  SameRows
  BY <1>m DEF SameRows
<1>v. ASSUME NEW i, NEW e, UNCHANGED <<memories, claims>>,
             versions' = [versions EXCEPT ![i] = e],
             i \in DOMAIN versions =>
               e.claim = versions[i].claim /\ e.memory = versions[i].memory
      PROVE  SameRows
  BY <1>v DEF SameRows
<1>u. ASSUME UNCHANGED <<memories, claims, versions>>
      PROVE  SameRows
  BY <1>u DEF SameRows
<1>1. CASE StoreCmo(r)
  <2>1. request'[r] = [[l EXCEPT !.newCmo = Len(cmos) + 1]
                          EXCEPT !.todo = Tail(l.todo)]
    BY <1>1, <1>l DEF StoreCmo, Proceed, Continue
  <2>2. SameLocals(l, request'[r])
    BY <1>l, <2>1 DEF SameLocals, Local
  <2> QED
    BY <1>1, <1>u, <2>2 DEF StoreCmo, At, Turning
<1>2. CASE StoreFacts(r)
  <2>1. memories' = [memories EXCEPT ![p] =
                       [memories[p] EXCEPT !.facts = memories[p].facts \cup {r}]]
    BY <1>2 DEF StoreFacts
  <2>2. SameRows
    BY <1>2, <1>t, <1>m, <2>1 DEF StoreFacts, MemoryRow
  <2> QED
    BY <1>2, <1>p, <2>2 DEF StoreFacts, At, Turning
<1>3. CASE DeleteFacts(r)
  <2>1. memories' = [memories EXCEPT ![p] = [memories[p] EXCEPT !.facts = {}]]
    BY <1>3 DEF DeleteFacts
  <2>2. SameRows
    BY <1>3, <1>t, <1>m, <2>1 DEF DeleteFacts, MemoryRow
  <2> QED
    BY <1>3, <1>p, <2>2 DEF DeleteFacts, At, Turning
<1>4. CASE UpdateContent(r)
  <2>1. CASE memories' = memories
    BY <1>4, <1>p, <1>u, <2>1 DEF UpdateContent, At, Turning
  <2>2. CASE memories' = [memories EXCEPT ![m] = [memories[m] EXCEPT !.content = r]]
    <3>1. SameRows
      BY <1>4, <1>t, <1>m, <2>2 DEF UpdateContent, MemoryRow
    <3> QED
      BY <1>4, <1>p, <3>1 DEF UpdateContent, At, Turning
  <2> QED
    BY <1>4, <2>1, <2>2 DEF UpdateContent
<1>5. CASE RelinkCmo(r)
  <2>1. memories' = [memories EXCEPT ![p] = [memories[p] EXCEPT !.cmo = l.newCmo]]
    BY <1>5 DEF RelinkCmo
  <2>2. SameRows
    BY <1>5, <1>t, <1>m, <2>1 DEF RelinkCmo, MemoryRow
  <2> QED
    BY <1>5, <1>p, <2>2 DEF RelinkCmo, At, Turning
<1>6. CASE CloseOld(r)
  <2>1. versions' = [versions EXCEPT ![v] =
                       [versions[v] EXCEPT !.open = FALSE,
                          !.supersededBy = l.newVersion]]
    BY <1>6 DEF CloseOld
  <2>2. SameRows
    BY <1>6, <1>t, <1>v, <2>1 DEF CloseOld, VersionRow
  <2> QED
    BY <1>6, <1>p, <2>2 DEF CloseOld, At, Turning
<1>7. CASE LinkOld(r)
  <2>1. versions' = [versions EXCEPT ![v] =
                       [versions[v] EXCEPT !.supersededBy = l.newVersion]]
    BY <1>7 DEF LinkOld
  <2>2. SameRows
    BY <1>7, <1>t, <1>v, <2>1 DEF LinkOld, VersionRow
  <2> QED
    BY <1>7, <1>p, <2>2 DEF LinkOld, At, Turning
<1>8. CASE SetCurrent(r) \/ BackfillCurrent(r)
  <2>1. PICK w : PointClaim(r, w)
    BY <1>8 DEF SetCurrent, BackfillCurrent
  <2>2. /\ l.todo # <<>> /\ Head(l.todo) \in {"setCurrent", "backfillCurrent"}
    BY <1>8 DEF SetCurrent, BackfillCurrent, At
  <2>3. Head(l.todo) \in Ahead(l.todo)
    BY <1>l, <2>2, AheadTail
  <2>4. /\ l.claim # None => claims[l.claim].status = "active"
    BY <2>2, <2>3 DEF LocalSerial, ClaimKnown, PointClaimStatements
  <2>5. l.claim \notin DOMAIN claims \/ claims[l.claim].status = "active"
    BY <2>4, TableFacts DEF IInv, None
  <2>6. SameRows
    BY <2>1, <2>5 DEF PointClaim, SameRows
  <2> QED
    BY <1>p, <2>1, <2>2, <2>6 DEF PointClaim, Turning
<1>9. CASE AddEvidence(r) \/ CiteTarget(r)
  BY <1>9, <1>p, <1>u DEF AddEvidence, CiteTarget, Cite, At, Turning
<1> QED
  BY <1>1, <1>2, <1>3, <1>4, <1>5, <1>6, <1>7, <1>8, <1>9

-----------------------------------------------------------------------------
(* Whatever fails: the statements that do.                                 *)

(* What is known of a request that runs a statement.                       *)
AtWork(r) ==
  /\ IInv /\ TablesSerial
  /\ r \in Requests /\ LocalSerial(request[r])
  /\ request[r].op \in Operations /\ request[r].todo # <<>>

(* Its locals, what SInv says of them, and what is ahead of it.             *)
LEMMA WorkFacts ==
  ASSUME NEW r, AtWork(r)
  PROVE  LET l == request[r] IN
         /\ TypeOK /\ l \in Local /\ request \in [Requests -> Local]
         /\ l.todo \in Seq(Statements) /\ Tail(l.todo) \in Seq(Statements)
         /\ l.todo \in Track(l.op) /\ Tail(l.todo) \in Track(l.op)
         /\ Ahead(l.todo) = {Head(l.todo)} \cup Ahead(Tail(l.todo))
         /\ TargetServed(l) /\ ClaimKnown(l) /\ ProjectionFree(l)
         /\ LocalAgrees(l)
         /\ l.op \in Targeted => l.target \in DOMAIN memories
         /\ l.version # None => l.version \in DOMAIN versions
         /\ l.newVersion # None => l.newVersion \in DOMAIN versions
         /\ l.target \in Nat /\ l.claim \in Nat /\ l.version \in Nat
         /\ l.projection \in Nat /\ l.newVersion \in Nat
<1> DEFINE l == request[r]
<1>1. TypeOK /\ LocalAgrees(l)
  BY DEF AtWork, IInv, LocalsAgree
<1>2. /\ l \in Local /\ request \in [Requests -> Local]
      /\ l.todo \in Seq(Statements) /\ Tail(l.todo) \in Seq(Statements)
      /\ l.target \in Nat /\ l.claim \in Nat /\ l.version \in Nat
      /\ l.projection \in Nat /\ l.newVersion \in Nat
  BY <1>1, LocalFields DEF AtWork, TypeOK
<1>3. Ahead(l.todo) = {Head(l.todo)} \cup Ahead(Tail(l.todo))
  BY <1>2, AheadTail DEF AtWork
<1>4. /\ l.todo \in Track(l.op) /\ TargetServed(l) /\ ClaimKnown(l)
      /\ ProjectionFree(l)
  BY DEF AtWork, LocalSerial, Operations
<1>5. Tail(l.todo) \in Track(l.op)
  BY <1>4, TrackTail DEF AtWork
<1>6. /\ l.op \in Targeted => l.target \in DOMAIN memories
      /\ l.version # None => l.version \in DOMAIN versions
      /\ l.newVersion # None => l.newVersion \in DOMAIN versions
  BY <1>1 DEF LocalAgrees, OldVersionKnown, NewVersionKnown
<1> QED
  BY <1>1, <1>2, <1>3, <1>4, <1>5, <1>6

(* A memory is inserted: no version is for it yet.                         *)
LEMMA SerialStoreMemory ==
  ASSUME NEW r, AtWork(r), StoreMemory(r) \/ InsertClarification(r)
  PROVE  TablesSerial' /\ LocalSerial(request[r])'
<1> DEFINE l == request[r]
           A == Ahead(l.todo)
           B == Ahead(Tail(l.todo))
           n == Len(memories) + 1
<1>f. /\ TypeOK /\ l \in Local /\ request \in [Requests -> Local]
      /\ l.todo \in Track(l.op) /\ Tail(l.todo) \in Track(l.op)
      /\ A = {Head(l.todo)} \cup B
      /\ TargetServed(l) /\ ClaimKnown(l) /\ ProjectionFree(l)
      /\ l.op \in Targeted => l.target \in DOMAIN memories
      /\ l.newVersion # None => l.newVersion \in DOMAIN versions
  BY WorkFacts
<1>t. /\ DOMAIN memories = 1..Len(memories) /\ Len(memories) \in Nat
      /\ \A m \in DOMAIN memories : memories[m] \in MemoryRow
      /\ VersionRowsAgree
  BY <1>f, TableFacts DEF AtWork, TablesSerial, TypeOK
<1>1. PICK life \in {"active", "needs_clarification"} :
        /\ InsertMemory(r, life)
        /\ Head(l.todo) = IF life = "active" THEN "storeMemory"
                          ELSE "storeClarification"
  BY DEF StoreMemory, InsertClarification, At
<1>2. /\ DOMAIN memories' = DOMAIN memories \cup {n}
      /\ n \notin DOMAIN memories /\ n # None
      /\ \A m \in DOMAIN memories : memories'[m] = memories[m]
      /\ memories'[n].life = life
      /\ UNCHANGED <<claims, versions>>
  BY <1>1, <1>t DEF InsertMemory, TypeOK, None
<1>3. /\ request'[r].op = l.op /\ request'[r].target = l.target
      /\ request'[r].claim = l.claim /\ request'[r].version = l.version
      /\ request'[r].newVersion = l.newVersion
      /\ request'[r].projection = n /\ request'[r].todo = Tail(l.todo)
  BY <1>1, <1>f DEF InsertMemory, Proceed, Continue, Local, AtWork
<1>4. /\ Candidates' = Candidates \cup (IF life = "active" THEN {n} ELSE {})
      /\ \A v \in DOMAIN versions : Served(v)' = Served(v)
      /\ \A m : VersionsOf(m)' = VersionsOf(m)
      /\ VersionsOf(n) = {}
  <2>1. Candidates' = Candidates \cup (IF life = "active" THEN {n} ELSE {})
    BY <1>2 DEF Candidates
  <2>2. \A m : VersionsOf(m)' = VersionsOf(m)
    BY <1>2 DEF VersionsOf
  <2>3. \A v \in DOMAIN versions : versions[v].memory # n
    BY <1>2, <1>t DEF VersionRowsAgree
  <2>4. \A v \in DOMAIN versions : Served(v)' = Served(v)
    BY <1>2, <2>1, <2>3 DEF Served
  <2> QED
    BY <2>1, <2>2, <2>3, <2>4 DEF VersionsOf
<1>5. TablesSerial'
  <2>1. VersionRowsAgree'
    BY <1>2, <1>t DEF VersionRowsAgree
  <2>2. MemoryIdIsUnique'
    BY <1>2 DEF AtWork, TablesSerial, MemoryIdIsUnique
  <2>3. OneServedVersion' /\ DeletedServesNothing'
    BY <1>2, <1>4 DEF AtWork, TablesSerial, OneServedVersion, DeletedServesNothing
  <2> QED
    BY <2>1, <2>2, <2>3 DEF TablesSerial
<1>6. /\ l.op \in {"add", "supersede", "verbatim", "clarify"}
      /\ l.op = "clarify" <=> life # "active"
      /\ B \cap {"ensureClaimTarget", "backfillVersion", "getClaimVersion",
                 "invalidateClaim", "releaseOld", "getMemory"} = {}
      /\ l.op = "clarify" => B = {}
  BY <1>1, <1>f, AddTrack, UpdateTrack, SupersedeTrack, DeleteTrack, NoopTrack,
     RemoveTrack, ShortTrack DEF AtWork, Operations
<1> HIDE DEF A, B
<1>7. TargetServed(request[r])'
  BY <1>f, <1>3, <1>6 DEF TargetServed, B
<1>8. ClaimKnown(request[r])'
  BY <1>f, <1>1, <1>2, <1>3, <1>4, <1>6 DEF ClaimKnown, ClaimReads, A, B
<1>9. ProjectionFree(request[r])'
  BY <1>f, <1>2, <1>3, <1>4, <1>6 DEF ProjectionFree, A, B
<1> QED
  BY <1>f, <1>3, <1>5, <1>7, <1>8, <1>9 DEF LocalSerial

(* A memory is retired: fewer memories are served.                         *)
LEMMA SerialRetire ==
  ASSUME NEW r, AtWork(r), ExpireMemory(r) \/ SoftDelete(r)
  PROVE  TablesSerial' /\ LocalSerial(request[r])'
<1> DEFINE l == request[r]
           A == Ahead(l.todo)
           B == Ahead(Tail(l.todo))
<1>f. /\ TypeOK /\ l \in Local /\ request \in [Requests -> Local]
      /\ l.todo \in Track(l.op) /\ Tail(l.todo) \in Track(l.op)
      /\ A = {Head(l.todo)} \cup B
      /\ TargetServed(l) /\ ClaimKnown(l) /\ ProjectionFree(l)
      /\ l.op \in Targeted => l.target \in DOMAIN memories
      /\ l.newVersion # None => l.newVersion \in DOMAIN versions
  BY WorkFacts
<1>t. \A m \in DOMAIN memories : memories[m] \in MemoryRow
  BY <1>f, TableFacts
<1>1. Head(l.todo) \in {"expireMemory", "softDelete"}
  BY DEF ExpireMemory, SoftDelete, At
<1>2. /\ l.op \in {"supersede", "delete", "remove", "archive"}
      /\ B \cap {"ensureClaimTarget", "backfillVersion", "getClaimVersion",
                 "releaseOld", "getMemory", "softDelete", "createClaim"} = {}
      /\ "createVersion" \in B => "storeMemory" \in B
  BY <1>1, <1>f, AddTrack, UpdateTrack, SupersedeTrack, DeleteTrack, NoopTrack,
     RemoveTrack, ShortTrack DEF AtWork, Operations
<1>3. /\ DOMAIN memories' = DOMAIN memories
      /\ \A m \in DOMAIN memories :
           IF m = l.target THEN memories'[m].life \in {"expired", "deleted"}
           ELSE memories'[m].life = memories[m].life
      /\ UNCHANGED <<claims, versions>>
      /\ request'[r] = [l EXCEPT !.todo = Tail(l.todo)]
  <2>1. CASE ExpireMemory(r)
    BY <2>1, <1>f, <1>t
       DEF ExpireMemory, Proceed, Continue, MemoryRow, AtWork
  <2>2. CASE SoftDelete(r)
    BY <2>2, <1>f, <1>t DEF SoftDelete, Proceed, Continue, MemoryRow, AtWork
  <2> QED
    BY <2>1, <2>2
<1>4. SameLocals(l, request'[r])
  BY <1>3, <1>f DEF SameLocals, Local
<1>5. /\ Candidates' = Candidates \ {l.target}
      /\ \A v \in DOMAIN versions : Served(v)' => Served(v)
      /\ \A m : VersionsOf(m)' = VersionsOf(m)
  <2>1. Candidates' = Candidates \ {l.target}
    BY <1>3 DEF Candidates
  <2> QED
    BY <2>1, <1>3 DEF Served, VersionsOf
<1>6. TablesSerial'
  <2>1. VersionRowsAgree'
    BY <1>3 DEF AtWork, TablesSerial, VersionRowsAgree
  <2>2. MemoryIdIsUnique'
    BY <1>3 DEF AtWork, TablesSerial, MemoryIdIsUnique
  <2>3. OneServedVersion' /\ DeletedServesNothing'
    BY <1>3, <1>5 DEF AtWork, TablesSerial, OneServedVersion, DeletedServesNothing
  <2> QED
    BY <2>1, <2>2, <2>3 DEF TablesSerial
<1> HIDE DEF A, B
<1>7. TargetServed(request[r])'
  BY <1>f, <1>2, <1>4, <1>5 DEF TargetServed, SameLocals, B
<1>8. ClaimKnown(request[r])'
  BY <1>f, <1>1, <1>2, <1>3, <1>4, <1>5 DEF ClaimKnown, ClaimReads, SameLocals, A, B
<1>9. ProjectionFree(request[r])'
  BY <1>f, <1>2, <1>3, <1>4, <1>5 DEF ProjectionFree, SameLocals, A, B
<1> QED
  BY <1>f, <1>4, <1>6, <1>7, <1>8, <1>9 DEF LocalSerial, SameLocals

(* What the tables say depends on nothing else.                            *)
LEMMA SerialTablesSame ==
  ASSUME TablesSerial, UNCHANGED <<memories, claims, versions>>
  PROVE  /\ TablesSerial'
         /\ Candidates' = Candidates
         /\ \A v : Served(v)' = Served(v)
         /\ \A m : VersionsOf(m)' = VersionsOf(m)
  BY DEF TablesSerial, VersionRowsAgree, MemoryIdIsUnique, OneServedVersion,
     DeletedServesNothing, Served, Candidates, VersionsOf

(* The target is read.                                                     *)
LEMMA SerialGetMemory ==
  ASSUME NEW r, AtWork(r), GetMemory(r)
  PROVE  TablesSerial' /\ LocalSerial(request[r])'
<1> DEFINE l == request[r]
           A == Ahead(l.todo)
           B == Ahead(Tail(l.todo))
<1>f. /\ TypeOK /\ l \in Local /\ request \in [Requests -> Local]
      /\ l.todo \in Track(l.op) /\ Tail(l.todo) \in Track(l.op)
      /\ A = {Head(l.todo)} \cup B
      /\ TargetServed(l) /\ ClaimKnown(l) /\ ProjectionFree(l)
      /\ l.op \in Targeted => l.target \in DOMAIN memories
  BY WorkFacts
<1>1. /\ Head(l.todo) = "getMemory"
      /\ UNCHANGED <<memories, claims, versions>>
      /\ request'[r].op = l.op /\ request'[r].target = l.target
      /\ request'[r].claim = l.claim /\ request'[r].version = l.version
      /\ request'[r].newVersion = l.newVersion
      /\ request'[r].projection = l.target /\ request'[r].todo = Tail(l.todo)
  BY <1>f DEF GetMemory, At, Proceed, Continue, tables, Local, AtWork
<1>o. l.op \in {"update", "supersede", "delete", "noop"}
  BY <1>1, <1>f, AddTrack, RemoveTrack, ShortTrack DEF AtWork, Operations
<1>2. /\ "ensureClaimTarget" \in B /\ "getClaimVersion" \notin B
      /\ "backfillVersion" \notin B
      /\ "createVersion" \in B => "storeMemory" \in B \/ "releaseOld" \in B
      /\ "invalidateClaim" \in B => "softDelete" \in B
  BY <1>1, <1>f, <1>o, UpdateTrack, SupersedeTrack, DeleteTrack, NoopTrack
     DEF AtWork
<1>3. /\ TablesSerial' /\ Candidates' = Candidates
      /\ \A v : Served(v)' = Served(v)
      /\ \A m : VersionsOf(m)' = VersionsOf(m)
  BY <1>1, SerialTablesSame DEF AtWork
<1>4. l.target \in Candidates
  BY <1>f, <1>2, <1>o DEF TargetServed
<1> HIDE DEF A, B
<1>5. TargetServed(request[r])'
  BY <1>f, <1>o, <1>1, <1>2, <1>3, <1>4 DEF TargetServed, B
<1>6. ClaimKnown(request[r])'
  BY <1>f, <1>o, <1>1, <1>2, <1>3 DEF ClaimKnown, ClaimReads, A, B
<1>7. ProjectionFree(request[r])'
  BY <1>f, <1>o, <1>1, <1>2, <1>3, <1>4 DEF ProjectionFree, Candidates, A, B
<1> QED
  BY <1>f, <1>1, <1>3, <1>5, <1>6, <1>7 DEF LocalSerial

(* What is ahead when the backfill begins.                                 *)
LEMMA AheadBackfill ==
  ASSUME NEW t \in Seq(Statements)
  PROVE  LET b == BackfillProgram \o t IN
         /\ b \in Seq(Statements) /\ b # <<>> /\ Head(b) = "createClaim"
         /\ Ahead(b) = {"createClaim", "backfillVersion", "backfillCurrent",
                       "citeTarget"} \cup Ahead(t)
<1> DEFINE b == BackfillProgram \o t
<1>1. /\ b \in Seq(Statements) /\ DOMAIN b = 1..(4 + Len(t))
      /\ Len(t) \in Nat /\ DOMAIN t = 1..Len(t)
      /\ b[1] = "createClaim" /\ b[2] = "backfillVersion"
      /\ b[3] = "backfillCurrent" /\ b[4] = "citeTarget"
      /\ \A i \in 5..(4 + Len(t)) : b[i] = t[i - 4]
  BY BackfillFacts
<1> HIDE DEF b
<1>2. b # <<>> /\ Head(b) = b[1]
  BY <1>1
<1>3. ASSUME NEW x \in Ahead(b)
      PROVE  x \in {"createClaim", "backfillVersion", "backfillCurrent",
                   "citeTarget"} \cup Ahead(t)
  <2>1. PICK i \in 1..(4 + Len(t)) : x = b[i]
    BY <1>1, <1>3 DEF Ahead
  <2>2. CASE i \in 1..4
    BY <1>1, <2>1, <2>2
  <2>3. CASE i \in 5..(4 + Len(t))
    <3>1. i - 4 \in DOMAIN t /\ x = t[i - 4]
      BY <1>1, <2>1, <2>3
    <3> QED
      BY <3>1 DEF Ahead
  <2> QED
    BY <1>1, <2>2, <2>3
<1>4. ASSUME NEW x \in Ahead(t)
      PROVE  x \in Ahead(b)
  <2>1. PICK i \in 1..Len(t) : x = t[i]
    BY <1>1, <1>4 DEF Ahead
  <2>2. i + 4 \in DOMAIN b /\ b[i + 4] = x
    BY <1>1, <2>1
  <2> QED
    BY <2>2 DEF Ahead
<1>5. {b[1], b[2], b[3], b[4]} \subseteq Ahead(b)
  <2>1. 1 \in DOMAIN b /\ 2 \in DOMAIN b /\ 3 \in DOMAIN b /\ 4 \in DOMAIN b
    BY <1>1
  <2> QED
    BY <2>1 DEF Ahead
<1>6. Ahead(b) = {"createClaim", "backfillVersion", "backfillCurrent",
                  "citeTarget"} \cup Ahead(t)
  BY <1>1, <1>3, <1>4, <1>5
<1> QED
  BY <1>1, <1>2, <1>6 DEF b

(* The version of the target is read, or its backfill begins.              *)
LEMMA SerialEnsure ==
  ASSUME NEW r, AtWork(r), EnsureClaimTarget(r)
  PROVE  TablesSerial' /\ LocalSerial(request[r])'
<1> DEFINE l == request[r]
           A == Ahead(l.todo)
           B == Ahead(Tail(l.todo))
           b == BackfillProgram \o Tail(l.todo)
<1>f. /\ TypeOK /\ l \in Local /\ request \in [Requests -> Local]
      /\ l.todo \in Track(l.op) /\ Tail(l.todo) \in Track(l.op)
      /\ l.todo \in Seq(Statements) /\ Tail(l.todo) \in Seq(Statements)
      /\ A = {Head(l.todo)} \cup B
      /\ TargetServed(l) /\ ClaimKnown(l) /\ ProjectionFree(l)
      /\ LocalAgrees(l)
      /\ l.op \in Targeted => l.target \in DOMAIN memories
  BY WorkFacts
<1>t. /\ DOMAIN claims = 1..Len(claims) /\ DOMAIN versions = 1..Len(versions)
      /\ \A v \in DOMAIN versions : versions[v] \in VersionRow
  BY <1>f, TableFacts
<1>1. /\ Head(l.todo) = "ensureClaimTarget" /\ l.todo # <<>>
      /\ UNCHANGED <<memories, claims, versions>>
  BY DEF EnsureClaimTarget, At, tables
<1>o. l.op \in {"update", "supersede", "delete", "noop"}
  BY <1>1, <1>f, AddTrack, RemoveTrack, ShortTrack DEF AtWork, Operations
<1>2. /\ B \cap {"ensureClaimTarget", "getClaimVersion", "getMemory",
                 "backfillVersion", "createClaim"} = {}
      /\ "createVersion" \in B => "storeMemory" \in B \/ "releaseOld" \in B
      /\ "invalidateClaim" \in B => "softDelete" \in B
  BY <1>1, <1>f, <1>o, UpdateTrack, SupersedeTrack, DeleteTrack, NoopTrack
     DEF AtWork
<1>3. /\ TablesSerial' /\ Candidates' = Candidates
      /\ \A v : Served(v)' = Served(v)
      /\ \A m : VersionsOf(m)' = VersionsOf(m)
  BY <1>1, SerialTablesSame DEF AtWork
<1>4. l.target \in Candidates /\ l.claim = None /\ l.target \in DOMAIN memories
  BY <1>f, <1>1, <1>o DEF TargetServed, ClaimKnown, ClaimReads, Targeted
<1>5. l.newVersion = None /\ l.version = None
  <2>1. Has(l.todo, BeforeOldVersion) /\ Has(l.todo, BeforeNewVersion)
    BY <1>f, <1>1, TailFacts
       DEF Has, BeforeOldVersion, BeforeNewVersion, OldVersionStatements
  <2> QED
    BY <1>f, <2>1 DEF LocalAgrees, OldVersionKnown, NewVersionKnown
<1>6. CASE VersionsOf(l.target) # {}
  <2>1. PICK v \in VersionsOf(l.target) :
          Proceed(r, [l EXCEPT !.claim = versions[v].claim, !.version = v])
    BY <1>6 DEF EnsureClaimTarget
  <2>2. /\ request'[r].op = l.op /\ request'[r].target = l.target
        /\ request'[r].claim = versions[v].claim /\ request'[r].version = v
        /\ request'[r].newVersion = None
        /\ request'[r].projection = l.projection
        /\ request'[r].todo = Tail(l.todo)
    BY <2>1, <1>f, <1>5 DEF Proceed, Continue, Local, AtWork
  <2>3. /\ v \in DOMAIN versions /\ versions[v].memory = l.target /\ Served(v)
        /\ v # None /\ versions[v].claim \in DOMAIN claims
        /\ versions[v].claim # None
        /\ claims[versions[v].claim].status = "active"
    <3>1. v \in DOMAIN versions /\ versions[v].memory = l.target /\ Served(v)
      BY <1>4 DEF VersionsOf, Served
    <3>2. versions[v].claim \in DOMAIN claims
      BY <3>1 DEF AtWork, TablesSerial, VersionRowsAgree
    <3>3. claims[versions[v].claim] \in ClaimRow
      BY <1>f, <3>2, TableFacts
    <3>4. claims[versions[v].claim].status # "deleted"
      BY <3>1 DEF AtWork, TablesSerial, DeletedServesNothing
    <3> QED
      BY <1>t, <3>1, <3>2, <3>3, <3>4 DEF ClaimRow, None
  <2>4. \A w \in DOMAIN versions :
          versions[w].claim = versions[v].claim /\ Served(w)
            => versions[w].memory = l.target
    BY <2>3 DEF AtWork, TablesSerial, OneServedVersion
  <2> HIDE DEF A, B
  <2>5. TargetServed(request[r])'
    BY <1>f, <1>o, <1>1, <1>2, <1>3, <1>4, <2>2 DEF TargetServed, B
  <2>6. ClaimKnown(request[r])'
    BY <1>1, <1>2, <1>3, <2>2, <2>3, <2>4 DEF ClaimKnown, ClaimReads, B
  <2>7. ProjectionFree(request[r])'
    BY <1>f, <1>o, <1>1, <1>2, <1>3, <2>2, <2>3 DEF ProjectionFree, A, B
  <2> QED
    BY <1>f, <1>3, <2>2, <2>5, <2>6, <2>7 DEF LocalSerial
<1>7. CASE VersionsOf(l.target) = {}
  <2>1. Continue(r, l, b)
    BY <1>7 DEF EnsureClaimTarget
  <2>2. /\ request'[r].op = l.op /\ request'[r].target = l.target
        /\ request'[r].claim = None /\ request'[r].version = None
        /\ request'[r].newVersion = None
        /\ request'[r].projection = l.projection
        /\ request'[r].todo = b
    BY <2>1, <1>f, <1>4, <1>5 DEF Continue, Local, AtWork
  <2>3. b \in Track(l.op)
    BY <1>f, <1>1, TrackDetour DEF AtWork
  <2> DEFINE C == Ahead(b)
  <2>4. C = {"createClaim", "backfillVersion", "backfillCurrent", "citeTarget"}
             \cup B
    BY <1>f, AheadBackfill
  <2> HIDE DEF A, B, C, b
  <2>5. TargetServed(request[r])'
    BY <1>f, <1>o, <1>1, <1>2, <1>3, <1>4, <2>2, <2>4 DEF TargetServed, B, C
  <2>6. ClaimKnown(request[r])'
    BY <1>2, <2>2, <2>4 DEF ClaimKnown, ClaimReads, C
  <2>7. ProjectionFree(request[r])'
    BY <1>f, <1>o, <1>1, <1>2, <1>3, <1>7, <2>2, <2>4 DEF ProjectionFree, A, B, C
  <2> QED
    BY <1>f, <1>3, <2>2, <2>3, <2>5, <2>6, <2>7 DEF LocalSerial
<1> QED
  BY <1>6, <1>7

(* What is ahead when a claim is to be deleted behind a memory.            *)
LEMMA AheadRemoveClaim ==
  ASSUME NEW t \in Seq(Statements)
  PROVE  Ahead(t \o RemoveClaim) = {"closeOld", "invalidateClaim"} \cup Ahead(t)
<1> DEFINE b == t \o RemoveClaim
<1>1. /\ DOMAIN b = 1..(Len(t) + 2) /\ Len(t) \in Nat /\ DOMAIN t = 1..Len(t)
      /\ \A i \in 1..Len(t) : b[i] = t[i]
      /\ b[Len(t) + 1] = "closeOld" /\ b[Len(t) + 2] = "invalidateClaim"
  BY DEF RemoveClaim, Statements
<1> HIDE DEF b
<1>2. ASSUME NEW x \in Ahead(b)
      PROVE  x \in {"closeOld", "invalidateClaim"} \cup Ahead(t)
  <2>1. PICK i \in 1..(Len(t) + 2) : x = b[i]
    BY <1>1, <1>2 DEF Ahead
  <2>2. CASE i \in 1..Len(t)
    BY <1>1, <2>1, <2>2 DEF Ahead
  <2>3. CASE i \notin 1..Len(t)
    <3>1. i = Len(t) + 1 \/ i = Len(t) + 2
      BY <1>1, <2>1, <2>3
    <3> QED
      BY <1>1, <2>1, <3>1
  <2> QED
    BY <2>2, <2>3
<1>3. ASSUME NEW x \in Ahead(t)
      PROVE  x \in Ahead(b)
  <2>1. PICK i \in 1..Len(t) : x = t[i]
    BY <1>1, <1>3 DEF Ahead
  <2>2. i \in DOMAIN b /\ b[i] = x
    BY <1>1, <2>1
  <2> QED
    BY <2>2 DEF Ahead
<1>4. {b[Len(t) + 1], b[Len(t) + 2]} \subseteq Ahead(b)
  <2>1. Len(t) + 1 \in DOMAIN b /\ Len(t) + 2 \in DOMAIN b
    BY <1>1
  <2> QED
    BY <2>1 DEF Ahead
<1>5. Ahead(b) = {"closeOld", "invalidateClaim"} \cup Ahead(t)
  BY <1>1, <1>2, <1>3, <1>4
<1> QED
  BY <1>5 DEF b

(* The version of the memory to delete is read.                            *)
LEMMA SerialGetClaimVersion ==
  ASSUME NEW r, AtWork(r), GetClaimVersion(r)
  PROVE  TablesSerial' /\ LocalSerial(request[r])'
<1> DEFINE l == request[r]
           A == Ahead(l.todo)
           B == Ahead(Tail(l.todo))
           b == Tail(l.todo) \o RemoveClaim
<1>f. /\ TypeOK /\ l \in Local /\ request \in [Requests -> Local]
      /\ l.todo \in Track(l.op) /\ Tail(l.todo) \in Track(l.op)
      /\ l.todo \in Seq(Statements) /\ Tail(l.todo) \in Seq(Statements)
      /\ A = {Head(l.todo)} \cup B
      /\ TargetServed(l) /\ ClaimKnown(l) /\ ProjectionFree(l)
      /\ LocalAgrees(l)
      /\ l.op \in Targeted => l.target \in DOMAIN memories
  BY WorkFacts
<1>t. /\ DOMAIN claims = 1..Len(claims) /\ DOMAIN versions = 1..Len(versions)
      /\ \A c \in DOMAIN claims : claims[c] \in ClaimRow
      /\ DOMAIN memories = 1..Len(memories)
  BY <1>f, TableFacts
<1>1. /\ Head(l.todo) = "getClaimVersion" /\ l.todo # <<>>
      /\ UNCHANGED <<memories, claims, versions>>
  BY DEF GetClaimVersion, At, tables
<1>2. l.op = "remove" /\ B = {"softDelete"}
  BY <1>1, <1>f, AddTrack, UpdateTrack, SupersedeTrack, DeleteTrack, NoopTrack,
     RemoveTrack, ShortTrack DEF AtWork, Operations
<1>3. /\ TablesSerial' /\ Candidates' = Candidates
      /\ \A v : Served(v)' = Served(v)
      /\ \A m : VersionsOf(m)' = VersionsOf(m)
  BY <1>1, SerialTablesSame DEF AtWork
<1>4. /\ l.target \in DOMAIN memories /\ l.claim = None
      /\ l.target \in Candidates \/ memories[l.target].life = "needs_clarification"
  BY <1>f, <1>1, <1>2 DEF TargetServed, ClaimKnown, ClaimReads, Targeted
<1>5. l.newVersion = None
  <2>1. Has(l.todo, BeforeNewVersion)
    BY <1>f, <1>1, TailFacts
       DEF Has, BeforeOldVersion, BeforeNewVersion, OldVersionStatements
  <2> QED
    BY <1>f, <2>1 DEF LocalAgrees, NewVersionKnown
<1>6. CASE VersionsOf(l.target) # {}
  <2>1. PICK v \in VersionsOf(l.target) :
          Continue(r, [l EXCEPT !.claim = versions[v].claim, !.version = v], b)
    BY <1>6 DEF GetClaimVersion
  <2>2. /\ request'[r].op = l.op /\ request'[r].target = l.target
        /\ request'[r].claim = versions[v].claim /\ request'[r].version = v
        /\ request'[r].newVersion = None
        /\ request'[r].projection = l.projection
        /\ request'[r].todo = b
    BY <2>1, <1>f, <1>5 DEF Continue, Local, AtWork
  <2>3. /\ v \in DOMAIN versions /\ versions[v].memory = l.target /\ Served(v)
        /\ versions[v].claim \in DOMAIN claims /\ versions[v].claim # None
        /\ claims[versions[v].claim].status = "active"
    <3>1. v \in DOMAIN versions /\ versions[v].memory = l.target
      BY DEF VersionsOf
    <3>2. l.target # None
      BY <1>4, <1>t DEF None
    <3>3. /\ versions[v].claim \in DOMAIN claims
          /\ memories[l.target].life # "needs_clarification"
      BY <3>1, <3>2 DEF AtWork, TablesSerial, VersionRowsAgree
    <3>4. Served(v)
      BY <1>4, <3>1, <3>3 DEF Served
    <3>5. claims[versions[v].claim].status # "deleted"
      BY <3>1, <3>4 DEF AtWork, TablesSerial, DeletedServesNothing
    <3> QED
      BY <1>t, <3>1, <3>3, <3>4, <3>5 DEF ClaimRow, None
  <2>4. \A w \in DOMAIN versions :
          versions[w].claim = versions[v].claim /\ Served(w)
            => versions[w].memory = l.target
    BY <2>3 DEF AtWork, TablesSerial, OneServedVersion
  <2>5. /\ b \in Track(l.op)
        /\ Ahead(b) = {"softDelete", "closeOld", "invalidateClaim"}
    BY <1>f, <1>1, <1>2, TrackDetour, AheadRemoveClaim DEF AtWork
  <2> HIDE DEF A, B, b
  <2>6. TargetServed(request[r])'
    BY <1>f, <1>1, <1>2, <1>3, <1>4, <2>2, <2>5 DEF TargetServed
  <2>7. ClaimKnown(request[r])'
    BY <1>1, <1>2, <1>3, <2>2, <2>3, <2>4, <2>5 DEF ClaimKnown, ClaimReads
  <2>8. ProjectionFree(request[r])'
    BY <1>f, <1>1, <1>2, <1>3, <2>2, <2>5 DEF ProjectionFree
  <2> QED
    BY <1>f, <1>3, <2>2, <2>5, <2>6, <2>7, <2>8 DEF LocalSerial
<1>7. CASE VersionsOf(l.target) = {}
  <2>1. Proceed(r, l)
    BY <1>7 DEF GetClaimVersion
  <2>2. SameLocals(l, request'[r])
    BY <2>1, <1>f DEF Proceed, Continue, Local, AtWork, SameLocals
  <2>3. TargetServed(request[r])'
    BY <1>f, <1>1, <1>2, <1>3, <1>4, <2>2 DEF TargetServed, SameLocals
  <2>4. ClaimKnown(request[r])'
    BY <1>2, <1>4, <2>2 DEF ClaimKnown, ClaimReads, SameLocals, ClaimStatements,
       PointClaimStatements, NewVersionStatements
  <2>5. ProjectionFree(request[r])'
    BY <1>f, <1>1, <1>2, <1>3, <2>2 DEF ProjectionFree, SameLocals
  <2> QED
    BY <1>f, <1>3, <2>2, <2>3, <2>4, <2>5 DEF LocalSerial, SameLocals
<1> QED
  BY <1>6, <1>7

(* A claim is opened: it has no versions yet.                              *)
LEMMA SerialCreateClaim ==
  ASSUME NEW r, AtWork(r), CreateClaim(r)
  PROVE  TablesSerial' /\ LocalSerial(request[r])'
<1> DEFINE l == request[r]
           A == Ahead(l.todo)
           B == Ahead(Tail(l.todo))
           n == Len(claims) + 1
<1>f. /\ TypeOK /\ l \in Local /\ request \in [Requests -> Local]
      /\ l.todo \in Track(l.op) /\ Tail(l.todo) \in Track(l.op)
      /\ A = {Head(l.todo)} \cup B
      /\ TargetServed(l) /\ ClaimKnown(l) /\ ProjectionFree(l)
      /\ l.op \in Targeted => l.target \in DOMAIN memories
  BY WorkFacts
<1>1. /\ Head(l.todo) = "createClaim"
      /\ UNCHANGED <<memories, versions>>
      /\ claims' = Append(claims, [status |-> "active", current |-> None,
                                   invalidatedBy |-> None])
      /\ request'[r].op = l.op /\ request'[r].target = l.target
      /\ request'[r].claim = n /\ request'[r].version = l.version
      /\ request'[r].newVersion = l.newVersion
      /\ request'[r].projection = l.projection
      /\ request'[r].todo = Tail(l.todo)
  BY <1>f DEF CreateClaim, At, Proceed, Continue, Local, AtWork
<1>2. /\ DOMAIN claims' = DOMAIN claims \cup {n} /\ n \notin DOMAIN claims
      /\ n # None /\ claims'[n].status = "active"
      /\ \A c \in DOMAIN claims : claims'[c] = claims[c]
  BY <1>f, <1>1 DEF TypeOK, None
<1>3. B \cap {"ensureClaimTarget", "createClaim", "getClaimVersion",
              "getMemory"} = {}
  BY <1>1, <1>f, AddTrack, UpdateTrack, SupersedeTrack, DeleteTrack, NoopTrack,
     RemoveTrack, ShortTrack DEF AtWork, Operations
<1>i. "invalidateClaim" \in B => "softDelete" \in B /\ l.op = "delete"
  BY <1>1, <1>f, AddTrack, UpdateTrack, SupersedeTrack, DeleteTrack, NoopTrack,
     RemoveTrack, ShortTrack DEF AtWork, Operations
<1>v. l.newVersion = None
  <2>1. Has(l.todo, BeforeNewVersion)
    BY <1>1, WorkFacts, TailFacts DEF Has, BeforeOldVersion, BeforeNewVersion, AtWork
  <2> QED
    BY <2>1, WorkFacts DEF LocalAgrees, NewVersionKnown
<1>4. /\ Candidates' = Candidates
      /\ \A v : Served(v)' = Served(v)
      /\ \A m : VersionsOf(m)' = VersionsOf(m)
      /\ \A v \in DOMAIN versions : versions[v].claim \in DOMAIN claims
  BY <1>1 DEF Candidates, Served, VersionsOf, AtWork, TablesSerial, VersionRowsAgree
<1>5. TablesSerial'
  <2>1. VersionRowsAgree'
    BY <1>1, <1>2 DEF AtWork, TablesSerial, VersionRowsAgree
  <2>2. MemoryIdIsUnique' /\ OneServedVersion'
    BY <1>1, <1>4 DEF AtWork, TablesSerial, MemoryIdIsUnique, OneServedVersion
  <2>3. DeletedServesNothing'
    BY <1>1, <1>2, <1>4 DEF AtWork, TablesSerial, DeletedServesNothing
  <2> QED
    BY <2>1, <2>2, <2>3 DEF TablesSerial
<1> HIDE DEF A, B
<1>6. TargetServed(request[r])'
  BY <1>f, <1>1, <1>3, <1>4, <1>i DEF TargetServed, A, B
<1>7. ClaimKnown(request[r])'
  BY <1>1, <1>2, <1>3, <1>4, <1>v DEF ClaimKnown, ClaimReads, B
<1>8. ProjectionFree(request[r])'
  BY <1>f, <1>1, <1>3, <1>4 DEF ProjectionFree, A, B
<1> QED
  BY <1>f, <1>1, <1>5, <1>6, <1>7, <1>8 DEF LocalSerial

(* Rows of claim versions after one is appended.                           *)
LEMMA VersionAppended ==
  ASSUME TypeOK, NEW r, NEW m, NEW content, NEW kind, NEW previous,
         InsertVersion(r, m, content, kind, previous)
  PROVE  LET n == Len(versions) + 1 IN
         /\ DOMAIN versions' = DOMAIN versions \cup {n}
         /\ n \notin DOMAIN versions /\ n # None /\ n \in Nat
         /\ \A v \in DOMAIN versions : versions'[v] = versions[v]
         /\ versions'[n].claim = request[r].claim /\ versions'[n].memory = m
         /\ versions'[n].born = m /\ versions'[n].content = content
         /\ versions'[n].kind = kind /\ versions'[n].previous = previous
         /\ versions'[n].supersededBy = None /\ versions'[n].open = TRUE
  BY DEF InsertVersion, TypeOK, None

(* Appending a version keeps what the tables say, if its memory has no     *)
(* version and nothing else of the claim is served, or it has no memory.   *)
LEMMA TablesAppend ==
  ASSUME TypeOK, TablesSerial, NEW r, NEW m, NEW content, NEW kind, NEW previous,
         InsertVersion(r, m, content, kind, previous),
         UNCHANGED <<memories, claims>>,
         request[r].claim \in DOMAIN claims,
         \/ m = None
         \/ /\ m \in DOMAIN memories /\ memories[m].life # "needs_clarification"
            /\ VersionsOf(m) = {}
            /\ claims[request[r].claim].status = "active"
            /\ m \in Candidates =>
                 \A v \in DOMAIN versions :
                   versions[v].claim = request[r].claim => ~Served(v)
  PROVE  /\ TablesSerial'
         /\ Candidates' = Candidates
         /\ \A v \in DOMAIN versions : Served(v)' = Served(v)
         /\ \A v \in DOMAIN versions' : Served(v)' =>
              \/ v \in DOMAIN versions
              \/ v = Len(versions) + 1 /\ m \in Candidates
<1> DEFINE n == Len(versions) + 1
           c == request[r].claim
<1>1. /\ DOMAIN versions' = DOMAIN versions \cup {n}
      /\ n \notin DOMAIN versions
      /\ \A v \in DOMAIN versions : versions'[v] = versions[v]
      /\ versions'[n].claim = c /\ versions'[n].memory = m
  BY VersionAppended
<1> HIDE DEF n
<1>2. /\ Candidates' = Candidates
      /\ \A v \in DOMAIN versions : Served(v)' = Served(v)
      /\ \A v \in DOMAIN versions' : Served(v)' =>
           v \in DOMAIN versions \/ (v = n /\ m \in Candidates)
  <2>1. Candidates' = Candidates
    BY DEF Candidates
  <2> QED
    BY <1>1, <2>1 DEF Served
<1>3. m \in Candidates =>
        /\ m # None /\ claims[c].status = "active"
        /\ \A v \in DOMAIN versions : versions[v].claim = c => ~Served(v)
  BY TableFacts DEF Candidates, None
<1>4. VersionRowsAgree'
  BY <1>1 DEF TablesSerial, VersionRowsAgree
<1>5. MemoryIdIsUnique'
  BY <1>1 DEF TablesSerial, MemoryIdIsUnique, VersionsOf
<1>6. OneServedVersion'
  <2>1. SUFFICES ASSUME NEW v \in DOMAIN versions', NEW w \in DOMAIN versions',
                        versions'[v].claim = versions'[w].claim,
                        Served(v)', Served(w)'
                 PROVE  v = w
    BY DEF OneServedVersion
  <2>2. CASE v \in DOMAIN versions /\ w \in DOMAIN versions
    BY <1>1, <1>2, <2>1, <2>2 DEF TablesSerial, OneServedVersion
  <2>3. CASE v = n \/ w = n
    BY <1>1, <1>2, <1>3, <2>1, <2>3
  <2> QED
    BY <1>1, <2>2, <2>3
<1>7. DeletedServesNothing'
  <2>1. SUFFICES ASSUME NEW v \in DOMAIN versions',
                        claims[versions'[v].claim].status = "deleted", Served(v)'
                 PROVE  FALSE
    BY DEF DeletedServesNothing
  <2> QED
    BY <1>1, <1>2, <1>3, <2>1 DEF TablesSerial, DeletedServesNothing
<1> QED
  BY <1>2, <1>4, <1>5, <1>6, <1>7 DEF TablesSerial, n

(* A version for the memory the request writes.                            *)
LEMMA SerialCreateVersion ==
  ASSUME NEW r, AtWork(r), CreateVersion(r)
  PROVE  TablesSerial' /\ LocalSerial(request[r])'
<1> DEFINE l == request[r]
           A == Ahead(l.todo)
           B == Ahead(Tail(l.todo))
           n == Len(versions) + 1
           m == l.projection
<1>f. /\ TypeOK /\ l \in Local /\ request \in [Requests -> Local]
      /\ l.todo \in Seq(Statements)
      /\ l.todo \in Track(l.op) /\ Tail(l.todo) \in Track(l.op)
      /\ A = {Head(l.todo)} \cup B
      /\ TargetServed(l) /\ ClaimKnown(l) /\ ProjectionFree(l)
      /\ LocalAgrees(l)
      /\ l.op \in Targeted => l.target \in DOMAIN memories
      /\ l.version # None => l.version \in DOMAIN versions
  BY WorkFacts
<1>1. /\ Head(l.todo) = "createVersion" /\ l.todo # <<>>
      /\ InsertVersion(r, m, r, l.op, l.version)
      /\ UNCHANGED <<memories, claims>> /\ VersionsOf(m) = {}
      /\ request'[r].op = l.op /\ request'[r].target = l.target
      /\ request'[r].claim = l.claim /\ request'[r].version = l.version
      /\ request'[r].newVersion = n
      /\ request'[r].projection = m
      /\ request'[r].todo = Tail(l.todo)
  BY <1>f DEF CreateVersion, At, Proceed, Continue, Local, AtWork
<1>o. l.op \in {"add", "update", "supersede"}
  BY <1>1, <1>f, DeleteTrack, NoopTrack, RemoveTrack, ShortTrack
     DEF AtWork, Operations
<1>2. /\ B \cap {"ensureClaimTarget", "createClaim", "getClaimVersion",
                 "getMemory", "storeMemory", "releaseOld", "createVersion",
                 "backfillVersion", "invalidateClaim"} = {}
      /\ "setCurrent" \in B
  BY <1>1, <1>f, <1>o, AddTrack, UpdateTrack, SupersedeTrack DEF AtWork
<1>3. /\ l.claim # None /\ l.claim \in DOMAIN claims
      /\ claims[l.claim].status = "active"
      /\ m # None /\ m \in DOMAIN memories
      /\ memories[m].life # "needs_clarification"
  BY <1>f, <1>1, <1>2, <1>o
     DEF ClaimKnown, ClaimStatements, NewVersionStatements,
         PointClaimStatements, ProjectionFree
<1>v. l.newVersion = None
  <2>1. Has(l.todo, BeforeNewVersion)
    BY <1>f, <1>1, TailFacts DEF Has, BeforeNewVersion, NewVersionStatements
  <2> QED
    BY <1>f, <2>1 DEF LocalAgrees, NewVersionKnown
<1>4. \A v \in DOMAIN versions : versions[v].claim = l.claim => ~Served(v)
  <2>1. SUFFICES ASSUME NEW v \in DOMAIN versions, versions[v].claim = l.claim,
                        Served(v)
                 PROVE  FALSE
    OBVIOUS
  <2>2. versions[v].memory = l.target
    <3>1. v # None
      BY <1>f, TableFacts DEF None
    <3> QED
      BY <1>f, <1>3, <1>v, <2>1, <3>1 DEF ClaimKnown
  <2>3. l.target \in Candidates
    BY <2>1, <2>2 DEF Served
  <2>4. CASE l.op = "add"
    BY <1>f, <2>3, <2>4, TableFacts DEF TargetServed, Targeted, Candidates, None
  <2>5. CASE l.op = "update"
    BY <1>f, <1>1, <1>2, <2>1, <2>2, <2>5 DEF ProjectionFree, VersionsOf
  <2>6. CASE l.op = "supersede"
    <3>1. Retired(l.target)
      BY <1>f, <1>1, <2>6, AllAfterTail
         DEF LocalAgrees, TargetRetiredFirst, NewVersionStatements, Replacing
    <3> QED
      BY <2>3, <3>1 DEF Retired, Candidates
  <2> QED
    BY <1>o, <2>4, <2>5, <2>6
<1>5. /\ TablesSerial' /\ Candidates' = Candidates
      /\ \A v \in DOMAIN versions : Served(v)' = Served(v)
  BY <1>f, <1>1, <1>3, <1>4, TablesAppend DEF AtWork
<1>6. /\ DOMAIN versions' = DOMAIN versions \cup {n} /\ n # None
      /\ \A v \in DOMAIN versions : versions'[v] = versions[v]
  BY <1>f, <1>1, VersionAppended
<1> HIDE DEF A, B, n
<1>7. TargetServed(request[r])'
  BY <1>f, <1>1, <1>2, <1>5 DEF TargetServed, B
<1>8. ClaimKnown(request[r])'
  BY <1>1, <1>2, <1>3, <1>4, <1>5, <1>6 DEF ClaimKnown, ClaimReads, B
<1>9. ProjectionFree(request[r])'
  BY <1>f, <1>1, <1>2, <1>6 DEF ProjectionFree, A, B
<1> QED
  BY <1>f, <1>1, <1>5, <1>7, <1>8, <1>9 DEF LocalSerial

(* A tombstone has no memory.                                              *)
LEMMA SerialCreateTombstone ==
  ASSUME NEW r, AtWork(r), CreateTombstone(r)
  PROVE  TablesSerial' /\ LocalSerial(request[r])'
<1> DEFINE l == request[r]
           A == Ahead(l.todo)
           B == Ahead(Tail(l.todo))
           n == Len(versions) + 1
<1>f. /\ TypeOK /\ l \in Local /\ request \in [Requests -> Local]
      /\ l.todo \in Track(l.op) /\ Tail(l.todo) \in Track(l.op)
      /\ A = {Head(l.todo)} \cup B
      /\ TargetServed(l) /\ ClaimKnown(l) /\ ProjectionFree(l)
      /\ l.op \in Targeted => l.target \in DOMAIN memories
      /\ l.newVersion # None => l.newVersion \in DOMAIN versions
  BY WorkFacts
<1>1. /\ Head(l.todo) = "createTombstone"
      /\ InsertVersion(r, None, r, "delete", l.version)
      /\ UNCHANGED <<memories, claims>>
      /\ request'[r].op = l.op /\ request'[r].target = l.target
      /\ request'[r].claim = l.claim /\ request'[r].version = l.version
      /\ request'[r].newVersion = n
      /\ request'[r].projection = l.projection
      /\ request'[r].todo = Tail(l.todo)
  BY <1>f DEF CreateTombstone, At, Proceed, Continue, Local, AtWork
<1>2. l.op = "delete" /\ B = {"closeOld", "invalidateClaim", "storeCmo"}
  BY <1>1, <1>f, AddTrack, UpdateTrack, SupersedeTrack, DeleteTrack, NoopTrack,
     RemoveTrack, ShortTrack DEF AtWork, Operations
<1>3. l.claim # None /\ l.claim \in DOMAIN claims /\ claims[l.claim].status = "active"
  BY <1>f, <1>1, <1>2 DEF ClaimKnown, ClaimStatements, NewVersionStatements,
                          PointClaimStatements
<1>4. /\ TablesSerial' /\ Candidates' = Candidates
      /\ \A v \in DOMAIN versions : Served(v)' = Served(v)
      /\ \A v \in DOMAIN versions' : Served(v)' => v \in DOMAIN versions
  <2>1. None \notin Candidates
    BY <1>f, TableFacts DEF Candidates, None
  <2> QED
    BY <1>f, <1>1, <1>3, <2>1, TablesAppend DEF AtWork
<1>5. /\ DOMAIN versions' = DOMAIN versions \cup {n} /\ n # None
      /\ \A v \in DOMAIN versions : versions'[v] = versions[v]
      /\ versions'[n].memory = None
  BY <1>f, <1>1, VersionAppended
<1>6. l.newVersion = None
  <2>1. Has(l.todo, BeforeNewVersion)
    BY <1>1, WorkFacts, TailFacts
       DEF Has, BeforeNewVersion, NewVersionStatements, AtWork
  <2> QED
    BY <2>1, WorkFacts DEF LocalAgrees, NewVersionKnown
<1> HIDE DEF A, B, n
<1>7. TargetServed(request[r])'
  BY <1>f, <1>1, <1>2, <1>4 DEF TargetServed, A, B
<1>8. ClaimKnown(request[r])'
  <2>1. ASSUME NEW v \in DOMAIN versions', versions'[v].claim = l.claim, Served(v)'
        PROVE  versions'[v].memory = l.target
    <3>1. v \in DOMAIN versions
      BY <1>4, <1>5, <2>1
    <3>2. v # None
      BY <1>f, <3>1, TableFacts DEF None
    <3> QED
      BY <1>f, <1>3, <1>4, <1>5, <1>6, <2>1, <3>1, <3>2 DEF ClaimKnown
  <2> QED
    BY <1>1, <1>2, <1>3, <1>5, <2>1 DEF ClaimKnown, ClaimReads, B
<1>9. ProjectionFree(request[r])'
  BY <1>f, <1>1, <1>2 DEF ProjectionFree, A, B
<1> QED
  BY <1>f, <1>1, <1>4, <1>7, <1>8, <1>9 DEF LocalSerial

(* A version for a memory that had none.                                   *)
LEMMA SerialBackfillVersion ==
  ASSUME NEW r, AtWork(r), BackfillVersion(r)
  PROVE  TablesSerial' /\ LocalSerial(request[r])'
<1> DEFINE l == request[r]
           A == Ahead(l.todo)
           B == Ahead(Tail(l.todo))
           n == Len(versions) + 1
           m == l.target
<1>f. /\ TypeOK /\ l \in Local /\ request \in [Requests -> Local]
      /\ l.todo \in Seq(Statements)
      /\ l.todo \in Track(l.op) /\ Tail(l.todo) \in Track(l.op)
      /\ A = {Head(l.todo)} \cup B
      /\ TargetServed(l) /\ ClaimKnown(l) /\ ProjectionFree(l)
      /\ LocalAgrees(l)
      /\ l.op \in Targeted => l.target \in DOMAIN memories
      /\ l.newVersion # None => l.newVersion \in DOMAIN versions
  BY WorkFacts
<1>1. /\ Head(l.todo) = "backfillVersion" /\ l.todo # <<>>
      /\ InsertVersion(r, m, l.seen, "backfill", None)
      /\ UNCHANGED <<memories, claims>> /\ VersionsOf(m) = {}
      /\ request'[r].op = l.op /\ request'[r].target = m
      /\ request'[r].claim = l.claim /\ request'[r].version = n
      /\ request'[r].newVersion = l.newVersion
      /\ request'[r].projection = l.projection
      /\ request'[r].todo = Tail(l.todo)
  BY <1>f DEF BackfillVersion, At, Proceed, Continue, Local, AtWork
<1>o. l.op \in {"update", "supersede", "delete", "noop"}
  BY <1>1, <1>f, AddTrack, RemoveTrack, ShortTrack DEF AtWork, Operations
<1>2. /\ B \cap {"ensureClaimTarget", "createClaim", "getClaimVersion",
                 "getMemory", "backfillVersion"} = {}
      /\ "backfillCurrent" \in B
      /\ "createVersion" \in B => "storeMemory" \in B \/ "releaseOld" \in B
      /\ "invalidateClaim" \in B => "softDelete" \in B
  BY <1>1, <1>f, <1>o, UpdateTrack, SupersedeTrack, DeleteTrack, NoopTrack
     DEF AtWork
<1>3. /\ l.claim # None /\ l.claim \in DOMAIN claims
      /\ claims[l.claim].status = "active"
      /\ m \in Candidates
      /\ m \in DOMAIN memories /\ memories[m].life # "needs_clarification"
  BY <1>f, <1>1, <1>2, <1>o
     DEF ClaimKnown, ClaimStatements, NewVersionStatements,
         PointClaimStatements, TargetServed, Candidates
<1>v. l.newVersion = None
  <2>1. Has(l.todo, BeforeNewVersion)
    BY <1>f, <1>1, TailFacts
       DEF Has, BeforeNewVersion, BeforeOldVersion, OldVersionStatements
  <2> QED
    BY <1>f, <2>1 DEF LocalAgrees, NewVersionKnown
<1>4. \A v \in DOMAIN versions : versions[v].claim = l.claim => ~Served(v)
  <2>1. SUFFICES ASSUME NEW v \in DOMAIN versions, versions[v].claim = l.claim,
                        Served(v)
                 PROVE  FALSE
    OBVIOUS
  <2>2. v # None
    BY <1>f, TableFacts DEF None
  <2> QED
    BY <1>f, <1>1, <1>3, <1>v, <2>1, <2>2 DEF ClaimKnown, VersionsOf
<1>5. /\ TablesSerial' /\ Candidates' = Candidates
      /\ \A v \in DOMAIN versions : Served(v)' = Served(v)
  BY <1>f, <1>1, <1>3, <1>4, TablesAppend DEF AtWork
<1>6. /\ DOMAIN versions' = DOMAIN versions \cup {n} /\ n # None
      /\ \A v \in DOMAIN versions : versions'[v] = versions[v]
      /\ versions'[n].memory = m
  BY <1>f, <1>1, VersionAppended
<1> HIDE DEF A, B, n
<1>7. TargetServed(request[r])'
  BY <1>f, <1>1, <1>2, <1>3, <1>5 DEF TargetServed, B
<1>8. ClaimKnown(request[r])'
  <2>1. ASSUME NEW v \in DOMAIN versions', versions'[v].claim = l.claim, Served(v)'
        PROVE  versions'[v].memory = m
    BY <1>4, <1>5, <1>6, <2>1
  <2> QED
    BY <1>1, <1>2, <1>3, <1>v, <2>1 DEF ClaimKnown, ClaimReads, B
<1>9. ProjectionFree(request[r])'
  BY <1>f, <1>1, <1>2, <1>6 DEF ProjectionFree, A, B
<1> QED
  BY <1>f, <1>1, <1>5, <1>7, <1>8, <1>9 DEF LocalSerial

(* The memory an update projects is left without a version.                *)
LEMMA SerialReleaseOld ==
  ASSUME NEW r, AtWork(r), ReleaseOld(r)
  PROVE  TablesSerial' /\ LocalSerial(request[r])'
<1> DEFINE l == request[r]
           A == Ahead(l.todo)
           B == Ahead(Tail(l.todo))
           u == l.version
<1>f. /\ TypeOK /\ l \in Local /\ request \in [Requests -> Local]
      /\ l.todo \in Track(l.op) /\ Tail(l.todo) \in Track(l.op)
      /\ A = {Head(l.todo)} \cup B
      /\ TargetServed(l) /\ ClaimKnown(l) /\ ProjectionFree(l)
      /\ l.op \in Targeted => l.target \in DOMAIN memories
      /\ l.version # None => l.version \in DOMAIN versions
      /\ l.newVersion # None => l.newVersion \in DOMAIN versions
  BY WorkFacts
<1>1. /\ Head(l.todo) = "releaseOld"
      /\ versions' = [versions EXCEPT ![u] = [versions[u] EXCEPT !.memory = None]]
      /\ UNCHANGED <<memories, claims>>
      /\ SameLocals(l, request'[r])
  BY <1>f DEF ReleaseOld, At, Proceed, Continue, Local, AtWork, SameLocals
<1>o. l.op = "update"
  BY <1>1, <1>f, AddTrack, SupersedeTrack, DeleteTrack, NoopTrack, RemoveTrack,
     ShortTrack DEF AtWork, Operations
<1>2. B = {"createVersion", "linkOld", "setCurrent", "addEvidence", "storeCmo",
           "relinkCmo"}
  BY <1>1, <1>f, <1>o, UpdateTrack DEF AtWork
<1>3. /\ u # None /\ u \in DOMAIN versions /\ versions[u].memory = l.target
      /\ l.projection = l.target /\ l.target \in Candidates
      /\ l.target \in DOMAIN memories /\ l.target # None
  <2>1. A = {"releaseOld", "createVersion", "linkOld", "setCurrent",
             "addEvidence", "storeCmo", "relinkCmo"}
    BY <1>f, <1>1, <1>2
  <2>2. u # None /\ versions[u].memory = l.target /\ l.projection = l.target
    BY <1>f, <1>o, <2>1 DEF ProjectionFree
  <2>3. l.target \in Candidates /\ l.target \in DOMAIN memories
    BY <1>f, <1>o DEF TargetServed, Targeted
  <2>4. l.target # None
    BY <1>f, <2>3, TableFacts DEF None
  <2> QED
    BY <1>f, <2>2, <2>3, <2>4
<1>4. /\ DOMAIN versions' = DOMAIN versions
      /\ \A v \in DOMAIN versions :
           /\ versions'[v].claim = versions[v].claim
           /\ versions'[v].memory = IF v = u THEN None ELSE versions[v].memory
  <2>1. \A v \in DOMAIN versions : versions[v] \in VersionRow
    BY <1>f, TableFacts
  <2> QED
    BY <1>1, <2>1 DEF VersionRow
<1>5. Candidates' = Candidates /\ None \notin Candidates
  BY <1>f, <1>1, TableFacts DEF Candidates, None
<1>6. /\ \A v \in DOMAIN versions : Served(v)' => Served(v) /\ v # u
      /\ VersionsOf(l.target)' = {}
  <2>1. \A v \in DOMAIN versions : Served(v)' => Served(v) /\ v # u
    BY <1>4, <1>5 DEF Served
  <2>2. \A v \in DOMAIN versions : versions[v].memory = l.target => v = u
    BY <1>3 DEF AtWork, TablesSerial, MemoryIdIsUnique
  <2>3. \A v \in DOMAIN versions' : versions'[v].memory # l.target
    BY <1>3, <1>4, <2>2
  <2>4. l.target = request'[r].target
    BY <1>1 DEF SameLocals
  <2> QED
    BY <2>1, <2>3, <2>4 DEF VersionsOf
<1>7. TablesSerial'
  <2>1. VersionRowsAgree'
    BY <1>1, <1>4 DEF AtWork, TablesSerial, VersionRowsAgree
  <2>2. MemoryIdIsUnique'
    BY <1>4 DEF AtWork, TablesSerial, MemoryIdIsUnique
  <2>3. OneServedVersion' /\ DeletedServesNothing'
    BY <1>1, <1>4, <1>6 DEF AtWork, TablesSerial, OneServedVersion,
                            DeletedServesNothing
  <2> QED
    BY <2>1, <2>2, <2>3 DEF TablesSerial
<1> HIDE DEF A, B
<1>8. TargetServed(request[r])'
  BY <1>f, <1>1, <1>2, <1>5 DEF TargetServed, SameLocals, A, B
<1>9. ClaimKnown(request[r])'
  <2>1. ASSUME NEW v \in DOMAIN versions', l.claim # None,
               versions'[v].claim = l.claim, Served(v)'
        PROVE  versions'[v].memory = l.target \/ v = l.newVersion
    BY <1>4, <1>6, <1>f, <2>1 DEF ClaimKnown
  <2>2. /\ l.claim = None \/ (l.claim \in DOMAIN claims /\
              (B \cap PointClaimStatements # {} => claims[l.claim].status = "active"))
        /\ l.claim # None
    BY <1>f, <1>1, <1>2 DEF ClaimKnown, ClaimStatements, PointClaimStatements,
                            NewVersionStatements, A
  <2> QED
    BY <1>1, <1>2, <2>1, <2>2 DEF ClaimKnown, ClaimReads, SameLocals, B
<1>10. ProjectionFree(request[r])'
  BY <1>f, <1>1, <1>2, <1>3, <1>6 DEF ProjectionFree, SameLocals, Candidates, B
<1> QED
  BY <1>f, <1>1, <1>7, <1>8, <1>9, <1>10 DEF LocalSerial, SameLocals

(* A claim is deleted: nothing of it is served any more.                   *)
LEMMA SerialInvalidateClaim ==
  ASSUME NEW r, AtWork(r), InvalidateClaim(r)
  PROVE  TablesSerial' /\ LocalSerial(request[r])'
<1> DEFINE l == request[r]
           A == Ahead(l.todo)
           B == Ahead(Tail(l.todo))
           c == l.claim
<1>f. /\ TypeOK /\ l \in Local /\ request \in [Requests -> Local]
      /\ l.todo \in Track(l.op) /\ Tail(l.todo) \in Track(l.op)
      /\ A = {Head(l.todo)} \cup B
      /\ TargetServed(l) /\ ClaimKnown(l) /\ ProjectionFree(l)
  BY WorkFacts
<1>1. /\ Head(l.todo) = "invalidateClaim"
      /\ claims' = [claims EXCEPT ![c] =
                      [status |-> "deleted", current |-> None,
                       invalidatedBy |-> l.newVersion]]
      /\ UNCHANGED <<memories, versions>>
      /\ SameLocals(l, request'[r])
  BY <1>f DEF InvalidateClaim, At, Proceed, Continue, Local, AtWork, SameLocals
<1>2. l.op \in {"delete", "remove"} /\ B \subseteq {"storeCmo"}
  BY <1>1, <1>f, AddTrack, UpdateTrack, SupersedeTrack, DeleteTrack, NoopTrack,
     RemoveTrack, ShortTrack DEF AtWork, Operations
<1>3. /\ Candidates' = Candidates /\ None \notin Candidates
      /\ \A v : Served(v)' = Served(v)
      /\ DOMAIN claims' = DOMAIN claims
      /\ \A d \in DOMAIN claims : d # c => claims'[d] = claims[d]
  BY <1>f, <1>1, TableFacts DEF Candidates, Served, None
<1>4. /\ c # None /\ c \in DOMAIN claims
      /\ \A v \in DOMAIN versions : versions[v].claim = c => ~Served(v)
  <2>1. c # None
    BY <1>f, <1>1, <1>2 DEF ClaimKnown, ClaimStatements, PointClaimStatements
  <2>2. l.target \notin Candidates
    BY <1>f, <1>1, <1>2 DEF TargetServed
  <2>3. l.newVersion # None => versions[l.newVersion].memory = None
    BY <1>f, <1>1 DEF ClaimKnown
  <2>4. \A v \in DOMAIN versions : v # None
    BY <1>f, TableFacts DEF None
  <2> QED
    BY <1>f, <1>3, <2>1, <2>2, <2>3, <2>4 DEF ClaimKnown, Served
<1>5. TablesSerial'
  <2>1. VersionRowsAgree' /\ MemoryIdIsUnique'
    BY <1>1, <1>3 DEF AtWork, TablesSerial, VersionRowsAgree, MemoryIdIsUnique
  <2>2. OneServedVersion'
    BY <1>1, <1>3 DEF AtWork, TablesSerial, OneServedVersion
  <2>3. DeletedServesNothing'
    BY <1>1, <1>3, <1>4 DEF AtWork, TablesSerial, DeletedServesNothing,
                            VersionRowsAgree
  <2> QED
    BY <2>1, <2>2, <2>3 DEF TablesSerial
<1> HIDE DEF A, B
<1>6. TargetServed(request[r])'
  BY <1>f, <1>1, <1>2, <1>3 DEF TargetServed, SameLocals, Targeted, B
<1>7. ClaimKnown(request[r])'
  BY <1>1, <1>2, <1>3, <1>4 DEF ClaimKnown, ClaimReads, ClaimStatements,
     PointClaimStatements, NewVersionStatements, SameLocals, B
<1>8. ProjectionFree(request[r])'
  BY <1>f, <1>1, <1>2 DEF ProjectionFree, SameLocals, A, B
<1> QED
  BY <1>f, <1>1, <1>5, <1>6, <1>7, <1>8 DEF LocalSerial, SameLocals

(* A request that ends half way leaves the tables as they are.             *)
LEMMA SerialDrop ==
  ASSUME NEW r, AtWork(r), RejectDuplicate(r) \/ Fail(r)
  PROVE  TablesSerial' /\ LocalSerial(request[r])'
<1>1. /\ UNCHANGED <<memories, claims, versions>>
      /\ request'[r].op = request[r].op /\ request'[r].todo = <<>>
  BY WorkFacts DEF RejectDuplicate, Fail, tables, Local, AtWork
<1>2. <<>> \in Track(request[r].op)
  BY TrackTail DEF AtWork
<1> QED
  BY <1>1, <1>2, SerialTablesSame DEF AtWork, LocalSerial

(* Every statement keeps what the tables say and what its locals mean.     *)
LEMMA SerialStatement ==
  ASSUME NEW r, AtWork(r), Statement(r) \/ Fail(r)
  PROVE  TablesSerial' /\ LocalSerial(request[r])'
<1>1. CASE \/ StoreCmo(r) \/ StoreFacts(r) \/ DeleteFacts(r) \/ UpdateContent(r)
           \/ RelinkCmo(r) \/ CloseOld(r) \/ LinkOld(r) \/ SetCurrent(r)
           \/ BackfillCurrent(r) \/ AddEvidence(r) \/ CiteTarget(r)
  <2>1. /\ SameRows /\ SameLocals(request[r], request'[r])
        /\ Head(request[r].todo) \notin Turning
    BY <1>1, QuietStatement DEF AtWork
  <2>2. TypeOK /\ LocalAgrees(request[r])
    BY WorkFacts
  <2> QED
    BY <2>1, <2>2, SameTables, SameLocal DEF AtWork
<1>2. CASE Statement(r) /\ ~(\/ StoreCmo(r) \/ StoreFacts(r) \/ DeleteFacts(r)
                             \/ UpdateContent(r) \/ RelinkCmo(r) \/ CloseOld(r)
                             \/ LinkOld(r) \/ SetCurrent(r) \/ BackfillCurrent(r)
                             \/ AddEvidence(r) \/ CiteTarget(r))
  BY <1>2, SerialStoreMemory, SerialRetire, SerialGetMemory, SerialEnsure,
     SerialGetClaimVersion, SerialCreateClaim, SerialCreateVersion,
     SerialCreateTombstone, SerialBackfillVersion, SerialReleaseOld,
     SerialInvalidateClaim, SerialDrop DEF Statement
<1>3. CASE Fail(r)
  BY <1>3, SerialDrop
<1> QED
  BY <1>1, <1>2, <1>3

-----------------------------------------------------------------------------
(* The serial invariant.                                                   *)

(* Only the request that runs a step changes, and it was the only one that *)
(* was running.                                                            *)
LEMMA SerialOthers ==
  ASSUME IInv, SInv, NEW r \in Requests, request[r].todo # <<>>,
         Statement(r) \/ Fail(r), LocalSerial(request[r])', TablesSerial'
  PROVE  SInv'
<1>1. ASSUME NEW q \in Requests, q # r
      PROVE  request'[q] = request[q] /\ request[q].todo = <<>>
  <2>1. request'[q] = request[q]
    BY <1>1, OnlyOwnLocal DEF IInv
  <2>2. q \notin Running
    BY <1>1 DEF SInv, OneAtATime, Running
  <2> QED
    BY <2>1, <2>2 DEF Running
<1>2. OneAtATime'
  BY <1>1 DEF OneAtATime, Running
<1>3. ASSUME NEW q \in Requests, q # r
      PROVE  LocalSerial(request[q])'
  BY <1>1, <1>3 DEF SInv, LocalSerial
<1> QED
  BY <1>2, <1>3 DEF SInv

(* A running request runs an operation.                                    *)
LEMMA RunningAtWork ==
  ASSUME IInv, SInv, NEW r \in Requests, request[r].todo # <<>>
  PROVE  AtWork(r)
<1>1. request[r].op \in Operations \cup {"none"}
  BY DEF IInv, TypeOK, Local
<1>2. request[r].op # "none"
  BY DEF IInv, LocalsAgree, LocalAgrees, Idle
<1> QED
  BY <1>1, <1>2 DEF AtWork, SInv

(* A statement runs only for a request that has one to run.                *)
LEMMA StatementRuns ==
  ASSUME NEW r, Statement(r) \/ Fail(r)
  PROVE  request[r].todo # <<>>
  BY DEF Statement, Fail, StoreCmo, StoreMemory, InsertClarification, StoreFacts,
     DeleteFacts, UpdateContent, ExpireMemory, SoftDelete, RelinkCmo, GetMemory,
     EnsureClaimTarget, GetClaimVersion, CreateClaim, CreateVersion,
     CreateTombstone, BackfillVersion, RejectDuplicate, CloseOld, ReleaseOld,
     LinkOld, SetCurrent, BackfillCurrent, InvalidateClaim, AddEvidence,
     CiteTarget, At

(* With one request at a time, one starts only when none is running.       *)
LEMMA StartsAlone ==
  ASSUME Serial, OneAtATime, Cardinality(Running) < MaxConcurrent
  PROVE  Running = {}
<1>1. SUFFICES ASSUME NEW r \in Running PROVE FALSE
  OBVIOUS
<1>2. Running = {r}
  BY <1>1 DEF OneAtATime
<1>3. Cardinality({r}) = 1
  BY FS_Singleton
<1> QED
  BY <1>2, <1>3 DEF Serial

(* What is ahead of an operation that starts.                              *)
LEMMA AheadProgram ==
  ASSUME NEW op \in Operations
  PROVE  LET A == Ahead(Program[op]) IN
         /\ A \cap {"ensureClaimTarget", "backfillVersion"} # {} =>
              op \in {"update", "supersede", "delete", "noop"}
         /\ "getClaimVersion" \in A => op = "remove"
         /\ "invalidateClaim" \in A => "softDelete" \in A
         /\ A \cap ClaimStatements # {} =>
              A \cap {"ensureClaimTarget", "createClaim"} # {}
         /\ op = "update" => "getMemory" \in A
         /\ "createVersion" \in A => A \cap {"getMemory", "storeMemory"} # {}
         /\ "backfillVersion" \notin A
         /\ "releaseOld" \in A => "ensureClaimTarget" \in A
<1> DEFINE p == Program[op]
           A == Ahead(p)
           B == Ahead(Tail(p))
<1>1. p \in Track(op) /\ p \in Seq(Statements) /\ p # <<>> /\ A = {Head(p)} \cup B
  BY TrackStart, ProgramTyped, AheadTail
<1>2. CASE op \in {"add", "remove"}
  <2>1. Head(p) = IF op = "add" THEN "storeCmo" ELSE "getClaimVersion"
    BY <1>2 DEF Program, StoreProgram, RemoveProgram
  <2> HIDE DEF p
  <2> QED
    BY <1>1, <1>2, <2>1, AddTrack, RemoveTrack
       DEF p, ClaimStatements, PointClaimStatements, NewVersionStatements
<1>3. CASE op \in {"update", "supersede", "delete", "noop"}
  <2>1. Head(p) = "getMemory"
    <3>1. CASE op = "update"
      BY <3>1 DEF Program, EnsureProgram, UpdateProgram
    <3>2. CASE op = "supersede"
      BY <3>2 DEF Program, EnsureProgram, SupersedeProgram
    <3>3. CASE op = "delete"
      BY <3>3 DEF Program, EnsureProgram, DeleteProgram
    <3>4. CASE op = "noop"
      BY <3>4 DEF Program, EnsureProgram, NoopProgram
    <3> QED
      BY <1>3, <3>1, <3>2, <3>3, <3>4
  <2>2. /\ "getMemory" \in A /\ "ensureClaimTarget" \in A
        /\ "getClaimVersion" \notin A /\ "backfillVersion" \notin A
        /\ "invalidateClaim" \in A => "softDelete" \in A
    BY <1>1, <1>3, <2>1, UpdateTrack, SupersedeTrack, DeleteTrack, NoopTrack
  <2> HIDE DEF A
  <2> QED
    BY <1>3, <2>2 DEF A
<1>4. CASE op \in {"archive", "verbatim", "clarify"}
  <2>1. B = {} /\ Head(p) \in {"softDelete", "storeMemory", "storeClarification"}
    BY <1>1, <1>4, ShortTrack
  <2> QED
    BY <1>1, <1>4, <2>1 DEF ClaimStatements, PointClaimStatements,
       NewVersionStatements
<1> QED
  BY <1>2, <1>3, <1>4 DEF Operations

(* Starting a request keeps the invariant.                                 *)
LEMMA SerialStart ==
  ASSUME Serial, IInv, SInv, NEW r \in Requests, Start(r)
  PROVE  SInv'
<1>1. PICK op, m :
        /\ op \in Operations /\ Admit(r, op, m)
        /\ op \notin Targeted => m = None
        /\ op \in Targeted =>
             \/ m \in Candidates
             \/ op = "remove" /\ memories[m].life = "needs_clarification"
  <2>1. CASE StoreCanonicalFact(r) \/ StoreClarification(r) \/ StoreVerbatim(r)
    BY <2>1 DEF StoreCanonicalFact, StoreClarification, StoreVerbatim,
       Operations, Targeted
  <2>2. CASE \/ UpdateCanonicalFact(r) \/ SupersedeCanonicalFact(r)
             \/ DeleteCanonicalFact(r) \/ RecordNoop(r) \/ ArchiveMemory(r)
    BY <2>2 DEF UpdateCanonicalFact, SupersedeCanonicalFact,
       DeleteCanonicalFact, RecordNoop, ArchiveMemory, Operations, Targeted
  <2>3. CASE DeleteMemory(r)
    BY <2>3 DEF DeleteMemory, Operations, Serial, Candidates, Targeted
  <2> QED
    BY <2>1, <2>2, <2>3 DEF Start
<1>2. Running = {}
  BY <1>1, StartsAlone DEF Admit, SInv
<1>3. request[r] = Idle
  BY <1>1 DEF Admit, IInv, LocalsAgree, LocalAgrees
<1>4. /\ request' = [request EXCEPT ![r] =
                       [Idle EXCEPT !.op = op, !.target = m, !.todo = Program[op]]]
      /\ UNCHANGED <<memories, claims, versions>>
      /\ request \in [Requests -> Local]
  BY <1>1, <1>3 DEF Admit, tables, IInv, TypeOK
<1>5. /\ request'[r].op = op /\ request'[r].target = m
      /\ request'[r].todo = Program[op] /\ request'[r].claim = None
      /\ request'[r].version = None /\ request'[r].newVersion = None
      /\ request'[r].projection = None
  BY <1>4 DEF Idle
<1>6. ASSUME NEW q \in Requests, q # r
      PROVE  request'[q] = request[q] /\ request[q].todo = <<>>
  BY <1>2, <1>4, <1>6 DEF Running
<1>7. OneAtATime'
  BY <1>6 DEF OneAtATime, Running
<1>8. /\ TablesSerial' /\ Candidates' = Candidates
  BY <1>4, SerialTablesSame DEF SInv
<1>9. LocalSerial(request[r])'
  <2> DEFINE A == Ahead(Program[op])
  <2>1. /\ A \cap {"ensureClaimTarget", "backfillVersion"} # {} =>
             op \in {"update", "supersede", "delete", "noop"}
        /\ "getClaimVersion" \in A => op = "remove"
        /\ "invalidateClaim" \in A => "softDelete" \in A
        /\ A \cap ClaimStatements # {} =>
             A \cap {"ensureClaimTarget", "createClaim"} # {}
        /\ op = "update" => "getMemory" \in A
        /\ "createVersion" \in A => A \cap {"getMemory", "storeMemory"} # {}
        /\ "backfillVersion" \notin A
        /\ "releaseOld" \in A => "ensureClaimTarget" \in A
    BY <1>1, AheadProgram
  <2> HIDE DEF A
  <2>2. TargetServed(request[r])'
    BY <1>1, <1>4, <1>5, <1>8, <2>1 DEF TargetServed, Targeted, A
  <2>3. ClaimKnown(request[r])'
    BY <1>5, <2>1 DEF ClaimKnown, A
  <2>4. ProjectionFree(request[r])'
    BY <1>5, <2>1 DEF ProjectionFree, A
  <2> QED
    BY <1>1, <1>5, <2>2, <2>3, <2>4, TrackStart DEF LocalSerial
<1>10. ASSUME NEW q \in Requests, q # r
       PROVE  LocalSerial(request[q])'
  BY <1>6, <1>10 DEF SInv, LocalSerial
<1> QED
  BY <1>7, <1>8, <1>9, <1>10 DEF SInv

(* Every step keeps the invariant.                                         *)
LEMMA SerialNext ==
  ASSUME Serial, IInv, SInv, [Next]_vars
  PROVE  SInv'
<1>1. ASSUME NEW r \in Requests, Start(r)
      PROVE  SInv'
  BY <1>1, SerialStart
<1>2. ASSUME NEW r \in Requests, Statement(r) \/ Fail(r)
      PROVE  SInv'
  <2>1. request[r].todo # <<>>
    BY <1>2, StatementRuns
  <2> QED
    BY <1>2, <2>1, RunningAtWork, SerialStatement, SerialOthers
<1>3. CASE UNCHANGED vars
  <2>1. UNCHANGED <<memories, claims, versions, request>>
    BY <1>3 DEF vars
  <2>2. ASSUME NEW r \in Requests
        PROVE  LocalSerial(request[r])'
    BY <2>1, <2>2, SerialTablesSame
       DEF SInv, LocalSerial, TargetServed, ClaimKnown, ProjectionFree
  <2>3. OneAtATime'
    BY <2>1 DEF SInv, OneAtATime, Running
  <2> QED
    BY <2>1, <2>2, <2>3, SerialTablesSame DEF SInv
<1> QED
  BY <1>1, <1>2, <1>3 DEF Next

(* SInv holds in empty tables.                                             *)
LEMMA SerialInit == Init => SInv
<1> SUFFICES ASSUME Init PROVE SInv
  OBVIOUS
<1>1. OneAtATime
  BY DEF Init, OneAtATime, Running, Idle
<1>2. TablesSerial
  BY DEF Init, TablesSerial, VersionRowsAgree, MemoryIdIsUnique,
     OneServedVersion, DeletedServesNothing
<1>3. \A r \in Requests : LocalSerial(request[r])
  BY DEF Init, LocalSerial, Idle
<1> QED
  BY <1>1, <1>2, <1>3 DEF SInv

(* As long as requests do not overlap, SInv always holds, whatever fails.  *)
THEOREM SerialInvariance == ASSUME Serial PROVE Spec => [](IInv /\ SInv)
<1>1. Init => IInv /\ SInv
  BY InvInit, SerialInit
<1>2. (IInv /\ SInv) /\ [Next]_vars => (IInv /\ SInv)'
  BY InvNext, SerialNext
<1> QED
  BY <1>1, <1>2, PTL DEF Spec

(* However many requests die half way, a claim never has two memories that *)
(* searches return.                                                        *)
THEOREM OneProjectionSafe ==
  ASSUME Serial PROVE Spec => []OneActiveProjectionPerClaim
<1>1. SInv => OneActiveProjectionPerClaim
  <2> SUFFICES ASSUME SInv, NEW v \in DOMAIN versions, NEW w \in DOMAIN versions,
                      versions[v].claim = versions[w].claim,
                      versions[v].memory \in Candidates,
                      versions[w].memory \in Candidates
               PROVE  versions[v].memory = versions[w].memory
    BY DEF OneActiveProjectionPerClaim
  <2>1. v = w
    BY DEF SInv, TablesSerial, OneServedVersion, Served
  <2> QED
    BY <2>1
<1> QED
  BY <1>1, SerialInvariance, PTL

(* No statement of a request re-activates a claim that was deleted.        *)
LEMMA DeletedStays ==
  ASSUME IInv, SInv, [Next]_vars, NEW c \in DOMAIN claims,
         claims[c].status = "deleted"
  PROVE  claims'[c].status = "deleted"
<1>1. ASSUME NEW r \in Requests, Statement(r)
      PROVE  claims'[c].status = "deleted"
  <2>1. AtWork(r)
    BY <1>1, StatementRuns, RunningAtWork
  <2>2. CASE SetCurrent(r) \/ BackfillCurrent(r)
    <3>1. SameRows
      BY <2>1, <2>2, QuietStatement DEF AtWork
    <3> QED
      BY <3>1 DEF SameRows
  <2>3. CASE InvalidateClaim(r)
    BY <2>3 DEF InvalidateClaim
  <2>4. CASE CreateClaim(r)
    BY <2>4 DEF CreateClaim, IInv, TypeOK
  <2>5. CASE UNCHANGED claims
    BY <2>5
  <2> QED
    BY <1>1, <2>2, <2>3, <2>4, <2>5
       DEF Statement, StoreCmo, StoreMemory, InsertClarification, InsertMemory,
           StoreFacts, DeleteFacts, UpdateContent, ExpireMemory, SoftDelete,
           RelinkCmo, GetMemory, EnsureClaimTarget, GetClaimVersion,
           CreateVersion, CreateTombstone, BackfillVersion, RejectDuplicate,
           CloseOld, ReleaseOld, LinkOld, AddEvidence, CiteTarget, Cite, tables
<1>2. ASSUME NEW r \in Requests, Start(r) \/ Fail(r)
      PROVE  UNCHANGED claims
  BY <1>2 DEF Start, StoreCanonicalFact, UpdateCanonicalFact,
     SupersedeCanonicalFact, DeleteCanonicalFact, RecordNoop,
     StoreClarification, StoreVerbatim, ArchiveMemory, DeleteMemory, Admit,
     Fail, tables
<1> QED
  BY <1>1, <1>2 DEF Next, vars

(* A deleted claim stays deleted in every step.                            *)
THEOREM DeletionIsFinal ==
  ASSUME Serial PROVE Spec => DeletedClaimStaysDeleted
<1>1. IInv /\ SInv /\ [Next]_vars =>
        [\A c \in DOMAIN claims :
           claims[c].status = "deleted" => claims'[c].status = "deleted"]_vars
  BY DeletedStays
<1> QED
  BY <1>1, SerialInvariance, PTL DEF Spec, DeletedClaimStaysDeleted


-----------------------------------------------------------------------------
(* The line of a version.                                                  *)

(* Induction over the natural numbers, for a set of them.                  *)
LEMMA InSetInduction ==
  ASSUME NEW P, 0 \in P, \A n \in Nat : n \in P => n + 1 \in P
  PROVE  Nat \subseteq P
<1> DEFINE R == OpToRel(<, Nat)
           T == Nat \ P
<1>1. \A x, y \in Nat : <<y, x>> \in R <=> y < x
  BY DEF OpToRel
<1>2. IsWellFoundedOn(R, Nat)
  BY NatLessThanWellFounded
<1> HIDE DEF R
<1>3. SUFFICES ASSUME T # {} PROVE FALSE
  OBVIOUS
<1>4. PICK x \in T : \A y \in T : ~(<<y, x>> \in R)
  BY <1>2, <1>3, WFMin
<1>5. \A y \in T : ~(y < x)
  BY <1>1, <1>4
<1>6. x # 0 /\ x - 1 \in Nat
  BY <1>4
<1>7. x - 1 \in P
  BY <1>5, <1>6
<1>8. (x - 1) + 1 \in P
  BY <1>6, <1>7
<1> QED
  BY <1>4, <1>6, <1>8

(* f is the line of every version up to n, where p is the previous version *)
(* of each.                                                                *)
LineOf(f, n, p) ==
  f = [v \in 0..n |-> IF v = 0 THEN <<>> ELSE Append(f[p[v]], v)]

(* There is such a function as long as a previous version is older.        *)
LEMMA LineExists ==
  ASSUME NEW n \in Nat, NEW p, \A v \in 1..n : p[v] \in 0..(v - 1)
  PROVE  \E f : LineOf(f, n, p)
<1> DEFINE P == {m \in Nat : m <= n => \E f : LineOf(f, m, p)}
<1>1. 0 \in P
  <2> DEFINE f == [v \in 0..0 |-> <<>>]
  <2>1. \A v \in 0..0 : v = 0
    OBVIOUS
  <2>2. LineOf(f, 0, p)
    BY <2>1 DEF LineOf
  <2> QED
    BY <2>2
<1>2. ASSUME NEW m \in Nat, m \in P
      PROVE  m + 1 \in P
  <2>1. SUFFICES ASSUME m + 1 <= n
                 PROVE  \E g : LineOf(g, m + 1, p)
    OBVIOUS
  <2>2. PICK f : LineOf(f, m, p)
    BY <1>2, <2>1
  <2> DEFINE g == [v \in 0..(m + 1) |-> IF v = m + 1 THEN Append(f[p[v]], v) ELSE f[v]]
  <2>3. \A v \in 0..m : f[v] = IF v = 0 THEN <<>> ELSE Append(f[p[v]], v)
    BY <2>2 DEF LineOf
  <2>4. ASSUME NEW v \in 0..(m + 1)
        PROVE  g[v] = IF v = 0 THEN <<>> ELSE Append(g[p[v]], v)
    <3>1. CASE v = 0
      BY <2>3, <3>1
    <3>2. CASE v # 0
      <4>1. p[v] \in 0..(v - 1) /\ p[v] \in 0..m
        BY <2>1, <3>2
      <4>2. g[p[v]] = f[p[v]]
        BY <4>1
      <4>3. g[v] = Append(f[p[v]], v)
        <5>1. CASE v = m + 1
          BY <5>1
        <5>2. CASE v # m + 1
          <6>1. v \in 0..m /\ g[v] = f[v]
            BY <5>2
          <6> HIDE DEF g
          <6> QED
            BY <2>3, <3>2, <6>1
        <5> QED
          BY <5>1, <5>2
      <4> QED
        BY <3>2, <4>2, <4>3
    <3> QED
      BY <3>1, <3>2
  <2>5. g = [v \in 0..(m + 1) |-> g[v]]
    OBVIOUS
  <2> HIDE DEF g
  <2>6. LineOf(g, m + 1, p)
    BY <2>4, <2>5 DEF LineOf
  <2> QED
    BY <2>6
<1> HIDE DEF P
<1>3. n \in P
  BY <1>1, <1>2, InSetInduction
<1> QED
  BY <1>3 DEF P

(* It is what previous says, whatever other versions there are.            *)
LEMMA LineUnique ==
  ASSUME NEW n \in Nat, NEW m \in Nat, n <= m, NEW p, NEW q, NEW f, NEW g,
         \A v \in 1..n : p[v] \in 0..(v - 1) /\ q[v] = p[v],
         LineOf(f, n, p), LineOf(g, m, q)
  PROVE  \A v \in 0..n : g[v] = f[v]
<1> DEFINE P == {k \in Nat : \A v \in 0..n : v <= k => g[v] = f[v]}
<1>0. /\ \A v \in 0..n : f[v] = IF v = 0 THEN <<>> ELSE Append(f[p[v]], v)
      /\ \A v \in 0..n : g[v] = IF v = 0 THEN <<>> ELSE Append(g[q[v]], v)
  <2>1. \A v \in 0..n : f[v] = IF v = 0 THEN <<>> ELSE Append(f[p[v]], v)
    BY DEF LineOf
  <2>2. \A v \in 0..m : g[v] = IF v = 0 THEN <<>> ELSE Append(g[q[v]], v)
    BY DEF LineOf
  <2>3. 0..n \subseteq 0..m
    OBVIOUS
  <2> QED
    BY <2>1, <2>2, <2>3
<1>1. 0 \in P
  <2>1. \A v \in 0..n : v <= 0 => v = 0
    OBVIOUS
  <2> QED
    BY <1>0, <2>1
<1>2. ASSUME NEW k \in Nat, k \in P
      PROVE  k + 1 \in P
  <2>1. SUFFICES ASSUME k + 1 \in 0..n
                 PROVE  g[k + 1] = f[k + 1]
    BY <1>2
  <2>2. p[k + 1] \in 0..k /\ q[k + 1] = p[k + 1]
    BY <2>1
  <2>3. g[p[k + 1]] = f[p[k + 1]]
    BY <1>2, <2>1, <2>2
  <2> QED
    BY <1>0, <2>1, <2>2, <2>3
<1> HIDE DEF P
<1>3. n \in P
  BY <1>1, <1>2, InSetInduction
<1> QED
  BY <1>3 DEF P

(* It lists versions.                                                      *)
LEMMA LineTyped ==
  ASSUME NEW n \in Nat, NEW p, \A v \in 1..n : p[v] \in 0..(v - 1), NEW f,
         LineOf(f, n, p)
  PROVE  \A v \in 0..n : f[v] \in Seq(Nat)
<1> DEFINE P == {k \in Nat : \A v \in 0..n : v <= k => f[v] \in Seq(Nat)}
<1>0. \A v \in 0..n : f[v] = IF v = 0 THEN <<>> ELSE Append(f[p[v]], v)
  BY DEF LineOf
<1>1. 0 \in P
  <2>1. \A v \in 0..n : v <= 0 => v = 0
    OBVIOUS
  <2>2. <<>> \in Seq(Nat)
    OBVIOUS
  <2> QED
    BY <1>0, <2>1, <2>2
<1>2. ASSUME NEW k \in Nat, k \in P
      PROVE  k + 1 \in P
  <2>1. SUFFICES ASSUME k + 1 \in 0..n
                 PROVE  f[k + 1] \in Seq(Nat)
    BY <1>2
  <2>2. p[k + 1] \in 0..k
    BY <2>1
  <2>3. f[p[k + 1]] \in Seq(Nat)
    BY <1>2, <2>1, <2>2
  <2> HIDE DEF P
  <2>4. f[k + 1] = Append(f[p[k + 1]], k + 1)
    <3>1. k + 1 # 0
      OBVIOUS
    <3> QED
      BY <1>0, <2>1, <3>1
  <2>5. \A s \in Seq(Nat) : Append(s, k + 1) \in Seq(Nat)
    OBVIOUS
  <2> QED
    BY <2>3, <2>4, <2>5
<1> HIDE DEF P
<1>3. n \in P
  BY <1>1, <1>2, InSetInduction
<1> QED
  BY <1>3 DEF P

(* The previous version of every version.                                  *)
PreviousOf == [v \in DOMAIN versions |-> versions[v].previous]

(* What LineTo is.                                                         *)
LineToIs ==
  /\ LineOf(LineTo, Len(versions), PreviousOf)
  /\ LineTo[None] = <<>>
  /\ \A v \in DOMAIN versions :
       LineTo[v] = Append(LineTo[versions[v].previous], v)
  /\ \A v \in {None} \cup DOMAIN versions : LineTo[v] \in Seq(Nat)

(* LineTo is the line of every version.                                    *)
LEMMA LineToFacts == TypeOK /\ PreviousIsOlder => LineToIs
<1> SUFFICES ASSUME TypeOK, PreviousIsOlder PROVE LineToIs
  OBVIOUS
<1> DEFINE n == Len(versions)
<1>1. n \in Nat /\ DOMAIN versions = 1..n /\ {None} \cup DOMAIN versions = 0..n
  BY DEF TypeOK, None
<1>2. \A v \in 1..n : PreviousOf[v] \in 0..(v - 1) /\ PreviousOf[v] = versions[v].previous
  BY <1>1 DEF PreviousIsOlder, PreviousOf
<1> HIDE DEF n
<1>3. PICK f : LineOf(f, n, PreviousOf)
  BY <1>1, <1>2, LineExists
<1>4. \A v \in 0..n : v # 0 => PreviousOf[v] = versions[v].previous
  BY <1>2
<1>5. f = [v \in {None} \cup DOMAIN versions |->
             IF v = None THEN <<>> ELSE Append(f[versions[v].previous], v)]
  BY <1>1, <1>3, <1>4 DEF LineOf, None
<1>6. LineTo = [v \in {None} \cup DOMAIN versions |->
             IF v = None THEN <<>> ELSE Append(LineTo[versions[v].previous], v)]
  BY <1>5 DEF LineTo
<1>7. LineOf(LineTo, n, PreviousOf)
  BY <1>1, <1>4, <1>6 DEF LineOf, None
<1>8. \A v \in 0..n : LineTo[v] \in Seq(Nat)
  BY <1>1, <1>2, <1>7, LineTyped
<1>9. /\ LineTo[None] = <<>>
      /\ \A v \in DOMAIN versions :
           LineTo[v] = Append(LineTo[versions[v].previous], v)
  <2>1. None \notin DOMAIN versions
    BY <1>1 DEF None
  <2> QED
    BY <1>6, <2>1
<1> QED
  BY <1>1, <1>7, <1>8, <1>9 DEF n, LineToIs

(* The lines there are stay what they are when versions are added.         *)
LEMMA LineKept ==
  ASSUME TypeOK, PreviousIsOlder, TypeOK', PreviousIsOlder',
         DOMAIN versions \subseteq DOMAIN versions',
         \A v \in DOMAIN versions : versions'[v].previous = versions[v].previous
  PROVE  \A v \in {None} \cup DOMAIN versions : LineTo'[v] = LineTo[v]
<1>1. PICK n \in Nat : /\ n = Len(versions) /\ DOMAIN versions = 1..n
                       /\ {None} \cup DOMAIN versions = 0..n
  <2>1. /\ Len(versions) \in Nat
        /\ DOMAIN versions = 1..Len(versions)
    BY DEF TypeOK
  <2>2. {None} \cup (1..Len(versions)) = 0..Len(versions)
    BY <2>1 DEF None
  <2> QED
    BY <2>1, <2>2
<1>2. PICK m \in Nat : m = Len(versions') /\ DOMAIN versions' = 1..m
  BY DEF TypeOK
<1>3. n <= m
  BY <1>1, <1>2
<1>4. PICK p : p = PreviousOf
  OBVIOUS
<1>5. PICK q : q = PreviousOf'
  OBVIOUS
<1>6. \A v \in 1..n : p[v] \in 0..(v - 1) /\ q[v] = p[v]
  BY <1>1, <1>2, <1>4, <1>5 DEF PreviousIsOlder, PreviousOf
<1>7. LineOf(LineTo, n, p)
  BY <1>1, <1>4, LineToFacts DEF LineToIs
<1>80. LineToIs'
  BY LineToFacts, PTL
<1>8. LineOf(LineTo, Len(versions), PreviousOf)'
  BY <1>80 DEF LineToIs
<1>9. LineOf(LineTo', m, q)
  BY <1>2, <1>5, <1>8 DEF LineOf
<1> HIDE DEF LineTo
<1>10. PICK f, g : f = LineTo /\ g = LineTo'
  OBVIOUS
<1>11. \A v \in 0..n : g[v] = f[v]
  BY <1>3, <1>6, <1>7, <1>9, <1>10, LineUnique
<1> QED
  BY <1>1, <1>10, <1>11

-----------------------------------------------------------------------------
(* Which line continues which.                                             *)

(* Prefixes of lists of versions.                                          *)
LEMMA PrefixFacts ==
  /\ \A s \in Seq(Nat) : IsPrefix(s, s) /\ IsPrefix(<<>>, s)
  /\ \A s \in Seq(Nat), e \in Nat : IsPrefix(s, Append(s, e))
  /\ \A s, t, u \in Seq(Nat) : IsPrefix(s, t) /\ IsPrefix(t, u) => IsPrefix(s, u)
<1>1. ASSUME NEW s \in Seq(Nat)
      PROVE  IsPrefix(s, s) /\ IsPrefix(<<>>, s)
  <2>1. Len(s) \in Nat /\ Len(<<>>) = 0
    OBVIOUS
  <2>2. SubSeq(<<>>, 1, 0) = <<>> /\ SubSeq(s, 1, 0) = <<>>
    OBVIOUS
  <2> QED
    BY <2>1, <2>2 DEF IsPrefix
<1>2. ASSUME NEW s \in Seq(Nat), NEW e \in Nat
      PROVE  IsPrefix(s, Append(s, e))
  <2>1. Len(s) \in Nat /\ Len(Append(s, e)) = Len(s) + 1
    OBVIOUS
  <2>2. SubSeq(s, 1, Len(s)) = SubSeq(Append(s, e), 1, Len(s))
    OBVIOUS
  <2> QED
    BY <2>1, <2>2 DEF IsPrefix
<1>3. ASSUME NEW s \in Seq(Nat), NEW t \in Seq(Nat)
      PROVE  IsPrefix(s, t) <=> /\ Len(s) <= Len(t)
                                /\ \A i \in 1..Len(s) : s[i] = t[i]
  <2>1. Len(s) \in Nat /\ Len(t) \in Nat
    OBVIOUS
  <2>2. SUFFICES ASSUME Len(s) <= Len(t)
                 PROVE  SubSeq(s, 1, Len(s)) = SubSeq(t, 1, Len(s))
                          <=> \A i \in 1..Len(s) : s[i] = t[i]
    BY DEF IsPrefix
  <2>3. /\ SubSeq(s, 1, Len(s)) = [i \in 1..Len(s) |-> s[i]]
        /\ SubSeq(t, 1, Len(s)) = [i \in 1..Len(s) |-> t[i]]
    BY <2>1, <2>2
  <2> QED
    BY <2>3
<1>4. ASSUME NEW s \in Seq(Nat), NEW t \in Seq(Nat), NEW u \in Seq(Nat),
             IsPrefix(s, t), IsPrefix(t, u)
      PROVE  IsPrefix(s, u)
  <2>1. /\ Len(s) \in Nat /\ Len(t) \in Nat /\ Len(u) \in Nat
        /\ Len(s) <= Len(t) /\ Len(t) <= Len(u)
        /\ \A i \in 1..Len(s) : s[i] = t[i]
        /\ \A i \in 1..Len(t) : t[i] = u[i]
    BY <1>3, <1>4
  <2>2. 1..Len(s) \subseteq 1..Len(t) /\ Len(s) <= Len(u)
    BY <2>1
  <2>3. \A i \in 1..Len(s) : s[i] = u[i]
    BY <2>1, <2>2
  <2> QED
    BY <1>3, <2>2, <2>3
<1> QED
  BY <1>1, <1>2, <1>4

(* How lines continue each other.                                          *)
LEMMA LeadsFacts ==
  ASSUME TypeOK, PreviousIsOlder
  PROVE  LET V == {None} \cup DOMAIN versions IN
         /\ \A v \in V : Leads(v, v) /\ Leads(None, v)
         /\ \A v \in DOMAIN versions : Leads(versions[v].previous, v)
         /\ \A u, v, w \in V : Leads(u, v) /\ Leads(v, w) => Leads(u, w)
<1> DEFINE V == {None} \cup DOMAIN versions
<1>1. /\ LineTo[None] = <<>>
      /\ \A v \in DOMAIN versions :
           LineTo[v] = Append(LineTo[versions[v].previous], v)
      /\ \A v \in V : LineTo[v] \in Seq(Nat)
  BY LineToFacts DEF LineToIs
<1>2. \A v \in DOMAIN versions : v \in Nat /\ versions[v].previous \in V
  <2>1. DOMAIN versions = 1..Len(versions) /\ Len(versions) \in Nat
    BY DEF TypeOK
  <2> QED
    BY <2>1 DEF PreviousIsOlder, None
<1> HIDE DEF V
<1>3. \A v \in V : Leads(v, v) /\ Leads(None, v)
  BY <1>1, PrefixFacts DEF Leads
<1>4. ASSUME NEW v \in DOMAIN versions
      PROVE  Leads(versions[v].previous, v)
  <2> DEFINE s == LineTo[versions[v].previous]
  <2>1. s \in Seq(Nat) /\ v \in Nat /\ LineTo[v] = Append(s, v)
    BY <1>1, <1>2
  <2> HIDE DEF s
  <2>2. IsPrefix(s, LineTo[v])
    BY <2>1, PrefixFacts
  <2> QED
    BY <2>2 DEF Leads, s
<1>5. \A u, v, w \in V : Leads(u, v) /\ Leads(v, w) => Leads(u, w)
  BY <1>1, PrefixFacts DEF Leads
<1> QED
  BY <1>3, <1>4, <1>5 DEF V

(* A step that adds versions leaves that as it is.                         *)
LEMMA LeadsKept ==
  ASSUME TypeOK, PreviousIsOlder, TypeOK', PreviousIsOlder', RowsKept
  PROVE  \A u, v \in {None} \cup DOMAIN versions : Leads(u, v)' <=> Leads(u, v)
<1>1. \A v \in {None} \cup DOMAIN versions : LineTo'[v] = LineTo[v]
  BY LineKept DEF RowsKept
<1> QED
  BY <1>1 DEF Leads

-----------------------------------------------------------------------------
(* Histories, whatever fails.                                              *)

(* What is known of a request that runs a statement, about histories.      *)
LEMMA HistoryFacts ==
  ASSUME NEW r, AtWork(r), HistoryInv, TypeOK'
  PROVE  LET l == request[r]
             V == {None} \cup DOMAIN versions
         IN
         /\ l.version \in V /\ l.newVersion \in V
         /\ \A c \in DOMAIN claims : Current(c) \in V
         /\ \A v \in DOMAIN versions :
              /\ v \in Nat /\ v # None /\ versions[v].previous \in V
              /\ versions[v].claim \in DOMAIN claims
         /\ PointerExtends(l)
         /\ r \in Running
<1>1. \A c \in DOMAIN claims : Current(c) \in {None} \cup DOMAIN versions
  BY DEF AtWork, IInv, RowsAgree, LineageStaysInClaim, Current
<1>2. \A v \in DOMAIN versions :
        /\ v \in Nat /\ v # None /\ versions[v].claim \in DOMAIN claims
        /\ versions[v].previous \in {None} \cup DOMAIN versions
  <2>1. DOMAIN versions = 1..Len(versions) /\ Len(versions) \in Nat
    BY DEF AtWork, IInv, TypeOK
  <2>2. \A v \in DOMAIN versions :
          versions[v].previous \in {None} \cup DOMAIN versions
    BY <2>1 DEF HistoryInv, PreviousIsOlder, None
  <2>3. \A v \in DOMAIN versions : versions[v].claim \in DOMAIN claims
    BY DEF AtWork, TablesSerial, VersionRowsAgree
  <2> QED
    BY <2>1, <2>2, <2>3 DEF None
<1>3. r \in Running
  BY DEF AtWork, Running
<1> QED
  BY <1>1, <1>2, <1>3, WorkFacts DEF HistoryInv

(* A statement that leaves the current versions and what it will make      *)
(* current, and adds neither a version nor to what is served.              *)
LEMMA HistoryKept ==
  ASSUME NEW r, AtWork(r), HistoryInv, TypeOK', RowsKept,
         DOMAIN versions' = DOMAIN versions,
         \A v \in DOMAIN versions : Served(v)' => Served(v),
         DOMAIN claims' = DOMAIN claims,
         \A c \in DOMAIN claims : claims'[c].current = claims[c].current,
         \/ /\ request'[r].claim = request[r].claim
            /\ request'[r].version = request[r].version
            /\ request'[r].newVersion = request[r].newVersion
            /\ Ahead(request'[r].todo) \subseteq Ahead(request[r].todo)
         \/ Ahead(request'[r].todo) \cap {"setCurrent", "backfillCurrent"} = {}
         \/ request'[r].claim = None,
         request'[r].claim # None => request'[r].claim \in DOMAIN claims
  PROVE  PreviousIsOlder' /\ ServedContinues' /\ PointerExtends(request[r])'
<1> DEFINE l == request[r]
           V == {None} \cup DOMAIN versions
<1>f. /\ l.version \in V /\ l.newVersion \in V
      /\ \A c \in DOMAIN claims : Current(c) \in V
      /\ \A v \in DOMAIN versions :
           v \in Nat /\ v # None /\ versions[v].claim \in DOMAIN claims
      /\ PointerExtends(l)
  BY HistoryFacts
<1>1. PreviousIsOlder'
  BY DEF PreviousIsOlder, HistoryInv, RowsKept
<1>2. \A u, v \in V : Leads(u, v)' <=> Leads(u, v)
  BY <1>1, LeadsKept DEF AtWork, IInv, HistoryInv
<1>3. \A c \in DOMAIN claims : Current(c)' = Current(c)
  BY DEF Current
<1>4. ASSUME NEW v \in DOMAIN versions', Served(v)'
      PROVE  Leads(Current(versions[v].claim), v)'
  <2>1. v \in DOMAIN versions /\ Served(v) /\ versions'[v].claim = versions[v].claim
    BY <1>4 DEF RowsKept
  <2>2. PICK c : c = versions[v].claim
    OBVIOUS
  <2>3. Leads(Current(c), v) /\ c \in DOMAIN claims /\ v \in V
    BY <1>f, <2>1, <2>2 DEF HistoryInv, ServedContinues
  <2>4. PICK k \in V : k = Current(c)
    BY <1>f, <2>3
  <2>5. Leads(k, v)' /\ Current(c)' = k
    BY <1>2, <1>3, <2>3, <2>4
  <2> QED
    BY <2>1, <2>2, <2>5 DEF Leads
<1>5. ServedContinues'
  BY <1>4 DEF ServedContinues
<1>6. PointerExtends(request[r])'
  <2>1. SUFFICES
          ASSUME request'[r].claim # None,
                 Ahead(request'[r].todo) \cap {"setCurrent", "backfillCurrent"} # {}
          PROVE  PointerExtends(request[r])'
    BY DEF PointerExtends
  <2>2. /\ request'[r].claim = l.claim /\ request'[r].version = l.version
        /\ request'[r].newVersion = l.newVersion
        /\ Ahead(request'[r].todo) \subseteq Ahead(l.todo)
        /\ l.claim \in DOMAIN claims /\ l.claim # None
        /\ Ahead(l.todo) \cap {"setCurrent", "backfillCurrent"} # {}
    BY <2>1
  <2>3. PICK c \in DOMAIN claims, u \in V : c = l.claim /\ u = l.version
    BY <1>f, <2>2
  <2>4. PICK k \in V : k = Current(c)
    BY <1>f
  <2>5. Leads(k, u)
    BY <1>f, <2>2, <2>3, <2>4 DEF PointerExtends
  <2>6. Leads(Current(request[r].claim), request[r].version)'
    <3>1. Leads(k, u)' /\ Current(c)' = k
      BY <1>2, <1>3, <2>4, <2>5
    <3> QED
      BY <2>2, <2>3, <3>1 DEF Leads, Current
  <2>7. \A v \in DOMAIN versions' :
          versions'[v].claim = l.claim /\ Served(v)' =>
             v \in DOMAIN versions /\ versions[v].claim = l.claim /\ Served(v)
    BY DEF RowsKept
  <2> HIDE DEF l
  <2>8. \A v \in DOMAIN versions' :
          versions'[v].claim = request'[r].claim /\ Served(v)' =>
            /\ request'[r].newVersion # None => v = request'[r].newVersion
            /\ request'[r].version # None
                 /\ "backfillCurrent" \in Ahead(request'[r].todo)
                 => v = request'[r].version
    BY <1>f, <2>2, <2>7 DEF PointerExtends
  <2> QED
    BY <2>6, <2>8 DEF PointerExtends
<1> QED
  BY <1>1, <1>5, <1>6

(* What a statement leaves of the histories.                               *)
HistoryAfter(r) == PreviousIsOlder' /\ ServedContinues' /\ PointerExtends(request[r])'

(* A statement that changes neither what is served nor what is current.    *)
LEMMA HistoryQuiet ==
  ASSUME NEW r, AtWork(r), HistoryInv, TypeOK',
         \/ StoreCmo(r) \/ StoreFacts(r) \/ DeleteFacts(r) \/ UpdateContent(r)
         \/ RelinkCmo(r) \/ CloseOld(r) \/ LinkOld(r)
         \/ AddEvidence(r) \/ CiteTarget(r)
  PROVE  HistoryAfter(r)
<1>1. SameRows /\ SameLocals(request[r], request'[r])
  BY QuietStatement DEF AtWork
<1>2. UNCHANGED claims
  BY DEF StoreCmo, StoreFacts, DeleteFacts, UpdateContent, RelinkCmo, CloseOld,
     LinkOld, AddEvidence, CiteTarget, Cite
<1>3. RowsKept
  BY StatementKept DEF Statement, AtWork, IInv
<1>4. /\ Ahead(Tail(request[r].todo)) \subseteq Ahead(request[r].todo)
      /\ request[r].claim # None => request[r].claim \in DOMAIN claims
  BY WorkFacts DEF ClaimKnown
<1>5. /\ DOMAIN versions' = DOMAIN versions
      /\ \A v \in DOMAIN versions : Served(v)' => Served(v)
  BY <1>1, SameServed DEF SameRows
<1>6. /\ request'[r].claim = request[r].claim
      /\ request'[r].version = request[r].version
      /\ request'[r].newVersion = request[r].newVersion
      /\ Ahead(request'[r].todo) \subseteq Ahead(request[r].todo)
  BY <1>1, <1>4 DEF SameLocals
<1> QED
  BY <1>2, <1>3, <1>4, <1>5, <1>6, HistoryKept DEF HistoryAfter

(* A memory is inserted, retired or read, or a version gives its memory up. *)
LEMMA HistoryMemory ==
  ASSUME NEW r, AtWork(r), HistoryInv, TypeOK',
         \/ StoreMemory(r) \/ InsertClarification(r) \/ ExpireMemory(r)
         \/ SoftDelete(r) \/ GetMemory(r) \/ ReleaseOld(r)
  PROVE  HistoryAfter(r)
<1> DEFINE l == request[r]
<1>f. /\ TypeOK /\ l \in Local /\ request \in [Requests -> Local]
      /\ Ahead(l.todo) = {Head(l.todo)} \cup Ahead(Tail(l.todo))
      /\ l.claim # None => l.claim \in DOMAIN claims
      /\ l.target \in Nat
  BY WorkFacts DEF ClaimKnown
<1>t. /\ DOMAIN memories = 1..Len(memories) /\ Len(memories) \in Nat
      /\ \A m \in DOMAIN memories : memories[m] \in MemoryRow
      /\ \A v \in DOMAIN versions : versions[v] \in VersionRow
      /\ VersionRowsAgree
  BY <1>f, TableFacts DEF AtWork, TablesSerial, TypeOK
<1>1. RowsKept
  BY StatementKept DEF Statement, AtWork, IInv
<1>2. /\ UNCHANGED claims
      /\ request'[r].claim = l.claim /\ request'[r].version = l.version
      /\ request'[r].newVersion = l.newVersion
      /\ request'[r].todo = Tail(l.todo)
  <2>1. CASE StoreMemory(r) \/ InsertClarification(r)
    BY <2>1, <1>f DEF StoreMemory, InsertClarification, InsertMemory, Proceed,
       Continue, Local, AtWork
  <2>2. CASE ExpireMemory(r) \/ SoftDelete(r) \/ ReleaseOld(r)
    BY <2>2, <1>f DEF ExpireMemory, SoftDelete, ReleaseOld, Proceed, Continue,
       Local, AtWork
  <2>3. CASE GetMemory(r)
    BY <2>3, <1>f DEF GetMemory, Proceed, Continue, Local, AtWork, tables
  <2> QED
    BY <2>1, <2>2, <2>3
<1>3. /\ DOMAIN versions' = DOMAIN versions
      /\ \A v \in DOMAIN versions :
           versions'[v].memory \in {versions[v].memory, None}
  <2>1. CASE ReleaseOld(r)
    BY <2>1, <1>t DEF ReleaseOld, VersionRow
  <2>2. CASE ~ReleaseOld(r)
    <3>1. UNCHANGED versions
      BY <2>2 DEF StoreMemory, InsertClarification, InsertMemory, ExpireMemory,
         SoftDelete, GetMemory, tables
    <3> QED
      BY <3>1
  <2> QED
    BY <2>1, <2>2
<1>4. \A v \in DOMAIN versions : Served(v)' => Served(v)
  <2>1. SUFFICES ASSUME NEW v \in DOMAIN versions, NEW m,
                        m = versions'[v].memory, m \in Candidates'
                 PROVE  Served(v)
    BY DEF Served
  <2>2. None \notin DOMAIN memories /\ None \notin DOMAIN memories'
    BY <1>t, TypeOK' DEF TypeOK, None
  <2>3. m = versions[v].memory /\ m # None
    BY <1>3, <2>1, <2>2 DEF Candidates
  <2>4. m \in DOMAIN memories
    BY <1>t, <2>3 DEF VersionRowsAgree
  <2>5. memories[m].life = "active"
    <3>1. CASE StoreMemory(r) \/ InsertClarification(r)
      <4>1. PICK row : memories' = Append(memories, row)
        BY <3>1 DEF StoreMemory, InsertClarification, InsertMemory
      <4>2. memories'[m] = memories[m]
        BY <4>1, <2>4, <1>f DEF TypeOK
      <4> QED
        BY <4>2, <2>1 DEF Candidates
    <3>2. CASE ExpireMemory(r) \/ SoftDelete(r)
      BY <3>2, <2>1, <2>4, <1>t DEF Candidates, ExpireMemory, SoftDelete, MemoryRow
    <3>3. CASE GetMemory(r) \/ ReleaseOld(r)
      BY <3>3, <2>1 DEF Candidates, GetMemory, ReleaseOld, tables
    <3> QED
      BY <3>1, <3>2, <3>3
  <2> QED
    BY <2>3, <2>4, <2>5 DEF Served, Candidates
<1>5. Ahead(request'[r].todo) \subseteq Ahead(l.todo)
  BY <1>f, <1>2
<1> QED
  BY <1>f, <1>1, <1>2, <1>3, <1>4, <1>5, HistoryKept DEF HistoryAfter

(* A request that ends half way.                                           *)
LEMMA HistoryDrop ==
  ASSUME NEW r, AtWork(r), HistoryInv, TypeOK', RejectDuplicate(r) \/ Fail(r)
  PROVE  HistoryAfter(r)
<1>1. /\ UNCHANGED <<memories, claims, versions>>
      /\ request'[r].claim = request[r].claim /\ request'[r].todo = <<>>
  BY WorkFacts DEF RejectDuplicate, Fail, tables, Local, AtWork
<1>2. RowsKept
  BY <1>1, UnchangedKept
<1>3. Ahead(request'[r].todo) = {}
  BY <1>1 DEF Ahead
<1>4. \A v : Served(v)' = Served(v)
  BY <1>1, SerialTablesSame DEF AtWork
<1>5. request[r].claim # None => request[r].claim \in DOMAIN claims
  BY WorkFacts DEF ClaimKnown
<1> QED
  BY <1>1, <1>2, <1>3, <1>4, <1>5, HistoryKept DEF HistoryAfter

(* deleteMemory reads the version of its target.                           *)
LEMMA HistoryGetClaimVersion ==
  ASSUME NEW r, AtWork(r), HistoryInv, TypeOK', GetClaimVersion(r)
  PROVE  HistoryAfter(r)
<1> DEFINE l == request[r]
           B == Ahead(Tail(l.todo))
<1>f. /\ l \in Local /\ request \in [Requests -> Local]
      /\ l.todo \in Track(l.op) /\ Tail(l.todo) \in Seq(Statements)
      /\ l.claim # None => l.claim \in DOMAIN claims
  BY WorkFacts DEF ClaimKnown
<1>1. Head(l.todo) = "getClaimVersion" /\ UNCHANGED <<memories, claims, versions>>
  BY DEF GetClaimVersion, At, tables
<1>2. B = {"softDelete"}
  BY <1>1, <1>f, AddTrack, UpdateTrack, SupersedeTrack, DeleteTrack, NoopTrack,
     RemoveTrack, ShortTrack DEF AtWork, Operations
<1>3. /\ Ahead(request'[r].todo) \cap {"setCurrent", "backfillCurrent"} = {}
      /\ request'[r].claim # None => request'[r].claim \in DOMAIN claims
  <2>1. ASSUME NEW v \in VersionsOf(l.target),
               Continue(r, [l EXCEPT !.claim = versions[v].claim, !.version = v],
                        Tail(l.todo) \o RemoveClaim)
        PROVE  /\ request'[r].todo = Tail(l.todo) \o RemoveClaim
               /\ request'[r].claim \in DOMAIN claims
    <3>1. versions[v].claim \in DOMAIN claims
      BY HistoryFacts DEF VersionsOf
    <3> QED
      BY <1>f, <2>1, <3>1 DEF Continue, Local, AtWork
  <2>2. Ahead(Tail(l.todo) \o RemoveClaim) = {"closeOld", "invalidateClaim"} \cup B
    BY <1>f, AheadRemoveClaim
  <2>3. CASE Proceed(r, l)
    <3>1. request'[r].todo = Tail(l.todo) /\ request'[r].claim = l.claim
      BY <1>f, <2>3 DEF Proceed, Continue, Local, AtWork
    <3> QED
      BY <1>f, <1>2, <3>1
  <2>4. CASE ~Proceed(r, l)
    <3>1. PICK v \in VersionsOf(l.target) :
            Continue(r, [l EXCEPT !.claim = versions[v].claim, !.version = v],
                     Tail(l.todo) \o RemoveClaim)
      BY <2>4 DEF GetClaimVersion
    <3> QED
      BY <1>2, <2>1, <2>2, <3>1
  <2> QED
    BY <2>3, <2>4
<1>4. RowsKept /\ \A v : Served(v)' = Served(v)
  BY <1>1, UnchangedKept, SerialTablesSame DEF AtWork
<1> QED
  BY <1>1, <1>3, <1>4, HistoryKept DEF HistoryAfter

(* A statement that changes no version changes no line.                    *)
LEMMA LineSame ==
  ASSUME UNCHANGED versions, PreviousIsOlder
  PROVE  PreviousIsOlder' /\ LineTo' = LineTo
<1>1. LineTo' = LineTo
  BY DEF LineTo
<1>2. PreviousIsOlder'
  BY DEF PreviousIsOlder
<1> QED
  BY <1>1, <1>2

(* A claim that is created has no versions.                                *)
LEMMA HistoryCreateClaim ==
  ASSUME NEW r, AtWork(r), HistoryInv, TypeOK', CreateClaim(r)
  PROVE  HistoryAfter(r)
<1> DEFINE l == request[r]
           V == {None} \cup DOMAIN versions
           n == Len(claims) + 1
<1>f. /\ TypeOK /\ l \in Local /\ request \in [Requests -> Local]
      /\ l.version \in V
      /\ \A v \in DOMAIN versions : versions[v].claim \in DOMAIN claims
  BY HistoryFacts, WorkFacts
<1>1. /\ UNCHANGED <<memories, versions>>
      /\ claims' = Append(claims, [status |-> "active", current |-> None,
                                   invalidatedBy |-> None])
      /\ request'[r].claim = n /\ request'[r].version = l.version
  BY <1>f DEF CreateClaim, At, Proceed, Continue, Local, AtWork
<1>2. /\ n \notin DOMAIN claims /\ claims'[n].current = None
      /\ \A c \in DOMAIN claims : claims'[c] = claims[c]
  BY <1>f, <1>1 DEF TypeOK
<1>3. /\ PreviousIsOlder' /\ LineTo' = LineTo
      /\ \A v : Served(v)' = Served(v)
  <2>1. PreviousIsOlder' /\ LineTo' = LineTo
    BY <1>1, LineSame DEF HistoryInv
  <2>2. \A v : Served(v)' = Served(v)
    BY <1>1 DEF Served, Candidates
  <2> QED
    BY <2>1, <2>2
<1>4. \A u, v : Leads(u, v)' <=> Leads(u, v)
  BY <1>3 DEF Leads
<1> HIDE DEF n
<1>5. ServedContinues'
  <2>1. ASSUME NEW v \in DOMAIN versions, Served(v), NEW c, c = versions[v].claim
        PROVE  Leads(claims'[c].current, v)
    BY <1>f, <1>2, <2>1 DEF HistoryInv, ServedContinues, Current
  <2> QED
    BY <1>1, <1>3, <1>4, <2>1 DEF ServedContinues, Current, Leads
<1>6. PointerExtends(request[r])'
  <2>1. Leads(None, l.version)
    BY <1>f, LeadsFacts DEF HistoryInv
  <2>2. Leads(Current(request[r].claim), request[r].version)'
    BY <1>1, <1>2, <1>3, <2>1 DEF Leads, Current
  <2>3. \A v \in DOMAIN versions' : versions'[v].claim # n
    BY <1>f, <1>1, <1>2
  <2> QED
    BY <1>1, <2>2, <2>3 DEF PointerExtends
<1> QED
  BY <1>3, <1>5, <1>6 DEF HistoryAfter

(* The version of the target is found, or it is given one first.           *)
LEMMA HistoryEnsure ==
  ASSUME NEW r, AtWork(r), HistoryInv, TypeOK', EnsureClaimTarget(r)
  PROVE  HistoryAfter(r)
<1> DEFINE l == request[r]
           V == {None} \cup DOMAIN versions
           A == Ahead(l.todo)
<1>f. /\ TypeOK /\ l \in Local /\ request \in [Requests -> Local]
      /\ l.todo \in Seq(Statements)
      /\ A = {Head(l.todo)} \cup Ahead(Tail(l.todo))
      /\ TargetServed(l) /\ ClaimKnown(l) /\ LocalAgrees(l) /\ r \in Requests
  BY WorkFacts DEF AtWork
<1>1. /\ Head(l.todo) = "ensureClaimTarget" /\ l.todo # <<>>
      /\ UNCHANGED <<memories, claims, versions>>
  BY DEF EnsureClaimTarget, At, tables
<1>2. l.target \in Candidates /\ l.claim = None /\ l.newVersion = None
  <2>1. "ensureClaimTarget" \in A
    BY <1>f, <1>1
  <2>2. l.newVersion = None
    BY <1>f, <1>1, HeadUnset DEF BeforeOldVersion, OldVersionStatements
  <2> QED
    BY <1>f, <2>1, <2>2 DEF TargetServed, ClaimKnown, ClaimReads
<1>3. /\ PreviousIsOlder' /\ LineTo' = LineTo
      /\ \A v : Served(v)' = Served(v)
      /\ \A v : VersionsOf(v)' = VersionsOf(v)
  BY <1>1, SerialTablesSame, LineSame DEF AtWork, HistoryInv
<1>4. ServedContinues'
  BY <1>1, <1>3 DEF HistoryInv, ServedContinues, Leads, Current
<1>5. CASE VersionsOf(l.target) = {}
  <2>1. request'[r].claim = None
    BY <1>f, <1>2, <1>5 DEF EnsureClaimTarget, Proceed, Continue, Local
  <2> QED
    BY <1>3, <1>4, <2>1 DEF HistoryAfter, PointerExtends
<1>6. CASE VersionsOf(l.target) # {}
  <2>1. PICK v \in VersionsOf(l.target) :
          Proceed(r, [l EXCEPT !.claim = versions[v].claim, !.version = v])
    BY <1>6 DEF EnsureClaimTarget
  <2>2. /\ request'[r].claim = versions[v].claim /\ request'[r].version = v
        /\ request'[r].newVersion = None
    BY <1>f, <1>2, <2>1 DEF Proceed, Continue, Local
  <2>3. v \in DOMAIN versions /\ Served(v)
    BY <1>2, <2>1 DEF VersionsOf, Served
  <2>4. Leads(Current(versions[v].claim), v)
    BY <2>3 DEF HistoryInv, ServedContinues
  <2>5. \A w \in DOMAIN versions :
          versions[w].claim = versions[v].claim /\ Served(w) => w = v
    BY <2>3 DEF AtWork, TablesSerial, OneServedVersion
  <2>6. Leads(Current(request[r].claim), request[r].version)'
    BY <1>1, <1>3, <2>2, <2>4 DEF Leads, Current
  <2> QED
    BY <1>1, <1>3, <1>4, <2>2, <2>5, <2>6 DEF HistoryAfter, PointerExtends
<1> QED
  BY <1>5, <1>6

(* The current version is set.                                             *)
LEMMA HistoryPoint ==
  ASSUME NEW r, AtWork(r), HistoryInv, TypeOK', SetCurrent(r) \/ BackfillCurrent(r)
  PROVE  HistoryAfter(r)
<1> DEFINE l == request[r]
           V == {None} \cup DOMAIN versions
           A == Ahead(l.todo)
           B == Ahead(Tail(l.todo))
           u == IF Head(l.todo) = "setCurrent" THEN l.newVersion ELSE l.version
<1>f. /\ TypeOK /\ l \in Local /\ request \in [Requests -> Local]
      /\ l.todo \in Track(l.op)
      /\ A = {Head(l.todo)} \cup B
      /\ ClaimKnown(l)
      /\ l.version \in V /\ l.newVersion \in V /\ PointerExtends(l)
      /\ \A v \in DOMAIN versions : v # None
  BY WorkFacts, HistoryFacts
<1>1. /\ Head(l.todo) \in {"setCurrent", "backfillCurrent"}
      /\ claims' = [claims EXCEPT ![l.claim] =
                      [status |-> "active", current |-> u, invalidatedBy |-> None]]
      /\ UNCHANGED <<memories, versions>>
      /\ SameLocals(l, request'[r])
  <2>1. CASE SetCurrent(r)
    BY <2>1, <1>f DEF SetCurrent, PointClaim, At, Proceed, Continue, Local,
       AtWork, SameLocals
  <2>2. CASE BackfillCurrent(r)
    BY <2>2, <1>f DEF BackfillCurrent, PointClaim, At, Proceed, Continue, Local,
       AtWork, SameLocals
  <2> QED
    BY <2>1, <2>2
<1>2. "backfillCurrent" \notin B /\ (Head(l.todo) = "setCurrent" => "setCurrent" \notin B)
  BY <1>1, <1>f, AddTrack, UpdateTrack, SupersedeTrack, DeleteTrack, NoopTrack,
     RemoveTrack, ShortTrack DEF AtWork, Operations
<1>3. /\ PreviousIsOlder' /\ LineTo' = LineTo
      /\ \A v : Served(v)' = Served(v)
  <2>1. PreviousIsOlder' /\ LineTo' = LineTo
    BY <1>1, LineSame DEF HistoryInv
  <2>2. \A v : Served(v)' = Served(v)
    BY <1>1 DEF Served, Candidates
  <2> QED
    BY <2>1, <2>2
<1>4. l.claim # None /\ l.claim \in DOMAIN claims
  <2>1. A \cap PointClaimStatements # {}
    BY <1>f, <1>1 DEF PointClaimStatements
  <2>2. A \cap {"ensureClaimTarget", "createClaim"} = {}
    BY <1>1, <1>f, AddTrack, UpdateTrack, SupersedeTrack, DeleteTrack, NoopTrack,
       RemoveTrack, ShortTrack DEF AtWork, Operations
  <2> HIDE DEF A
  <2> QED
    BY <1>f, <2>1, <2>2 DEF ClaimKnown, ClaimStatements, A
<1>5. /\ claims'[l.claim].current = u
      /\ \A c \in DOMAIN claims : c # l.claim => claims'[c] = claims[c]
  BY <1>1, <1>4
<1>6. u \in V
  BY <1>f
<1>7. ASSUME NEW v \in DOMAIN versions, versions[v].claim = l.claim, Served(v), u # None
      PROVE  v = u
  <2>1. A \cap {"setCurrent", "backfillCurrent"} # {}
    BY <1>f, <1>1
  <2> HIDE DEF A
  <2>2. CASE Head(l.todo) = "setCurrent"
    BY <1>f, <1>4, <1>7, <2>1, <2>2 DEF PointerExtends, A
  <2>3. CASE Head(l.todo) = "backfillCurrent"
    <3>1. "backfillCurrent" \in A
      BY <1>f, <2>3
    <3>2. u = l.version
      BY <2>3
    <3> QED
      BY <1>f, <1>4, <1>7, <3>1, <3>2 DEF PointerExtends, A
  <2> QED
    BY <1>1, <2>2, <2>3
<1> HIDE DEF u
<1>8. /\ \A v \in V : Leads(v, v) /\ Leads(None, v)
  BY LeadsFacts, <1>f DEF HistoryInv
<1>9. ServedContinues'
  <2>1. ASSUME NEW v \in DOMAIN versions, Served(v), NEW c, c = versions[v].claim
        PROVE  Leads(claims'[c].current, v)
    <3>1. CASE c = l.claim
      BY <1>5, <1>6, <1>7, <1>8, <2>1, <3>1
    <3>2. CASE c # l.claim
      <4>1. c \in DOMAIN claims
        BY <2>1, HistoryFacts
      <4> QED
        BY <1>5, <2>1, <3>2, <4>1 DEF HistoryInv, ServedContinues, Current
    <3> QED
      BY <3>1, <3>2
  <2> QED
    BY <1>1, <1>3, <2>1 DEF ServedContinues, Current, Leads
<1>10. PointerExtends(request[r])'
  <2>1. SUFFICES ASSUME B \cap {"setCurrent", "backfillCurrent"} # {}
                 PROVE  PointerExtends(request[r])'
    BY <1>1 DEF PointerExtends, SameLocals
  <2>2. Head(l.todo) = "backfillCurrent" /\ u = l.version
    BY <1>1, <1>2, <2>1 DEF u
  <2>3. Leads(Current(request[r].claim), request[r].version)'
    BY <1>1, <1>3, <1>5, <1>6, <1>8, <2>2 DEF Leads, Current, SameLocals
  <2>4. A \cap {"setCurrent", "backfillCurrent"} # {}
    BY <1>f, <2>1
  <2> HIDE DEF A, B
  <2>5. \A v \in DOMAIN versions :
          versions[v].claim = l.claim /\ Served(v) /\ l.newVersion # None
            => v = l.newVersion
    BY <1>f, <1>4, <2>4 DEF PointerExtends, A
  <2> QED
    BY <1>1, <1>2, <1>3, <2>3, <2>5 DEF PointerExtends, SameLocals, B
<1> QED
  BY <1>3, <1>9, <1>10 DEF HistoryAfter

(* Nothing of a claim is current once it is deleted.                       *)
LEMMA HistoryInvalidateClaim ==
  ASSUME NEW r, AtWork(r), HistoryInv, TypeOK', InvalidateClaim(r)
  PROVE  HistoryAfter(r)
<1> DEFINE l == request[r]
           V == {None} \cup DOMAIN versions
           B == Ahead(Tail(l.todo))
<1>f. /\ TypeOK /\ l \in Local /\ request \in [Requests -> Local]
      /\ l.todo \in Track(l.op)
  BY WorkFacts
<1>1. /\ Head(l.todo) = "invalidateClaim"
      /\ claims' = [claims EXCEPT ![l.claim] =
                      [status |-> "deleted", current |-> None,
                       invalidatedBy |-> l.newVersion]]
      /\ UNCHANGED <<memories, versions>>
      /\ SameLocals(l, request'[r])
  BY <1>f DEF InvalidateClaim, At, Proceed, Continue, Local, AtWork, SameLocals
<1>2. B \subseteq {"storeCmo"}
  BY <1>1, <1>f, AddTrack, UpdateTrack, SupersedeTrack, DeleteTrack, NoopTrack,
     RemoveTrack, ShortTrack DEF AtWork, Operations
<1>3. /\ PreviousIsOlder' /\ LineTo' = LineTo
      /\ \A v : Served(v)' = Served(v)
  <2>1. PreviousIsOlder' /\ LineTo' = LineTo
    BY <1>1, LineSame DEF HistoryInv
  <2>2. \A v : Served(v)' = Served(v)
    BY <1>1 DEF Served, Candidates
  <2> QED
    BY <2>1, <2>2
<1>4. \A c \in DOMAIN claims :
        claims'[c].current = IF c = l.claim THEN None ELSE claims[c].current
  BY <1>1
<1>5. \A v \in DOMAIN versions : Leads(None, v) /\ versions[v].claim \in DOMAIN claims
  BY LeadsFacts, HistoryFacts, <1>f DEF HistoryInv
<1>6. ServedContinues'
  <2>1. ASSUME NEW v \in DOMAIN versions, Served(v), NEW c, c = versions[v].claim
        PROVE  Leads(claims'[c].current, v)
    BY <1>4, <1>5, <2>1 DEF HistoryInv, ServedContinues, Current
  <2> QED
    BY <1>1, <1>3, <2>1 DEF ServedContinues, Current, Leads
<1>7. PointerExtends(request[r])'
  BY <1>1, <1>2 DEF PointerExtends, SameLocals
<1> QED
  BY <1>3, <1>6, <1>7 DEF HistoryAfter

(* LeadsFacts as one formula, to be stated of the next state too.           *)
LeadsIs ==
  /\ \A v \in DOMAIN versions : Leads(versions[v].previous, v)
  /\ \A u, v, w \in {None} \cup DOMAIN versions :
       Leads(u, v) /\ Leads(v, w) => Leads(u, w)

(* It holds of every state that LeadsFacts is about.                       *)
LEMMA LeadsAlways == TypeOK /\ PreviousIsOlder => LeadsIs
  BY LeadsFacts DEF LeadsIs

(* A version that is added continues the current one of its claim.         *)
LEMMA HistoryAdded ==
  ASSUME NEW r, AtWork(r), HistoryInv, TypeOK', NEW m, NEW content, NEW kind,
         NEW n, n = Len(versions) + 1,
         NEW previous \in {None} \cup DOMAIN versions,
         InsertVersion(r, m, content, kind, previous),
         UNCHANGED <<memories, claims>>, request[r].claim \in DOMAIN claims,
         m \in Candidates => Leads(Current(request[r].claim), previous)
  PROVE  /\ PreviousIsOlder' /\ ServedContinues'
         /\ \A u, v \in {None} \cup DOMAIN versions : Leads(u, v)' <=> Leads(u, v)
         /\ \A u \in {None} \cup DOMAIN versions : Leads(u, previous) => Leads(u, n)'
<1> DEFINE l == request[r]
           V == {None} \cup DOMAIN versions
<1>f. /\ TypeOK /\ PreviousIsOlder
      /\ \A c \in DOMAIN claims : Current(c) \in V
      /\ \A v \in DOMAIN versions : versions[v].claim \in DOMAIN claims
  BY HistoryFacts, WorkFacts DEF HistoryInv
<1>1. /\ DOMAIN versions' = DOMAIN versions \cup {n}
      /\ n \notin DOMAIN versions /\ n # None /\ n \in Nat
      /\ \A v \in DOMAIN versions : versions'[v] = versions[v]
      /\ versions'[n].claim = l.claim /\ versions'[n].memory = m
      /\ versions'[n].previous = previous
  BY <1>f, VersionAppended
<1>2. PreviousIsOlder'
  <2>1. V = 0..(n - 1)
    BY <1>f, TableFacts DEF None
  <2> HIDE DEF V
  <2>2. versions'[n].previous \in 0..(n - 1)
    BY <1>1, <2>1 DEF V
  <2> QED
    BY <1>1, <1>f, <2>2 DEF PreviousIsOlder
<1>3. RowsKept
  BY <1>1 DEF RowsKept, Retired
<1>4. \A u, v \in V : Leads(u, v)' <=> Leads(u, v)
  BY <1>f, <1>2, <1>3, LeadsKept
<1>5. /\ \A v \in DOMAIN versions' : Leads(versions[v].previous, v)'
      /\ \A u, v, w \in {None} \cup DOMAIN versions' :
           Leads(u, v)' /\ Leads(v, w)' => Leads(u, w)'
  <2>1. LeadsIs'
    BY <1>2, LeadsAlways, PTL
  <2> QED
    BY <2>1 DEF LeadsIs
<1>6. ASSUME NEW u \in V, Leads(u, previous)
      PROVE  Leads(u, n)'
  <2>1. Leads(u, previous)'
    BY <1>4, <1>6
  <2>2. Leads(previous, n)'
    BY <1>1, <1>5 DEF Leads
  <2>3. u \in {None} \cup DOMAIN versions' /\ previous \in {None} \cup DOMAIN versions'
        /\ n \in {None} \cup DOMAIN versions'
    BY <1>1
  <2> QED
    BY <1>5, <2>1, <2>2, <2>3
<1>7. \A v \in DOMAIN versions : Served(v)' = Served(v)
  BY <1>1 DEF Served, Candidates
<1>8. ServedContinues'
  <2>1. ASSUME NEW v \in DOMAIN versions, Served(v), NEW c, c = versions[v].claim
        PROVE  Leads(Current(c), v)'
    <3>1. Leads(Current(c), v) /\ c \in DOMAIN claims
      BY <1>f, <2>1 DEF HistoryInv, ServedContinues
    <3>2. PICK k \in V : k = Current(c)
      BY <1>f, <3>1
    <3>3. Leads(k, v)' /\ Current(c)' = k
      BY <1>4, <3>1, <3>2 DEF Current
    <3> QED
      BY <3>3 DEF Leads
  <2>2. ASSUME Served(n)', NEW c, c = l.claim
        PROVE  Leads(Current(c), n)'
    <3>1. m \in Candidates
      BY <1>1, <2>2 DEF Served, Candidates
    <3>2. Leads(Current(c), previous)
      BY <2>2, <3>1
    <3>3. c \in DOMAIN claims
      BY <2>2
    <3>4. PICK k \in V : k = Current(c)
      BY <1>f, <3>3
    <3>5. Leads(k, n)' /\ Current(c)' = k
      BY <1>6, <3>2, <3>4 DEF Current
    <3> QED
      BY <3>5 DEF Leads
  <2> QED
    BY <1>1, <1>7, <2>1, <2>2 DEF ServedContinues
<1> QED
  BY <1>2, <1>4, <1>6, <1>8

(* What is served of the claim that the next version is added to.          *)
LEMMA NothingElseServed ==
  ASSUME NEW r, AtWork(r), CreateVersion(r) \/ BackfillVersion(r)
  PROVE  LET l == request[r] IN
         /\ l.claim # None /\ l.claim \in DOMAIN claims
         /\ \A v \in DOMAIN versions : versions[v].claim = l.claim => ~Served(v)
<1> DEFINE l == request[r]
           A == Ahead(l.todo)
           B == Ahead(Tail(l.todo))
<1>f. /\ TypeOK /\ r \in Requests
      /\ l.todo \in Seq(Statements) /\ l.todo \in Track(l.op)
      /\ A = {Head(l.todo)} \cup B
      /\ TargetServed(l) /\ ClaimKnown(l) /\ ProjectionFree(l)
      /\ LocalAgrees(l)
  BY WorkFacts DEF AtWork
<1>1. Head(l.todo) \in {"createVersion", "backfillVersion"} /\ l.todo # <<>>
  BY DEF CreateVersion, BackfillVersion, At
<1>2. l.claim # None /\ l.claim \in DOMAIN claims
  <2>1. A \cap {"ensureClaimTarget", "createClaim"} = {}
    BY <1>1, <1>f, AddTrack, UpdateTrack, SupersedeTrack, DeleteTrack, NoopTrack,
       RemoveTrack, ShortTrack DEF AtWork, Operations
  <2>2. A \cap ClaimStatements # {}
    BY <1>1, <1>f DEF ClaimStatements, NewVersionStatements
  <2> HIDE DEF A
  <2> QED
    BY <1>f, <2>1, <2>2 DEF ClaimKnown, A
<1>3. l.newVersion = None
  BY <1>f, <1>1, HeadUnset
     DEF BeforeNewVersion, BeforeOldVersion, OldVersionStatements, NewVersionStatements
<1>4. SUFFICES ASSUME NEW v \in DOMAIN versions, versions[v].claim = l.claim,
                      Served(v)
               PROVE  FALSE
  BY <1>2
<1>5. versions[v].memory = l.target /\ l.target \in Candidates
  <2>1. v # None
    BY <1>f, TableFacts DEF None
  <2> QED
    BY <1>f, <1>2, <1>3, <1>4, <2>1 DEF ClaimKnown, Served
<1>6. CASE BackfillVersion(r)
  BY <1>4, <1>5, <1>6 DEF BackfillVersion, VersionsOf
<1>7. CASE CreateVersion(r)
  <2>1. Head(l.todo) = "createVersion" /\ VersionsOf(l.projection) = {}
    BY <1>7 DEF CreateVersion, At
  <2>2. /\ l.op \in {"add", "update", "supersede"}
        /\ A \cap {"getMemory"} = {}
    BY <1>f, <1>1, <2>1, AddTrack, UpdateTrack, SupersedeTrack, DeleteTrack,
       NoopTrack, RemoveTrack, ShortTrack DEF AtWork, Operations
  <2>3. CASE l.op = "add"
    BY <1>f, <1>5, <2>3, TableFacts DEF TargetServed, Targeted, Candidates, None
  <2>4. CASE l.op = "update"
    BY <1>f, <1>4, <1>5, <2>1, <2>2, <2>4 DEF ProjectionFree, VersionsOf
  <2>5. CASE l.op = "supersede"
    <3>1. Retired(l.target)
      BY <1>f, <1>1, <2>1, <2>5, AllAfterTail
         DEF LocalAgrees, TargetRetiredFirst, NewVersionStatements, Replacing
    <3> QED
      BY <1>5, <3>1 DEF Retired, Candidates
  <2> QED
    BY <2>2, <2>3, <2>4, <2>5
<1> QED
  BY <1>6, <1>7

(* A version for the memory the request writes.                            *)
LEMMA HistoryCreateVersion ==
  ASSUME NEW r, AtWork(r), HistoryInv, TypeOK', CreateVersion(r)
  PROVE  HistoryAfter(r)
<1> DEFINE l == request[r]
           V == {None} \cup DOMAIN versions
           A == Ahead(l.todo)
           B == Ahead(Tail(l.todo))
<1>n. PICK n : n = Len(versions) + 1
  OBVIOUS
<1>f. /\ TypeOK /\ l \in Local /\ request \in [Requests -> Local]
      /\ l.todo \in Track(l.op)
      /\ A = {Head(l.todo)} \cup B
      /\ l.version \in V /\ PointerExtends(l)
      /\ \A c \in DOMAIN claims : Current(c) \in V
  BY WorkFacts, HistoryFacts
<1>1. /\ Head(l.todo) = "createVersion"
      /\ InsertVersion(r, l.projection, r, l.op, l.version)
      /\ UNCHANGED <<memories, claims>>
      /\ request'[r].claim = l.claim /\ request'[r].version = l.version
      /\ request'[r].newVersion = n
      /\ request'[r].todo = Tail(l.todo)
  BY <1>f, <1>n DEF CreateVersion, At, Proceed, Continue, Local, AtWork
<1>2. "setCurrent" \in B /\ "backfillCurrent" \notin B
  BY <1>1, <1>f, AddTrack, UpdateTrack, SupersedeTrack, DeleteTrack, NoopTrack,
     RemoveTrack, ShortTrack DEF AtWork, Operations
<1>3. /\ l.claim # None /\ l.claim \in DOMAIN claims
      /\ \A v \in DOMAIN versions : versions[v].claim = l.claim => ~Served(v)
  BY NothingElseServed
<1>4. Leads(Current(l.claim), l.version)
  <2>1. A \cap {"setCurrent", "backfillCurrent"} # {}
    BY <1>f, <1>2
  <2> HIDE DEF A
  <2> QED
    BY <1>f, <1>3, <2>1 DEF PointerExtends, A
<1>5. /\ PreviousIsOlder' /\ ServedContinues'
      /\ \A u, v \in V : Leads(u, v)' <=> Leads(u, v)
  BY <1>f, <1>1, <1>3, <1>4, <1>n, HistoryAdded
<1>6. /\ DOMAIN versions' = DOMAIN versions \cup {n}
      /\ \A v \in DOMAIN versions : versions'[v] = versions[v]
  BY <1>f, <1>1, <1>n, VersionAppended
<1>7. \A v \in DOMAIN versions : Served(v)' = Served(v)
  BY <1>1, <1>6 DEF Served, Candidates
<1>8. Leads(Current(request[r].claim), request[r].version)'
  <2>1. PICK k \in V, u \in V : k = Current(l.claim) /\ u = l.version
    BY <1>f, <1>3
  <2>2. Leads(k, u)'
    BY <1>4, <1>5, <2>1
  <2>3. Current(request[r].claim)' = k /\ request'[r].version = u
    BY <1>1, <2>1 DEF Current
  <2> QED
    BY <2>2, <2>3 DEF Leads
<1> HIDE DEF B
<1>9. PointerExtends(request[r])'
  BY <1>1, <1>2, <1>3, <1>6, <1>7, <1>8 DEF PointerExtends, B
<1> QED
  BY <1>5, <1>9 DEF HistoryAfter

(* A tombstone is never current.                                           *)
LEMMA HistoryCreateTombstone ==
  ASSUME NEW r, AtWork(r), HistoryInv, TypeOK', CreateTombstone(r)
  PROVE  HistoryAfter(r)
<1> DEFINE l == request[r]
           A == Ahead(l.todo)
           B == Ahead(Tail(l.todo))
<1>n. PICK n : n = Len(versions) + 1
  OBVIOUS
<1>f. /\ TypeOK /\ l \in Local /\ request \in [Requests -> Local]
      /\ l.todo \in Track(l.op) /\ ClaimKnown(l)
      /\ A = {Head(l.todo)} \cup B
      /\ l.version \in {None} \cup DOMAIN versions
  BY WorkFacts, HistoryFacts
<1>1. /\ Head(l.todo) = "createTombstone"
      /\ InsertVersion(r, None, r, "delete", l.version)
      /\ UNCHANGED <<memories, claims>>
      /\ request'[r].todo = Tail(l.todo)
  BY <1>f DEF CreateTombstone, At, Proceed, Continue, Local, AtWork
<1>2. /\ B \cap {"setCurrent", "backfillCurrent"} = {}
      /\ A \cap {"ensureClaimTarget", "createClaim"} = {}
  BY <1>1, <1>f, AddTrack, UpdateTrack, SupersedeTrack, DeleteTrack, NoopTrack,
     RemoveTrack, ShortTrack DEF AtWork, Operations
<1>3. l.claim \in DOMAIN claims
  <2>1. A \cap ClaimStatements # {}
    BY <1>1, <1>f DEF ClaimStatements, NewVersionStatements
  <2> HIDE DEF A
  <2> QED
    BY <1>f, <1>2, <2>1 DEF ClaimKnown, A
<1>4. None \notin Candidates
  BY <1>f, TableFacts DEF Candidates, None
<1>5. PreviousIsOlder' /\ ServedContinues'
  BY <1>f, <1>1, <1>3, <1>4, <1>n, HistoryAdded
<1>6. PointerExtends(request[r])'
  BY <1>1, <1>2 DEF PointerExtends
<1> QED
  BY <1>5, <1>6 DEF HistoryAfter

(* A version for a memory that had none.                                   *)
LEMMA HistoryBackfillVersion ==
  ASSUME NEW r, AtWork(r), HistoryInv, TypeOK', BackfillVersion(r)
  PROVE  HistoryAfter(r)
<1> DEFINE l == request[r]
           V == {None} \cup DOMAIN versions
           A == Ahead(l.todo)
           B == Ahead(Tail(l.todo))
<1>n. PICK n : n = Len(versions) + 1
  OBVIOUS
<1>f. /\ TypeOK /\ l \in Local /\ request \in [Requests -> Local]
      /\ l.todo \in Track(l.op) /\ l.todo \in Seq(Statements)
      /\ A = {Head(l.todo)} \cup B /\ LocalAgrees(l) /\ r \in Requests
      /\ PointerExtends(l)
      /\ \A c \in DOMAIN claims : Current(c) \in V
  BY WorkFacts, HistoryFacts DEF AtWork
<1>1. /\ Head(l.todo) = "backfillVersion" /\ l.todo # <<>>
      /\ InsertVersion(r, l.target, l.seen, "backfill", None)
      /\ UNCHANGED <<memories, claims>>
      /\ request'[r].claim = l.claim /\ request'[r].version = n
      /\ request'[r].newVersion = l.newVersion
      /\ request'[r].todo = Tail(l.todo)
  BY <1>f, <1>n DEF BackfillVersion, At, Proceed, Continue, Local, AtWork
<1>2. "backfillCurrent" \in B
  BY <1>1, <1>f, AddTrack, UpdateTrack, SupersedeTrack, DeleteTrack, NoopTrack,
     RemoveTrack, ShortTrack DEF AtWork, Operations
<1>3. /\ l.claim # None /\ l.claim \in DOMAIN claims
      /\ \A v \in DOMAIN versions : versions[v].claim = l.claim => ~Served(v)
  BY NothingElseServed
<1>v. l.version = None /\ l.newVersion = None
  BY <1>f, <1>1, HeadUnset DEF BeforeOldVersion, OldVersionStatements
<1>4. Leads(Current(l.claim), None)
  <2>1. A \cap {"setCurrent", "backfillCurrent"} # {}
    BY <1>f, <1>2
  <2> HIDE DEF A
  <2> QED
    BY <1>f, <1>3, <1>v, <2>1 DEF PointerExtends, A
<1>5. /\ PreviousIsOlder' /\ ServedContinues'
      /\ \A u \in V : Leads(u, None) => Leads(u, n)'
  BY <1>f, <1>1, <1>3, <1>4, <1>n, HistoryAdded
<1>6. /\ DOMAIN versions' = DOMAIN versions \cup {n}
      /\ \A v \in DOMAIN versions : versions'[v] = versions[v]
  BY <1>f, <1>1, <1>n, VersionAppended
<1>7. \A v \in DOMAIN versions : Served(v)' = Served(v)
  BY <1>1, <1>6 DEF Served, Candidates
<1>8. Leads(Current(request[r].claim), request[r].version)'
  <2>1. PICK k \in V : k = Current(l.claim)
    BY <1>f, <1>3
  <2>2. Leads(k, n)'
    BY <1>4, <1>5, <2>1
  <2>3. Current(request[r].claim)' = k
    BY <1>1, <2>1 DEF Current
  <2> QED
    BY <1>1, <2>2, <2>3 DEF Leads
<1> HIDE DEF B
<1>9. PointerExtends(request[r])'
  BY <1>1, <1>2, <1>3, <1>6, <1>7, <1>8, <1>v DEF PointerExtends, B
<1> QED
  BY <1>5, <1>9 DEF HistoryAfter

-----------------------------------------------------------------------------
(* The invariant about histories.                                          *)

(* Every statement leaves the histories as HistoryInv says.                *)
LEMMA HistoryStatement ==
  ASSUME NEW r, AtWork(r), HistoryInv, TypeOK', Statement(r) \/ Fail(r)
  PROVE  HistoryAfter(r)
  BY HistoryQuiet, HistoryMemory, HistoryDrop, HistoryGetClaimVersion,
     HistoryCreateClaim, HistoryEnsure, HistoryPoint, HistoryInvalidateClaim,
     HistoryCreateVersion, HistoryCreateTombstone, HistoryBackfillVersion
     DEF Statement

(* A step that changes no table keeps them, and what other requests do.    *)
LEMMA HistorySame ==
  ASSUME IInv, SInv, HistoryInv, UNCHANGED <<memories, claims, versions>>
  PROVE  /\ PreviousIsOlder' /\ ServedContinues'
         /\ \A q \in Running :
              request'[q] = request[q] => PointerExtends(request[q])'
<1>1. /\ PreviousIsOlder' /\ LineTo' = LineTo
      /\ \A v : Served(v)' = Served(v)
  BY LineSame, SerialTablesSame DEF SInv, HistoryInv
<1>2. ServedContinues'
  BY <1>1 DEF HistoryInv, ServedContinues, Leads, Current
<1>3. ASSUME NEW q \in Running, request'[q] = request[q]
      PROVE  PointerExtends(request[q])'
  <2>1. PointerExtends(request[q])
    BY DEF HistoryInv
  <2> QED
    BY <1>1, <1>3, <2>1 DEF PointerExtends, Leads, Current
<1> QED
  BY <1>1, <1>2, <1>3

(* A request starts with no claim.                                         *)
LEMMA HistoryStart ==
  ASSUME IInv, SInv, HistoryInv, NEW r \in Requests, Start(r)
  PROVE  HistoryInv'
<1>1. PICK op, m : Admit(r, op, m)
  BY DEF Start, StoreCanonicalFact, UpdateCanonicalFact, SupersedeCanonicalFact,
     DeleteCanonicalFact, RecordNoop, StoreClarification, StoreVerbatim,
     ArchiveMemory, DeleteMemory
<1>2. UNCHANGED <<memories, claims, versions>>
  BY <1>1 DEF Admit, tables
<1>3. request[r] = Idle /\ request \in [Requests -> Local]
  BY <1>1 DEF Admit, IInv, TypeOK, LocalsAgree, LocalAgrees
<1>4. request'[r].claim = None
  BY <1>1, <1>3 DEF Admit, Idle
<1>5. \A q \in Requests : q # r => request'[q] = request[q]
  BY <1>1, <1>3 DEF Admit
<1>6. ASSUME NEW q \in Running'
      PROVE  PointerExtends(request[q])'
  <2>1. CASE q = r
    BY <1>4, <2>1 DEF PointerExtends
  <2>2. CASE q # r
    <3>1. q \in Running /\ request'[q] = request[q]
      BY <1>5, <1>6, <2>2 DEF Running
    <3> QED
      BY <1>2, <3>1, HistorySame
  <2> QED
    BY <2>1, <2>2
<1> QED
  BY <1>2, <1>6, HistorySame DEF HistoryInv

(* Every step keeps the invariant.                                         *)
LEMMA HistoryNext ==
  ASSUME IInv, SInv, HistoryInv, IInv', [Next]_vars
  PROVE  HistoryInv'
<1>1. ASSUME NEW r \in Requests, Start(r)
      PROVE  HistoryInv'
  BY <1>1, HistoryStart
<1>2. ASSUME NEW r \in Requests, Statement(r) \/ Fail(r)
      PROVE  HistoryInv'
  <2>1. request[r].todo # <<>> /\ AtWork(r)
    BY <1>2, StatementRuns, RunningAtWork
  <2>2. HistoryAfter(r)
    BY <1>2, <2>1, HistoryStatement DEF IInv
  <2>3. ASSUME NEW q \in Running'
        PROVE  q = r
    <3>1. SUFFICES ASSUME q # r PROVE FALSE
      OBVIOUS
    <3>2. q \in Requests /\ request'[q] = request[q]
      BY <1>2, <2>3, <3>1, OnlyOwnLocal DEF IInv, Running
    <3>3. q \in Running /\ r \in Running
      BY <2>1, <2>3, <3>2 DEF Running
    <3> QED
      BY <3>1, <3>3 DEF SInv, OneAtATime
  <2> QED
    BY <2>2, <2>3 DEF HistoryAfter, HistoryInv
<1>3. CASE UNCHANGED vars
  <2>1. /\ UNCHANGED <<memories, claims, versions>>
        /\ Running' = Running /\ \A q \in Running : request'[q] = request[q]
    BY <1>3 DEF vars, Running
  <2> QED
    BY <2>1, HistorySame DEF HistoryInv
<1> QED
  BY <1>1, <1>2, <1>3 DEF Next

(* It holds in empty tables.                                               *)
LEMMA HistoryInit == Init => HistoryInv
<1> SUFFICES ASSUME Init PROVE HistoryInv
  OBVIOUS
<1>1. DOMAIN versions = {} /\ Running = {}
  BY DEF Init, Running, Idle
<1> QED
  BY <1>1 DEF HistoryInv, PreviousIsOlder, ServedContinues

(* As long as requests do not overlap, what is served continues what is    *)
(* current, whatever fails.                                                *)
THEOREM HistoryInvariance ==
  ASSUME Serial PROVE Spec => [](IInv /\ SInv /\ HistoryInv)
<1>1. Init => HistoryInv
  BY HistoryInit
<1>2. (IInv /\ SInv) /\ (IInv /\ SInv)' /\ HistoryInv /\ [Next]_vars => HistoryInv'
  BY HistoryNext
<1> QED
  BY <1>1, <1>2, SerialInvariance, PTL DEF Spec

-----------------------------------------------------------------------------
(* ClaimLineage implements ClaimHistory.                                   *)

Line == [c \in DOMAIN claims |-> LineTo[claims[c].current]]
Closed == [c \in DOMAIN claims |-> claims[c].status = "deleted"]

(* Lines and what is closed are lists.                                     *)
LEMMA LineFacts ==
  ASSUME IInv, HistoryInv
  PROVE  /\ Line \in Seq(Seq(Nat)) /\ Closed \in Seq(BOOLEAN)
         /\ Len(Line) = Len(claims) /\ Len(Closed) = Len(claims)
         /\ DOMAIN Line = DOMAIN claims /\ DOMAIN Closed = DOMAIN claims
         /\ DOMAIN claims = 1..Len(claims) /\ Len(claims) \in Nat
         /\ \A c \in DOMAIN claims : Current(c) \in {None} \cup DOMAIN versions
         /\ LineTo[None] = <<>>
<1>1. DOMAIN claims = 1..Len(claims) /\ Len(claims) \in Nat
  BY DEF IInv, TypeOK
<1>2. \A c \in DOMAIN claims : Current(c) \in {None} \cup DOMAIN versions
  BY DEF IInv, RowsAgree, LineageStaysInClaim, Current
<1>3. /\ \A v \in {None} \cup DOMAIN versions : LineTo[v] \in Seq(Nat)
      /\ LineTo[None] = <<>>
  BY LineToFacts DEF LineToIs, IInv, HistoryInv
<1>4. \A c \in DOMAIN claims : LineTo[claims[c].current] \in Seq(Nat)
  BY <1>2, <1>3 DEF Current
<1>5. Line \in Seq(Seq(Nat)) /\ Len(Line) = Len(claims) /\ DOMAIN Line = DOMAIN claims
  <2> DEFINE n == Len(claims)
             S == Seq(Nat)
             e(c) == LineTo[claims[c].current]
  <2>1. n \in Nat /\ Line = [c \in 1..n |-> e(c)] /\ \A c \in 1..n : e(c) \in S
    BY <1>1, <1>4 DEF Line
  <2> HIDE DEF n, S, e
  <2>2. Line \in Seq(S) /\ Len(Line) = n /\ DOMAIN Line = 1..n
    BY <2>1
  <2> QED
    BY <1>1, <2>2 DEF n, S
<1>6. /\ Closed \in Seq(BOOLEAN) /\ Len(Closed) = Len(claims)
      /\ DOMAIN Closed = DOMAIN claims
  BY <1>1 DEF Closed
<1> QED
  BY <1>1, <1>2, <1>3, <1>5, <1>6

(* What ClaimHistory allows a step to do.                                  *)
LineOpens == Line' = Append(Line, <<>>) /\ Closed' = Append(Closed, FALSE)
LineExtends(c) ==
  /\ ~Closed[c]
  /\ IsStrictPrefix(Line[c], Line'[c])
  /\ Line' = [Line EXCEPT ![c] = Line'[c]]
  /\ UNCHANGED Closed
LineCloses(c) ==
  /\ ~Closed[c]
  /\ Line' = [Line EXCEPT ![c] = <<>>]
  /\ Closed' = [Closed EXCEPT ![c] = TRUE]
LineStep ==
  \/ LineOpens
  \/ \E c \in DOMAIN Line : LineExtends(c) \/ LineCloses(c)
  \/ UNCHANGED <<Line, Closed>>

(* A step that changes no claim changes no line.                           *)
LEMMA LineOfSameClaims ==
  ASSUME IInv, IInv', HistoryInv, HistoryInv', UNCHANGED claims, RowsKept
  PROVE  UNCHANGED <<Line, Closed>>
<1>1. \A v \in {None} \cup DOMAIN versions : LineTo'[v] = LineTo[v]
  BY LineKept DEF IInv, HistoryInv, RowsKept
<1>2. \A c \in DOMAIN claims : LineTo'[claims'[c].current] = LineTo[claims[c].current]
  BY <1>1, LineFacts DEF Current
<1>3. Line' = Line
  BY <1>2 DEF Line
<1> QED
  BY <1>3 DEF Closed

(* What is appended to a list, element by element.                         *)
LEMMA AppendForm ==
  ASSUME NEW S, NEW s \in Seq(S), NEW e \in S, NEW t \in Seq(S),
         Len(t) = Len(s) + 1, t[Len(s) + 1] = e,
         \A i \in 1..Len(s) : t[i] = s[i]
  PROVE  t = Append(s, e)
<1>1. PICK u \in Seq(S) : u = Append(s, e)
  OBVIOUS
<1>2. /\ Len(s) \in Nat /\ Len(u) = Len(s) + 1 /\ u[Len(s) + 1] = e
      /\ \A i \in 1..Len(s) : u[i] = s[i]
  BY <1>1
<1>3. \A i \in 1..Len(t) : t[i] = u[i]
  <2>1. 1..Len(t) = 1..Len(s) \cup {Len(s) + 1}
    BY <1>2
  <2> QED
    BY <1>2, <2>1
<1>4. Len(t) = Len(u) /\ t \in Seq(S)
  BY <1>2
<1> QED
  BY <1>1, <1>3, <1>4

(* createClaim opens a line.                                               *)
LEMMA CreateClaimOpens ==
  ASSUME IInv, HistoryInv, NEW r, CreateClaim(r)
  PROVE  LineOpens
<1> DEFINE n == Len(claims) + 1
<1>1. /\ UNCHANGED versions
      /\ claims' = Append(claims, [status |-> "active", current |-> None,
                                   invalidatedBy |-> None])
  BY DEF CreateClaim
<1>2. /\ DOMAIN claims = 1..Len(claims) /\ DOMAIN claims' = 1..n
      /\ Len(claims) \in Nat
      /\ claims'[n] = [status |-> "active", current |-> None, invalidatedBy |-> None]
      /\ \A c \in DOMAIN claims : claims'[c] = claims[c]
  BY <1>1 DEF IInv, TypeOK
<1>3. LineTo' = LineTo
  BY <1>1, LineSame DEF HistoryInv
<1>4. /\ Line \in Seq(Seq(Nat)) /\ Closed \in Seq(BOOLEAN)
      /\ Len(Line) = Len(claims) /\ Len(Closed) = Len(claims)
      /\ LineTo[None] = <<>>
  BY LineFacts
<1> HIDE DEF n
<1>5. Line' = [c \in 1..n |-> IF c = n THEN <<>> ELSE Line[c]]
  <2>1. \A c \in 1..n : LineTo'[claims'[c].current] = IF c = n THEN <<>> ELSE Line[c]
    <3>1. ASSUME NEW c \in 1..n, c # n
          PROVE  c \in DOMAIN claims /\ claims'[c].current = claims[c].current
      BY <1>2, <3>1 DEF n
    <3> QED
      BY <1>2, <1>3, <1>4, <3>1 DEF Line
  <2> QED
    BY <1>2, <2>1 DEF Line
<1>6. Closed' = [c \in 1..n |-> IF c = n THEN FALSE ELSE Closed[c]]
  <2>1. \A c \in 1..n : (claims'[c].status = "deleted") =
                           IF c = n THEN FALSE ELSE Closed[c]
    <3>1. ASSUME NEW c \in 1..n, c # n
          PROVE  (claims'[c].status = "deleted") = Closed[c]
      <4>1. c \in DOMAIN claims /\ claims'[c].status = claims[c].status
        BY <1>2, <3>1 DEF n
      <4> QED
        BY <4>1 DEF Closed
    <3>2. claims'[n].status = "active"
      BY <1>2
    <3>3. (claims'[n].status = "deleted") = FALSE
      BY <3>2
    <3> QED
      BY <3>1, <3>3
  <2> QED
    BY <1>2, <2>1 DEF Closed
<1>7. Line' = Append(Line, <<>>)
  <2>1. PICK s, t : s \in Seq(Seq(Nat)) /\ s = Line /\ t = Line'
    BY <1>4
  <2>2. /\ n = Len(s) + 1 /\ n \in Nat /\ Len(s) \in Nat /\ <<>> \in Seq(Nat)
        /\ \A c \in 1..Len(s) : s[c] \in Seq(Nat)
    BY <1>4, <2>1 DEF n
  <2>3. /\ t \in Seq(Seq(Nat)) /\ Len(t) = Len(s) + 1 /\ t[Len(s) + 1] = <<>>
        /\ \A c \in 1..Len(s) : t[c] = s[c]
    BY <1>5, <2>1, <2>2
  <2>4. t = Append(s, <<>>)
    BY <2>1, <2>2, <2>3, AppendForm
  <2> QED
    BY <2>1, <2>4
<1>8. Closed' = Append(Closed, FALSE)
  <2>1. PICK s, t : s \in Seq(BOOLEAN) /\ s = Closed /\ t = Closed'
    BY <1>4
  <2>2. /\ n = Len(s) + 1 /\ n \in Nat /\ Len(s) \in Nat /\ FALSE \in BOOLEAN
        /\ \A c \in 1..Len(s) : s[c] \in BOOLEAN
    BY <1>4, <2>1 DEF n
  <2>3. /\ t \in Seq(BOOLEAN) /\ Len(t) = Len(s) + 1 /\ t[Len(s) + 1] = FALSE
        /\ \A c \in 1..Len(s) : t[c] = s[c]
    <3>1. Closed' \in Seq(BOOLEAN) /\ Len(Closed') = n
      BY <1>2, <2>2 DEF Closed
    <3>2. /\ Len(s) + 1 \in 1..n
          /\ \A c \in 1..Len(s) : c \in 1..n /\ c # n
      BY <2>2
    <3> QED
      BY <1>6, <2>1, <2>2, <3>1, <3>2
  <2>4. t = Append(s, FALSE)
    BY <2>1, <2>2, <2>3, AppendForm
  <2> QED
    BY <2>1, <2>4
<1> QED
  BY <1>7, <1>8 DEF LineOpens

(* What setClaimCurrentVersion makes current continues what was.           *)
LEMMA PointsForward ==
  ASSUME NEW r, AtWork(r), HistoryInv, TypeOK', NEW u,
         \/ SetCurrent(r) /\ u = request[r].newVersion
         \/ BackfillCurrent(r) /\ u = request[r].version
  PROVE  LET c == request[r].claim IN
         /\ c \in DOMAIN claims /\ claims[c].status = "active"
         /\ u \in {None} \cup DOMAIN versions
         /\ Leads(Current(c), u)
<1> DEFINE l == request[r]
           V == {None} \cup DOMAIN versions
           A == Ahead(l.todo)
           B == Ahead(Tail(l.todo))
<1>f. /\ TypeOK /\ l.todo \in Seq(Statements) /\ l.todo \in Track(l.op)
      /\ A = {Head(l.todo)} \cup B
      /\ ClaimKnown(l) /\ LocalAgrees(l)
      /\ l.version \in V /\ l.newVersion \in V /\ PointerExtends(l)
      /\ \A c \in DOMAIN claims : Current(c) \in V
  BY WorkFacts, HistoryFacts
<1>1. Head(l.todo) \in {"setCurrent", "backfillCurrent"} /\ l.todo # <<>>
  BY DEF SetCurrent, BackfillCurrent, At
<1>2. /\ A \cap PointClaimStatements # {}
      /\ A \cap {"setCurrent", "backfillCurrent"} # {}
      /\ A \cap {"ensureClaimTarget", "createClaim"} = {}
  <2>1. A \cap {"ensureClaimTarget", "createClaim"} = {}
    BY <1>1, <1>f, AddTrack, UpdateTrack, SupersedeTrack, DeleteTrack, NoopTrack,
       RemoveTrack, ShortTrack DEF AtWork, Operations
  <2> QED
    BY <1>f, <1>1, <2>1 DEF PointClaimStatements
<1>3. l.claim # None /\ l.claim \in DOMAIN claims /\ claims[l.claim].status = "active"
  <2> HIDE DEF A
  <2> QED
    BY <1>f, <1>2 DEF ClaimKnown, ClaimStatements, A
<1>4. Leads(Current(l.claim), l.version)
  <2> HIDE DEF A
  <2> QED
    BY <1>f, <1>2, <1>3 DEF PointerExtends, A
<1>5. CASE BackfillCurrent(r)
  <2>1. u = l.version
    BY <1>5 DEF SetCurrent, BackfillCurrent, At
  <2> QED
    BY <1>f, <1>3, <1>4, <2>1
<1>6. CASE SetCurrent(r)
  <2>1. u = l.newVersion /\ Head(l.todo) = "setCurrent"
    BY <1>6 DEF SetCurrent, BackfillCurrent, At
  <2>2. l.newVersion # None
    <3>1. "addEvidence" \in A /\ A \cap NewVersionStatements = {}
      BY <2>1, <1>f, AddTrack, UpdateTrack, SupersedeTrack, DeleteTrack,
         NoopTrack, RemoveTrack, ShortTrack
         DEF AtWork, Operations, NewVersionStatements
    <3>2. ~AllAfter(l.todo, {"addEvidence"}, NewVersionStatements)
      BY <3>1 DEF AllAfter, Ahead
    <3> QED
      BY <1>f, <3>2 DEF LocalAgrees, CitedVersionKnown
  <2>3. l.newVersion \in DOMAIN versions /\ versions[l.newVersion].previous = l.version
    BY <1>f, <2>2 DEF LocalAgrees, NewVersionKnown
  <2>4. Leads(l.version, l.newVersion)
    BY <1>f, <2>3, LeadsFacts DEF HistoryInv
  <2>5. \A x, y, z \in V : Leads(x, y) /\ Leads(y, z) => Leads(x, z)
    BY <1>f, LeadsFacts DEF HistoryInv
  <2> HIDE DEF V
  <2>6. Leads(Current(l.claim), l.newVersion)
    BY <1>f, <1>3, <1>4, <2>4, <2>5
  <2> QED
    BY <1>f, <1>3, <2>1, <2>6 DEF V
<1> QED
  BY <1>5, <1>6

(* It extends the line or leaves it as it is.                              *)
LEMMA PointExtends ==
  ASSUME NEW r, AtWork(r), HistoryInv, TypeOK', SetCurrent(r) \/ BackfillCurrent(r)
  PROVE  LineStep
<1>1. PICK u : \/ SetCurrent(r) /\ u = request[r].newVersion
               \/ BackfillCurrent(r) /\ u = request[r].version
  OBVIOUS
<1>2. PICK c : c = request[r].claim
  OBVIOUS
<1>3. /\ c \in DOMAIN claims /\ claims[c].status = "active"
      /\ u \in {None} \cup DOMAIN versions /\ Leads(Current(c), u)
  BY <1>1, <1>2, PointsForward
<1>4. /\ UNCHANGED versions
      /\ claims' = [claims EXCEPT ![c] =
                      [status |-> "active", current |-> u, invalidatedBy |-> None]]
  BY <1>1, <1>2 DEF SetCurrent, BackfillCurrent, PointClaim
<1>5. LineTo' = LineTo
  BY <1>4, LineSame DEF HistoryInv
<1>6. /\ DOMAIN claims' = DOMAIN claims
      /\ claims'[c].current = u /\ claims'[c].status = "active"
      /\ \A d \in DOMAIN claims : d # c => claims'[d] = claims[d]
  BY <1>3, <1>4
<1>7. Closed' = Closed /\ ~Closed[c]
  <2>1. \A d \in DOMAIN claims :
          (claims'[d].status = "deleted") = (claims[d].status = "deleted")
    BY <1>3, <1>6
  <2> QED
    BY <1>3, <1>6, <2>1 DEF Closed
<1>8. /\ Line' = [Line EXCEPT ![c] = LineTo[u]]
      /\ Line'[c] = LineTo[u] /\ c \in DOMAIN Line
      /\ Line[c] = LineTo[Current(c)]
  <2>1. \A d \in DOMAIN claims :
          LineTo'[claims'[d].current] = IF d = c THEN LineTo[u] ELSE Line[d]
    BY <1>5, <1>6 DEF Line
  <2>2. Line' = [d \in DOMAIN claims |-> IF d = c THEN LineTo[u] ELSE Line[d]]
    BY <1>6, <2>1 DEF Line
  <2> QED
    BY <1>3, <2>2 DEF Line, Current
<1>9. IsPrefix(Line[c], LineTo[u])
  BY <1>3, <1>8 DEF Leads
<1>10. CASE Line[c] = LineTo[u]
  <2>1. Line' = Line
    BY <1>8, <1>10 DEF Line
  <2> QED
    BY <1>7, <2>1 DEF LineStep
<1>11. CASE Line[c] # LineTo[u]
  <2>1. IsStrictPrefix(Line[c], Line'[c])
    BY <1>8, <1>9, <1>11 DEF IsStrictPrefix
  <2>2. LineExtends(c)
    BY <1>7, <1>8, <2>1 DEF LineExtends
  <2> QED
    BY <1>8, <2>2 DEF LineStep
<1> QED
  BY <1>10, <1>11

(* invalidateClaim ends the line.                                          *)
LEMMA InvalidateCloses ==
  ASSUME NEW r, AtWork(r), HistoryInv, TypeOK', InvalidateClaim(r)
  PROVE  LineStep
<1> DEFINE l == request[r]
           A == Ahead(l.todo)
           B == Ahead(Tail(l.todo))
<1>f. /\ IInv /\ l.todo \in Track(l.op) /\ A = {Head(l.todo)} \cup B /\ ClaimKnown(l)
  BY WorkFacts DEF AtWork
<1>1. /\ Head(l.todo) = "invalidateClaim" /\ UNCHANGED versions
      /\ claims' = [claims EXCEPT ![l.claim] =
                      [status |-> "deleted", current |-> None,
                       invalidatedBy |-> l.newVersion]]
  BY DEF InvalidateClaim, At
<1>2. l.claim \in DOMAIN claims /\ claims[l.claim].status = "active"
  <2>1. B \subseteq {"storeCmo"}
    BY <1>1, <1>f, AddTrack, UpdateTrack, SupersedeTrack, DeleteTrack, NoopTrack,
       RemoveTrack, ShortTrack DEF AtWork, Operations
  <2>2. /\ A \cap {"ensureClaimTarget", "createClaim"} = {}
        /\ A \cap PointClaimStatements # {}
    BY <1>1, <1>f, <2>1 DEF PointClaimStatements
  <2> HIDE DEF A
  <2> QED
    BY <1>f, <2>2 DEF ClaimKnown, ClaimStatements, A
<1>3. PICK c \in DOMAIN claims : c = l.claim
  BY <1>2
<1>4. LineTo' = LineTo
  BY <1>1, LineSame DEF HistoryInv
<1>5. /\ DOMAIN claims' = DOMAIN claims
      /\ claims'[c].current = None /\ claims'[c].status = "deleted"
      /\ \A d \in DOMAIN claims : d # c => claims'[d] = claims[d]
  BY <1>1, <1>3
<1>6. Closed' = [Closed EXCEPT ![c] = TRUE] /\ ~Closed[c]
  <2>1. \A d \in DOMAIN claims :
          (claims'[d].status = "deleted") = IF d = c THEN TRUE ELSE Closed[d]
    BY <1>5 DEF Closed
  <2>2. Closed' = [d \in DOMAIN claims |-> IF d = c THEN TRUE ELSE Closed[d]]
    BY <1>5, <2>1 DEF Closed
  <2> QED
    BY <1>2, <1>3, <2>2 DEF Closed
<1>7. Line' = [Line EXCEPT ![c] = <<>>] /\ c \in DOMAIN Line
  <2>1. \A d \in DOMAIN claims :
          LineTo'[claims'[d].current] = IF d = c THEN <<>> ELSE Line[d]
    BY <1>f, <1>4, <1>5, LineFacts DEF Line
  <2>2. Line' = [d \in DOMAIN claims |-> IF d = c THEN <<>> ELSE Line[d]]
    BY <1>5, <2>1 DEF Line
  <2> QED
    BY <2>2 DEF Line
<1> QED
  BY <1>6, <1>7 DEF LineStep, LineCloses

(* Every step of ClaimLineage is one of ClaimHistory or none.              *)
LEMMA LineNext ==
  ASSUME IInv, SInv, HistoryInv, IInv', HistoryInv', [Next]_vars
  PROVE  LineStep
<1>1. ASSUME UNCHANGED claims, RowsKept
      PROVE  LineStep
  BY <1>1, LineOfSameClaims DEF LineStep
<1>2. ASSUME NEW r \in Requests, Start(r) \/ Fail(r)
      PROVE  LineStep
  <2>1. UNCHANGED <<memories, claims, versions>>
    BY <1>2 DEF Start, StoreCanonicalFact, UpdateCanonicalFact,
       SupersedeCanonicalFact, DeleteCanonicalFact, RecordNoop,
       StoreClarification, StoreVerbatim, ArchiveMemory, DeleteMemory, Admit,
       Fail, tables
  <2> QED
    BY <1>1, <2>1, UnchangedKept
<1>3. ASSUME NEW r \in Requests, Statement(r)
      PROVE  LineStep
  <2>1. AtWork(r)
    BY <1>3, StatementRuns, RunningAtWork
  <2>2. CASE UNCHANGED claims
    BY <1>1, <1>3, <2>2, StatementKept DEF IInv
  <2>3. CASE CreateClaim(r)
    BY <2>3, CreateClaimOpens DEF LineStep
  <2>4. CASE SetCurrent(r) \/ BackfillCurrent(r)
    BY <2>1, <2>4, PointExtends DEF IInv
  <2>5. CASE InvalidateClaim(r)
    BY <2>1, <2>5, InvalidateCloses DEF IInv
  <2> QED
    BY <1>3, <2>2, <2>3, <2>4, <2>5
       DEF Statement, StoreCmo, StoreMemory, InsertClarification, InsertMemory,
           StoreFacts, DeleteFacts, UpdateContent, ExpireMemory, SoftDelete,
           RelinkCmo, GetMemory, EnsureClaimTarget, GetClaimVersion,
           CreateVersion, CreateTombstone, BackfillVersion, RejectDuplicate,
           CloseOld, ReleaseOld, LinkOld, AddEvidence, CiteTarget, Cite, tables
<1>4. CASE UNCHANGED vars
  <2>1. UNCHANGED <<memories, claims, versions>>
    BY <1>4 DEF vars
  <2> QED
    BY <1>1, <2>1, UnchangedKept
<1> QED
  BY <1>2, <1>3, <1>4 DEF Next

(* As long as requests do not overlap, claims implement the append-only    *)
(* history, whatever fails: setClaimCurrentVersion only extends the line   *)
(* of versions, and invalidateClaim ends it for good.                      *)
THEOREM HistorySafe ==
  ASSUME Serial PROVE Spec => HistoryIsAppendOnly
<1>1. Init => History!Init
  <2> SUFFICES ASSUME Init PROVE History!Init
    OBVIOUS
  <2>1. DOMAIN claims = {}
    BY DEF Init
  <2>2. \A e : [c \in {} |-> e] = <<>>
    OBVIOUS
  <2> QED
    BY <2>1, <2>2 DEF History!Init
<1>2. (IInv /\ SInv /\ HistoryInv) /\ (IInv /\ SInv /\ HistoryInv)' /\ [Next]_vars
        => [History!Next]_<<Line, Closed>>
  <2> SUFFICES ASSUME IInv, SInv, HistoryInv, IInv', HistoryInv', [Next]_vars
               PROVE  [History!Next]_<<Line, Closed>>
    OBVIOUS
  <2>1. CASE LineOpens
    BY <2>1 DEF LineOpens, Line, Closed, History!Next, History!Open
  <2>2. ASSUME NEW c \in DOMAIN Line, LineExtends(c)
        PROVE  [History!Next]_<<Line, Closed>>
    <3>1. History!Extend(c)
      BY <2>2 DEF LineExtends, Line, Closed, History!Extend, IsStrictPrefix,
         IsPrefix, History!IsStrictPrefix, History!IsPrefix
    <3> QED
      BY <2>2, <3>1 DEF History!Next, Line
  <2>3. ASSUME NEW c \in DOMAIN Line, LineCloses(c)
        PROVE  [History!Next]_<<Line, Closed>>
    <3>1. History!Close(c)
      BY <2>3 DEF LineCloses, Line, Closed, History!Close
    <3> QED
      BY <2>3, <3>1 DEF History!Next, Line
  <2> QED
    BY <2>1, <2>2, <2>3, LineNext DEF LineStep
<1> QED
  BY <1>1, <1>2, HistoryInvariance, PTL
     DEF Spec, HistoryIsAppendOnly, History!Spec, Line, Closed
=============================================================================
