----------------------------- MODULE EntityGraph -----------------------------
(***************************************************************************)
(* The entities a stored fact names, its relations and its claim slot      *)
(* (memory-storage.ts, repository-entities.ts, claim-slotting.ts), for one *)
(* user and several ingests at a time.  Nothing keeps two entities from    *)
(* having one name: resolving a name is a lookup by name, a lookup by      *)
(* likeness and an insert, in statements of their own.                     *)
(*                                                                         *)
(* Names are model values; what two spellings have in common is data.      *)
(***************************************************************************)
EXTENDS Integers, FiniteSets, SequencesExt

CONSTANTS
  StoreJobs,      \* ingests of one fact
  Backfills,      \* repairs of claims without a slot
  Stores,         \* fact, site, mentions and relations of each ingest
  Normal,         \* the normalized form of a name
  Near,           \* cosine of two names, in percent
  Threshold,      \* ENTITY_RESOLUTION_THRESHOLD
  Scenarios,      \* bound: the jobs that meet, and the rows they find
  None            \* no entity, no slot, no confidence

ASSUME JobsAssumption == StoreJobs \cap Backfills = {}
ASSUME StoresAssumption ==
  \A j \in StoreJobs : Stores[j].mentions \in Seq(Range(Stores[j].mentions))
ASSUME NoneAssumption == None \notin Nat
(* The graph that is found has no two entities of one name yet.            *)
ASSUME ScenarioEntitiesAssumption ==
  \A s \in Scenarios :
    /\ s.entities \in Seq(Range(s.entities))
    /\ \A e \in Range(s.entities) : {"type", "names"} \subseteq DOMAIN e
    /\ \A d, e \in DOMAIN s.entities :
         d # e /\ s.entities[d].type = s.entities[e].type =>
           s.entities[d].names \cap s.entities[e].names = {}

VARIABLES
  rows,       \* the memories table with the claim of each row
  entities,   \* the entities table, oldest first
  mentions,   \* memory_entities
  relations,  \* entity_relations, without their source memory
  store,      \* the state of each ingest and backfill
  raced       \* names that two ingests were resolving at once (history)

Ids == DOMAIN rows
Linkers == StoreJobs \cup Backfills

NewRow(says, site, importance) ==
  [says |-> says, site |-> site, importance |-> importance,
   status |-> "live", claim |-> "none", versions |-> {},
   current |-> None, slot |-> None,
   age |-> 0, idle |-> 0, hits |-> 0, trust |-> 100,
   confidence |-> None, about |-> None]

(* A row's claim has versions from these sites, and a current one.         *)
(* missed: a mention was not resolved or linked; known: nameToEntityId;    *)
(* looked: canonicalEntries by mention.                                    *)
InitGraph(scenario) ==
  /\ rows = scenario.rows
  /\ entities = scenario.entities /\ mentions = {} /\ relations = {} /\ raced = {}
  /\ store = [j \in Linkers |->
       [pc |-> IF j \in scenario.jobs THEN "new" ELSE "none", next |-> 1,
        row |-> None, match |-> None, known |-> <<>>, looked |-> <<>>,
        slot |-> None, todo |-> {}, missed |-> FALSE]]

At(j, pc) == store[j].pc = pc
Changed(f, changes) ==
  [x \in DOMAIN f |-> IF x \in DOMAIN changes THEN changes[x] ELSE f[x]]
With(f, i, value) ==
  [x \in DOMAIN f \cup {i} |-> IF x = i THEN value ELSE f[x]]
Go(j, changes) == store' = [store EXCEPT ![j] = Changed(@, changes)]
Mention(j) == Stores[j].mentions[store[j].next]

-----------------------------------------------------------------------------
(* Lookups.                                                                *)

FindByOwnName(mention) ==
  {e \in DOMAIN entities :
     /\ entities[e].type = mention.type
     /\ Normal[mention.name] = Normal[entities[e].name]
     /\ \A d \in 1..(e - 1) : entities[d].name # entities[e].name}
(* By name or alias; at most the oldest.                                   *)
FindDeterministicEntity(mention) ==
  LET found == {e \in DOMAIN entities :
                  /\ entities[e].type = mention.type
                  /\ Normal[mention.name] \in entities[e].names}
  IN {e \in found : \A d \in found : e <= d}

(* By the embedding of the name the entity was created with.               *)
FindSimilarEntity(mention) ==
  LET close(e) == Near[mention.name][entities[e].name]
      found == {e \in DOMAIN entities : /\ entities[e].type = mention.type
                                        /\ close(e) >= Threshold}
  IN {e \in found : \A d \in found : close(d) <= close(e)}

(* One slot of those that name two entities; which is a matter of ids.     *)
FirstSlot(slots) ==
  LET proper == {s \in slots : s.source # s.target}
  IN IF proper = {} THEN {None} ELSE proper

(* Of what was looked up; the last mention of a name that was found.       *)
BuildRelationClaimSlot(j) ==
  LET looked == store[j].looked
      at(name) == {i \in DOMAIN looked : /\ Stores[j].mentions[i].name = name
                                         /\ looked[i] # {}}
      entityOf(name) == UNION {looked[i] :
                                 i \in {i \in at(name) :
                                          \A k \in at(name) : k <= i}}
  IN FirstSlot(UNION {
       {[source |-> s, type |-> r.type, target |-> t] :
          s \in entityOf(r.source), t \in entityOf(r.target)} :
       r \in Range(Stores[j].relations)})

EntitiesOf(row) == {m[2] : m \in {m \in mentions : m[1] = row}}

RelationsOfItsSource(row) ==
  FirstSlot({r \in relations : r.source \in EntitiesOf(row)})
(* getRelationsForMemory: whichever memory a relation was observed in.     *)
DerivePersistedClaimSlot(row) ==
  FirstSlot({r \in relations : {r.source, r.target} \subseteq EntitiesOf(row)})

-----------------------------------------------------------------------------
(* storeCanonicalFact.                                                     *)

Mentions(j) == Stores[j].mentions

(* The entities are looked up in statements side by side, in any order; a  *)
(* fact without relations needs none of them.                              *)
LookUpEntity(j) ==
  /\ At(j, "new") /\ j \in StoreJobs /\ Stores[j].relations # <<>>
  /\ \E i \in DOMAIN Mentions(j) \ DOMAIN store[j].looked :
       Go(j, [looked |-> With(store[j].looked, i,
                              FindDeterministicEntity(Mentions(j)[i]))])
  /\ UNCHANGED <<rows, entities, mentions, relations, raced>>

ResolveDeterministicClaimSlot(j) ==
  /\ At(j, "new") /\ j \in StoreJobs
  /\ \/ Stores[j].relations = <<>>
     \/ DOMAIN Mentions(j) \subseteq DOMAIN store[j].looked
  /\ \E slot \in BuildRelationClaimSlot(j) :
       Go(j, [pc |-> "row", slot |-> slot, looked |-> <<>>])
  /\ UNCHANGED <<rows, entities, mentions, relations, raced>>

NextMention(j, next) ==
  IF next <= Len(Mentions(j)) THEN [pc |-> "find", next |-> next]
  ELSE [pc |-> "relate", next |-> 1]

StoreRow(j) ==
  /\ At(j, "row")
  /\ rows' = Append(rows, NewRow({Stores[j].fact}, Stores[j].site,
                                 Stores[j].importance))
  /\ Go(j, [pc |-> "claim", row |-> Len(rows) + 1])
  /\ UNCHANGED <<entities, mentions, relations, raced>>

(* The claim, with the slot that was resolved.                             *)
CreateClaim(j) ==
  /\ At(j, "claim")
  /\ rows' = [rows EXCEPT ![store[j].row].claim = "open",
                          ![store[j].row].slot = store[j].slot]
  /\ Go(j, [pc |-> "version"])
  /\ UNCHANGED <<entities, mentions, relations, raced>>

(* A reset removes claims without a version, and rows: either may be gone. *)
CreateVersion(j) ==
  /\ At(j, "version")
  /\ rows[store[j].row].claim = "open"
  /\ rows[store[j].row].status # "erased"
  /\ rows' = [rows EXCEPT ![store[j].row].versions = {Stores[j].site},
                          ![store[j].row].current = Stores[j].site]
  /\ Go(j, NextMention(j, 1))
  /\ UNCHANGED <<entities, mentions, relations, raced>>

Resolving(j) ==
  IF store[j].pc \in {"similar", "merge", "create"}
  THEN {<<Mention(j).type, Normal[Mention(j).name]>>} ELSE {}

(* resolveEntityWithClient.                                                *)
FindByName(j) ==
  /\ At(j, "find")
  /\ raced' = raced \cup ({<<Mention(j).type, Normal[Mention(j).name]>>}
                            \cap UNION {Resolving(k) : k \in StoreJobs})
  /\ LET found == FindDeterministicEntity(Mention(j))
     IN Go(j, [pc |-> IF found = {} THEN "similar" ELSE "merge",
               match |-> IF found = {} THEN None ELSE CHOOSE e \in found : TRUE])
  /\ UNCHANGED <<rows, entities, mentions, relations>>

FindByLikeness(j) ==
  /\ At(j, "similar")
  /\ LET found == FindSimilarEntity(Mention(j))
     IN IF found = {} THEN Go(j, [pc |-> "create"])
        ELSE \E e \in found : Go(j, [pc |-> "merge", match |-> e])
  /\ UNCHANGED <<rows, entities, mentions, relations, raced>>

MergeAlias(j) ==
  /\ At(j, "merge")
  /\ entities' = [entities EXCEPT ![store[j].match].names =
                                     @ \cup {Normal[Mention(j).name]}]
  /\ Go(j, [pc |-> "link"])
  /\ UNCHANGED <<rows, mentions, relations, raced>>

CreateEntity(j) ==
  /\ At(j, "create")
  /\ entities' = Append(entities,
       [type |-> Mention(j).type, name |-> Mention(j).name,
        names |-> {Normal[Mention(j).name]}])
  /\ Go(j, [pc |-> "link", match |-> Len(entities) + 1])
  /\ UNCHANGED <<rows, mentions, relations, raced>>

(* The foreign key refuses a row that a reset has erased.                  *)
LinkMemoryToEntity(j) ==
  /\ At(j, "link")
  /\ rows[store[j].row].status # "erased"
  /\ mentions' = mentions \cup {<<store[j].row, store[j].match>>}
  /\ LET after == NextMention(j, store[j].next + 1)
     IN Go(j, [pc |-> after.pc, next |-> after.next,
               known |-> (Mention(j).name :> store[j].match)
                            @@ store[j].known])
  /\ UNCHANGED <<rows, entities, relations, raced>>

(* Logged; the other mentions are resolved all the same.                   *)
MissMention(j) ==
  /\ store[j].pc \in {"find", "similar", "merge", "create", "link"}
  /\ LET after == NextMention(j, store[j].next + 1)
     IN Go(j, [pc |-> after.pc, next |-> after.next, missed |-> TRUE])
  /\ UNCHANGED <<rows, entities, mentions, relations, raced>>

(* storeRelations: an upsert that may fail; ends that were not resolved,   *)
(* or to the same entity, make no relation.                                *)
StoreRelation(j) ==
  /\ At(j, "relate") /\ store[j].next <= Len(Stores[j].relations)
  /\ LET r == Stores[j].relations[store[j].next]
         end(name) == {store[j].known[n] :
                         n \in {name} \cap DOMAIN store[j].known}
         made == {[source |-> s, type |-> r.type, target |-> t] :
                    s \in end(r.source), t \in end(r.target)}
     IN \/ relations' = relations \cup {m \in made : m.source # m.target}
        \/ relations' = relations
  /\ Go(j, [next |-> store[j].next + 1])
  /\ UNCHANGED <<rows, entities, mentions, raced>>

(* Only a claim without a slot is looked at again.                         *)
FinishLinking(j) ==
  /\ At(j, "relate") /\ store[j].next > Len(Stores[j].relations)
  /\ Go(j, IF store[j].slot = None
           THEN [pc |-> "derive", todo |-> {store[j].row}]
           ELSE [pc |-> "done"])
  /\ UNCHANGED <<rows, entities, mentions, relations, raced>>

-----------------------------------------------------------------------------
(* backfillClaimSlots, and the last step of an ingest.                     *)

ListClaimsMissingSlots(j) ==
  /\ At(j, "new") /\ j \in Backfills
  /\ Go(j, [pc |-> "derive",
            todo |-> {r \in Ids : /\ rows[r].claim = "open"
                                  /\ rows[r].current # None
                                  /\ rows[r].status # "erased"
                                  /\ rows[r].slot = None}])
  /\ UNCHANGED <<rows, entities, mentions, relations, raced>>

DeriveSlot(j) ==
  /\ At(j, "derive")
  /\ \/ store[j].todo = {} /\ Go(j, [pc |-> "done"])
     \/ \E r \in store[j].todo : \E slot \in DerivePersistedClaimSlot(r) :
          Go(j, [pc |-> IF slot = None THEN "derive" ELSE "assign",
                 row |-> r, slot |-> slot, todo |-> store[j].todo \ {r}])
  /\ UNCHANGED <<rows, entities, mentions, relations, raced>>

(* Only where the slot is still missing.                                   *)
UpdateClaimSlot(j) ==
  /\ At(j, "assign")
  /\ rows' = [rows EXCEPT ![store[j].row].slot =
                             IF @ = None /\ rows[store[j].row].claim # "none"
                             THEN store[j].slot ELSE @]
  /\ Go(j, [pc |-> "derive"])
  /\ UNCHANGED <<entities, mentions, relations, raced>>

(* The process dies, or a statement fails whose error is not caught.       *)
AbortLinking(j) ==
  /\ store[j].pc \notin {"none", "done", "dead"}
  /\ Go(j, [pc |-> "dead"])
  /\ UNCHANGED <<rows, entities, mentions, relations, raced>>

StoreStep(j) ==
  \/ LookUpEntity(j) \/ ResolveDeterministicClaimSlot(j)
  \/ StoreRow(j) \/ CreateClaim(j) \/ CreateVersion(j)
  \/ FindByName(j) \/ FindByLikeness(j) \/ MergeAlias(j) \/ CreateEntity(j)
  \/ LinkMemoryToEntity(j) \/ MissMention(j)
  \/ StoreRelation(j) \/ FinishLinking(j)

NextGraph == \E j \in Linkers :
  \/ StoreStep(j) \/ ListClaimsMissingSlots(j)
  \/ DeriveSlot(j) \/ UpdateClaimSlot(j) \/ AbortLinking(j)

=============================================================================
