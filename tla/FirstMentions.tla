---------------------------- MODULE FirstMentions ---------------------------
(***************************************************************************)
(* The list of first mentions (first-mention-service.ts,                   *)
(* repository-first-mentions.ts): a scan asks the model at which turns of  *)
(* a conversation topics come up first, and stores one event for each      *)
(* memory.  Scans are repeated, by clients and at once, and memories are   *)
(* deleted meanwhile.  A topic is the turn it is reported for.             *)
(***************************************************************************)
EXTENDS ModelClients

CONSTANTS
  Scans,        \* scans, which are clients of llm.chat
  MemoryOf,     \* memory of each turn that has one (memoryIdsByTurnId)
  Replies       \* what the model may list: sequences of turns

ASSUME RepliesAssumption == \A turns \in Replies : turns \in Seq(Int)

VARIABLES
  scan,      \* the state of each scan
  mentions,  \* first_mention_events
  deleted    \* memories that are gone

mentionVars == <<scan, mentions, deleted>>

InitMentions(active) ==
  /\ scan = [s \in Scans |-> [pc |-> IF s \in active THEN "new" ELSE "none",
                              events |-> <<>>]]
  /\ mentions = {} /\ deleted = {}

Advance(s, pc) == scan' = [scan EXCEPT ![s].pc = pc]

AskForMentions(s) ==
  /\ scan[s].pc = "new"
  /\ Advance(s, "asking")
  /\ Chat(s, "plain", 0)
  /\ UNCHANGED <<mentions, deleted>>

(* mapToEvents: turns without a memory are left out, the rest is sorted by *)
(* turn, and a position is the number of events before.                    *)
EventsAsListed(turns) ==
  LET of == {i \in DOMAIN turns : turns[i] \in DOMAIN MemoryOf}
      at(n) == CHOOSE i \in of : Cardinality({k \in of : k < i}) = n - 1
  IN [n \in 1..Cardinality(of) |->
        [turn |-> turns[at(n)], memory |-> MemoryOf[turns[at(n)]],
         position |-> n - 1]]
MapToEvents(turns) ==
  LET of == {i \in DOMAIN turns : turns[i] \in DOMAIN MemoryOf}
      before(i) == {k \in of : \/ turns[k] < turns[i]
                               \/ turns[k] = turns[i] /\ k < i}
      at(n) == CHOOSE i \in of : Cardinality(before(i)) = n - 1
  IN [n \in 1..Cardinality(of) |->
        [turn |-> turns[at(n)], memory |-> MemoryOf[turns[at(n)]],
         position |-> n - 1]]

ExtractMentions(s) ==
  /\ scan[s].pc = "asking" /\ chat[s].state = "answered"
  /\ \E turns \in Replies :
       scan' = [scan EXCEPT
         ![s].pc = IF MapToEvents(turns) = <<>> THEN "done" ELSE "store",
         ![s].events = MapToEvents(turns)]
  /\ Chat(s, "idle", 0)
  /\ UNCHANGED <<mentions, deleted>>

(* The row of the n-th event.                                              *)
Mention(s, n) ==
  LET event == scan[s].events[n]
  IN [scan |-> s, turn |-> event.turn, memory |-> event.memory,
      position |-> event.position]

(* One INSERT: ON CONFLICT (user_id, memory_id) DO NOTHING, and the first  *)
(* of two events of one memory wins.  A memory that is gone fails it all.  *)
StoreMentions(s) ==
  LET events == scan[s].events
      new == {n \in DOMAIN events :
                /\ \A m \in mentions : m.memory # events[n].memory
                /\ \A k \in 1..(n - 1) : events[k].memory # events[n].memory}
  IN
  /\ scan[s].pc = "store"
  /\ IF \E n \in DOMAIN events : events[n].memory \in deleted
     THEN Advance(s, "failed") /\ UNCHANGED mentions
     ELSE /\ mentions' = mentions \cup {Mention(s, n) : n \in new}
          /\ Advance(s, "done")
  /\ UNCHANGED <<modelVars, deleted>>

(* invokeLlm fails open: no events, and no error.                          *)
FailScan(s) ==
  /\ scan[s].pc = "asking" /\ chat[s].state = "failed"
  /\ Advance(s, "done")
  /\ Chat(s, "idle", 0)
  /\ UNCHANGED <<mentions, deleted>>

(* A row that is removed takes its event along (ON DELETE CASCADE).        *)
RemoveMemory(m) ==
  /\ m \notin deleted
  /\ \E s \in Scans : scan[s].pc \notin {"none", "done", "failed"}
  /\ deleted' = deleted \cup {m}
  /\ mentions' = {e \in mentions : e.memory # m}
  /\ UNCHANGED <<modelVars, scan>>

NextMentions ==
  \/ \E s \in Scans : AskForMentions(s) \/ ExtractMentions(s)
                        \/ StoreMentions(s) \/ FailScan(s)
  \/ \E m \in {MemoryOf[t] : t \in DOMAIN MemoryOf} : RemoveMemory(m)

-----------------------------------------------------------------------------
(* A memory stands in the list with the earliest of the turns for which    *)
(* its scan named it, however the model ordered its answer, and the events *)
(* of one scan are listed in the order of their turns.                     *)
EarliestMentionStands ==
  \A m \in mentions :
    /\ m.memory \notin deleted
    /\ \A n \in DOMAIN scan[m.scan].events :
         LET e == scan[m.scan].events[n]
         IN e.memory = m.memory => m.turn <= e.turn
    /\ \A o \in mentions :
         o.scan = m.scan /\ o.position < m.position => o.turn < m.turn

(* first-mention-service.ts:211 "read-side ordering is now a stable        *)
(* sequence (0, 1, 2, ...) regardless of which LLM run produced it".       *)
PositionsAreASequence ==
  {m.position : m \in mentions} = 0..(Cardinality(mentions) - 1)

=============================================================================
