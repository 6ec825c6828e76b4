---------------------------- MODULE ClaimHistory ----------------------------
(***************************************************************************)
(* What claim versioning promises, whatever statements implement it: a     *)
(* claim is a line of versions that only grows at its end, and deleting    *)
(* the claim ends it for good.                                             *)
(***************************************************************************)
EXTENDS Integers, Sequences, SequencesExt

VARIABLES
  line,    \* per claim, the versions that led to the current one, in order
  closed   \* per claim, whether it was deleted

Init == line = <<>> /\ closed = <<>>

Open == line' = Append(line, <<>>) /\ closed' = Append(closed, FALSE)

(* New versions follow the current one; none of the line is rewritten.     *)
Extend(c) ==
  /\ ~closed[c]
  /\ IsStrictPrefix(line[c], line'[c])
  /\ line' = [line EXCEPT ![c] = line'[c]]
  /\ UNCHANGED closed

Close(c) ==
  /\ ~closed[c]
  /\ line' = [line EXCEPT ![c] = <<>>]
  /\ closed' = [closed EXCEPT ![c] = TRUE]

Next == Open \/ \E c \in DOMAIN line : Extend(c) \/ Close(c)

Spec == Init /\ [][Next]_<<line, closed>>

=============================================================================
