--------------------------- MODULE MCClaimLineage ---------------------------
(* Model-checking instance of ClaimLineage.                                *)
EXTENDS ClaimLineageSerial, TLC

RequestSymmetry == Permutations(Requests)

=============================================================================
