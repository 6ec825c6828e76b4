------------------------ MODULE ClaimLineageHistory ------------------------
(***************************************************************************)
(* ClaimLineage implements ClaimHistory as long as requests do not overlap *)
(* and DELETE /v1/memories/:id names memories that are still served; a     *)
(* request may die between any two statements.                             *)
(***************************************************************************)
EXTENDS ClaimLineage

-----------------------------------------------------------------------------
(* The line of a claim: from its first version to the current one, along   *)
(* previous_version_id.                                                    *)
LineTo[v \in {None} \cup DOMAIN versions] ==
  IF v = None THEN <<>> ELSE Append(LineTo[versions[v].previous], v)

History ==
  INSTANCE ClaimHistory
    WITH line   <- [c \in DOMAIN claims |-> LineTo[claims[c].current]],
         closed <- [c \in DOMAIN claims |-> claims[c].status = "deleted"]

(* Claims implement the append-only history: setClaimCurrentVersion only   *)
(* extends the line it replaces, invalidateClaim is final.                 *)
HistoryIsAppendOnly == History!Spec

=============================================================================
