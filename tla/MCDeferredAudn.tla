--------------------------- MODULE MCDeferredAudn ---------------------------
(* Model-checking instance of DeferredAudn.                                *)
EXTENDS DeferredAudn, TLC

CONSTANTS p1, p2

PassSymmetry == Permutations({p1, p2})

=============================================================================
