--------------------------- MODULE MCReconcileLoop ---------------------------
(***************************************************************************)
(* One controller, with the single reconciler the orchestrator starts.  No *)
(* symmetry: the run checks liveness.                                      *)
(***************************************************************************)
EXTENDS ReconcileLoop
=============================================================================
