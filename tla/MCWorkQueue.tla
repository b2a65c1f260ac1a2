---------------------------- MODULE MCWorkQueue ----------------------------
(***************************************************************************)
(* The queue alone, its methods called by anybody in any order.  Items and *)
(* reconcilers are interchangeable.                                        *)
(***************************************************************************)
EXTENDS WorkQueue, TLC

Symmetry == Permutations(Items) \cup Permutations(Reconcilers)
=============================================================================
