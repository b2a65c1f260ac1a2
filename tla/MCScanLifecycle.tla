--------------------------- MODULE MCScanLifecycle ---------------------------
(***************************************************************************)
(* The instance of ScanLifecycle for TLC.                                  *)
(***************************************************************************)
EXTENDS ScanLifecycle

\* The bound of the run: two assets without faults, or one with.
FewFaults == faults = 0 \/ Cardinality(scan.assetIDs \cup sw.assetIDs) <= 1
BoundedSpec == Init /\ [][Next /\ FewFaults']_vars /\ Fairness
=============================================================================
