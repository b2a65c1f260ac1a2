------------------------------ MODULE MCScanner ------------------------------
(***************************************************************************)
(* An instance of Scanner for TLC: the second family works on what the     *)
(* first one found, as vulnerabilities do on the SBOM.                     *)
(***************************************************************************)
EXTENDS Scanner

MCInput == <<0, 1, 0>>
=============================================================================
