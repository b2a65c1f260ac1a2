--------------------------- MODULE MCAssetFindings ---------------------------
(***************************************************************************)
(* An instance of AssetFindings for TLC.                                   *)
(***************************************************************************)
EXTENDS AssetFindings, TLC

\* Three AssetScans, each a second after the one before.
MCSec == <<1, 2, 3>>

MCOneScan == <<1>>
MCTwoScans == <<1, 2>>
=============================================================================
