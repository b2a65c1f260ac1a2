--------------------------- MODULE ProviderContract ---------------------------
(***************************************************************************)
(* What the AssetScan watcher relies on about a provider, whichever it is, *)
(* and the resources of one AssetScan: RunAssetScan makes them and nothing *)
(* else does, they are there while the scanner works, and once they are    *)
(* gone they are gone for good.  The one exception are requests that were  *)
(* given up unanswered: what the provider acts on may act on them later.   *)
(***************************************************************************)

VARIABLES stage,   \* where the watcher is with the AssetScan
          exists,  \* something is there that RemoveAssetScan is to remove
          lost,    \* a request was given up that may still be acted on
          late     \* one was acted on after it had been given up

contractvars == <<stage, exists, lost, late>>

Init == stage = "run" /\ exists = FALSE /\ lost = FALSE /\ late = FALSE

\* RunAssetScan is called again, or the AssetScan is aborted or failed: what there
\* is and what is on its way by then may be anything.
Runs ==
    /\ stage = "run"
    /\ stage' \in {"run", "remove"}
    /\ exists' \in BOOLEAN
    /\ lost' \in BOOLEAN
    /\ UNCHANGED late

\* RunAssetScan returns nil.
IsReady ==
    /\ stage = "run"
    /\ stage' = "scan"
    /\ exists' = TRUE
    /\ UNCHANGED <<lost, late>>

\* The scanner is done, or the AssetScan is aborted.
ScanIsDone ==
    /\ stage = "scan"
    /\ stage' = "remove"
    /\ UNCHANGED <<exists, lost, late>>

\* RemoveAssetScan is called again, returns nil, or fails.  It makes nothing.
Removes ==
    /\ stage = "remove"
    /\ stage' \in {"remove", "removed", "failed"}
    /\ exists' \in {exists, FALSE}
    /\ lost' \in {lost, FALSE}
    /\ stage' = "removed" => ~exists' \/ late
    /\ UNCHANGED late

\* External: what was being deleted when the watcher gave up goes, and what came
\* late is taken away.
Vanishes ==
    /\ stage \in {"removed", "failed"}
    /\ exists' = FALSE
    /\ UNCHANGED <<stage, lost, late>>

\* External: a request that was given up is acted on, which makes something new or
\* finds that it is there.
Lands ==
    /\ lost
    /\ lost' \in BOOLEAN
    /\ exists' = TRUE
    /\ late' \in {late, TRUE}
    /\ exists \/ late'
    /\ UNCHANGED stage

Next == Runs \/ IsReady \/ ScanIsDone \/ Removes \/ Vanishes \/ Lands

Spec == Init /\ [][Next]_contractvars
=============================================================================
