--------------------------- MODULE AssetDiscovery ---------------------------
(***************************************************************************)
(* The Discoverer (orchestrator/discoverer): every two minutes it lists    *)
(* what the provider finds, creates or refreshes an Asset for each, and    *)
(* marks those that were not found as terminated.                          *)
(*                                                                         *)
(* lastSeen is abstracted to what is ever asked of it: whether it is the   *)
(* time of the discovery in progress, or of the last one that began.       *)
(***************************************************************************)
EXTENDS Naturals, FiniteSets

CONSTANTS Assets,
          MaxFaults   \* bound on failing calls, crashes and delays

ASSUME DiscoveryAssumption == IsFiniteSet(Assets) /\ MaxFaults \in Nat

VARIABLES present,  \* what the provider runs, external
          asset,    \* the Assets the API server stores
          d,        \* the discovery in progress
          faults

dvars == <<present, asset, d>>

AssetRecords == [exists : BOOLEAN, seen : BOOLEAN, terminated : BOOLEAN, summary : Nat]

\* todo: still to be reported, or to be terminated; found: the provider has
\* them, in a region it could list; unpatched: failedPatchAssets; unsure: a call
\* that would have told the server that it was found is lost.
Discoveries == [phase : {"idle", "walk", "query", "terminate"},
                todo : SUBSET Assets, conflict : SUBSET Assets,
                found : SUBSET Assets, unpatched : SUBSET Assets,
                unsure : SUBSET Assets]

DIdle == [phase |-> "idle", todo |-> {}, conflict |-> {}, found |-> {},
          unpatched |-> {}, unsure |-> {}]

DTypeOK ==
    /\ present \subseteq Assets
    /\ asset \in [Assets -> AssetRecords]
    /\ d \in Discoveries
    /\ faults \in 0..MaxFaults

Fault == faults < MaxFaults /\ faults' = faults + 1
-----------------------------------------------------------------------------
\* A new discoveryTime: nothing has been seen since.
DStarts ==
    /\ d.phase = "idle"
    /\ d' = [DIdle EXCEPT !.phase = "walk", !.todo = present, !.found = present]
    /\ asset' = [a \in Assets |-> [asset[a] EXCEPT !.seen = FALSE]]
    /\ UNCHANGED <<present, faults>>

\* A region cannot be listed: its assets are not reported, and no error is.
DSkipsRegion ==
    /\ d.phase = "walk"
    /\ Fault
    /\ \E region \in (SUBSET (d.todo \ d.conflict)) \ {{}} :
         d' = [d EXCEPT !.todo = @ \ region, !.found = @ \ region]
    /\ UNCHANGED <<present, asset>>

\* POST of an Asset: created, or refused because it exists.
DPosts(a) ==
    /\ d.phase = "walk"
    /\ a \in d.todo
    /\ d.conflict = {}
    /\ \/ /\ ~asset[a].exists
          /\ asset' = [asset EXCEPT ![a].exists = TRUE, ![a].seen = TRUE]
          /\ d' = [d EXCEPT !.todo = @ \ {a}]
       \/ /\ asset[a].exists
          /\ d' = [d EXCEPT !.conflict = {a}]
          /\ UNCHANGED asset
    /\ UNCHANGED <<present, faults>>

\* Any other error, before or after the server acted: the walk goes on, and the
\* asset is forgotten.
DPostFails(a) ==
    /\ d.phase = "walk"
    /\ a \in d.todo
    /\ d.conflict = {}
    /\ Fault
    /\ \/ UNCHANGED asset
       \/ ~asset[a].exists /\ asset' = [asset EXCEPT ![a].exists = TRUE, ![a].seen = TRUE]
    /\ d' = [d EXCEPT !.todo = @ \ {a}, !.unsure = @ \cup {a}]
    /\ UNCHANGED present

\* What is known of a container image and what was found do not merge: its
\* Asset is not refreshed, and is not one of failedPatchAssets.
DMergeFails(a) ==
    /\ a \in d.conflict
    /\ Fault
    /\ d' = [d EXCEPT !.todo = @ \ {a}, !.conflict = {}, !.unsure = @ \cup {a}]
    /\ UNCHANGED <<present, asset>>

\* The conflicting Asset is refreshed.  A terminated one stays terminated: the
\* patch leaves terminatedOn out.
DPatches(a) ==
    /\ a \in d.conflict
    /\ asset' = [asset EXCEPT ![a].seen = TRUE]
    /\ d' = [d EXCEPT !.todo = @ \ {a}, !.conflict = {}, !.unsure = @ \ {a}]
    /\ UNCHANGED <<present, faults>>

DPatchFails(a) ==
    /\ a \in d.conflict
    /\ Fault
    /\ UNCHANGED asset \/ asset' = [asset EXCEPT ![a].seen = TRUE]
    /\ d' = [d EXCEPT !.todo = @ \ {a}, !.conflict = {}, !.unpatched = @ \cup {a}]
    /\ UNCHANGED present

DWalkEnds ==
    /\ d.phase = "walk"
    /\ d.todo = {}
    /\ d' = [d EXCEPT !.phase = "query"]
    /\ UNCHANGED <<present, asset, faults>>

\* Faulty variant: those that are terminated already are looked for.
Stale_Terminated ==
    {a \in Assets : asset[a].exists /\ asset[a].terminated /\ ~asset[a].seen}

\* "terminatedOn eq null and (lastSeen eq null or lastSeen lt T)".
Stale == {a \in Assets : asset[a].exists /\ ~asset[a].terminated /\ ~asset[a].seen}

\* Faulty variant: failedPatchAssets is not looked at.
DQueries_All ==
    /\ d.phase = "query"
    /\ d' = [d EXCEPT !.phase = "terminate", !.todo = Stale]
    /\ UNCHANGED <<present, asset, faults>>

DQueries ==
    /\ d.phase = "query"
    /\ d' = [d EXCEPT !.phase = "terminate", !.todo = Stale \ d.unpatched]
    /\ UNCHANGED <<present, asset, faults>>

DTerminates(a) ==
    /\ d.phase = "terminate"
    /\ a \in d.todo
    /\ asset' = [asset EXCEPT ![a].terminated = TRUE]
    /\ d' = [d EXCEPT !.todo = @ \ {a}]
    /\ UNCHANGED <<present, faults>>

DTerminateFails(a) ==
    /\ d.phase = "terminate"
    /\ a \in d.todo
    /\ Fault
    /\ UNCHANGED asset \/ asset' = [asset EXCEPT ![a].terminated = TRUE]
    /\ d' = [d EXCEPT !.todo = @ \ {a}]
    /\ UNCHANGED present

DEnds ==
    /\ d.phase = "terminate"
    /\ d.todo = {}
    /\ d' = DIdle
    /\ UNCHANGED <<present, asset, faults>>

\* The provider reports an error, a query fails, or the orchestrator restarts.
DGivesUp ==
    /\ d.phase # "idle"
    /\ Fault
    /\ d' = DIdle
    /\ UNCHANGED <<present, asset>>

DPerAsset(a) ==
    DPosts(a) \/ DPostFails(a) \/ DPatches(a) \/ DMergeFails(a) \/ DPatchFails(a)
      \/ DTerminates(a) \/ DTerminateFails(a)

DGoesOn(a) == DPosts(a) \/ DPatches(a) \/ DTerminates(a)

DStep ==
    \/ DStarts \/ DWalkEnds \/ DQueries \/ DEnds
    \/ \E a \in Assets : DGoesOn(a)

\* External: an instance is started or goes away.
AssetAppears ==
    /\ \E a \in Assets \ present : present' = present \cup {a}
    /\ UNCHANGED <<asset, d, faults>>

AssetDisappears ==
    /\ \E a \in present : present' = present \ {a}
    /\ UNCHANGED <<asset, d, faults>>

DiscoveryInit ==
    /\ present \in SUBSET Assets
    /\ asset \in [Assets -> [exists : BOOLEAN, seen : {FALSE}, terminated : {FALSE},
                              summary : {0}]]
    /\ d = DIdle
    /\ faults = 0

DiscoveryNext ==
    \/ DStarts \/ DSkipsRegion \/ DWalkEnds \/ DQueries \/ DEnds \/ DGivesUp
    \/ \E a \in Assets : DPerAsset(a)
    \/ AssetAppears \/ AssetDisappears
=============================================================================
