------------------------- MODULE ScanLifecycleProofs -------------------------
(***************************************************************************)
(* What a Scan's status says is true, for any number of assets and faults. *)
(* The invariant has three parts: Recorded, what the stored Scan says of   *)
(* its AssetScans; WatcherView, what the watcher remembers of a Scan it    *)
(* read some steps ago (it can only have been aborted since); Decision,    *)
(* why the patch it is about to send is right.  None of them is inductive  *)
(* without the others.  AssetScans enter by JobsKept alone: whatever the   *)
(* other actors do, no AssetScan appears, disappears or leaves the state   *)
(* it ended in.                                                            *)
(***************************************************************************)
EXTENDS ScanLifecycle, TLAPS

\* The nine statuses of a Scan, one per reason.
LEMMA KnownStatuses ==
    /\ {Pending, Discovered, InProgress, Aborted, Timeout, Cancelled, Errored,
        Success, NoAssets} = ScanStatuses
    /\ \A s \in ScanStatuses :
         /\ s.state \in ScanStates
         /\ s.state = "Pending" => s = Pending
         /\ s.state = "Discovered" => s = Discovered
         /\ s.state = "InProgress" => s = InProgress
         /\ s.state = "Aborted" => s = Aborted
    /\ Pending.state = "Pending" /\ Discovered.state = "Discovered"
    /\ InProgress.state = "InProgress" /\ Aborted.state = "Aborted"
    /\ Timeout.state = "Failed" /\ Cancelled.state = "Failed" /\ Errored.state = "Failed"
    /\ Success.state = "Done" /\ NoAssets.state = "Done"
    /\ Cancelled # Timeout /\ Cancelled # Errored /\ Errored # Timeout /\ Success # NoAssets
<1> USE DEF Pending, Discovered, InProgress, Aborted, Timeout, Cancelled, Errored,
            Success, NoAssets, Status
<1>1. /\ Pending.state = "Pending" /\ Discovered.state = "Discovered"
      /\ InProgress.state = "InProgress" /\ Aborted.state = "Aborted"
      /\ Timeout.state = "Failed" /\ Cancelled.state = "Failed" /\ Errored.state = "Failed"
      /\ Success.state = "Done" /\ NoAssets.state = "Done"
      /\ Cancelled # Timeout /\ Cancelled # Errored /\ Errored # Timeout
      /\ Success # NoAssets
  OBVIOUS
<1>2. {Pending, Discovered, InProgress, Aborted, Timeout, Cancelled, Errored,
        Success, NoAssets} = ScanStatuses
  BY DEF ScanStatuses, scanStatusReasonMapping
<1>3. ASSUME NEW s \in ScanStatuses
      PROVE  /\ s.state \in ScanStates
             /\ s.state = "Pending" => s = Pending
             /\ s.state = "Discovered" => s = Discovered
             /\ s.state = "InProgress" => s = InProgress
             /\ s.state = "Aborted" => s = Aborted
  BY <1>2 DEF ScanStates
<1> QED BY <1>1, <1>2, <1>3

\* What IsValidTransition says of the statuses the proofs meet.
LEMMA ScanMoves ==
    ASSUME NEW s \in ScanStatuses, NEW t \in ScanStatuses, IsValidScanTransition(s, t)
    PROVE  /\ s = Aborted => t.state \in {"Aborted", "Failed"}
           /\ s.state \in {"Done", "Failed"} => t = s
           /\ t = InProgress => s \in {Discovered, InProgress}
           /\ t = Discovered => s \in {Pending, Discovered}
           /\ t = Pending => s = Pending
           /\ t.state = "Done" => s = t \/ s \in {Pending, InProgress}
BY KnownStatuses DEF IsValidScanTransition, scanStatusStateTransitions, ScanStates
-----------------------------------------------------------------------------
(* Types.                                                                  *)

AssetScanRecords == [state : AssetScanStates \cup {Absent},
                     cleanup : CleanupStates,
                     stats : BOOLEAN]

\* What the updates of one AssetScan do to the collection of them.
LEMMA PatchedState ==
    ASSUME assetScan \in [Assets -> AssetScanRecords],
           NEW a \in Assets, NEW to \in AssetScanStates,
           assetScan' = [assetScan EXCEPT ![a].state = to]
    PROVE  /\ assetScan' \in [Assets -> AssetScanRecords]
           /\ StateOf(a)' = to
           /\ assetScan'[a].cleanup = assetScan[a].cleanup
           /\ assetScan'[a].stats = assetScan[a].stats
           /\ \A b \in Assets \ {a} : assetScan'[b] = assetScan[b]
BY DEF AssetScanRecords, StateOf

LEMMA PatchedCleanup ==
    ASSUME assetScan \in [Assets -> AssetScanRecords],
           NEW a \in Assets, NEW to \in CleanupStates,
           assetScan' = [assetScan EXCEPT ![a].cleanup = to]
    PROVE  /\ assetScan' \in [Assets -> AssetScanRecords]
           /\ assetScan'[a].cleanup = to
           /\ StateOf(a)' = StateOf(a)
           /\ assetScan'[a].stats = assetScan[a].stats
           /\ \A b \in Assets \ {a} : assetScan'[b] = assetScan[b]
BY DEF AssetScanRecords, StateOf

LEMMA MarkedInProgress ==
    ASSUME assetScan \in [Assets -> AssetScanRecords],
           NEW a \in Assets,
           assetScan' = [assetScan EXCEPT ![a].state = "InProgress", ![a].stats = TRUE]
    PROVE  /\ assetScan' \in [Assets -> AssetScanRecords]
           /\ StateOf(a)' = "InProgress"
           /\ assetScan'[a].cleanup = assetScan[a].cleanup
           /\ assetScan'[a].stats = TRUE
           /\ \A b \in Assets \ {a} : assetScan'[b] = assetScan[b]
BY DEF AssetScanRecords, StateOf, AssetScanStates

AwRecords == [phase : {"idle", "got", "status", "cleanup"},
              asset : Assets \cup {None},
              saw : AssetScanStates \cup {Absent},
              to : AssetScanStates \cup CleanupStates \cup {Absent}]

\* The watcher works on an AssetScan or is idle.
AwHasAsset == aw.phase # "idle" => aw.asset \in Assets

AssetScanTypes ==
    /\ assetScan \in [Assets -> AssetScanRecords]
    /\ aw \in AwRecords
    /\ resources \in SUBSET Assets
    /\ scanner \in [Assets -> ScannerPhases]
    /\ abortLate \in SUBSET Assets
    /\ faults \in 0..MaxFaults
    /\ AwHasAsset

LEMMA AwWillPatchTypes ==
    ASSUME aw \in AwRecords, aw.asset \in Assets,
           NEW phase \in {"status", "cleanup"}, NEW to \in AssetScanStates \cup CleanupStates,
           AwWillPatch(phase, to)
    PROVE  /\ aw' \in AwRecords
           /\ aw'.asset = aw.asset /\ aw'.saw = aw.saw
           /\ aw'.phase = phase /\ aw'.to = to
BY DEF AwRecords, AwWillPatch

LEMMA AwIdleTypes ==
    /\ AwIdle \in AwRecords
    /\ AwIdle.phase = "idle"
BY DEF AwIdle, AwRecords

LEMMA ScannerTypes ==
    ASSUME AssetScanTypes, NEW a \in Assets, NEW p \in ScannerPhases,
           scanner' = [scanner EXCEPT ![a] = p]
    PROVE  scanner' \in [Assets -> ScannerPhases]
BY DEF AssetScanTypes

\* Steps of the AssetScans' actors keep the types.
LEMMA ScannerStepTypes ==
    ASSUME AssetScanTypes, NEW a \in Assets, ScannerStep(a)
    PROVE  AssetScanTypes'
<1> USE DEF AssetScanTypes, AwHasAsset
<1>1. CASE WaitForReadyState(a) \/ MountFails(a) \/ FamiliesRun(a)
  BY <1>1, ScannerTypes DEF WaitForReadyState, MountFails, FamiliesRun, ScannerGoes, ScannerPhases
<1>2. CASE MarkInProgress(a)
  BY <1>2, MarkedInProgress DEF MarkInProgress, ScannerGoes, ScannerPhases, RefusesState
<1>3. CASE MarkDone(a)
  BY <1>3, PatchedState
  DEF MarkDone, ScannerGoes, ScannerPhases, PatchState, RefusesState, AssetScanStates
<1>4. CASE MarkFailed(a)
  BY <1>4, PatchedState
  DEF MarkFailed, ScannerGoes, ScannerPhases, PatchState, RefusesState, AssetScanStates
<1> QED BY <1>1, <1>2, <1>3, <1>4 DEF ScannerStep

LEMMA AssetScanStepTypes ==
    ASSUME AssetScanTypes, AssetScanNext
    PROVE  AssetScanTypes'
<1> USE DEF AwHasAsset, AwSaw, AssetScanTypes
<1>f. ASSUME Fault PROVE faults' \in 0..MaxFaults
  BY <1>f, AssetScanAssumption DEF Fault
<1>s. /\ {"Scheduled", "ReadyToScan", "Failed"} \subseteq AssetScanStates
      /\ {"Skipped", "Done", "Failed"} \subseteq CleanupStates
  BY DEF AssetScanStates, CleanupStates
<1>1. CASE AwPending
  BY <1>1, <1>s, AwWillPatchTypes, AwIdleTypes DEF AwPending
<1>2. CASE AwScheduled
  <2>1. scanner' \in [Assets -> ScannerPhases]
    BY <1>2 DEF AwScheduled, Provision, ScannerPhases
  <2>2. resources' \in SUBSET Assets
    BY <1>2 DEF AwScheduled, Provision
  <2>3. aw' \in AwRecords /\ (aw'.phase # "idle" => aw'.asset \in Assets)
    BY <1>2, <1>s, AwWillPatchTypes, AwIdleTypes DEF AwScheduled
  <2>4. faults' \in 0..MaxFaults
    BY <1>2, <1>f DEF AwScheduled
  <2> QED BY <2>1, <2>2, <2>3, <2>4, <1>2 DEF AwScheduled
<1>3. CASE AwReadyOrInProgress
  BY <1>3, AwIdleTypes DEF AwReadyOrInProgress
<1>4. CASE AwAborted
  BY <1>4, <1>s, AwWillPatchTypes, AwIdleTypes DEF AwAborted
<1>5. CASE AwEnded
  <2>1. scanner' \in [Assets -> ScannerPhases]
    BY <1>5 DEF AwEnded, Deprovision, StopScanner, ScannerPhases
  <2>2. resources' \in SUBSET Assets
    BY <1>5 DEF AwEnded, Deprovision
  <2>3. aw' \in AwRecords /\ (aw'.phase # "idle" => aw'.asset \in Assets)
    BY <1>5, <1>s, AwWillPatchTypes, AwIdleTypes DEF AwEnded
  <2>4. faults' \in 0..MaxFaults
    BY <1>5, <1>f DEF AwEnded
  <2> QED BY <2>1, <2>2, <2>3, <2>4, <1>5 DEF AwEnded
<1>6. CASE AwPatchState
  <2>1. aw.asset \in Assets
    BY <1>6 DEF AwPatchState
  <2>2. CASE PatchState(aw.asset, aw.to)
    <3>1. aw.to \in AssetScanStates \/ aw.to = StateOf(aw.asset)
      BY <2>2 DEF PatchState, IsValidAssetScanTransition,
                  assetScanStatusStateTransitions, AssetScanStates
    <3>2. assetScan' \in [Assets -> AssetScanRecords]
      BY <2>1, <2>2, <3>1, PatchedState DEF PatchState, AssetScanRecords, StateOf
    <3> QED BY <3>2, <1>6, AwIdleTypes DEF AwPatchState
  <2>3. CASE RefusesState(aw.asset, aw.to)
    BY <1>6, <2>3, AwIdleTypes DEF AwPatchState, RefusesState
  <2> QED BY <1>6, <2>2, <2>3 DEF AwPatchState
<1>7. CASE AwPatchCleanup
  <2>1. aw.asset \in Assets
    BY <1>7 DEF AwPatchCleanup
  <2>2. CASE IsValidCleanupTransition(assetScan[aw.asset].cleanup, aw.to)
    <3>1. aw.to \in CleanupStates
      BY <2>1, <2>2 DEF IsValidCleanupTransition, CleanupStates,
                  resourceCleanupStatusStateTransitions, AssetScanRecords
    <3>2. assetScan' \in [Assets -> AssetScanRecords]
      BY <1>7, <2>1, <2>2, <3>1, PatchedCleanup DEF AwPatchCleanup
    <3> QED BY <3>2, <1>7, AwIdleTypes DEF AwPatchCleanup
  <2>3. CASE ~IsValidCleanupTransition(assetScan[aw.asset].cleanup, aw.to)
    BY <1>7, <2>3, AwIdleTypes DEF AwPatchCleanup
  <2> QED BY <2>2, <2>3
<1>8. CASE AwGivesUp
  BY <1>8, <1>f, AwIdleTypes DEF AwGivesUp
<1>9. ASSUME NEW a \in Assets, AwGet(a) PROVE AssetScanTypes'
  <2>1. aw' = [phase |-> "got", asset |-> a, saw |-> StateOf(a), to |-> Absent]
    BY <1>9 DEF AwGet, AwIdle
  <2>2. StateOf(a) \in AssetScanStates \cup {Absent}
    BY DEF StateOf, AssetScanRecords
  <2>3. aw' \in AwRecords /\ aw'.asset \in Assets
    BY <2>1, <2>2 DEF AwRecords
  <2> QED BY <1>9, <2>3 DEF AwGet
<1>10. CASE \E a \in Assets : AbortTimeoutPasses(a)
  BY <1>10 DEF AbortTimeoutPasses
<1>11. ASSUME NEW a \in Assets, ScannerStep(a) PROVE AssetScanTypes'
  BY <1>11, ScannerStepTypes
<1>12. ASSUME NEW a \in Assets, ScannerDies(a) PROVE AssetScanTypes'
  <2>1. scanner' \in [Assets -> ScannerPhases]
    BY <1>12 DEF ScannerDies, ScannerPhases
  <2> QED BY <1>f, <1>12, <2>1 DEF ScannerDies
<1> QED BY <1>1, <1>2, <1>3, <1>4, <1>5, <1>6, <1>7, <1>8, <1>9, <1>10, <1>11, <1>12
        DEF AssetScanNext, AwReconciles

ScanRecords == [status : ScanStatuses, assetIDs : SUBSET Assets, ended : BOOLEAN]

SwRecords == [phase : {"idle", "got", "creating", "aborting", "patch"},
              saw : ScanStatuses, to : ScanStatuses, ends : BOOLEAN,
              assetIDs : SUBSET Assets, todo : SUBSET Assets,
              unchecked : SUBSET Assets, err : BOOLEAN, failed : BOOLEAN]

Types ==
    /\ AssetScanTypes
    /\ scan \in ScanRecords
    /\ sw \in SwRecords
    /\ timedOut \in BOOLEAN
    /\ missed \in SUBSET Assets

LEMMA TypesGiveTypeOK == Types => TypeOK
BY DEF Types, TypeOK, AssetScanTypes, AssetScanTypeOK, AssetScanRecords, AwRecords,
       ScanRecords, SwRecords

LEMMA SwIdleTypes ==
    /\ SwIdle \in SwRecords
    /\ SwIdle.phase = "idle"
BY KnownStatuses DEF SwIdle, SwRecords

LEMMA SwWillPatchTypes ==
    ASSUME sw \in SwRecords, NEW to \in ScanStatuses, NEW ids \in SUBSET Assets,
           NEW ends \in BOOLEAN, SwWillPatch(to, ids, ends)
    PROVE  /\ sw' \in SwRecords
           /\ sw'.phase = "patch" /\ sw'.saw = sw.saw
           /\ sw'.to = to /\ sw'.assetIDs = ids
BY KnownStatuses, ZenonT(40) DEF SwWillPatch, SwIdle, SwRecords

LEMMA PatchedScan ==
    ASSUME scan \in ScanRecords, NEW to \in ScanStatuses, NEW ids \in SUBSET Assets,
           NEW ended \in BOOLEAN, PatchScan(to, ids, ended)
    PROVE  /\ scan' \in ScanRecords
           /\ \/ scan' = scan
              \/ /\ IsValidScanTransition(scan.status, to)
                 /\ scan'.status = to
                 /\ scan'.assetIDs = ids
BY DEF PatchScan, ScanRecords

LEMMA PostedAssetScan ==
    ASSUME assetScan \in [Assets -> AssetScanRecords], NEW a \in Assets, PostAssetScan(a)
    PROVE  /\ assetScan' \in [Assets -> AssetScanRecords]
           /\ Exists(a)'
           /\ assetScan' = assetScan \/ (StateOf(a) = Absent /\ StateOf(a)' = "Pending")
           /\ assetScan'[a].cleanup = assetScan[a].cleanup
           /\ assetScan'[a].stats = assetScan[a].stats
           /\ \A b \in Assets \ {a} : assetScan'[b] = assetScan[b]
<1>1. CASE Exists(a)
  BY <1>1 DEF PostAssetScan, Exists, StateOf
<1>2. CASE ~Exists(a)
  <2>1. assetScan' = [assetScan EXCEPT ![a].state = "Pending"] /\ StateOf(a) = Absent
    BY <1>2 DEF PostAssetScan, Exists
  <2>2. "Pending" \in AssetScanStates /\ "Pending" # Absent
    BY DEF AssetScanStates, Absent
  <2> QED BY <2>1, <2>2, PatchedState DEF Exists
<1> QED BY <1>1, <1>2

LEMMA InitTypes == Init => Types
<1> SUFFICES ASSUME Init PROVE Types
  OBVIOUS
<1>1. assetScan \in [Assets -> AssetScanRecords]
  BY DEF Init, AssetScanInit, AssetScanRecords, CleanupStates
<1>2. scanner \in [Assets -> ScannerPhases]
  BY DEF Init, AssetScanInit, ScannerPhases
<1>3. scan \in ScanRecords
  BY KnownStatuses DEF Init, ScanRecords
<1>4. faults \in 0..MaxFaults
  BY AssetScanAssumption DEF Init, AssetScanInit
<1>5. aw \in AwRecords /\ AwHasAsset
  BY AwIdleTypes DEF Init, AssetScanInit, AwHasAsset
<1>6. sw \in SwRecords /\ timedOut \in BOOLEAN /\ missed \in SUBSET Assets
  BY SwIdleTypes DEF Init
<1>7. resources \in SUBSET Assets /\ abortLate \in SUBSET Assets
  BY DEF Init, AssetScanInit
<1> QED BY <1>1, <1>2, <1>3, <1>4, <1>5, <1>6, <1>7 DEF Types, AssetScanTypes

\* Steps of the Scan watcher keep the types.
LEMMA SwStepTypes ==
    ASSUME Types, SwGet \/ SwReconciles \/ SwGivesUp
    PROVE  Types'
<1> USE DEF Types, AssetScanTypes, AwHasAsset
<1>f. ASSUME Fault PROVE faults' \in 0..MaxFaults
  BY <1>f, AssetScanAssumption DEF Fault
<1>r. sw.assetIDs \in SUBSET Assets
  BY DEF SwRecords
<1>1. CASE SwGet
  <2>1. sw' \in SwRecords
    BY <1>1, KnownStatuses DEF SwGet, SwIdle, SwRecords, ScanRecords
  <2> QED BY <1>1, <2>1 DEF SwGet, avars
<1>2. CASE SwTimesOut
  <2>1. sw' \in SwRecords
    BY <1>2, <1>r, KnownStatuses, SwWillPatchTypes DEF SwTimesOut
  <2> QED BY <1>2, <2>1 DEF SwTimesOut, avars
<1>3. CASE SwPending
  <2>1. sw' \in SwRecords
    BY <1>3, KnownStatuses, SwWillPatchTypes DEF SwPending
  <2> QED BY <1>3, <2>1 DEF SwPending, avars
<1>4. CASE SwDiscovered
  <2>1. sw' \in SwRecords
    BY <1>4 DEF SwDiscovered, SwRecords
  <2> QED BY <1>4, <2>1 DEF SwDiscovered, avars
<1>5. CASE SwCreated
  <2>1. sw' \in SwRecords
    BY <1>5, <1>r, KnownStatuses, SwIdleTypes, SwWillPatchTypes DEF SwCreated
  <2> QED BY <1>5, <2>1 DEF SwCreated, avars
<1>6. CASE SwInProgress
  <2>1. sw.saw \in ScanStatuses
    BY DEF SwRecords
  <2>2. sw' \in SwRecords
    BY <1>6, <1>r, <2>1, KnownStatuses, SwWillPatchTypes DEF SwInProgress
  <2> QED BY <1>6, <2>2 DEF SwInProgress, avars
<1>7. CASE SwAborted
  <2>1. {a \in JobsLeftToRun : StateOf(a) # "Aborted"} \in SUBSET Assets
    BY DEF JobsLeftToRun, Jobs
  <2>2. sw' \in SwRecords
    BY <1>7, <2>1 DEF SwAborted, SwRecords
  <2> QED BY <1>7, <2>2 DEF SwAborted, avars
<1>8. CASE SwAbortsDone
  <2>1. sw' \in SwRecords
    BY <1>8, <1>r, KnownStatuses, SwIdleTypes, SwWillPatchTypes DEF SwAbortsDone
  <2> QED BY <1>8, <2>1 DEF SwAbortsDone, avars
<1>9. CASE SwPatches
  <2>1. sw.to \in ScanStatuses /\ (scan.ended \/ sw.ends) \in BOOLEAN
    BY DEF SwRecords
  <2>2. scan' \in ScanRecords
    BY <1>9, <1>r, <2>1, PatchedScan DEF SwPatches
  <2> QED BY <1>9, <2>2, SwIdleTypes DEF SwPatches, avars
<1>10. ASSUME NEW a \in Assets, SwCreates(a) PROVE Types'
  <2>1. sw' \in SwRecords
    BY <1>10 DEF SwCreates, SwRecords
  <2>2. assetScan' \in [Assets -> AssetScanRecords]
    BY <1>10, PostedAssetScan DEF SwCreates
  <2> QED BY <1>10, <2>1, <2>2 DEF SwCreates
<1>11. ASSUME NEW a \in Assets, SwAborts(a) PROVE Types'
  <2>1. sw' \in SwRecords
    <3>1. PICK e \in BOOLEAN :
            sw' = [sw EXCEPT !.todo = @ \ {a}, !.unchecked = @ \cup {a}, !.err = e]
      BY <1>11 DEF SwAborts
    <3> QED BY <3>1 DEF SwRecords
  <2>2. "Aborted" \in AssetScanStates
    BY DEF AssetScanStates
  <2>3. assetScan' \in [Assets -> AssetScanRecords]
    BY <1>11, <2>2, PatchedState DEF SwAborts, PatchState, RefusesState
  <2> QED BY <1>11, <2>1, <2>3 DEF SwAborts
<1>12. ASSUME NEW a \in Assets, SwChecksErr(a) PROVE Types'
  <2>1. sw' \in SwRecords
    BY <1>12 DEF SwChecksErr, SwRecords
  <2> QED BY <1>12, <2>1 DEF SwChecksErr, avars
<1>13. CASE SwGivesUp
  BY <1>13, <1>f, SwIdleTypes DEF SwGivesUp
<1>14. CASE SwSkips
  BY <1>14, SwIdleTypes DEF SwSkips, avars
<1> QED BY <1>1, <1>2, <1>3, <1>4, <1>5, <1>6, <1>7, <1>8, <1>9, <1>10, <1>11, <1>12,
           <1>13, <1>14 DEF SwReconciles

LEMMA NextTypes ==
    ASSUME Types, [Next]_vars
    PROVE  Types'
<1> USE DEF Types
<1>f. ASSUME Fault PROVE faults' \in 0..MaxFaults
  BY <1>f, AssetScanAssumption DEF Fault, AssetScanTypes
<1>1. CASE AssetScanNext /\ UNCHANGED svars
  BY <1>1, AssetScanStepTypes DEF svars
<1>2. CASE SwGet \/ SwReconciles \/ SwGivesUp
  BY <1>2, SwStepTypes
<1>3. ASSUME NEW a \in Assets, SwCreateFails(a) PROVE Types'
  <2>1. sw' \in SwRecords
    BY <1>3 DEF SwCreateFails, SwRecords
  <2>2. assetScan' \in [Assets -> AssetScanRecords]
    BY <1>3, PostedAssetScan DEF SwCreateFails, AssetScanTypes
  <2> QED BY <1>3, <1>f, <2>1, <2>2 DEF SwCreateFails, AssetScanTypes, AwHasAsset
<1>4. ASSUME NEW a \in Assets, SwAbortFails(a) PROVE Types'
  <2>1. sw' \in SwRecords
    BY <1>4 DEF SwAbortFails, SwRecords
  <2>2. "Aborted" \in AssetScanStates
    BY DEF AssetScanStates
  <2>3. assetScan' \in [Assets -> AssetScanRecords]
    BY <1>4, <2>2, PatchedState DEF SwAbortFails, PatchState, AssetScanTypes
  <2> QED BY <1>4, <1>f, <2>1, <2>3 DEF SwAbortFails, AssetScanTypes, AwHasAsset
<1>5. CASE UserAborts
  <2>1. scan.assetIDs \in SUBSET Assets /\ scan.ended \in BOOLEAN
    BY DEF ScanRecords
  <2>2. scan' \in ScanRecords
    BY <1>5, <2>1, KnownStatuses, PatchedScan DEF UserAborts
  <2> QED BY <1>5, <2>2 DEF UserAborts, avars, AssetScanTypes, AwHasAsset
<1>6. CASE TimeoutPasses
  BY <1>6 DEF TimeoutPasses, avars, AssetScanTypes, AwHasAsset
<1>7. CASE UNCHANGED vars
  BY <1>7 DEF vars, avars, svars, AssetScanTypes, AwHasAsset
<1> QED BY <1>1, <1>2, <1>3, <1>4, <1>5, <1>6, <1>7 DEF Next

\* The variables keep their types, whatever fails (the types of the api package).
THEOREM TypeCorrect == Spec => []TypeOK
<1>1. Spec => []Types
  BY InitTypes, NextTypes, PTL DEF Spec
<1> QED BY <1>1, TypesGiveTypeOK, PTL

(* The abort.                                                              *)

\* The server accepts no patch that takes an aborted Scan back.
LEMMA PatchKeepsAbort ==
    ASSUME Types, scan.status = Aborted, NEW to \in ScanStatuses,
           NEW ids \in SUBSET Assets, NEW ended \in BOOLEAN,
           PatchScan(to, ids, ended)
    PROVE  scan'.status.state \in {"Aborted", "Failed"}
BY KnownStatuses, ScanMoves, PatchedScan DEF Types

\* Only SwPatches and UserAborts write the Scan.
LEMMA ScanWriters ==
    ASSUME [Next]_vars
    PROVE  SwPatches \/ UserAborts \/ UNCHANGED scan
<1>1. CASE AssetScanNext /\ UNCHANGED svars
  BY <1>1 DEF svars
<1>2. CASE SwGet \/ SwGivesUp \/ TimeoutPasses \/ UNCHANGED vars
  BY <1>2 DEF SwGet, SwGivesUp, TimeoutPasses, vars, svars
<1>3. CASE SwReconciles
  BY <1>3 DEF SwReconciles, SwTimesOut, SwSkips, SwPending, SwDiscovered, SwCreated, SwInProgress,
              SwAborted, SwAbortsDone, SwCreates, SwAborts, SwChecksErr
<1>4. CASE \E a \in Assets : SwCreateFails(a) \/ SwAbortFails(a)
  BY <1>4 DEF SwCreateFails, SwAbortFails
<1> QED BY <1>1, <1>2, <1>3, <1>4 DEF Next

\* A user's abort is never undone by a watcher that decided before it
\* (watcher.go:129-175, scanstatus.go:23-42).
THEOREM AbortHolds == Spec => AbortIsNotLost
<1>1. ASSUME Types, [Next]_vars, scan.status = Aborted
      PROVE  scan'.status.state \in {"Aborted", "Failed"}
  <2>1. CASE SwPatches
    <3>1. /\ sw.to \in ScanStatuses /\ sw.assetIDs \in SUBSET Assets
          /\ (scan.ended \/ sw.ends) \in BOOLEAN
      BY <1>1 DEF Types, SwRecords
    <3> QED BY <1>1, <2>1, <3>1, PatchKeepsAbort DEF SwPatches
  <2>2. CASE UserAborts
    BY <1>1, <2>2 DEF UserAborts
  <2>3. CASE UNCHANGED scan
    BY <1>1, <2>3, KnownStatuses
  <2> QED BY <1>1, <2>1, <2>2, <2>3, ScanWriters
<1>2. Types /\ [Next]_vars =>
        [scan.status = Aborted => scan'.status.state \in {"Aborted", "Failed"}]_vars
  BY <1>1
<1> QED BY <1>2, InitTypes, NextTypes, PTL DEF Spec, AbortIsNotLost
-----------------------------------------------------------------------------
(* What a step does to the AssetScans.                                     *)

\* No AssetScan appears or disappears, those that are over stay as they are, and
\* those that are aborted do until they are over.
JobsKept ==
    /\ Jobs' = Jobs
    /\ \A b \in Assets : Ended(b) => StateOf(b)' = StateOf(b)
    /\ \A b \in Assets : AbortedOrOver(b) => AbortedOrOver(b)'

\* Whoever patches a state, no AssetScan that is over is reopened.
LEMMA PatchKeepsJobs ==
    ASSUME assetScan \in [Assets -> AssetScanRecords], NEW a \in Assets, NEW to,
           PatchState(a, to)
    PROVE  JobsKept
<1>1. /\ StateOf(a)' = to
      /\ \A b \in Assets \ {a} : StateOf(b)' = StateOf(b)
  BY DEF PatchState, StateOf, AssetScanRecords
<1>2. /\ Exists(a) <=> to # Absent
      /\ Ended(a) => to = StateOf(a)
      /\ StateOf(a) = "Aborted" => to \in {"Aborted", "Failed"}
  BY DEF PatchState, IsValidAssetScanTransition, assetScanStatusStateTransitions,
         Exists, Ended, Absent
<1>3. \A b \in Assets : Exists(b)' <=> Exists(b)
  BY <1>1, <1>2 DEF Exists
<1> QED BY <1>1, <1>2, <1>3 DEF JobsKept, Jobs, AbortedOrOver, Ended

LEMMA SameStatesKeepJobs ==
    ASSUME \A b \in Assets : StateOf(b)' = StateOf(b)
    PROVE  JobsKept
BY DEF JobsKept, Jobs, Exists, AbortedOrOver, Ended

LEMMA AssetScanStepKeepsJobs ==
    ASSUME AssetScanTypes, AssetScanNext
    PROVE  JobsKept
<1>0. assetScan \in [Assets -> AssetScanRecords]
  BY DEF AssetScanTypes
<1>1. CASE UNCHANGED assetScan
  BY <1>1, SameStatesKeepJobs DEF StateOf
<1>2. CASE AwPatchState
  BY <1>0, <1>1, <1>2, PatchKeepsJobs
  DEF AwPatchState, RefusesState, AssetScanTypes, AwHasAsset
<1>3. CASE AwPatchCleanup
  <2>1. CASE UNCHANGED assetScan
    BY <1>1, <2>1
  <2>2. CASE assetScan' = [assetScan EXCEPT ![aw.asset].cleanup = aw.to]
    <3>1. \A b \in Assets : StateOf(b)' = StateOf(b)
      BY <1>0, <2>2 DEF StateOf, AssetScanRecords
    <3> QED BY <3>1, SameStatesKeepJobs
  <2> QED BY <1>3, <2>1, <2>2 DEF AwPatchCleanup
<1>4. ASSUME NEW a \in Assets, MarkInProgress(a) PROVE JobsKept
  <2>1. CASE RefusesState(a, "InProgress")
    BY <1>1, <2>1 DEF RefusesState
  <2>2. CASE /\ IsValidAssetScanTransition(StateOf(a), "InProgress")
             /\ assetScan' = [assetScan EXCEPT ![a].state = "InProgress", ![a].stats = TRUE]
    <3>1. /\ StateOf(a)' = "InProgress"
          /\ \A b \in Assets \ {a} : StateOf(b)' = StateOf(b)
      BY <1>0, <2>2, MarkedInProgress DEF StateOf
    <3>2. Exists(a) /\ ~AbortedOrOver(a)
      BY <2>2 DEF IsValidAssetScanTransition, assetScanStatusStateTransitions,
                  Exists, Ended, AbortedOrOver, Absent
    <3>3. \A b \in Assets : Exists(b)' <=> Exists(b)
      BY <3>1, <3>2 DEF Exists, Absent
    <3> QED BY <3>1, <3>2, <3>3 DEF JobsKept, Jobs, AbortedOrOver, Ended
  <2> QED BY <1>4, <2>1, <2>2 DEF MarkInProgress
<1>5. ASSUME NEW a \in Assets, MarkDone(a) \/ MarkFailed(a) PROVE JobsKept
  BY <1>0, <1>1, <1>5, PatchKeepsJobs DEF MarkDone, MarkFailed, RefusesState
<1>6. CASE AwPending \/ AwScheduled \/ AwReadyOrInProgress \/ AwAborted \/ AwEnded \/ AwGivesUp
  BY <1>1, <1>6
  DEF AwPending, AwScheduled, AwReadyOrInProgress, AwAborted, AwEnded, AwGivesUp
<1>7. ASSUME NEW a \in Assets,
             \/ AwGet(a) \/ AbortTimeoutPasses(a) \/ ScannerDies(a)
             \/ WaitForReadyState(a) \/ MountFails(a) \/ FamiliesRun(a)
      PROVE  JobsKept
  BY <1>1, <1>7
  DEF AwGet, AbortTimeoutPasses, ScannerDies, WaitForReadyState, MountFails, FamiliesRun
<1> QED BY <1>2, <1>3, <1>4, <1>5, <1>6, <1>7 DEF AssetScanNext, AwReconciles, ScannerStep
-----------------------------------------------------------------------------
(* The Scan's invariant: what the stored Scan says, what the watcher       *)
(* remembers of it, and what its decision rests on.                        *)

AllDone(ids) == ids # {} /\ \A a \in ids : StateOf(a) = "Done"
AllEnded(ids) == (\A a \in ids : Ended(a)) /\ \E a \in ids : StateOf(a) = "Failed"

Recorded ==
    /\ Jobs \subseteq scan.assetIDs
    /\ scan.status = Pending => scan.assetIDs = {}
    /\ scan.status \in {Discovered, InProgress} => scan.assetIDs # {}
    /\ scan.status = InProgress => Jobs = scan.assetIDs
    /\ scan.status = Errored => AllEnded(scan.assetIDs)
    /\ scan.status = Success => AllDone(scan.assetIDs)

\* Since the watcher read the Scan, at most a user has aborted it.
WatcherView ==
    sw.phase # "idle" =>
      /\ scan.status \in {sw.saw, Aborted}
      /\ ~(sw.phase = "patch" /\ sw.to = Discovered) => sw.assetIDs = scan.assetIDs
      /\ sw.saw = Pending => scan.assetIDs = {}
      /\ sw.saw \in {Discovered, InProgress} => scan.assetIDs # {}
      /\ sw.saw = InProgress => Jobs = scan.assetIDs
      /\ sw.phase = "creating" => /\ sw.saw = Discovered
                                  /\ sw.todo \subseteq sw.assetIDs
                                  /\ sw.failed \/ sw.assetIDs \ sw.todo \subseteq Jobs
      /\ sw.phase = "aborting" => sw.saw = Aborted

Decision ==
    sw.phase = "patch" =>
      \/ sw.to = Timeout
      \/ sw.saw = Pending /\ sw.to = Discovered /\ sw.assetIDs # {}
      \/ sw.saw = Pending /\ sw.to = NoAssets
      \/ sw.saw \in {Discovered, InProgress} /\ sw.to = InProgress /\ Jobs = sw.assetIDs
      \/ sw.saw = InProgress /\ sw.to = Errored /\ AllEnded(sw.assetIDs)
      \/ sw.saw = InProgress /\ sw.to = Success /\ AllDone(sw.assetIDs)
      \/ sw.saw = Aborted /\ sw.to = Cancelled

ScanInv == Recorded /\ WatcherView /\ Decision

LEMMA InitScanInv == Init => ScanInv
BY KnownStatuses, SwIdleTypes
DEF Init, AssetScanInit, ScanInv, Recorded, WatcherView, Decision, Jobs, Exists, StateOf, Absent

LEMMA DistinctStatuses ==
    /\ Pending # Discovered /\ Pending # InProgress /\ Pending # Aborted
    /\ Pending # Timeout /\ Pending # Cancelled /\ Pending # Errored
    /\ Pending # Success /\ Pending # NoAssets
    /\ Discovered # InProgress /\ Discovered # Aborted /\ Discovered # Timeout
    /\ Discovered # Cancelled /\ Discovered # Errored /\ Discovered # Success
    /\ Discovered # NoAssets
    /\ InProgress # Aborted /\ InProgress # Timeout /\ InProgress # Cancelled
    /\ InProgress # Errored /\ InProgress # Success /\ InProgress # NoAssets
    /\ Aborted # Timeout /\ Aborted # Cancelled /\ Aborted # Errored
    /\ Aborted # Success /\ Aborted # NoAssets
    /\ Errored # Timeout /\ Errored # Cancelled /\ Errored # Success /\ Errored # NoAssets
    /\ Success # Timeout /\ Success # Cancelled /\ Success # NoAssets
    /\ Cancelled # Timeout /\ Cancelled # NoAssets
BY KnownStatuses

\* Verdicts on a set of jobs stay true.
LEMMA VerdictsStay ==
    ASSUME JobsKept, NEW ids \in SUBSET Assets
    PROVE  /\ AllDone(ids) => AllDone(ids)'
           /\ AllEnded(ids) => AllEnded(ids)'
BY DEF JobsKept, AllDone, AllEnded, Ended

\* AssetScans that move do not disturb it.
LEMMA JobsKeptKeepsScanInv ==
    ASSUME Types, ScanInv, JobsKept, UNCHANGED <<scan, sw>>
    PROVE  ScanInv'
<1>1. scan.assetIDs \in SUBSET Assets /\ sw.assetIDs \in SUBSET Assets
  BY DEF Types, ScanRecords, SwRecords
<1>2. Jobs' = Jobs
  BY DEF JobsKept
<1>3. /\ AllDone(scan.assetIDs) => AllDone(scan.assetIDs)'
      /\ AllEnded(scan.assetIDs) => AllEnded(scan.assetIDs)'
      /\ AllDone(sw.assetIDs) => AllDone(sw.assetIDs)'
      /\ AllEnded(sw.assetIDs) => AllEnded(sw.assetIDs)'
  <2>1. PICK i \in SUBSET Assets, j \in SUBSET Assets :
          scan.assetIDs = i /\ sw.assetIDs = j /\ scan'.assetIDs = i /\ sw'.assetIDs = j
    BY <1>1
  <2>2. /\ AllDone(i) => AllDone(i)'
        /\ AllEnded(i) => AllEnded(i)'
        /\ AllDone(j) => AllDone(j)'
        /\ AllEnded(j) => AllEnded(j)'
    BY VerdictsStay
  <2> QED BY <2>1, <2>2 DEF AllDone, AllEnded, Ended, StateOf
<1>4. Recorded'
  BY <1>2, <1>3 DEF ScanInv, Recorded
<1>5. WatcherView'
  BY <1>2 DEF ScanInv, WatcherView
<1>6. Decision'
  BY <1>2, <1>3 DEF ScanInv, Decision
<1> QED BY <1>4, <1>5, <1>6 DEF ScanInv

\* The watcher reads the Scan and sets out on its work.
LEMMA SwKeepsScanInv ==
    ASSUME Types, ScanInv,
           SwGet \/ SwTimesOut \/ SwSkips \/ SwPending \/ SwDiscovered \/ SwCreated
    PROVE  ScanInv'
<1> USE DEF ScanInv, Recorded, WatcherView, Decision
<1>t. /\ scan \in ScanRecords /\ sw \in SwRecords
      /\ scan.status \in ScanStatuses /\ sw.saw \in ScanStatuses
      /\ sw.assetIDs \in SUBSET Assets
  BY DEF Types, ScanRecords, SwRecords
<1>u. UNCHANGED <<scan, assetScan>>
  BY DEF SwGet, SwTimesOut, SwSkips, SwPending, SwDiscovered, SwCreated, avars
<1>v. /\ Jobs' = Jobs
      /\ \A ids \in SUBSET Assets : /\ AllDone(ids)' = AllDone(ids)
                                    /\ AllEnded(ids)' = AllEnded(ids)
  BY <1>u DEF Jobs, Exists, StateOf, AllDone, AllEnded, Ended
<1>w. Recorded'
  BY <1>t, <1>u, <1>v DEF AllDone, AllEnded, Ended, StateOf
<1> HIDE DEF Recorded
<1>1. CASE SwGet
  <2>1. /\ sw'.phase = "got" /\ sw'.saw = scan.status /\ sw'.assetIDs = scan.assetIDs
    BY <1>1 DEF SwGet, SwIdle
  <2> QED BY <1>u, <1>v, <1>w, <2>1, DistinctStatuses DEF Recorded
<1>2. CASE SwTimesOut
  <2>1. /\ sw.phase = "got" /\ sw'.phase = "patch" /\ sw'.saw = sw.saw
        /\ sw'.to = Timeout /\ sw'.assetIDs = sw.assetIDs
    BY <1>2, <1>t, KnownStatuses, SwWillPatchTypes DEF SwTimesOut
  <2> QED BY <1>u, <1>v, <1>w, <2>1, DistinctStatuses
<1>3. CASE SwPending
  <2>1. sw.phase = "got" /\ sw.saw = Pending
    BY <1>3, <1>t, KnownStatuses DEF SwPending, SwSaw
  <2>2. /\ sw'.phase = "patch" /\ sw'.saw = sw.saw
        /\ \/ sw'.to = Discovered /\ sw'.assetIDs # {}
           \/ sw'.to = NoAssets /\ sw'.assetIDs = {}
    <3>1. CASE SwWillPatch(NoAssets, {}, FALSE)
      BY <1>t, <3>1, KnownStatuses, SwWillPatchTypes
    <3>2. ASSUME NEW ids \in (SUBSET Assets) \ {{}}, SwWillPatch(Discovered, ids, FALSE)
          PROVE  /\ sw'.phase = "patch" /\ sw'.saw = sw.saw
                 /\ sw'.to = Discovered /\ sw'.assetIDs # {}
      <4>1. /\ sw \in SwRecords /\ Discovered \in ScanStatuses
            /\ ids \in SUBSET Assets /\ ids # {} /\ FALSE \in BOOLEAN
        BY <1>t, <3>2, KnownStatuses
      <4>2. /\ sw'.phase = "patch" /\ sw'.saw = sw.saw
            /\ sw'.to = Discovered /\ sw'.assetIDs = ids
        BY <3>2, <4>1, SwWillPatchTypes
      <4> QED BY <4>1, <4>2
    <3> QED BY <1>3, <3>1, <3>2 DEF SwPending
  <2> QED BY <1>u, <1>v, <1>w, <2>1, <2>2, DistinctStatuses
<1>4. CASE SwDiscovered
  <2>1. sw.phase = "got" /\ sw.saw = Discovered
    BY <1>4, <1>t, KnownStatuses DEF SwDiscovered, SwSaw
  <2>2. /\ sw'.phase = "creating" /\ sw'.saw = sw.saw
        /\ sw'.assetIDs = sw.assetIDs /\ sw'.todo = sw.assetIDs
    BY <1>4, <1>t DEF SwDiscovered, SwRecords
  <2> QED BY <1>u, <1>v, <1>w, <2>1, <2>2, DistinctStatuses
<1>5. CASE SwCreated
  <2>1. CASE sw' = SwIdle
    BY <2>1, <1>w, SwIdleTypes
  <2>2. CASE ~sw.failed /\ SwWillPatch(InProgress, sw.assetIDs, FALSE)
    <3>1. /\ sw'.phase = "patch" /\ sw'.saw = sw.saw
          /\ sw'.to = InProgress /\ sw'.assetIDs = sw.assetIDs
      BY <2>2, <1>t, KnownStatuses, SwWillPatchTypes
    <3>2. /\ sw.phase = "creating" /\ sw.saw = Discovered
          /\ sw.assetIDs = scan.assetIDs
      BY <1>5, DistinctStatuses DEF SwCreated
    <3>3. Jobs = sw.assetIDs
      BY <1>5, <2>2, <3>2 DEF SwCreated, Recorded
    <3> QED BY <1>u, <1>v, <1>w, <3>1, <3>2, <3>3, DistinctStatuses
  <2> QED BY <1>5, <2>1, <2>2 DEF SwCreated
<1>6. CASE SwSkips
  BY <1>6, <1>w, SwIdleTypes DEF SwSkips
<1> QED BY <1>1, <1>2, <1>3, <1>4, <1>5, <1>6

\* The watcher looks at the AssetScans and decides.
LEMMA SwDecidesKeepsScanInv ==
    ASSUME Types, ScanInv, SwInProgress \/ SwAborted \/ SwAbortsDone
    PROVE  ScanInv'
<1> USE DEF ScanInv, Recorded, WatcherView, Decision
<1>t. /\ scan \in ScanRecords /\ sw \in SwRecords
      /\ scan.status \in ScanStatuses /\ sw.saw \in ScanStatuses
      /\ sw.assetIDs \in SUBSET Assets
  BY DEF Types, ScanRecords, SwRecords
<1>u. UNCHANGED <<scan, assetScan>>
  BY DEF SwInProgress, SwAborted, SwAbortsDone, avars
<1>v. /\ Jobs' = Jobs
      /\ \A ids \in SUBSET Assets : /\ AllDone(ids)' = AllDone(ids)
                                    /\ AllEnded(ids)' = AllEnded(ids)
  BY <1>u DEF Jobs, Exists, StateOf, AllDone, AllEnded, Ended
<1>w. Recorded'
  BY <1>t, <1>u, <1>v DEF AllDone, AllEnded, Ended, StateOf
<1> HIDE DEF Recorded
<1>1. CASE SwInProgress
  <2>1. /\ sw.phase = "got" /\ sw.saw = InProgress
        /\ Jobs = scan.assetIDs /\ sw.assetIDs = scan.assetIDs /\ sw.assetIDs # {}
    BY <1>1, <1>t, KnownStatuses, DistinctStatuses DEF SwInProgress, SwSaw
  <2>2. /\ sw'.phase = "patch" /\ sw'.saw = sw.saw /\ sw'.assetIDs = sw.assetIDs
        /\ \/ sw'.to = InProgress
           \/ sw'.to = Errored /\ AllEnded(sw.assetIDs)
           \/ sw'.to = Success /\ AllDone(sw.assetIDs)
    <3>1. CASE SwWillPatch(sw.saw, sw.assetIDs, FALSE)
      BY <3>1, <1>t, <2>1, SwWillPatchTypes
    <3>2. CASE /\ JobsLeftToRun = {}
               /\ \E a \in Jobs : StateOf(a) = "Failed"
               /\ SwWillPatch(Errored, sw.assetIDs, TRUE)
      <4>1. AllEnded(sw.assetIDs)
        BY <2>1, <3>2 DEF AllEnded, JobsLeftToRun
      <4> QED BY <3>2, <4>1, <1>t, KnownStatuses, SwWillPatchTypes
    <3>3. CASE /\ JobsLeftToRun = {}
               /\ \A a \in Jobs : StateOf(a) # "Failed"
               /\ SwWillPatch(Success, sw.assetIDs, TRUE)
      <4>1. AllDone(sw.assetIDs)
        BY <2>1, <3>3 DEF AllDone, JobsLeftToRun, Ended
      <4> QED BY <3>3, <4>1, <1>t, KnownStatuses, SwWillPatchTypes
    <3> QED BY <1>1, <3>1, <3>2, <3>3 DEF SwInProgress
  <2>3. WatcherView'
    BY <1>u, <1>v, <2>1, <2>2, DistinctStatuses
  <2>4. Decision'
    <3>1. sw'.assetIDs = sw.assetIDs /\ assetScan' = assetScan
      BY <1>u, <2>2
    <3>2. /\ AllDone(sw.assetIDs)' <=> AllDone(sw.assetIDs)
          /\ AllEnded(sw.assetIDs)' <=> AllEnded(sw.assetIDs)
      BY <3>1 DEF AllDone, AllEnded, Ended, StateOf
    <3> QED BY <1>v, <2>1, <2>2, <3>2
  <2> QED BY <1>w, <2>3, <2>4
<1>2. CASE SwAborted
  <2>1. sw.phase = "got" /\ sw.saw = Aborted
    BY <1>2, <1>t, KnownStatuses DEF SwAborted, SwSaw
  <2>2. /\ sw'.phase = "aborting" /\ sw'.saw = sw.saw /\ sw'.assetIDs = sw.assetIDs
    BY <1>2, <1>t DEF SwAborted, SwRecords
  <2> QED BY <1>u, <1>v, <1>w, <2>1, <2>2, DistinctStatuses
<1>3. CASE SwAbortsDone
  <2>1. CASE sw' = SwIdle
    BY <2>1, <1>w, SwIdleTypes
  <2>2. CASE SwWillPatch(Cancelled, sw.assetIDs, TRUE)
    <3>1. /\ sw'.phase = "patch" /\ sw'.saw = sw.saw
          /\ sw'.to = Cancelled /\ sw'.assetIDs = sw.assetIDs
      BY <2>2, <1>t, KnownStatuses, SwWillPatchTypes
    <3>2. /\ sw.phase = "aborting" /\ sw.saw = Aborted
          /\ sw.assetIDs = scan.assetIDs
      BY <1>3, DistinctStatuses DEF SwAbortsDone
    <3> QED BY <1>u, <1>v, <1>w, <3>1, <3>2, DistinctStatuses
  <2> QED BY <1>3, <2>1, <2>2 DEF SwAbortsDone
<1> QED BY <1>1, <1>2, <1>3

\* The decision is sent, and accepted or refused.
LEMMA SwPatchesKeepsScanInv ==
    ASSUME Types, ScanInv, SwPatches
    PROVE  ScanInv'
<1>t. /\ scan \in ScanRecords /\ sw \in SwRecords
      /\ scan.status \in ScanStatuses /\ sw.saw \in ScanStatuses /\ sw.to \in ScanStatuses
      /\ sw.assetIDs \in SUBSET Assets
      /\ (scan.ended \/ sw.ends) \in BOOLEAN
  BY DEF Types, ScanRecords, SwRecords
<1>u. assetScan' = assetScan /\ Jobs' = Jobs /\ sw.phase = "patch"
  BY DEF SwPatches, avars, Jobs, Exists, StateOf
<1>1. sw'.phase = "idle"
  BY SwIdleTypes DEF SwPatches
<1>2. \/ scan' = scan
      \/ /\ IsValidScanTransition(scan.status, sw.to)
         /\ scan'.status = sw.to
         /\ scan'.assetIDs = sw.assetIDs
  BY <1>t, PatchedScan DEF SwPatches
<1>3. /\ AllDone(scan.assetIDs)' <=> AllDone(scan'.assetIDs)
      /\ AllEnded(scan.assetIDs)' <=> AllEnded(scan'.assetIDs)
  BY <1>u DEF AllDone, AllEnded, Ended, StateOf
<1>4. Recorded'
  <2>1. CASE scan' = scan
    BY <1>u, <1>3, <2>1 DEF ScanInv, Recorded
  <2>2. CASE /\ IsValidScanTransition(scan.status, sw.to)
             /\ scan'.status = sw.to
             /\ scan'.assetIDs = sw.assetIDs
    <3>1. /\ scan.status \in {sw.saw, Aborted}
          /\ sw.to # Discovered => sw.assetIDs = scan.assetIDs
          /\ sw.saw = Pending => scan.assetIDs = {}
          /\ sw.saw \in {Discovered, InProgress} => scan.assetIDs # {}
      BY <1>u DEF ScanInv, WatcherView
    <3>2. Jobs \subseteq scan.assetIDs
      BY DEF ScanInv, Recorded
    <3>3. CASE sw.to = Timeout \/ sw.to = NoAssets \/ sw.to = Cancelled
      BY <1>u, <1>3, <2>2, <3>1, <3>2, <3>3, DistinctStatuses DEF Recorded
    <3>4. CASE sw.saw = Pending /\ sw.to = Discovered /\ sw.assetIDs # {}
      <4>1. scan.status = Pending
        BY <1>t, <2>2, <3>1, <3>4, ScanMoves, DistinctStatuses
      <4> QED BY <1>u, <1>3, <2>2, <3>1, <3>2, <3>4, <4>1, DistinctStatuses DEF Recorded
    <3>5. CASE sw.saw \in {Discovered, InProgress} /\ sw.to = InProgress /\ Jobs = sw.assetIDs
      BY <1>u, <1>3, <2>2, <3>1, <3>2, <3>5, DistinctStatuses DEF Recorded
    <3>6. CASE sw.saw = InProgress /\ sw.to = Errored /\ AllEnded(sw.assetIDs)
      BY <1>u, <1>3, <2>2, <3>1, <3>2, <3>6, DistinctStatuses DEF Recorded
    <3>7. CASE sw.saw = InProgress /\ sw.to = Success /\ AllDone(sw.assetIDs)
      BY <1>u, <1>3, <2>2, <3>1, <3>2, <3>7, DistinctStatuses DEF Recorded
    <3> QED BY <1>u, <3>3, <3>4, <3>5, <3>6, <3>7 DEF ScanInv, Decision
  <2> QED BY <1>2, <2>1, <2>2
<1> QED BY <1>1, <1>4 DEF ScanInv, WatcherView, Decision

LEMMA UserAbortsKeepsScanInv ==
    ASSUME Types, ScanInv, UserAborts
    PROVE  ScanInv'
<1>t. /\ scan \in ScanRecords /\ sw \in SwRecords
      /\ scan.assetIDs \in SUBSET Assets /\ scan.ended \in BOOLEAN
  BY DEF Types, ScanRecords, SwRecords
<1>u. assetScan' = assetScan /\ Jobs' = Jobs /\ sw' = sw
  BY DEF UserAborts, avars, Jobs, Exists, StateOf
<1>1. scan' = scan \/ (scan'.status = Aborted /\ scan'.assetIDs = scan.assetIDs)
  BY <1>t, KnownStatuses, PatchedScan DEF UserAborts
<1>2. /\ AllDone(scan.assetIDs)' <=> AllDone(scan'.assetIDs)
      /\ AllEnded(scan.assetIDs)' <=> AllEnded(scan'.assetIDs)
      /\ AllDone(sw.assetIDs)' <=> AllDone(sw.assetIDs)
      /\ AllEnded(sw.assetIDs)' <=> AllEnded(sw.assetIDs)
  BY <1>u DEF AllDone, AllEnded, Ended, StateOf
<1>3. Recorded'
  BY <1>u, <1>1, <1>2, DistinctStatuses DEF ScanInv, Recorded
<1>4. WatcherView'
  BY <1>u, <1>1, DistinctStatuses DEF ScanInv, WatcherView
<1>5. Decision'
  BY <1>u, <1>2 DEF ScanInv, Decision
<1> QED BY <1>3, <1>4, <1>5 DEF ScanInv

LEMMA PostsKeepScanInv ==
    ASSUME Types, ScanInv, NEW a \in Assets, SwCreates(a) \/ SwCreateFails(a)
    PROVE  ScanInv'
<1>t. /\ scan \in ScanRecords /\ sw \in SwRecords
      /\ assetScan \in [Assets -> AssetScanRecords]
  BY DEF Types, AssetScanTypes, ScanRecords, SwRecords
<1>u. scan' = scan /\ sw.phase = "creating" /\ a \in sw.todo
  BY DEF SwCreates, SwCreateFails
<1>1. /\ sw'.phase = "creating" /\ sw'.saw = sw.saw /\ sw'.assetIDs = sw.assetIDs
      /\ sw'.todo = sw.todo \ {a}
      /\ sw'.failed \/ (sw'.failed = sw.failed /\ SwCreates(a))
  BY <1>t DEF SwCreates, SwCreateFails, SwRecords
<1>2. /\ sw.saw = Discovered /\ scan.status \in {Discovered, Aborted}
      /\ sw.assetIDs = scan.assetIDs /\ sw.todo \subseteq sw.assetIDs
      /\ sw.failed \/ sw.assetIDs \ sw.todo \subseteq Jobs
      /\ Jobs \subseteq scan.assetIDs /\ scan.assetIDs # {}
  BY <1>u, DistinctStatuses DEF ScanInv, WatcherView, Recorded
<1>3. /\ Jobs \subseteq Jobs' /\ Jobs' \subseteq Jobs \cup {a}
      /\ SwCreates(a) => a \in Jobs'
  <2>1. CASE PostAssetScan(a)
    <3>1. /\ Exists(a)'
          /\ \A b \in Assets \ {a} : assetScan'[b] = assetScan[b]
      BY <1>t, <2>1, PostedAssetScan
    <3> QED BY <3>1 DEF Jobs, Exists, StateOf
  <2>2. CASE UNCHANGED assetScan /\ SwCreateFails(a) /\ ~PostAssetScan(a)
    BY <2>2 DEF Jobs, Exists, StateOf, SwCreates
  <2> QED BY <2>1, <2>2 DEF SwCreates, SwCreateFails
<1>4. Recorded'
  BY <1>u, <1>2, <1>3, DistinctStatuses DEF Recorded
<1>5. WatcherView'
  <2>1. sw'.failed \/ sw'.assetIDs \ sw'.todo \subseteq Jobs'
    BY <1>1, <1>2, <1>3
  <2>2. sw'.todo \subseteq sw'.assetIDs
    BY <1>1, <1>2
  <2> QED BY <1>u, <1>1, <1>2, <2>1, <2>2, KnownStatuses, DistinctStatuses DEF WatcherView
<1>6. Decision'
  BY <1>1 DEF Decision
<1> QED BY <1>4, <1>5, <1>6 DEF ScanInv

LEMMA AbortsKeepScanInv ==
    ASSUME Types, ScanInv, NEW a \in Assets,
           SwAborts(a) \/ SwAbortFails(a) \/ SwChecksErr(a)
    PROVE  ScanInv'
<1>t. /\ scan \in ScanRecords /\ sw \in SwRecords
      /\ assetScan \in [Assets -> AssetScanRecords]
  BY DEF Types, AssetScanTypes, ScanRecords, SwRecords
<1>u. scan' = scan /\ sw.phase = "aborting"
  BY DEF SwAborts, SwAbortFails, SwChecksErr
<1>1. sw'.phase = "aborting" /\ sw'.saw = sw.saw /\ sw'.assetIDs = sw.assetIDs
  BY <1>t DEF SwAborts, SwAbortFails, SwChecksErr, SwRecords
<1>2. JobsKept
  <2>1. CASE PatchState(a, "Aborted")
    BY <1>t, <2>1, PatchKeepsJobs
  <2>2. CASE UNCHANGED assetScan
    BY <2>2, SameStatesKeepJobs DEF StateOf
  <2> QED BY <2>1, <2>2 DEF SwAborts, SwAbortFails, SwChecksErr, RefusesState, avars
<1>3. Jobs' = Jobs
  BY <1>2 DEF JobsKept
<1>4. /\ sw.saw = Aborted /\ scan.status = Aborted /\ sw.assetIDs = scan.assetIDs
      /\ Jobs \subseteq scan.assetIDs
  BY <1>u, DistinctStatuses DEF ScanInv, WatcherView, Recorded
<1>5. Recorded'
  BY <1>u, <1>3, <1>4, DistinctStatuses DEF Recorded
<1>6. WatcherView'
  BY <1>u, <1>1, <1>3, <1>4, KnownStatuses, DistinctStatuses DEF WatcherView
<1>7. Decision'
  BY <1>1 DEF Decision
<1> QED BY <1>5, <1>6, <1>7 DEF ScanInv

LEMMA NextScanInv ==
    ASSUME Types, ScanInv, [Next]_vars
    PROVE  ScanInv'
<1>1. CASE AssetScanNext /\ UNCHANGED svars
  BY <1>1, AssetScanStepKeepsJobs, JobsKeptKeepsScanInv DEF Types, svars
<1>2. CASE SwGet \/ SwTimesOut \/ SwSkips \/ SwPending \/ SwDiscovered \/ SwCreated
  BY <1>2, SwKeepsScanInv
<1>3. CASE SwInProgress \/ SwAborted \/ SwAbortsDone
  BY <1>3, SwDecidesKeepsScanInv
<1>4. CASE SwPatches
  BY <1>4, SwPatchesKeepsScanInv
<1>5. CASE \E a \in Assets : SwCreates(a) \/ SwCreateFails(a)
  BY <1>5, PostsKeepScanInv
<1>6. CASE \E a \in Assets : SwAborts(a) \/ SwAbortFails(a) \/ SwChecksErr(a)
  BY <1>6, AbortsKeepScanInv
<1>7. CASE SwGivesUp
  <2>1. JobsKept /\ scan' = scan /\ sw'.phase = "idle"
    BY <1>7, SameStatesKeepJobs, SwIdleTypes DEF SwGivesUp, StateOf
  <2>2. /\ AllDone(scan.assetIDs)' <=> AllDone(scan.assetIDs)
        /\ AllEnded(scan.assetIDs)' <=> AllEnded(scan.assetIDs)
    BY <1>7 DEF SwGivesUp, AllDone, AllEnded, Ended, StateOf
  <2>3. Recorded'
    BY <2>1, <2>2 DEF ScanInv, Recorded, JobsKept
  <2> QED BY <2>1, <2>3 DEF ScanInv, WatcherView, Decision
<1>8. CASE UserAborts
  BY <1>8, UserAbortsKeepsScanInv
<1>9. CASE TimeoutPasses \/ UNCHANGED vars
  <2>1. JobsKept /\ UNCHANGED <<scan, sw>>
    BY <1>9, SameStatesKeepJobs DEF TimeoutPasses, vars, avars, svars, StateOf
  <2> QED BY <2>1, JobsKeptKeepsScanInv
<1> QED BY <1>1, <1>2, <1>3, <1>4, <1>5, <1>6, <1>7, <1>8, <1>9 DEF Next, SwReconciles

\* The types and the three parts together are inductive.
LEMMA ScanInvariant == Spec => [](Types /\ ScanInv)
BY InitTypes, NextTypes, InitScanInv, NextScanInv, PTL DEF Spec

\* An InProgress Scan has created all its AssetScans (watcher.go:284-325).
THEOREM RunningIsComplete == Spec => []RunningMeansAllCreated
<1>1. ScanInv => RunningMeansAllCreated
  BY DEF ScanInv, Recorded, RunningMeansAllCreated
<1> QED BY <1>1, ScanInvariant, PTL

\* A successful Scan has an AssetScan that is Done for each of its assets
\* (watcher.go:364-436).
THEOREM SuccessIsTrue == Spec => []SuccessMeansAllDone
<1>1. ScanInv => SuccessMeansAllDone
  BY DEF ScanInv, Recorded, SuccessMeansAllDone, AllDone
<1> QED BY <1>1, ScanInvariant, PTL

\* A Scan that ended with errors has no AssetScan left that runs, and one that
\* failed (watcher.go:364-436).
THEOREM ErrorIsTrue == Spec => []ErrorMeansAllEnded
<1>1. ScanInv => ErrorMeansAllEnded
  BY DEF ScanInv, Recorded, ErrorMeansAllEnded, AllEnded
<1> QED BY <1>1, ScanInvariant, PTL
-----------------------------------------------------------------------------
(* What an abort has reached.  The watcher works off the AssetScans it     *)
(* listed: one that is not aborted or over is still to be patched, or its  *)
(* error is still to be read back, or an error was noticed, or its error   *)
(* was overwritten.                                                        *)

Reached == \A b \in Jobs : AbortedOrOver(b) \/ b \in missed

AbortInv ==
    /\ sw.phase = "aborting" =>
         \A b \in Jobs : \/ AbortedOrOver(b) \/ b \in missed
                         \/ b \in sw.todo \cup sw.unchecked \/ sw.failed
    /\ sw.phase = "patch" /\ sw.to = Cancelled => Reached
    /\ scan.status = Cancelled => Reached

LEMMA SwWillPatchEnds ==
    ASSUME NEW to, NEW ids, NEW ends, SwWillPatch(to, ids, ends)
    PROVE  sw'.phase = "patch" /\ sw'.to = to /\ sw'.ends = ends
BY DEF SwWillPatch, SwIdle

\* Steps that take no part in the abort.
LEMMA OthersKeepAbortInv ==
    ASSUME Types, AbortInv, JobsKept, missed' = missed,
           sw' = sw \/ (sw'.phase \notin {"aborting", "patch"})
             \/ (sw'.phase = "patch" /\ sw'.to # Cancelled),
           scan' = scan \/ scan'.status # Cancelled
    PROVE  AbortInv'
<1>1. Jobs' = Jobs /\ Jobs \subseteq Assets
  BY DEF JobsKept, Jobs
<1>2. Reached => Reached'
  BY <1>1 DEF Reached, JobsKept
<1>3. sw' = sw /\ sw.phase = "aborting" =>
        \A b \in Jobs' : \/ AbortedOrOver(b)' \/ b \in missed'
                         \/ b \in sw'.todo \cup sw'.unchecked \/ sw'.failed
  BY <1>1 DEF AbortInv, JobsKept
<1> QED BY <1>2, <1>3 DEF AbortInv

LEMMA AbortStepsKeepAbortInv ==
    ASSUME Types, ScanInv, AbortInv, NEW a \in Assets,
           SwAborts(a) \/ SwAbortFails(a) \/ SwChecksErr(a)
    PROVE  AbortInv'
<1>t. sw \in SwRecords /\ assetScan \in [Assets -> AssetScanRecords]
  BY DEF Types, AssetScanTypes
<1>1. /\ sw.phase = "aborting" /\ sw'.phase = "aborting" /\ scan' = scan
      /\ scan.status # Cancelled
  BY <1>t, DistinctStatuses
  DEF SwAborts, SwAbortFails, SwChecksErr, SwRecords, ScanInv, WatcherView
<1>2. JobsKept
  <2>1. CASE PatchState(a, "Aborted")
    BY <1>t, <2>1, PatchKeepsJobs
  <2>2. CASE UNCHANGED assetScan
    BY <2>2, SameStatesKeepJobs DEF StateOf
  <2> QED BY <2>1, <2>2 DEF SwAborts, SwAbortFails, SwChecksErr, RefusesState, avars
<1>3. ASSUME NEW b \in Jobs'
      PROVE  \/ AbortedOrOver(b)' \/ b \in missed'
             \/ b \in sw'.todo \cup sw'.unchecked \/ sw'.failed
  <2>1. b \in Jobs /\ b \in Assets
    BY <1>2, <1>3 DEF JobsKept, Jobs
  <2>2. AbortedOrOver(b) => AbortedOrOver(b)'
    BY <1>2, <2>1 DEF JobsKept
  <2>3. \/ AbortedOrOver(b) \/ b \in missed \/ b \in sw.todo \cup sw.unchecked \/ sw.failed
    BY <1>1, <2>1 DEF AbortInv
  <2>4. CASE SwAborts(a) \/ SwAbortFails(a)
    <3>1. /\ missed' = missed /\ sw'.todo = sw.todo \ {a}
          /\ sw'.unchecked = sw.unchecked \cup {a} /\ sw'.failed = sw.failed
      BY <1>t, <2>4 DEF SwAborts, SwAbortFails, SwRecords
    <3> QED BY <2>2, <2>3, <3>1
  <2>5. CASE SwChecksErr(a)
    <3>1. /\ missed' = IF sw.err \/ AbortedOrOver(a) THEN missed ELSE missed \cup {a}
          /\ sw'.todo = sw.todo /\ sw'.unchecked = sw.unchecked \ {a}
          /\ sw'.failed = (sw.failed \/ sw.err)
      BY <1>t, <2>5 DEF SwChecksErr, SwRecords
    <3> QED BY <2>2, <2>3, <3>1
  <2> QED BY <1>3, <2>4, <2>5
<1> QED BY <1>1, <1>3 DEF AbortInv

\* The list of the AssetScans to abort, and the end of the Reconcile that did.
LEMMA AbortDecisionsKeepAbortInv ==
    ASSUME Types, ScanInv, AbortInv, SwAborted \/ SwAbortsDone \/ SwPatches
    PROVE  AbortInv'
<1>t. /\ scan \in ScanRecords /\ sw \in SwRecords
      /\ scan.status \in ScanStatuses /\ sw.saw \in ScanStatuses /\ sw.to \in ScanStatuses
      /\ sw.assetIDs \in SUBSET Assets
      /\ (scan.ended \/ sw.ends) \in BOOLEAN
  BY DEF Types, ScanRecords, SwRecords
<1>u. /\ Jobs' = Jobs /\ \A b : AbortedOrOver(b)' <=> AbortedOrOver(b)
  BY DEF SwAborted, SwAbortsDone, SwPatches, avars, Jobs, Exists, StateOf, AbortedOrOver,
         Ended
<1>1. CASE SwAborted
  <2>1. /\ sw'.phase = "aborting" /\ scan' = scan /\ scan.status = Aborted
        /\ sw'.todo = {a \in JobsLeftToRun : StateOf(a) # "Aborted"}
    BY <1>1, <1>t, KnownStatuses DEF SwAborted, SwSaw, SwRecords, ScanInv, WatcherView
  <2>2. \A b \in Jobs : AbortedOrOver(b) \/ b \in sw'.todo
    BY <2>1 DEF JobsLeftToRun, AbortedOrOver
  <2> QED BY <1>u, <2>1, <2>2, DistinctStatuses DEF AbortInv
<1>2. CASE SwAbortsDone
  <2>0. scan' = scan /\ missed' = missed
    BY <1>2 DEF SwAbortsDone
  <2>1. CASE sw' = SwIdle
    BY <1>u, <2>0, <2>1, SwIdleTypes DEF AbortInv, Reached
  <2>2. CASE ~sw.failed
    <3>1. sw'.phase = "patch"
      BY <1>2, <2>2 DEF SwAbortsDone, SwWillPatch, SwIdle
    <3>2. Reached
      BY <1>2, <2>2 DEF SwAbortsDone, AbortInv, Reached
    <3> QED BY <1>u, <2>0, <3>1, <3>2 DEF AbortInv, Reached
  <2> QED BY <1>2, <2>1, <2>2 DEF SwAbortsDone
<1>3. CASE SwPatches
  <2>1. sw'.phase = "idle" /\ sw.phase = "patch" /\ missed' = missed
    BY <1>3, SwIdleTypes DEF SwPatches
  <2>2. scan' = scan \/ scan'.status = sw.to
    BY <1>3, <1>t, PatchedScan DEF SwPatches
  <2> QED BY <1>u, <2>1, <2>2 DEF AbortInv, Reached
<1> QED BY <1>1, <1>2, <1>3

LEMMA NextAbortInv ==
    ASSUME Types, ScanInv, AbortInv, [Next]_vars
    PROVE  AbortInv'
<1>t. /\ scan \in ScanRecords /\ sw \in SwRecords
      /\ scan.assetIDs \in SUBSET Assets /\ scan.ended \in BOOLEAN
  BY DEF Types, ScanRecords, SwRecords
<1>1. CASE AssetScanNext /\ UNCHANGED svars
  BY <1>1, AssetScanStepKeepsJobs, OthersKeepAbortInv DEF Types, svars
<1>2. CASE SwGet \/ SwSkips \/ SwDiscovered \/ SwGivesUp
  <2>1. JobsKept
    BY <1>2, SameStatesKeepJobs DEF SwGet, SwSkips, SwDiscovered, SwGivesUp, avars, StateOf
  <2>2. sw'.phase \notin {"aborting", "patch"} /\ scan' = scan /\ missed' = missed
    BY <1>2, <1>t, SwIdleTypes
    DEF SwGet, SwSkips, SwDiscovered, SwGivesUp, SwIdle, SwRecords
  <2> QED BY <2>1, <2>2, OthersKeepAbortInv
<1>3. CASE SwTimesOut \/ SwPending \/ SwCreated \/ SwInProgress
  <2>1. JobsKept
    BY <1>3, SameStatesKeepJobs DEF SwTimesOut, SwPending, SwCreated, SwInProgress, avars,
                                    StateOf
  <2>2. scan' = scan /\ missed' = missed
    BY <1>3 DEF SwTimesOut, SwPending, SwCreated, SwInProgress
  <2>3. sw.phase = "got" /\ sw.saw.state = "InProgress" => sw.saw = InProgress
    BY <1>t, KnownStatuses DEF SwRecords
  <2>4. sw'.phase = "idle" \/ (sw'.phase = "patch" /\ sw'.to # Cancelled)
    <3>1. CASE SwTimesOut
      BY <3>1, SwWillPatchEnds, DistinctStatuses DEF SwTimesOut
    <3>2. CASE SwPending
      <4>1. \/ \E ids \in SUBSET Assets : SwWillPatch(Discovered, ids, FALSE)
            \/ SwWillPatch(NoAssets, {}, FALSE)
        BY <3>2 DEF SwPending
      <4> QED BY <4>1, SwWillPatchEnds, DistinctStatuses
    <3>3. CASE SwCreated
      BY <3>3, SwIdleTypes, SwWillPatchEnds, DistinctStatuses DEF SwCreated
    <3>4. CASE SwInProgress
      <4>1. \/ SwWillPatch(InProgress, sw.assetIDs, FALSE)
            \/ SwWillPatch(Errored, sw.assetIDs, TRUE)
            \/ SwWillPatch(Success, sw.assetIDs, TRUE)
        BY <2>3, <3>4 DEF SwInProgress, SwSaw
      <4> QED BY <4>1, SwWillPatchEnds, DistinctStatuses
    <3> QED BY <1>3, <3>1, <3>2, <3>3, <3>4
  <2> QED BY <2>1, <2>2, <2>4, OthersKeepAbortInv
<1>4. CASE SwAborted \/ SwAbortsDone \/ SwPatches
  BY <1>4, AbortDecisionsKeepAbortInv
<1>5. ASSUME NEW a \in Assets, SwCreates(a) \/ SwCreateFails(a)
      PROVE  AbortInv'
  <2>1. sw'.phase = "creating" /\ scan' = scan
    BY <1>5, <1>t DEF SwCreates, SwCreateFails, SwRecords
  <2>2. scan.status # Cancelled
    BY <1>5, DistinctStatuses DEF SwCreates, SwCreateFails, ScanInv, WatcherView
  <2> QED BY <2>1, <2>2 DEF AbortInv
<1>6. CASE \E a \in Assets : SwAborts(a) \/ SwAbortFails(a) \/ SwChecksErr(a)
  BY <1>6, AbortStepsKeepAbortInv
<1>7. CASE UserAborts
  <2>1. JobsKept /\ sw' = sw /\ missed' = missed
    BY <1>7, SameStatesKeepJobs DEF UserAborts, avars, StateOf
  <2>2. scan' = scan \/ scan'.status = Aborted
    BY <1>7, <1>t, KnownStatuses, PatchedScan DEF UserAborts
  <2> QED BY <2>1, <2>2, DistinctStatuses, OthersKeepAbortInv
<1>8. CASE TimeoutPasses \/ UNCHANGED vars
  <2>1. JobsKept /\ UNCHANGED <<scan, sw, missed>>
    BY <1>8, SameStatesKeepJobs DEF TimeoutPasses, vars, avars, svars, StateOf
  <2> QED BY <2>1, OthersKeepAbortInv
<1> QED BY <1>1, <1>2, <1>3, <1>4, <1>5, <1>6, <1>7, <1>8 DEF Next, SwReconciles

\* A Scan that an abort has ended has no AssetScan left that runs, except those
\* whose failed PATCH another goroutine's success covered up (watcher.go:459-521).
THEOREM CancelledIsTrue == Spec => []CancelledMeansAllAborted
<1>1. Init => AbortInv
  BY KnownStatuses, SwIdleTypes, DistinctStatuses DEF Init, AbortInv
<1>2. AbortInv => CancelledMeansAllAborted
  BY DEF AbortInv, Reached, CancelledMeansAllAborted
<1> QED BY <1>1, <1>2, NextAbortInv, ScanInvariant, PTL DEF Spec

\* The status of a Scan is never a lie about its AssetScans, in any of the four
\* states that tell something of them (watcher.go:284-521).
THEOREM StatusHolds == Spec => []StatusIsTrue
<1>1. SuccessMeansAllDone /\ ErrorMeansAllEnded /\ RunningMeansAllCreated
        /\ CancelledMeansAllAborted => StatusIsTrue
  BY DEF StatusIsTrue
<1> QED BY <1>1, SuccessIsTrue, ErrorIsTrue, RunningIsComplete, CancelledIsTrue, PTL
-----------------------------------------------------------------------------
(* The Scan as the ScanConfig watcher and the uniqueness check see it.     *)

\* The statuses a Scan gets its EndTime with.
TimedStatuses == {Errored, Success, Cancelled}

\* EndTime tells nothing that the status does not, and a decision carries it
\* exactly when it carries such a status.
EndInv ==
    /\ scan.ended <=> scan.status \in TimedStatuses
    /\ sw.phase = "patch" => (sw.ends <=> sw.to \in TimedStatuses)

LEMMA InitEndInv == Init => EndInv
BY KnownStatuses, SwIdleTypes DEF Init, EndInv, TimedStatuses

\* Steps that leave the Scan alone keep the invariant: a decision is taken in one
\* step and stays as it is.
LEMMA DecisionsKeepEndInv ==
    ASSUME Types, EndInv, SwReconciles, ~SwPatches
    PROVE  EndInv' /\ scan' = scan
<1> USE KnownStatuses DEF EndInv, TimedStatuses
<1>t. sw \in SwRecords /\ sw.saw \in ScanStatuses
  BY DEF Types, SwRecords
<1>1. CASE SwTimesOut
  BY <1>1, SwWillPatchEnds DEF SwTimesOut
<1>2. CASE SwSkips
  BY <1>2, SwIdleTypes DEF SwSkips
<1>3. CASE SwPending
  BY <1>3, SwWillPatchEnds DEF SwPending
<1>4. CASE SwDiscovered \/ SwAborted
  <2>1. sw'.phase \in {"creating", "aborting"} /\ scan' = scan
    BY <1>4, <1>t DEF SwDiscovered, SwAborted, SwRecords
  <2> QED BY <2>1
<1>5. CASE SwCreated
  <2>1. scan' = scan /\ (sw' = SwIdle \/ SwWillPatch(InProgress, sw.assetIDs, FALSE))
    BY <1>5 DEF SwCreated
  <2> QED BY <2>1, SwIdleTypes, SwWillPatchEnds
<1>6. CASE SwInProgress
  <2>1. sw.saw = InProgress /\ scan' = scan
    BY <1>6, <1>t DEF SwInProgress, SwSaw
  <2>2. \/ SwWillPatch(InProgress, sw.assetIDs, FALSE)
        \/ SwWillPatch(Errored, sw.assetIDs, TRUE)
        \/ SwWillPatch(Success, sw.assetIDs, TRUE)
    BY <1>6, <2>1 DEF SwInProgress
  <2>3. /\ sw'.phase = "patch"
        /\ \/ sw'.to = InProgress /\ ~sw'.ends
           \/ sw'.to \in {Errored, Success} /\ sw'.ends
    BY <2>2, SwWillPatchEnds
  <2> QED BY <2>1, <2>3
<1>7. CASE SwAbortsDone
  <2>1. scan' = scan /\ (sw' = SwIdle \/ SwWillPatch(Cancelled, sw.assetIDs, TRUE))
    BY <1>7 DEF SwAbortsDone
  <2>2. CASE SwWillPatch(Cancelled, sw.assetIDs, TRUE)
    BY <2>1, <2>2, SwWillPatchEnds
  <2>3. CASE sw' = SwIdle
    BY <2>1, <2>3, SwIdleTypes
  <2> QED BY <2>1, <2>2, <2>3
<1>8. ASSUME NEW a \in Assets, SwCreates(a) \/ SwAborts(a) \/ SwChecksErr(a)
      PROVE  EndInv' /\ scan' = scan
  BY <1>8, <1>t DEF SwCreates, SwAborts, SwChecksErr, SwRecords
<1> QED BY <1>1, <1>2, <1>3, <1>4, <1>5, <1>6, <1>7, <1>8 DEF SwReconciles

\* A write that is accepted ends the Scan, with or without an EndTime, or leaves
\* it unfinished; one over a finished Scan changes nothing.
LEMMA WritesKeepEndInv ==
    ASSUME Types, EndInv, SwPatches \/ UserAborts
    PROVE  EndInv' /\ (Life!End \/ UNCHANGED <<Finished, scan.ended>>)
<1> USE KnownStatuses DEF EndInv, TimedStatuses, Finished, Life!End
<1>t. /\ scan \in ScanRecords /\ sw \in SwRecords
      /\ scan.status \in ScanStatuses /\ sw.to \in ScanStatuses
      /\ scan.ended \in BOOLEAN /\ sw.ends \in BOOLEAN
  BY DEF Types, ScanRecords, SwRecords
<1>1. CASE SwPatches
  <2>1. sw'.phase = "idle" /\ sw.phase = "patch"
    BY <1>1, SwIdleTypes DEF SwPatches
  <2>2. CASE ~IsValidScanTransition(scan.status, sw.to)
    <3>1. scan' = scan
      BY <1>1, <2>2 DEF SwPatches, PatchScan
    <3> QED BY <2>1, <3>1
  <2>3. CASE IsValidScanTransition(scan.status, sw.to)
    <3>1. scan'.status = sw.to /\ scan'.ended = (scan.ended \/ sw.ends)
      BY <1>1, <2>3 DEF SwPatches, PatchScan
    <3>2. Finished => sw.to = scan.status
      BY <1>t, <2>3, ScanMoves
    <3>3. scan.ended => Finished
      BY <1>t
    <3>4. sw.ends <=> sw.to \in TimedStatuses
      BY <2>1
    <3> QED BY <1>t, <2>1, <3>1, <3>2, <3>3, <3>4
  <2> QED BY <2>2, <2>3
<1>2. CASE UserAborts
  <2>1. sw' = sw
    BY <1>2 DEF UserAborts
  <2>2. CASE ~IsValidScanTransition(scan.status, Aborted)
    BY <1>2, <2>1, <2>2 DEF UserAborts, PatchScan
  <2>3. CASE IsValidScanTransition(scan.status, Aborted)
    <3>1. scan'.status = Aborted /\ scan'.ended = scan.ended
      BY <1>2, <2>3 DEF UserAborts, PatchScan
    <3>2. ~Finished
      BY <1>t, <2>3, ScanMoves
    <3> QED BY <1>t, <2>1, <3>1, <3>2
  <2> QED BY <2>2, <2>3
<1> QED BY <1>1, <1>2

LEMMA NextEndInv ==
    ASSUME Types, EndInv, [Next]_vars
    PROVE  EndInv' /\ (Life!End \/ UNCHANGED <<Finished, scan.ended>>)
<1>1. CASE SwPatches \/ UserAborts
  BY <1>1, WritesKeepEndInv
<1>2. CASE SwReconciles /\ ~SwPatches
  BY <1>2, DecisionsKeepEndInv DEF Finished
<1>3. CASE SwGet \/ SwGivesUp
  BY <1>3, SwIdleTypes, ZenonT(40) DEF SwGet, SwGivesUp, SwIdle, EndInv, Finished
<1>4. CASE \E a \in Assets : SwCreateFails(a) \/ SwAbortFails(a)
  BY <1>4 DEF SwCreateFails, SwAbortFails, EndInv, Finished, Types, SwRecords
<1>5. CASE (AssetScanNext /\ UNCHANGED svars) \/ TimeoutPasses \/ UNCHANGED vars
  BY <1>5 DEF svars, vars, TimeoutPasses, EndInv, Finished
<1> QED BY <1>1, <1>2, <1>3, <1>4, <1>5 DEF Next

\* The detailed specification implements the abstract one: a Scan ends once, and
\* no write of a user or of a late Reconcile changes that (watcher.go:129-175).
THEOREM ScanLifeIsImplemented == Spec => ImplementsScanLife
<1>1. Init => Life!Init
  BY KnownStatuses DEF Init, Life!Init, Finished
<1>2. Types /\ EndInv /\ [Next]_vars => [Life!End]_<<Finished, scan.ended>>
  BY NextEndInv
<1>3. Types /\ EndInv /\ [Next]_vars => EndInv'
  BY NextEndInv
<1> QED BY <1>1, <1>2, <1>3, ScanInvariant, InitEndInv, PTL DEF Spec, ImplementsScanLife, Life!Spec
=============================================================================
