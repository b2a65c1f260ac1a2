-------------------------- MODULE AssetScanProofs --------------------------
(***************************************************************************)
(* The slots and the resources of AssetScans, for any number of assets and *)
(* faults.  The invariant says that what the AssetScan watcher read or     *)
(* decided still holds when it acts, because nobody else moves an          *)
(* AssetScan out of the states in which the watcher is the one to act.     *)
(* Every step of anybody else is a QuietMove of each AssetScan, and quiet  *)
(* moves neither schedule an AssetScan nor touch its cleanup.  On top of   *)
(* it, what each kind of step makes of one AssetScan gives that every one  *)
(* lives once and that a success was scanned.                              *)
(***************************************************************************)
EXTENDS ScanLifecycleProofs, FiniteSetTheorems

Early == {Absent, "Pending", "Scheduled"}
Reporting == {"ready", "running", "finished", "failing"}
Gone(a) == a \notin resources /\ scanner[a] \in {"exited", "panicked"}

\* What the watcher relies on between two of its calls.
AwView ==
    /\ aw.phase = "got" /\ aw.saw \in {"Pending", "Scheduled", "Done", "Failed"} =>
         StateOf(aw.asset) = aw.saw
    /\ aw.phase = "status" =>
         /\ aw.to \in {"Scheduled", "ReadyToScan", "Failed"}
         /\ aw.to = "Scheduled" => /\ StateOf(aw.asset) = "Pending"
                                   /\ Cardinality(Active) < MaxParallelScanners
    /\ aw.phase = "cleanup" =>
         /\ Ended(aw.asset)
         /\ aw.to = "Done" => Gone(aw.asset)

\* A scanner that has something to report was provisioned; only what is over is
\* cleaned up, and what is cleaned up is gone.
ScannerView ==
    \A a \in Assets : /\ scanner[a] \in Reporting => StateOf(a) \notin Early
                      /\ assetScan[a].cleanup # "Pending" => Ended(a)
                      /\ assetScan[a].cleanup = "Done" => Gone(a)

AwInv == AwView /\ ScannerView /\ ParallelBound

LEMMA InitAwInv == Init => AwInv
<1> SUFFICES ASSUME Init PROVE AwInv
  OBVIOUS
<1>1. AwView
  BY AwIdleTypes DEF Init, AssetScanInit, AwView
<1>2. ScannerView
  BY DEF Init, AssetScanInit, ScannerView, Reporting
<1>3. Active = {}
  BY DEF Init, AssetScanInit, Active, StateOf
<1>4. ParallelBound
  BY <1>3, FS_EmptySet, AssetScanAssumption DEF ParallelBound
<1> QED BY <1>1, <1>2, <1>4 DEF AwInv

\* What anybody but the AssetScan watcher may do to an AssetScan.
QuietMove(b) ==
    /\ assetScan'[b].cleanup = assetScan[b].cleanup
    /\ \/ StateOf(b)' = StateOf(b)
       \/ StateOf(b) = Absent /\ StateOf(b)' = "Pending"
       \/ /\ <<StateOf(b), StateOf(b)'>> \in assetScanStatusStateTransitions
          /\ StateOf(b)' # "Scheduled"
          /\ StateOf(b) = "Scheduled" => scanner[b] \in Reporting

LEMMA FiniteActive ==
    ASSUME NEW S \in SUBSET Active
    PROVE  /\ IsFiniteSet(S) /\ Cardinality(S) \in Nat
           /\ IsFiniteSet(Active) /\ Cardinality(Active) \in Nat
           /\ Cardinality(S) <= Cardinality(Active)
<1>1. Active \subseteq Assets
  BY DEF Active
<1>2. IsFiniteSet(Active)
  BY <1>1, FS_Subset, AssetScanAssumption
<1> QED BY <1>2, FS_Subset, FS_CardinalityType

\* What quiet moves leave as it is.
LEMMA QuietFacts ==
    ASSUME Types, AwInv, \A b \in Assets : QuietMove(b)
    PROVE  /\ \A b \in Assets :
                /\ StateOf(b) \in {"Pending", "Scheduled", "Done", "Failed"} =>
                     StateOf(b)' = StateOf(b)
                /\ Ended(b) => Ended(b)'
                /\ StateOf(b) \notin Early => StateOf(b)' \notin Early
                /\ assetScan'[b].cleanup = assetScan[b].cleanup
           /\ Active' \subseteq Active
           /\ Cardinality(Active') <= Cardinality(Active)
           /\ Cardinality(Active) \in Nat /\ Cardinality(Active') \in Nat
           /\ ParallelBound'
<1>1. ASSUME NEW b \in Assets
      PROVE  /\ StateOf(b) \in {"Pending", "Scheduled", "Done", "Failed"} =>
                  StateOf(b)' = StateOf(b)
             /\ StateOf(b) \notin Early => StateOf(b)' \notin Early
             /\ assetScan'[b].cleanup = assetScan[b].cleanup
             /\ StateOf(b)' \notin {Absent, "Pending", "Done", "Failed"} =>
                  StateOf(b) \notin {Absent, "Pending", "Done", "Failed"}
  <2>1. QuietMove(b)
    OBVIOUS
  <2>2. scanner[b] \in Reporting => StateOf(b) # "Scheduled"
    BY DEF AwInv, ScannerView, Early
  <2> QED BY <2>1, <2>2 DEF QuietMove, assetScanStatusStateTransitions, Early, Absent
<1>2. \A b \in Assets : Ended(b) => Ended(b)'
  BY <1>1 DEF Ended
<1>3. Active' \subseteq Active
  BY <1>1 DEF Active
<1>4. /\ Cardinality(Active') <= Cardinality(Active)
      /\ Cardinality(Active) \in Nat /\ Cardinality(Active') \in Nat
  BY <1>3, FiniteActive
<1>5. ParallelBound'
  BY <1>4, AssetScanAssumption DEF AwInv, ParallelBound
<1> QED BY <1>1, <1>2, <1>3, <1>4, <1>5

LEMMA QuietKeepsAwInv ==
    ASSUME Types, AwInv, \A b \in Assets : QuietMove(b), UNCHANGED <<aw, resources, scanner>>
    PROVE  AwInv'
<1>0. aw.phase # "idle" => aw.asset \in Assets
  BY DEF Types, AssetScanTypes, AwHasAsset
<1>1. AwView'
  BY <1>0, QuietFacts, AssetScanAssumption DEF AwInv, AwView, Gone, AwRecords, Types, AssetScanTypes
<1>2. ScannerView'
  BY QuietFacts DEF AwInv, ScannerView, Gone
<1> QED BY <1>1, <1>2, QuietFacts DEF AwInv

LEMMA UnchangedIsQuiet ==
    ASSUME UNCHANGED assetScan
    PROVE  \A b \in Assets : QuietMove(b)
BY DEF QuietMove, StateOf

LEMMA PatchIsQuiet ==
    ASSUME assetScan \in [Assets -> AssetScanRecords], NEW a \in Assets,
           NEW to \in {"Aborted", "Done", "Failed"}, PatchState(a, to),
           to # "Aborted" => scanner[a] \in Reporting
    PROVE  \A b \in Assets : QuietMove(b)
<1>1. to \in AssetScanStates
  BY DEF AssetScanStates
<1>2. /\ StateOf(a)' = to
      /\ assetScan'[a].cleanup = assetScan[a].cleanup
      /\ \A b \in Assets \ {a} : assetScan'[b] = assetScan[b]
  BY <1>1, PatchedState DEF PatchState
<1>3. IsValidAssetScanTransition(StateOf(a), to)
  BY DEF PatchState
<1>4. QuietMove(a)
  BY <1>2, <1>3 DEF QuietMove, IsValidAssetScanTransition, assetScanStatusStateTransitions
<1>5. \A b \in Assets \ {a} : QuietMove(b)
  BY <1>2 DEF QuietMove, StateOf
<1> QED BY <1>4, <1>5

LEMMA PostIsQuiet ==
    ASSUME assetScan \in [Assets -> AssetScanRecords], NEW a \in Assets, PostAssetScan(a)
    PROVE  \A b \in Assets : QuietMove(b)
BY PostedAssetScan DEF QuietMove, StateOf

LEMMA ScannerIsQuiet ==
    ASSUME Types, NEW a \in Assets, ScannerStep(a) \/ ScannerDies(a)
    PROVE  \A b \in Assets : QuietMove(b)
<1>0. assetScan \in [Assets -> AssetScanRecords]
  BY DEF Types, AssetScanTypes
<1>1. CASE UNCHANGED assetScan
  BY <1>1, UnchangedIsQuiet
<1>2. CASE MarkInProgress(a)
  <2>1. CASE RefusesState(a, "InProgress")
    BY <1>1, <2>1 DEF RefusesState
  <2>2. CASE /\ ScannerGoes(a, "ready", "running")
             /\ IsValidAssetScanTransition(StateOf(a), "InProgress")
             /\ assetScan' = [assetScan EXCEPT ![a].state = "InProgress", ![a].stats = TRUE]
    <3>1. /\ StateOf(a)' = "InProgress"
          /\ assetScan'[a].cleanup = assetScan[a].cleanup
          /\ \A b \in Assets \ {a} : assetScan'[b] = assetScan[b]
      BY <1>0, <2>2, MarkedInProgress
    <3>2. QuietMove(a)
      BY <2>2, <3>1 DEF QuietMove, IsValidAssetScanTransition,
                        assetScanStatusStateTransitions
    <3>3. \A b \in Assets \ {a} : QuietMove(b)
      BY <3>1 DEF QuietMove, StateOf
    <3> QED BY <3>2, <3>3
  <2> QED BY <1>2, <2>1, <2>2 DEF MarkInProgress
<1>3. CASE MarkDone(a)
  BY <1>0, <1>1, <1>3, PatchIsQuiet DEF MarkDone, RefusesState, ScannerGoes, Reporting
<1>4. CASE MarkFailed(a)
  BY <1>0, <1>1, <1>4, PatchIsQuiet DEF MarkFailed, RefusesState, ScannerGoes, Reporting
<1>5. CASE WaitForReadyState(a) \/ MountFails(a) \/ FamiliesRun(a) \/ ScannerDies(a)
  BY <1>1, <1>5 DEF WaitForReadyState, MountFails, FamiliesRun, ScannerDies
<1> QED BY <1>2, <1>3, <1>4, <1>5 DEF ScannerStep

LEMMA ScannerKeepsAwInv ==
    ASSUME Types, AwInv, NEW a \in Assets, ScannerStep(a) \/ ScannerDies(a)
    PROVE  AwInv'
<1>0. /\ scanner \in [Assets -> ScannerPhases]
      /\ aw.phase # "idle" => aw.asset \in Assets
  BY DEF Types, AssetScanTypes, AwHasAsset
<1>1. UNCHANGED <<aw, resources>>
  BY DEF ScannerStep, WaitForReadyState, MountFails, FamiliesRun, MarkInProgress,
         MarkDone, MarkFailed, ScannerGoes, ScannerDies
<1>2. PICK to \in ScannerPhases :
        /\ scanner' = [scanner EXCEPT ![a] = to]
        /\ scanner[a] \notin {"exited", "panicked"}
        /\ to \in Reporting => scanner[a] \in Reporting \/ StateOf(a) \notin Early
  BY DEF ScannerStep, WaitForReadyState, MountFails, FamiliesRun, MarkInProgress,
         MarkDone, MarkFailed, ScannerGoes, ScannerDies, ScannerPhases, Reporting, Early, Absent
<1>3. \A b \in Assets : QuietMove(b)
  BY ScannerIsQuiet
<1>4. \A b \in Assets : Gone(b) => Gone(b)'
  BY <1>0, <1>1, <1>2 DEF Gone
<1>5. AwView'
  BY <1>0, <1>1, <1>3, <1>4, QuietFacts, AssetScanAssumption DEF AwInv, AwView
<1>6. ScannerView'
  BY <1>0, <1>2, <1>3, <1>4, QuietFacts DEF AwInv, ScannerView
<1> QED BY <1>3, <1>5, <1>6, QuietFacts DEF AwInv

\* The watcher's own steps that leave the AssetScans alone.
LEMMA AwDecidesKeepsAwInv ==
    ASSUME Types, AwInv,
           \/ AwPending \/ AwScheduled \/ AwReadyOrInProgress \/ AwAborted \/ AwEnded
           \/ AwGivesUp \/ \E a \in Assets : AwGet(a)
    PROVE  AwInv'
<1>0. /\ aw \in AwRecords
      /\ aw.phase # "idle" => aw.asset \in Assets
      /\ scanner \in [Assets -> ScannerPhases]
      /\ resources \in SUBSET Assets
  BY DEF Types, AssetScanTypes, AwHasAsset
<1>s. /\ {"Scheduled", "ReadyToScan", "Failed"} \subseteq AssetScanStates
      /\ {"Skipped", "Done", "Failed"} \subseteq CleanupStates
  BY DEF AssetScanStates, CleanupStates
<1>u. UNCHANGED assetScan
  BY DEF AwPending, AwScheduled, AwReadyOrInProgress, AwAborted, AwEnded, AwGivesUp, AwGet
<1>v. /\ \A b \in Assets : StateOf(b)' = StateOf(b) /\ Ended(b)' = Ended(b)
      /\ Active' = Active
  BY <1>u DEF StateOf, Ended, Active
<1>p. ParallelBound'
  BY <1>v DEF AwInv, ParallelBound
<1>q. ASSUME UNCHANGED <<resources, scanner>> PROVE ScannerView'
  BY <1>q, <1>u, <1>v DEF AwInv, ScannerView, Gone
<1>i. ASSUME aw'.phase = "idle" PROVE AwView'
  BY <1>i DEF AwView
<1>1. CASE AwPending
  <2>1. CASE aw' = AwIdle
    BY <1>1, <1>p, <1>q, <1>i, <2>1, AwIdleTypes DEF AwInv, AwPending
  <2>2. CASE Cardinality(Active) < MaxParallelScanners /\ AwWillPatch("status", "Scheduled")
    <3>1. aw.phase = "got" /\ aw.saw = "Pending" /\ aw.asset \in Assets
      BY <1>0, <1>1 DEF AwPending, AwSaw
    <3>2. /\ aw'.asset = aw.asset /\ aw'.phase = "status" /\ aw'.to = "Scheduled"
      BY <1>0, <1>s, <2>2, <3>1, AwWillPatchTypes
    <3>3. StateOf(aw.asset) = "Pending"
      BY <3>1 DEF AwInv, AwView
    <3>4. AwView'
      BY <1>v, <2>2, <3>1, <3>2, <3>3 DEF AwView
    <3> QED BY <1>1, <1>p, <1>q, <3>4 DEF AwInv, AwPending
  <2> QED BY <1>1, <2>1, <2>2 DEF AwPending
<1>2. CASE AwScheduled
  <2>1. aw.phase = "got" /\ aw.saw = "Scheduled" /\ aw.asset \in Assets
    BY <1>0, <1>2 DEF AwScheduled, AwSaw
  <2>2. StateOf(aw.asset) = "Scheduled"
    BY <2>1 DEF AwInv, AwView
  <2>3. assetScan[aw.asset].cleanup = "Pending" /\ scanner[aw.asset] \notin Reporting
    BY <2>1, <2>2 DEF AwInv, ScannerView, Ended, Early
  <2>4. /\ resources' \subseteq resources \cup {aw.asset}
        /\ \A b \in Assets \ {aw.asset} : scanner'[b] = scanner[b]
        /\ scanner'[aw.asset] \notin Reporting
    BY <1>0, <1>2, <2>1, <2>3 DEF AwScheduled, Provision, Reporting
  <2>5. ScannerView'
    BY <1>u, <1>v, <2>3, <2>4 DEF AwInv, ScannerView, Gone
  <2>6. \/ aw'.phase = "idle"
        \/ aw'.phase = "status" /\ aw'.to \in {"ReadyToScan", "Failed"}
    BY <1>0, <1>2, <1>s, <2>1, AwIdleTypes, AwWillPatchTypes DEF AwScheduled
  <2>7. AwView'
    BY <2>6 DEF AwView
  <2> QED BY <1>p, <2>5, <2>7 DEF AwInv
<1>3. CASE AwReadyOrInProgress
  BY <1>3, <1>p, <1>q, <1>i, AwIdleTypes DEF AwInv, AwReadyOrInProgress
<1>4. CASE AwAborted
  <2>1. aw.asset \in Assets
    BY <1>0, <1>4 DEF AwAborted, AwSaw
  <2>2. aw'.phase = "idle" \/ (aw'.phase = "status" /\ aw'.to = "Failed")
    BY <1>0, <1>4, <1>s, <2>1, AwIdleTypes, AwWillPatchTypes DEF AwAborted
  <2>3. AwView'
    BY <2>2 DEF AwView
  <2> QED BY <1>4, <1>p, <1>q, <2>3 DEF AwInv, AwAborted
<1>5. CASE AwEnded
  <2>1. /\ aw.phase = "got" /\ aw.saw \in {"Done", "Failed"} /\ aw.asset \in Assets
    BY <1>0, <1>5 DEF AwEnded, AwSaw
  <2>2. Ended(aw.asset)
    BY <2>1 DEF AwInv, AwView, Ended
  <2>3. /\ resources' \subseteq resources
        /\ \A b \in Assets : \/ scanner'[b] = scanner[b]
                             \/ scanner'[b] \in {"exited", "panicked"}
    BY <1>0, <1>5 DEF AwEnded, Deprovision, StopScanner
  <2>4. \A b \in Assets : Gone(b) => Gone(b)'
    BY <2>3 DEF Gone
  <2>5. ScannerView'
    <3>1. \A b \in Assets : scanner'[b] \in Reporting => scanner[b] \in Reporting
      BY <2>3 DEF Reporting
    <3> QED BY <1>u, <1>v, <2>4, <3>1 DEF AwInv, ScannerView
  <2>6. \/ aw'.phase = "idle"
        \/ /\ aw'.phase = "cleanup" /\ aw'.asset = aw.asset
           /\ aw'.to = "Done" => Gone(aw.asset)'
    <3>1. CASE aw' = AwIdle
      BY <3>1, AwIdleTypes
    <3>2. CASE Deprovision(aw.asset) /\ AwWillPatch("cleanup", "Done")
      <4>1. aw'.phase = "cleanup" /\ aw'.asset = aw.asset
        BY <1>0, <1>s, <2>1, <3>2, AwWillPatchTypes
      <4>2. Gone(aw.asset)'
        BY <1>0, <2>1, <3>2, <4>1 DEF Deprovision, StopScanner, Gone
      <4> QED BY <4>1, <4>2
    <3>3. CASE AwWillPatch("cleanup", "Skipped") \/ AwWillPatch("cleanup", "Failed")
      BY <1>0, <1>s, <2>1, <3>3, AwWillPatchTypes
    <3> QED BY <1>5, <3>1, <3>2, <3>3 DEF AwEnded
  <2>7. AwView'
    BY <1>v, <2>1, <2>2, <2>6 DEF AwView, Gone
  <2> QED BY <1>p, <2>5, <2>7 DEF AwInv
<1>6. CASE AwGivesUp
  BY <1>6, <1>p, <1>q, <1>i, AwIdleTypes DEF AwInv, AwGivesUp
<1>7. ASSUME NEW a \in Assets, AwGet(a) PROVE AwInv'
  <2>1. aw' = [phase |-> "got", asset |-> a, saw |-> StateOf(a), to |-> Absent]
    BY <1>7 DEF AwGet, AwIdle
  <2>2. AwView'
    BY <1>v, <2>1 DEF AwView
  <2> QED BY <1>7, <1>p, <1>q, <2>2 DEF AwInv, AwGet
<1> QED BY <1>1, <1>2, <1>3, <1>4, <1>5, <1>6, <1>7

\* The watcher's patches.
LEMMA AwPatchKeepsAwInv ==
    ASSUME Types, AwInv, AwPatchState
    PROVE  AwInv'
<1> DEFINE x == aw.asset
<1>0. /\ assetScan \in [Assets -> AssetScanRecords] /\ x \in Assets
      /\ aw.to \in {"Scheduled", "ReadyToScan", "Failed"}
      /\ aw.to = "Scheduled" => /\ StateOf(x) = "Pending"
                                /\ Cardinality(Active) < MaxParallelScanners
      /\ aw.to \in AssetScanStates
  BY DEF Types, AssetScanTypes, AwHasAsset, AwPatchState, AwInv, AwView, AssetScanStates
<1>1. UNCHANGED <<resources, scanner>> /\ aw'.phase = "idle"
  BY AwIdleTypes DEF AwPatchState
<1>2. AwView'
  BY <1>1 DEF AwView
<1>3. CASE UNCHANGED assetScan
  BY <1>1, <1>2, <1>3 DEF AwInv, ScannerView, Gone, Ended, StateOf, ParallelBound, Active
<1>4. CASE PatchState(x, aw.to)
  <2>1. PICK a \in Assets, to \in AssetScanStates : a = x /\ to = aw.to
    BY <1>0
  <2>2. /\ assetScan'[a].state = to
        /\ assetScan'[a].cleanup = assetScan[a].cleanup
        /\ \A b \in Assets \ {a} : assetScan'[b] = assetScan[b]
        /\ IsValidAssetScanTransition(StateOf(a), to)
    BY <1>0, <1>4, <2>1, PatchedState DEF PatchState, StateOf
  <2>3. /\ Ended(a) => Ended(a)'
        /\ StateOf(a) \notin Early => StateOf(a)' \notin Early
        /\ to # "Scheduled" /\ a \in Active' => a \in Active
    BY <1>0, <2>1, <2>2
    DEF IsValidAssetScanTransition, assetScanStatusStateTransitions, Ended, Early, StateOf,
        Active, Absent
  <2>4. \A b \in Assets : /\ Ended(b) => Ended(b)'
                          /\ StateOf(b) \notin Early => StateOf(b)' \notin Early
                          /\ assetScan'[b].cleanup = assetScan[b].cleanup
    BY <2>2, <2>3 DEF Ended, StateOf
  <2>5. ScannerView'
    BY <1>1, <2>4 DEF AwInv, ScannerView, Gone
  <2>6. Active' \subseteq Active \cup {a}
    BY <2>2 DEF Active, StateOf
  <2>7. ParallelBound'
    <3>1. CASE to # "Scheduled"
      <4>1. Active' \subseteq Active
        BY <2>3, <2>6, <3>1
      <4> QED BY <4>1, FiniteActive, AssetScanAssumption DEF AwInv, ParallelBound
    <3>2. CASE to = "Scheduled"
      <4>1. IsFiniteSet(Active) /\ Cardinality(Active) \in Nat
        BY FiniteActive
      <4>2. /\ IsFiniteSet(Active \cup {a})
            /\ Cardinality(Active \cup {a}) <= Cardinality(Active) + 1
        <5>1. /\ IsFiniteSet(Active \cup {a})
              /\ Cardinality(Active \cup {a}) = (IF a \in Active THEN Cardinality(Active)
                                                ELSE Cardinality(Active) + 1)
          BY <4>1, FS_AddElement
        <5> QED BY <4>1, <5>1
      <4>3. Cardinality(Active') <= Cardinality(Active \cup {a}) /\ Cardinality(Active') \in Nat
        BY <2>6, <4>2, FS_Subset, FS_CardinalityType
      <4>4. Cardinality(Active \cup {a}) \in Nat /\ Cardinality(Active) < MaxParallelScanners
        BY <1>0, <2>1, <3>2, <4>2, FS_CardinalityType
      <4> QED BY <4>1, <4>2, <4>3, <4>4, AssetScanAssumption DEF ParallelBound
    <3> QED BY <3>1, <3>2
  <2> QED BY <1>2, <2>5, <2>7 DEF AwInv
<1> QED BY <1>3, <1>4 DEF AwPatchState, RefusesState

LEMMA AwCleanupKeepsAwInv ==
    ASSUME Types, AwInv, AwPatchCleanup
    PROVE  AwInv'
<1>0. /\ assetScan \in [Assets -> AssetScanRecords]
      /\ aw.asset \in Assets /\ Ended(aw.asset)
      /\ aw.to = "Done" => Gone(aw.asset)
  BY DEF Types, AssetScanTypes, AwHasAsset, AwPatchCleanup, AwInv, AwView
<1>1. UNCHANGED <<resources, scanner>> /\ aw'.phase = "idle"
  BY AwIdleTypes DEF AwPatchCleanup
<1>2. AwView'
  BY <1>1 DEF AwView
<1>3. CASE UNCHANGED assetScan
  BY <1>1, <1>2, <1>3 DEF AwInv, ScannerView, Gone, Ended, StateOf, ParallelBound, Active
<1>4. CASE /\ IsValidCleanupTransition(assetScan[aw.asset].cleanup, aw.to)
           /\ assetScan' = [assetScan EXCEPT ![aw.asset].cleanup = aw.to]
  <2>1. PICK a \in Assets, to \in CleanupStates : a = aw.asset /\ to = aw.to
    BY <1>0, <1>4 DEF IsValidCleanupTransition, resourceCleanupStatusStateTransitions,
                      CleanupStates, AssetScanRecords
  <2>2. /\ assetScan'[a].cleanup = to
        /\ assetScan'[a].state = assetScan[a].state
        /\ \A b \in Assets \ {a} : assetScan'[b] = assetScan[b]
    BY <1>0, <1>4, <2>1, PatchedCleanup DEF StateOf
  <2>3. \A b \in Assets : StateOf(b)' = StateOf(b) /\ (Ended(b) => Ended(b)')
    BY <2>2 DEF StateOf, Ended
  <2>4. ScannerView'
    BY <1>0, <1>1, <2>1, <2>2, <2>3 DEF AwInv, ScannerView, Gone
  <2>5. a \notin Active'
    BY <1>0, <2>1, <2>3 DEF Active, Ended
  <2>6. Active' \subseteq Active
    BY <2>2, <2>5 DEF Active, StateOf
  <2>7. ParallelBound'
    BY <2>6, FiniteActive, AssetScanAssumption DEF AwInv, ParallelBound
  <2> QED BY <1>2, <2>4, <2>7 DEF AwInv
<1> QED BY <1>3, <1>4 DEF AwPatchCleanup

LEMMA NextAwInv ==
    ASSUME Types, AwInv, [Next]_vars
    PROVE  AwInv'
<1>0. assetScan \in [Assets -> AssetScanRecords]
  BY DEF Types, AssetScanTypes
<1>1. CASE AssetScanNext
  <2>1. ASSUME NEW a \in Assets, AbortTimeoutPasses(a) PROVE AwInv'
    BY <2>1, UnchangedIsQuiet, QuietKeepsAwInv DEF AbortTimeoutPasses
  <2>2. ASSUME NEW a \in Assets, ScannerStep(a) \/ ScannerDies(a) PROVE AwInv'
    BY <2>2, ScannerKeepsAwInv
  <2> QED BY <1>1, <2>1, <2>2, AwDecidesKeepsAwInv, AwPatchKeepsAwInv, AwCleanupKeepsAwInv
          DEF AssetScanNext, AwReconciles
<1>2. ASSUME UNCHANGED avars PROVE AwInv'
  BY <1>2, UnchangedIsQuiet, QuietKeepsAwInv DEF avars
<1>3. CASE \/ SwGet \/ SwTimesOut \/ SwSkips \/ SwPending \/ SwDiscovered \/ SwCreated \/ SwInProgress
           \/ SwAborted \/ SwAbortsDone \/ SwPatches \/ UserAborts \/ TimeoutPasses
           \/ (\E a \in Assets : SwChecksErr(a)) \/ UNCHANGED vars
  BY <1>2, <1>3
  DEF SwGet, SwTimesOut, SwSkips, SwPending, SwDiscovered, SwCreated, SwInProgress, SwAborted,
      SwAbortsDone, SwPatches, UserAborts, TimeoutPasses, SwChecksErr, vars
<1>4. CASE SwGivesUp
  BY <1>4, UnchangedIsQuiet, QuietKeepsAwInv DEF SwGivesUp
<1>5. ASSUME NEW a \in Assets, SwCreates(a) \/ SwCreateFails(a) PROVE AwInv'
  <2>1. UNCHANGED <<aw, resources, scanner>>
    BY <1>5 DEF SwCreates, SwCreateFails
  <2>2. \A b \in Assets : QuietMove(b)
    BY <1>0, <1>5, PostIsQuiet, UnchangedIsQuiet DEF SwCreates, SwCreateFails
  <2> QED BY <2>1, <2>2, QuietKeepsAwInv
<1>6. ASSUME NEW a \in Assets, SwAborts(a) \/ SwAbortFails(a) PROVE AwInv'
  <2>1. UNCHANGED <<aw, resources, scanner>>
    BY <1>6 DEF SwAborts, SwAbortFails
  <2>2. \A b \in Assets : QuietMove(b)
    BY <1>0, <1>6, PatchIsQuiet, UnchangedIsQuiet DEF SwAborts, SwAbortFails, RefusesState
  <2> QED BY <2>1, <2>2, QuietKeepsAwInv
<1> QED BY <1>1, <1>3, <1>4, <1>5, <1>6 DEF Next, SwReconciles

\* The types and the watcher's invariant together are inductive.
LEMMA AwInvariant == Spec => [](Types /\ AwInv)
BY InitTypes, NextTypes, InitAwInv, NextAwInv, PTL DEF Spec

\* No more than MaxParallelScanners AssetScans hold a slot, with the count and the
\* patch in separate calls (watcher.go:193-237).
THEOREM SlotsAreBounded == Spec => []ParallelBound
BY AwInvariant, PTL DEF AwInv

\* What was cleaned up stays gone (watcher.go:262-303, 377-405).
THEOREM CleanupIsFinal == Spec => []CleanedUpForGood
<1>1. AwInv => CleanedUpForGood
  BY DEF AwInv, ScannerView, CleanedUpForGood, Gone
<1> QED BY <1>1, AwInvariant, PTL
-----------------------------------------------------------------------------
(* The life of one AssetScan.  The Scan watcher, the AssetScan watcher and *)
(* the scanner write it independently, each from what it read before.      *)

\* Families run only for an AssetScan that is InProgress, or was until somebody
\* ended it, and one is a success only when its scanner has reported and left.
Scanned ==
    \A a \in Assets :
        /\ scanner[a] \in {"running", "finished"} =>
             StateOf(a) \in {"InProgress", "Aborted", "Failed"} /\ assetScan[a].stats
        /\ StateOf(a) = "InProgress" => assetScan[a].stats
        /\ StateOf(a) = "Done" => scanner[a] = "exited" /\ assetScan[a].stats

\* An AssetScan ends once, an abort is answered by Failed only, and it is Done
\* only by the scanner whose families ran while it was InProgress.  Its resources
\* are created while it is Scheduled, never for one that was aborted or is over,
\* although RunAssetScan acts on a status that was read before, and they are
\* removed when it is over and not cleaned up, once
\* (assetscan/watcher.go:239-303, 311-416, cli/state/vmclarity.go:81-155).
LivesOnce(a) ==
    /\ Ended(a) => StateOf(a)' = StateOf(a)
    /\ StateOf(a) = "Aborted" => StateOf(a)' \in {"Aborted", "Failed"}
    /\ StateOf(a)' = "Done" =>
         \/ StateOf(a) = "Done"
         \/ StateOf(a) = "InProgress" /\ scanner[a] = "finished"
    /\ assetScan[a].cleanup # "Pending" => assetScan'[a].cleanup = assetScan[a].cleanup
    /\ a \in resources' \ resources => StateOf(a) = "Scheduled"
    /\ a \in resources \ resources' => Ended(a) /\ assetScan[a].cleanup = "Pending"

EachLivesOnce == [][\A a \in Assets : LivesOnce(a)]_vars

\* What a step of the system makes of one AssetScan.
SameResources(b) == b \in resources' <=> b \in resources
SameBut(b, field) ==
    /\ field # "state" => StateOf(b)' = StateOf(b)
    /\ field # "cleanup" => assetScan'[b].cleanup = assetScan[b].cleanup
    /\ assetScan'[b].stats = assetScan[b].stats

Left(b) == assetScan'[b] = assetScan[b] /\ scanner'[b] = scanner[b] /\ SameResources(b)

Moved(b) ==
    /\ SameResources(b) /\ SameBut(b, "state") /\ scanner'[b] = scanner[b]
    /\ \/ StateOf(b) = Absent /\ StateOf(b)' = "Pending"
       \/ /\ StateOf(b)' \in {"Scheduled", "ReadyToScan", "Aborted", "Failed"}
          /\ IsValidAssetScanTransition(StateOf(b), StateOf(b)')

Provisioned(b) ==
    /\ assetScan'[b] = assetScan[b] /\ StateOf(b) = "Scheduled"
    /\ b \in resources => b \in resources'
    /\ scanner'[b] = scanner[b] \/ (scanner[b] = "none" /\ scanner'[b] = "waiting")

Deprovisioned(b) ==
    /\ assetScan'[b] = assetScan[b] /\ Ended(b) /\ assetScan[b].cleanup = "Pending"
    /\ b \in resources' => b \in resources
    /\ scanner'[b] = IF scanner[b] = "panicked" THEN "panicked" ELSE "exited"

CleanupNoted(b) ==
    /\ SameResources(b) /\ SameBut(b, "cleanup") /\ scanner'[b] = scanner[b]
    /\ IsValidCleanupTransition(assetScan[b].cleanup, assetScan'[b].cleanup)

ScannerWorked(b) ==
    /\ SameResources(b) /\ assetScan'[b] = assetScan[b]
    /\ scanner[b] # "exited"
    /\ scanner'[b] \in {"running", "finished"} => scanner[b] = "running"

ScannerReported(b) ==
    /\ SameResources(b) /\ assetScan'[b].cleanup = assetScan[b].cleanup
    /\ IsValidAssetScanTransition(StateOf(b), StateOf(b)')
    /\ \/ /\ scanner[b] = "ready" /\ scanner'[b] = "running"
          /\ StateOf(b)' = "InProgress" /\ assetScan'[b].stats
       \/ /\ scanner[b] = "finished" /\ scanner'[b] = "exited"
          /\ StateOf(b)' = "Done" /\ SameBut(b, "state")
       \/ /\ scanner[b] = "failing" /\ scanner'[b] = "exited"
          /\ StateOf(b)' = "Failed" /\ SameBut(b, "state")

AssetStep(b) ==
    \/ Left(b) \/ Moved(b) \/ Provisioned(b) \/ Deprovisioned(b) \/ CleanupNoted(b)
    \/ ScannerWorked(b) \/ ScannerReported(b)

LEMMA AllLeft ==
    ASSUME UNCHANGED <<assetScan, scanner, resources>>, NEW b \in Assets
    PROVE  AssetStep(b)
BY DEF AssetStep, Left, SameResources

\* Whoever patches a state but the scanner.
LEMMA PatchMoves ==
    ASSUME assetScan \in [Assets -> AssetScanRecords], UNCHANGED <<scanner, resources>>,
           NEW a \in Assets, NEW to \in {"Scheduled", "ReadyToScan", "Aborted", "Failed"},
           PatchState(a, to), NEW b \in Assets
    PROVE  AssetStep(b)
<1>1. to \in AssetScanStates
  BY DEF AssetScanStates
<1>2. /\ StateOf(a)' = to
      /\ assetScan'[a].cleanup = assetScan[a].cleanup
      /\ assetScan'[a].stats = assetScan[a].stats
      /\ \A c \in Assets \ {a} : assetScan'[c] = assetScan[c]
  BY <1>1, PatchedState DEF PatchState
<1>3. IsValidAssetScanTransition(StateOf(a), to)
  BY DEF PatchState
<1>4. Moved(a)
  BY <1>2, <1>3 DEF Moved, SameBut, SameResources
<1>5. b # a => Left(b)
  BY <1>2 DEF Left, SameResources
<1> QED BY <1>4, <1>5 DEF AssetStep

LEMMA PostMoves ==
    ASSUME assetScan \in [Assets -> AssetScanRecords], UNCHANGED <<scanner, resources>>,
           NEW a \in Assets, PostAssetScan(a), NEW b \in Assets
    PROVE  AssetStep(b)
<1>1. CASE assetScan' = assetScan
  BY <1>1, AllLeft
<1>2. CASE StateOf(a) = Absent /\ StateOf(a)' = "Pending"
  <2>1. Moved(a)
    BY <1>2, PostedAssetScan DEF Moved, SameBut, SameResources
  <2>2. b # a => Left(b)
    BY PostedAssetScan DEF Left, SameResources
  <2> QED BY <2>1, <2>2 DEF AssetStep
<1> QED BY <1>1, <1>2, PostedAssetScan

\* The scanner's own steps.
LEMMA ScannerMoves ==
    ASSUME Types, NEW a \in Assets, ScannerStep(a) \/ ScannerDies(a), NEW b \in Assets
    PROVE  AssetStep(b)
<1>0. /\ assetScan \in [Assets -> AssetScanRecords]
      /\ scanner \in [Assets -> ScannerPhases]
  BY DEF Types, AssetScanTypes
<1>1. UNCHANGED resources
  BY DEF ScannerStep, WaitForReadyState, MountFails, FamiliesRun, MarkInProgress, MarkDone,
         MarkFailed, ScannerGoes, ScannerDies
<1>2. PICK to \in ScannerPhases : scanner' = [scanner EXCEPT ![a] = to]
  BY DEF ScannerStep, WaitForReadyState, MountFails, FamiliesRun, MarkInProgress, MarkDone,
         MarkFailed, ScannerGoes, ScannerDies, ScannerPhases
<1>3. scanner'[a] = to /\ \A c \in Assets \ {a} : scanner'[c] = scanner[c]
  BY <1>0, <1>2
<1>4. CASE UNCHANGED assetScan
  <2>1. b # a => Left(b)
    BY <1>1, <1>3, <1>4 DEF Left, SameResources
  <2>2. CASE MarkInProgress(a) /\ RefusesState(a, "InProgress")
    <3>1. ScannerGoes(a, "ready", "exited") \/ ScannerGoes(a, "ready", "running")
      BY <2>2 DEF MarkInProgress
    <3>2. CASE ScannerGoes(a, "ready", "exited")
      <4>1. ScannerWorked(a)
        BY <1>0, <1>1, <1>4, <3>2 DEF ScannerWorked, SameResources, ScannerGoes
      <4> QED BY <2>1, <4>1 DEF AssetStep
    <3>3. CASE ~ScannerGoes(a, "ready", "exited")
      BY <2>2, <3>3 DEF MarkInProgress, RefusesState
    <3> QED BY <3>2, <3>3
  <2>3. CASE \/ WaitForReadyState(a) \/ MountFails(a) \/ FamiliesRun(a) \/ ScannerDies(a)
             \/ MarkFailed(a) \/ MarkDone(a)
    <3>1. ScannerWorked(a)
      BY <1>0, <1>1, <1>4, <2>3
      DEF WaitForReadyState, MountFails, FamiliesRun, ScannerDies, MarkFailed, MarkDone,
          ScannerGoes, ScannerWorked, SameResources
    <3> QED BY <2>1, <3>1 DEF AssetStep
  <2>4. CASE MarkInProgress(a) /\ ~RefusesState(a, "InProgress")
    <3>1. /\ scanner[a] = "ready" /\ scanner'[a] = "running"
          /\ IsValidAssetScanTransition(StateOf(a), "InProgress")
          /\ assetScan' = [assetScan EXCEPT ![a].state = "InProgress", ![a].stats = TRUE]
      BY <1>0, <2>4 DEF MarkInProgress, ScannerGoes
    <3>2. /\ StateOf(a)' = "InProgress"
          /\ assetScan'[a].cleanup = assetScan[a].cleanup
          /\ assetScan'[a].stats = TRUE
      BY <1>0, <3>1, MarkedInProgress
    <3>3. ScannerReported(a)
      BY <1>1, <3>1, <3>2 DEF ScannerReported, SameResources
    <3> QED BY <2>1, <3>3 DEF AssetStep
  <2> QED BY <2>2, <2>3, <2>4 DEF ScannerStep
<1>5. CASE MarkInProgress(a) /\ ~UNCHANGED assetScan
  <2>1. /\ scanner[a] = "ready" /\ scanner'[a] = "running"
        /\ IsValidAssetScanTransition(StateOf(a), "InProgress")
        /\ assetScan' = [assetScan EXCEPT ![a].state = "InProgress", ![a].stats = TRUE]
    BY <1>0, <1>5 DEF MarkInProgress, ScannerGoes, RefusesState
  <2>2. /\ StateOf(a)' = "InProgress"
        /\ assetScan'[a].cleanup = assetScan[a].cleanup
        /\ assetScan'[a].stats = TRUE
        /\ \A c \in Assets \ {a} : assetScan'[c] = assetScan[c]
    BY <1>0, <2>1, MarkedInProgress
  <2>3. ScannerReported(a)
    BY <1>1, <2>1, <2>2 DEF ScannerReported, SameResources
  <2>4. b # a => Left(b)
    BY <1>1, <1>3, <2>2 DEF Left, SameResources
  <2> QED BY <2>3, <2>4 DEF AssetStep
<1>6. CASE (MarkDone(a) \/ MarkFailed(a)) /\ ~UNCHANGED assetScan
  <2>1. \/ PatchState(a, "Done") /\ scanner[a] = "finished" /\ scanner'[a] = "exited"
        \/ PatchState(a, "Failed") /\ scanner[a] = "failing" /\ scanner'[a] = "exited"
    BY <1>0, <1>6 DEF MarkDone, MarkFailed, ScannerGoes, RefusesState
  <2>2. PICK s \in {"Done", "Failed"} :
          /\ PatchState(a, s) /\ scanner'[a] = "exited"
          /\ scanner[a] = IF s = "Done" THEN "finished" ELSE "failing"
    BY <2>1
  <2>3. s \in AssetScanStates
    BY DEF AssetScanStates
  <2>4. /\ StateOf(a)' = s
        /\ assetScan'[a].cleanup = assetScan[a].cleanup
        /\ assetScan'[a].stats = assetScan[a].stats
        /\ \A c \in Assets \ {a} : assetScan'[c] = assetScan[c]
        /\ IsValidAssetScanTransition(StateOf(a), s)
    BY <1>0, <2>2, <2>3, PatchedState DEF PatchState
  <2>5. ScannerReported(a)
    BY <1>1, <2>2, <2>4 DEF ScannerReported, SameResources, SameBut
  <2>6. b # a => Left(b)
    BY <1>1, <1>3, <2>4 DEF Left, SameResources
  <2> QED BY <2>5, <2>6 DEF AssetStep
<1> QED BY <1>4, <1>5, <1>6
    DEF ScannerStep, WaitForReadyState, MountFails, FamiliesRun, ScannerDies

\* The AssetScan watcher's steps, which rest on AwView.
LEMMA AwMoves ==
    ASSUME Types, AwInv, AwReconciles \/ AwGivesUp \/ \E a \in Assets : AwGet(a), NEW b \in Assets
    PROVE  AssetStep(b)
<1>0. /\ assetScan \in [Assets -> AssetScanRecords]
      /\ scanner \in [Assets -> ScannerPhases]
      /\ resources \in SUBSET Assets
      /\ aw.phase # "idle" => aw.asset \in Assets
  BY DEF Types, AssetScanTypes, AwHasAsset
<1>1. CASE AwPending \/ AwReadyOrInProgress \/ AwAborted \/ AwGivesUp \/ \E a \in Assets : AwGet(a)
  <2>1. UNCHANGED <<assetScan, scanner, resources>>
    BY <1>1 DEF AwPending, AwReadyOrInProgress, AwAborted, AwGivesUp, AwGet
  <2> QED BY <2>1, AllLeft
<1>2. CASE AwScheduled
  <2>1. aw.asset \in Assets /\ StateOf(aw.asset) = "Scheduled" /\ UNCHANGED assetScan
    BY <1>0, <1>2 DEF AwScheduled, AwSaw, AwInv, AwView
  <2>2. /\ resources' \in {resources, resources \cup {aw.asset}}
        /\ \/ scanner' = scanner
           \/ scanner[aw.asset] = "none" /\ scanner' = [scanner EXCEPT ![aw.asset] = "waiting"]
    BY <1>2 DEF AwScheduled, Provision
  <2>3. Provisioned(aw.asset)
    BY <1>0, <2>1, <2>2 DEF Provisioned
  <2>4. b # aw.asset => Left(b)
    BY <1>0, <2>1, <2>2 DEF Left, SameResources
  <2> QED BY <2>3, <2>4 DEF AssetStep
<1>3. CASE AwEnded
  <2>1. /\ aw.asset \in Assets /\ Ended(aw.asset) /\ UNCHANGED assetScan
    BY <1>0, <1>3 DEF AwEnded, AwSaw, AwInv, AwView, Ended
  <2>2. CASE UNCHANGED <<scanner, resources>>
    BY <2>1, <2>2, AllLeft
  <2>3. CASE /\ assetScan[aw.asset].cleanup = "Pending"
             /\ StopScanner(aw.asset)
             /\ resources' \in {resources, resources \ {aw.asset}}
    <3>1. Deprovisioned(aw.asset)
      BY <1>0, <2>1, <2>3 DEF StopScanner, Deprovisioned
    <3>2. b # aw.asset => Left(b)
      BY <1>0, <2>1, <2>3 DEF StopScanner, Left, SameResources
    <3> QED BY <3>1, <3>2 DEF AssetStep
  <2> QED BY <1>3, <2>2, <2>3 DEF AwEnded, Deprovision
<1>4. CASE AwPatchState
  <2>1. /\ aw.asset \in Assets /\ aw.to \in {"Scheduled", "ReadyToScan", "Failed"}
        /\ UNCHANGED <<scanner, resources>>
    BY <1>0, <1>4 DEF AwPatchState, AwInv, AwView
  <2>2. CASE UNCHANGED assetScan
    BY <2>1, <2>2, AllLeft
  <2>3. CASE PatchState(aw.asset, aw.to)
    BY <1>0, <2>1, <2>3, PatchMoves
  <2> QED BY <1>4, <2>2, <2>3 DEF AwPatchState, RefusesState
<1>5. CASE AwPatchCleanup
  <2>1. aw.asset \in Assets /\ UNCHANGED <<scanner, resources>>
    BY <1>0, <1>5 DEF AwPatchCleanup
  <2>2. CASE UNCHANGED assetScan
    BY <2>1, <2>2, AllLeft
  <2>3. CASE /\ IsValidCleanupTransition(assetScan[aw.asset].cleanup, aw.to)
             /\ assetScan' = [assetScan EXCEPT ![aw.asset].cleanup = aw.to]
    <3>1. PICK a \in Assets, to \in CleanupStates : a = aw.asset /\ to = aw.to
      BY <1>0, <2>1, <2>3 DEF IsValidCleanupTransition, resourceCleanupStatusStateTransitions,
                              CleanupStates, AssetScanRecords
    <3>2. /\ assetScan'[a].cleanup = to
          /\ StateOf(a)' = StateOf(a)
          /\ assetScan'[a].stats = assetScan[a].stats
          /\ \A c \in Assets \ {a} : assetScan'[c] = assetScan[c]
      BY <1>0, <2>3, <3>1, PatchedCleanup
    <3>3. CleanupNoted(a)
      BY <2>1, <2>3, <3>1, <3>2 DEF CleanupNoted, SameBut, SameResources
    <3>4. b # a => Left(b)
      BY <2>1, <3>2 DEF Left, SameResources
    <3> QED BY <3>3, <3>4 DEF AssetStep
  <2> QED BY <1>5, <2>2, <2>3 DEF AwPatchCleanup
<1> QED BY <1>1, <1>2, <1>3, <1>4, <1>5 DEF AwReconciles

LEMMA AssetSteps ==
    ASSUME Types, AwInv, [Next]_vars, NEW b \in Assets
    PROVE  AssetStep(b)
<1>0. assetScan \in [Assets -> AssetScanRecords]
  BY DEF Types, AssetScanTypes
<1>1. CASE AssetScanNext
  <2>1. ASSUME NEW a \in Assets, AbortTimeoutPasses(a) PROVE AssetStep(b)
    BY <2>1, AllLeft DEF AbortTimeoutPasses
  <2> QED BY <1>1, <2>1, AwMoves, ScannerMoves DEF AssetScanNext
<1>2. CASE \/ SwGet \/ SwTimesOut \/ SwSkips \/ SwPending \/ SwDiscovered \/ SwCreated \/ SwInProgress
           \/ SwAborted \/ SwAbortsDone \/ SwPatches \/ SwGivesUp \/ UserAborts \/ TimeoutPasses
           \/ (\E a \in Assets : SwChecksErr(a)) \/ UNCHANGED vars
  <2>1. UNCHANGED <<assetScan, scanner, resources>>
    BY <1>2
    DEF SwGet, SwTimesOut, SwSkips, SwPending, SwDiscovered, SwCreated, SwInProgress, SwAborted,
        SwAbortsDone, SwPatches, SwGivesUp, UserAborts, TimeoutPasses, SwChecksErr, vars, avars
  <2> QED BY <2>1, AllLeft
<1>3. ASSUME NEW a \in Assets, SwCreates(a) \/ SwCreateFails(a) PROVE AssetStep(b)
  <2>1. UNCHANGED <<scanner, resources>> /\ (PostAssetScan(a) \/ UNCHANGED assetScan)
    BY <1>3 DEF SwCreates, SwCreateFails
  <2> QED BY <1>0, <2>1, PostMoves, AllLeft
<1>4. ASSUME NEW a \in Assets, SwAborts(a) \/ SwAbortFails(a) PROVE AssetStep(b)
  <2>1. UNCHANGED <<scanner, resources>> /\ (PatchState(a, "Aborted") \/ UNCHANGED assetScan)
    BY <1>4 DEF SwAborts, SwAbortFails, RefusesState
  <2> QED BY <1>0, <2>1, PatchMoves, AllLeft
<1> QED BY <1>1, <1>2, <1>3, <1>4 DEF Next, SwReconciles

LEMMA StepKeepsScanned ==
    ASSUME Types, AwInv, Scanned, NEW a \in Assets, AssetStep(a)
    PROVE  /\ scanner'[a] \in {"running", "finished"} =>
                StateOf(a)' \in {"InProgress", "Aborted", "Failed"} /\ assetScan'[a].stats
           /\ StateOf(a)' = "InProgress" => assetScan'[a].stats
           /\ StateOf(a)' = "Done" => scanner'[a] = "exited" /\ assetScan'[a].stats
<1> USE DEF IsValidAssetScanTransition, assetScanStatusStateTransitions, Absent
<1>0. /\ scanner[a] \in {"running", "finished"} =>
           StateOf(a) \in {"InProgress", "Aborted", "Failed"} /\ assetScan[a].stats
      /\ StateOf(a) = "InProgress" => assetScan[a].stats
      /\ StateOf(a) = "Done" => scanner[a] = "exited" /\ assetScan[a].stats
  BY DEF Scanned
<1>1. CASE Left(a)
  BY <1>0, <1>1 DEF Left, StateOf
<1>2. CASE Moved(a)
  BY <1>0, <1>2 DEF Moved, SameBut
<1>3. CASE Provisioned(a)
  BY <1>0, <1>3 DEF Provisioned, StateOf
<1>4. CASE Deprovisioned(a)
  BY <1>0, <1>4 DEF Deprovisioned, StateOf, Ended
<1>5. CASE CleanupNoted(a)
  BY <1>0, <1>5 DEF CleanupNoted, SameBut
<1>6. CASE ScannerWorked(a)
  BY <1>0, <1>6 DEF ScannerWorked, StateOf
<1>7. CASE ScannerReported(a)
  BY <1>0, <1>7 DEF ScannerReported, SameBut
<1> QED BY <1>1, <1>2, <1>3, <1>4, <1>5, <1>6, <1>7 DEF AssetStep

LEMMA StepLivesOnce ==
    ASSUME Types, Scanned, NEW a \in Assets, AssetStep(a)
    PROVE  LivesOnce(a)
<1> USE DEF IsValidAssetScanTransition, assetScanStatusStateTransitions, Absent, LivesOnce, Ended
<1>0. scanner[a] = "finished" => StateOf(a) \in {"InProgress", "Aborted", "Failed"}
  BY DEF Scanned
<1>1. CASE Left(a)
  BY <1>1 DEF Left, StateOf, SameResources
<1>2. CASE Moved(a)
  BY <1>2 DEF Moved, SameBut, SameResources
<1>3. CASE Provisioned(a)
  BY <1>3 DEF Provisioned, StateOf
<1>4. CASE Deprovisioned(a)
  BY <1>4 DEF Deprovisioned, StateOf
<1>5. CASE CleanupNoted(a)
  BY <1>5 DEF CleanupNoted, SameBut, SameResources, IsValidCleanupTransition,
              resourceCleanupStatusStateTransitions
<1>6. CASE ScannerWorked(a)
  BY <1>6 DEF ScannerWorked, StateOf, SameResources
<1>7. CASE ScannerReported(a)
  BY <1>0, <1>7 DEF ScannerReported, SameBut, SameResources
<1> QED BY <1>1, <1>2, <1>3, <1>4, <1>5, <1>6, <1>7 DEF AssetStep

\* A success was scanned: its scanner started, ran its families and is gone
\* (cli/state/vmclarity.go:81-155).
THEOREM DoneIsScanned == Spec => []Scanned
<1>1. Init => Scanned
  BY DEF Init, AssetScanInit, Scanned, StateOf, Absent
<1>2. Types /\ AwInv /\ Scanned /\ [Next]_vars => Scanned'
  <2> SUFFICES ASSUME Types, AwInv, Scanned, [Next]_vars PROVE Scanned'
    OBVIOUS
  <2>1. \A a \in Assets : AssetStep(a)
    BY AssetSteps
  <2> QED BY <2>1, StepKeepsScanned DEF Scanned
<1> QED BY <1>1, <1>2, AwInvariant, PTL DEF Spec

\* Every AssetScan lives once, whoever writes it and whatever was read before
\* (assetscan/watcher.go:239-303, 311-416).
THEOREM EachLivesOnceHolds == Spec => EachLivesOnce
<1>1. Types /\ AwInv /\ Scanned /\ [Next]_vars => [\A a \in Assets : LivesOnce(a)]_vars
  BY AssetSteps, StepLivesOnce
<1> QED BY <1>1, AwInvariant, DoneIsScanned, PTL DEF Spec, EachLivesOnce
=============================================================================
