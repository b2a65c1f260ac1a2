---------------------------- MODULE ScannerProofs ----------------------------
(***************************************************************************)
(* Safety of the scanner for any number of families, whatever they work    *)
(* on, and any number of faults.                                           *)
(***************************************************************************)
EXTENDS Scanner, TLAPS

InLoop == main.phase \in {"FamilyStarted", "select", "FamilyFinished"}

\* A PATCH is under way.
Sending == main.phase \in Updating /\ main.call \in {"patch", "save"}

(***************************************************************************)
(* The goroutines of the families.  One that Run no longer waits for was   *)
(* abandoned, and Run starts none after it.                                *)
(***************************************************************************)

StartsNone ==
    \/ ~Alive
    \/ cancelled /\ \/ main.phase = "MarkFailed"
                    \/ main.phase = "FamilyStarted" /\ main.call = "get"

OneWorker ==
    /\ \A f \in Families : worker[f].st # "none" =>
         StartsNone \/ (main.phase = "select" /\ main.family = f)
    /\ \A f, g \in Families : worker[f].st # "none" /\ worker[g].st # "none" => f = g

\* What a goroutine runs is the family it was started for while Run waits for it.
Running ==
    /\ \A f \in Families : worker[f].st = "running" => worker[f].runs = f \/ StartsNone
    /\ main.phase = "select" /\ worker[main.family].st \in {"running", "ended"} =>
         worker[main.family].runs = main.family
    /\ \A f \in Families : worker[f].st = "ended" /\ worker[f].ok => HasInput(worker[f].runs)

Starts == main.phase = "FamilyStarted" /\ main.call = "reply" /\ main.ok

Announced ==
    Starts \/ main.phase = "select" =>
        assetScan.family[main.family] = "InProgress" \/ disordered

LoopView == OneWorker /\ Running /\ Announced

Types == TypeOK /\ (InLoop => main.family \in Families)

(***************************************************************************)
(* The AssetScan as this scanner alone wrote it.                           *)
(***************************************************************************)

Undisturbed == faults = 0 /\ ~aborted

AbortSeen == cancelled \/ watcher = "cancelling" \/ assetScan.state = "Aborted" => aborted

\* No call was given up so far.
Calm == ~errs \/ Undisturbed

Alone ==
    main.phase # "lost" /\ Calm =>
        /\ late = {}
        /\ Sending => main.held.family = assetScan.family

\* The family has results, of results if it needs some, and the scan says so.
Good(scan, f) ==
    /\ f \in results /\ HasInput(f)
    /\ scan.family[f] = "Done" \/ (scan.family[f] = "Failed" /\ faults > 0)

\* What Run has done so far if it has no errors to report.
Reported ==
    /\ Alive /\ ~errs =>
         /\ InLoop => \A f \in 1..(main.family - 1) : Good(assetScan, f)
         /\ main.phase = "FamilyFinished" =>
              /\ main.family \in results /\ HasInput(main.family)
              /\ main.call # "reply" => main.ok \/ faults > 0
              /\ main.call = "reply" /\ main.ok => Good(assetScan, main.family)
    /\ main.phase = "MarkDone" => ~errs /\ \A f \in Families : Good(assetScan, f)

Progress ==
    /\ main.phase \in {"wait", "mount", "MarkInProgress"} => main.family = 0
    /\ Reported

\* Done is the last the scanner writes.
NotDoneYet ==
    /\ Alive => \A r \in late : r.patch.state # "Done"
    /\ Alive /\ assetScan.state = "Done" => main.phase = "MarkDone" /\ main.call = "reply"
    /\ Sending => main.held.state # "Done"

LateDone ==
    \A r \in late : r.patch.state = "Done" => \A f \in Families : Good(r.patch, f)

DoneView == AbortSeen /\ Alone /\ Progress /\ NotDoneYet /\ LateDone /\ DoneMeansAllDone

(***************************************************************************)
(* An undisturbed scan.                                                    *)
(***************************************************************************)

Told(f) == assetScan.family[f] \in {"Done", "Failed"}

\* The state of the AssetScan at each step of RunE.
StateAt ==
    CASE main.phase = "wait" ->
           assetScan.state \in {"Scheduled", "ReadyToScan", "Failed"} /\ ~assetScan.stats
      [] main.phase = "mount" -> assetScan.state = "ReadyToScan" /\ ~assetScan.stats
      [] main.phase = "MarkInProgress" ->
           IF main.call = "reply" THEN main.ok /\ assetScan.state = "InProgress" /\ assetScan.stats
           ELSE assetScan.state = "ReadyToScan"
      [] InLoop ->
           /\ assetScan.state = "InProgress" /\ assetScan.stats
           /\ Sending => main.held.state = "InProgress" /\ main.held.stats
           /\ main.phase # "select" /\ main.call = "reply" => main.ok
      [] main.phase = "MarkDone" ->
           IF main.call = "reply" THEN main.ok /\ assetScan.state = "Done"
           ELSE assetScan.state = "InProgress"
      [] main.phase = "MarkFailed" ->
           CASE main.call = "reply" -> main.ok /\ assetScan.state = "Failed"
             [] main.call = "get" /\ ~assetScan.stats -> assetScan.state = "Failed"
             [] OTHER -> assetScan.state = "InProgress"
      [] main.phase = "panicked" -> assetScan.state = "Failed"
      [] main.phase = "exited" -> assetScan.state \in {"Done", "Failed"}
      [] OTHER -> TRUE

\* The families it has told of.
ToldSoFar ==
    /\ InLoop => \A f \in 1..(main.family - 1) : Told(f)
    /\ main.phase = "FamilyFinished" /\ main.call = "reply" => Told(main.family)
    /\ main.phase = "MarkFailed" /\ main.call = "get" /\ assetScan.stats =>
         \A f \in Families : Told(f)
    /\ main.phase = "MarkFailed" /\ main.call # "get" => \A f \in Families : Told(f)
    /\ main.phase \in {"MarkDone", "exited"} => \A f \in Families : Told(f)

Steady == Undisturbed /\ main.phase # "lost"

EndView ==
    Steady =>
        /\ others \in {"ReadyToScan", "Failed"} =>
             main.phase = "wait" /\ assetScan.state = "Scheduled"
        /\ StateAt
        /\ ToldSoFar

\* While no PATCH overtook another, what the server checked still holds.
OrderView ==
    ~disordered =>
        /\ others # "none" => IsValidAssetScanTransition(assetScan.state, others)
        /\ main.phase \in Updating /\ main.call = "save" => Accepts(Patched, OfFamily)
        /\ Sending => main.held.stats = assetScan.stats
        /\ Sending /\ main.phase = "MarkFailed" => main.held.stats
        /\ aborted => assetScan.state \in {"Aborted", "Failed"}
-----------------------------------------------------------------------------
(* Types.                                                                  *)

LEMMA ConstantTypes ==
    NFamilies \in Nat /\ MaxFaults \in Nat /\ Families = 1..NFamilies
BY ScannerAssumption DEF Families

LEMMA PatchedType ==
    ASSUME TypeOK, main.phase \in Updating PROVE Patched \in AssetScans
<1>1. main.held \in AssetScans
  BY DEF TypeOK, Mains
<1>2. CASE main.phase \in {"MarkInProgress", "MarkDone", "MarkFailed"}
  BY <1>1, <1>2 DEF Patched, AssetScans, AssetScanStates
<1>3. CASE main.phase \in {"FamilyStarted", "FamilyFinished"}
  BY <1>1, <1>3 DEF Patched, AssetScans
<1> QED
  BY <1>2, <1>3 DEF Updating

LEMMA NextFamilyType ==
    ASSUME TypeOK, NEW failed \in BOOLEAN, NextFamily(failed)
    PROVE  /\ main'.phase \in {"FamilyStarted", "MarkFailed", "MarkDone"}
           /\ main'.call = "get"
           /\ main'.family \in 0..NFamilies
           /\ main' = [main EXCEPT !.phase = main'.phase, !.call = "get",
                                   !.family = main'.family]
<1>1. main.family \in 0..NFamilies /\ NFamilies \in Nat
  BY ConstantTypes DEF TypeOK, Mains
<1>2. (IF main.family < NFamilies THEN main.family + 1 ELSE main.family) \in 0..NFamilies
  BY <1>1
<1> QED
  BY <1>2 DEF TypeOK, Mains, NextFamily

LEMMA FaultType == ASSUME TypeOK, Fault PROVE faults' \in 0..MaxFaults
BY ConstantTypes DEF TypeOK, Fault

LEMMA InitType == Init => Types
<1> SUFFICES ASSUME Init PROVE Types
  OBVIOUS
<1>0. ~InLoop
  BY DEF Init, InLoop
<1>1. assetScan \in AssetScans
  BY DEF Init, AssetScans, AssetScanStates
<1>2. main.family \in 0..NFamilies
  BY ConstantTypes DEF Init
<1>3. main \in Mains
  BY <1>1, <1>2 DEF Init, Mains, MainPhases
<1>4. worker \in [Families -> Workers]
  BY ConstantTypes DEF Init, Workers
<1>5. faults \in 0..MaxFaults
  BY ConstantTypes DEF Init
<1> QED
  BY <1>0, <1>1, <1>3, <1>4, <1>5 DEF Init, TypeOK, Types

LEMMA NextFamilyMain ==
    ASSUME TypeOK, NEW failed \in BOOLEAN, NextFamily(failed) PROVE main' \in Mains
<1>1. /\ main'.phase \in {"FamilyStarted", "MarkFailed", "MarkDone"}
      /\ main'.family \in 0..NFamilies
      /\ main' = [main EXCEPT !.phase = main'.phase, !.call = "get", !.family = main'.family]
  BY NextFamilyType
<1>2. main \in Mains
  BY DEF TypeOK
<1> QED
  BY <1>1, <1>2 DEF Mains, MainPhases, Updating

LEMMA GoesMain ==
    ASSUME TypeOK, NEW phase \in MainPhases, Goes(phase) PROVE main' \in Mains
<1>1. main \in Mains
  BY DEF TypeOK
<1> QED
  BY <1>1 DEF Mains, Goes

LEMMA FailsType ==
    ASSUME TypeOK, NEW over \in {"exited", "lost"}, Fails(over)
    PROVE  main' \in Mains /\ errs' \in BOOLEAN /\ worker' = worker
<1>1. CASE OfFamily
  BY <1>1, NextFamilyMain DEF Fails
<1>2. CASE ~OfFamily
  <2>1. over \in MainPhases
    BY DEF MainPhases, Over
  <2> QED
    BY <1>2, <2>1, GoesMain DEF TypeOK, Fails
<1> QED
  BY <1>1, <1>2

LEMMA SucceedsType ==
    ASSUME TypeOK, main.phase \in Updating, Succeeds
    PROVE  main' \in Mains /\ errs' \in BOOLEAN /\ worker' \in [Families -> Workers]
<1>1. CASE main.phase \in {"MarkInProgress", "FamilyFinished"}
  <2>1. NextFamily(errs) /\ UNCHANGED <<worker, errs>>
    BY <1>1 DEF Succeeds
  <2> QED
    BY <2>1, NextFamilyMain DEF TypeOK
<1>2. CASE main.phase = "FamilyStarted"
  BY <1>2 DEF TypeOK, Succeeds, Mains, MainPhases, Workers
<1>3. CASE main.phase \in {"MarkDone", "MarkFailed"}
  <2>1. Goes("exited") /\ UNCHANGED <<worker, errs>>
    BY <1>3 DEF Succeeds
  <2>2. "exited" \in MainPhases
    BY DEF MainPhases, Over
  <2> QED
    BY <2>1, <2>2, GoesMain DEF TypeOK
<1> QED
  BY <1>1, <1>2, <1>3 DEF Updating

LEMMA LeavesPatchType == ASSUME TypeOK, LeavesPatch PROVE late' \subseteq LatePatches
<1>1. CASE Sending
  <2>1. [patch |-> Patched, repeats |-> OfFamily, checked |-> main.call = "save"]
          \in LatePatches
    BY <1>1, PatchedType DEF LatePatches, Sending, OfFamily
  <2> QED
    BY <1>1, <2>1 DEF TypeOK, LeavesPatch, Sending
<1>2. CASE ~Sending
  BY <1>2 DEF TypeOK, LeavesPatch, Sending
<1> QED
  BY <1>1, <1>2

LEMMA MainStepTypes == ASSUME Types, MainSteps \/ CallFails PROVE TypeOK'
<1>0. TypeOK
  BY DEF Types
<1> USE <1>0 DEF TypeOK
<1>1. CASE WaitForReadyState
  BY <1>1, GoesMain DEF WaitForReadyState, MainPhases, Updating, server
<1>2. CASE MountVolumes
  BY <1>2, GoesMain, FaultType DEF MountVolumes, MainPhases, Updating, server
<1>3. CASE GetAssetScan
  <2>1. main' \in Mains
    BY <1>3 DEF GetAssetScan, Mains, MainPhases, Over
  <2> QED
    BY <1>3, <2>1 DEF GetAssetScan, server
<1>4. CASE PatchAssetScan
  <2>1. main' \in Mains
    BY <1>4 DEF PatchAssetScan, Mains
  <2> QED
    BY <1>4, <2>1 DEF PatchAssetScan, server
<1>5. CASE UpdateAssetScan
  <2>1. main' \in Mains
    BY <1>5 DEF UpdateAssetScan, Mains
  <2>2. assetScan' \in AssetScans /\ aborted' \in BOOLEAN
    BY <1>5, PatchedType DEF UpdateAssetScan, Saves
  <2>3. disordered' \in BOOLEAN
    BY <1>5 DEF UpdateAssetScan
  <2> QED
    BY <1>5, <2>1, <2>2, <2>3 DEF UpdateAssetScan
<1>6. CASE Reply
  BY <1>6, SucceedsType, FailsType DEF Reply, server
<1>7. ASSUME GivesUp, UNCHANGED faults \/ Fault PROVE TypeOK'
  BY <1>7, FailsType, LeavesPatchType, FaultType DEF GivesUp
<1>8. CASE ReceivesResult
  <2>1. main.family \in Families
    BY <1>8 DEF Types, InLoop, ReceivesResult
  <2>2. main' \in Mains
    BY <1>8 DEF ReceivesResult, Mains, MainPhases, Updating
  <2>3. worker' \in [Families -> Workers] /\ results' \subseteq Families
    BY <1>8, <2>1 DEF ReceivesResult, Workers
  <2>4. errs' \in BOOLEAN
    BY <1>8, <2>1 DEF ReceivesResult, Workers
  <2>5. faults' \in 0..MaxFaults
    BY <1>8, FaultType DEF ReceivesResult
  <2> QED
    BY <1>8, <2>2, <2>3, <2>4, <2>5 DEF ReceivesResult, server
<1>9. CASE Abandons
  BY <1>9, NextFamilyMain DEF Abandons, server
<1> QED
  BY <1>1, <1>2, <1>3, <1>4, <1>5, <1>6, <1>7, <1>8, <1>9
  DEF MainSteps, CallCancelled, CallFails

LEMMA OtherStepTypes ==
    ASSUME Types,
           \/ WatcherSteps \/ Dies \/ OthersPatch \/ OthersSave \/ LatePatch \/ LateSave
           \/ \E f \in Families : WorkerBegins(f) \/ WorkerEnds(f)
    PROVE  TypeOK'
<1>0. TypeOK
  BY DEF Types
<1> USE <1>0 DEF TypeOK
<1>1. CASE WatcherSteps
  BY <1>1 DEF WatcherSteps, IsAborted, Cancels, server
<1>2. CASE Dies
  <2>1. main' \in Mains
    BY <1>2, GoesMain DEF Dies, MainPhases, Over
  <2> QED
    BY <1>2, <2>1, LeavesPatchType, FaultType DEF Dies
<1>3. CASE OthersPatch
  BY <1>3 DEF OthersPatch
<1>4. CASE OthersSave
  <2>1. assetScan' \in AssetScans /\ aborted' \in BOOLEAN
    BY <1>4 DEF OthersSave, Saves, AssetScans, AssetScanStates
  <2>2. disordered' \in BOOLEAN
    BY <1>4 DEF OthersSave
  <2> QED
    BY <1>4, <2>1, <2>2 DEF OthersSave
<1>5. CASE LatePatch
  <2>1. late' \subseteq LatePatches
    BY <1>5 DEF LatePatch, LatePatches
  <2> QED
    BY <1>5, <2>1 DEF LatePatch
<1>6. CASE LateSave
  BY <1>6 DEF LateSave, Saves, LatePatches
<1>7. ASSUME NEW f \in Families, WorkerBegins(f) \/ WorkerEnds(f) PROVE TypeOK'
  <2>1. worker' \in [Families -> Workers]
    BY <1>7 DEF WorkerBegins, WorkerEnds, Workers, Mains
  <2> QED
    BY <1>7, <2>1 DEF WorkerBegins, WorkerEnds, server
<1> QED
  BY <1>1, <1>2, <1>3, <1>4, <1>5, <1>6, <1>7

\* How RunE moves on.
LEMMA NextFamilyMoves ==
    ASSUME Types, NEW failed \in BOOLEAN, NextFamily(failed)
    PROVE  /\ main'.call = "get" /\ main'.ok = main.ok
           /\ main'.family \in 0..NFamilies
           /\ \/ /\ main'.phase = "FamilyStarted"
                 /\ main'.family \in Families /\ main'.family = main.family + 1
              \/ main'.phase = "MarkFailed" /\ failed /\ main.family = NFamilies
              \/ main'.phase = "MarkDone" /\ ~failed /\ main.family = NFamilies
<1>1. main \in Mains /\ main.family \in 0..NFamilies /\ NFamilies \in Nat
  BY ConstantTypes DEF Types, TypeOK, Mains
<1>2. CASE main.family < NFamilies
  <2>1. main' = [main EXCEPT !.call = "get", !.family = main.family + 1,
                             !.phase = "FamilyStarted"]
    BY <1>1, <1>2 DEF NextFamily
  <2> QED
    BY <1>1, <1>2, <2>1, ConstantTypes DEF Mains
<1>3. CASE ~(main.family < NFamilies)
  <2>1. main' = [main EXCEPT !.call = "get",
                             !.phase = IF failed THEN "MarkFailed" ELSE "MarkDone"]
    BY <1>1, <1>3 DEF NextFamily, Mains
  <2> QED
    BY <1>1, <1>3, <2>1, ConstantTypes DEF Mains
<1> QED
  BY <1>2, <1>3

LEMMA InLoopStep == ASSUME Types, Next PROVE InLoop' => main'.family \in Families
<1>0. main \in Mains /\ errs \in BOOLEAN
  BY DEF Types, TypeOK
<1>1. ASSUME NEW failed \in BOOLEAN, NextFamily(failed)
      PROVE  InLoop' => main'.family \in Families
  BY <1>1, NextFamilyMoves DEF InLoop
<1>2. ASSUME NEW over \in {"exited", "lost"}, Fails(over)
      PROVE  InLoop' => main'.family \in Families
  BY <1>0, <1>1, <1>2 DEF Fails, Goes, InLoop, Mains
<1>3. CASE Reply
  <2>1. CASE Succeeds
    BY <1>0, <1>1, <2>1, <1>3 DEF Types, Reply, Succeeds, Goes, InLoop, Mains, Updating
  <2> QED
    BY <1>2, <1>3, <2>1 DEF Reply
<1>4. CASE GivesUp
  BY <1>2, <1>4 DEF GivesUp
<1>5. CASE Abandons
  BY <1>1, <1>5 DEF Abandons
<1>6. CASE WaitForReadyState \/ MountVolumes \/ Dies
  BY <1>0, <1>6 DEF WaitForReadyState, MountVolumes, Dies, Goes, InLoop, Mains
<1>7. CASE GetAssetScan \/ PatchAssetScan \/ UpdateAssetScan \/ ReceivesResult
  BY <1>0, <1>7 DEF Types, GetAssetScan, PatchAssetScan, UpdateAssetScan, ReceivesResult,
                    InLoop, Mains
<1>8. CASE UNCHANGED main
  BY <1>8 DEF Types, InLoop
<1> QED
  BY <1>3, <1>4, <1>5, <1>6, <1>7, <1>8
  DEF Next, MainSteps, CallCancelled, CallFails, WatcherSteps, IsAborted, Cancels,
      OthersPatch, OthersSave, LatePatch, LateSave, WorkerBegins, WorkerEnds

LEMMA NextTypes == Types /\ [Next]_vars => Types'
<1> SUFFICES ASSUME Types, [Next]_vars PROVE Types'
  OBVIOUS
<1>1. CASE Next
  BY <1>1, MainStepTypes, OtherStepTypes, InLoopStep DEF Next, Types
<1>2. CASE UNCHANGED vars
  BY <1>2 DEF vars, server, Types, TypeOK, InLoop
<1> QED
  BY <1>1, <1>2
-----------------------------------------------------------------------------
(* One family at a time.                                                   *)

Quiet == \A f \in Families : worker[f].st = "none"

\* Without a goroutine there is nothing to show.
LEMMA QuietIsFine ==
    ASSUME Types, Quiet, worker' = worker PROVE OneWorker'
BY DEF Quiet, OneWorker

\* Only while Run waits, or once it is stopping, is there a goroutine.
LEMMA WhenQuiet ==
    ASSUME OneWorker, ~StartsNone, main.phase # "select" PROVE Quiet
BY DEF OneWorker, Quiet

\* A step that leaves the goroutines alone, after which none is started.
LEMMA Stopping ==
    ASSUME OneWorker, worker' = worker, StartsNone' PROVE OneWorker'
BY DEF OneWorker

LEMMA GivesUpKeepsOne ==
    ASSUME Types, OneWorker, NEW over \in {"exited", "lost"}, Fails(over),
           main.phase \in Updating, cancelled' = cancelled
    PROVE  OneWorker'
<1>0. main \in Mains
  BY DEF Types, TypeOK
<1>1. CASE OfFamily
  <2>1. /\ main'.phase \in {"FamilyStarted", "MarkFailed"} /\ main'.call = "get"
    BY <1>1, NextFamilyMoves DEF Fails
  <2>2. CASE cancelled
    <3>1. StartsNone'
      BY <1>1, <2>1, <2>2 DEF StartsNone, Fails
    <3> QED
      BY <3>1, Stopping DEF Fails
  <2>3. CASE ~cancelled
    <3>1. ~StartsNone /\ main.phase # "select"
      BY <1>1, <2>3 DEF OfFamily, StartsNone, Alive, Over
    <3> QED
      BY <3>1, WhenQuiet, QuietIsFine DEF Fails
  <2> QED
    BY <2>2, <2>3
<1>2. CASE ~OfFamily
  <2>1. main'.phase \in Over
    BY <1>0, <1>2 DEF Fails, Goes, Mains, Over
  <2>2. StartsNone'
    BY <2>1 DEF StartsNone, Alive
  <2> QED
    BY <2>2, Stopping DEF Fails
<1> QED
  BY <1>1, <1>2

LEMMA ReplyKeepsOne == ASSUME Types, OneWorker, Reply PROVE OneWorker'
<1>0. main \in Mains /\ errs \in BOOLEAN /\ worker \in [Families -> Workers]
  BY DEF Types, TypeOK
<1>1. CASE Succeeds
  <2>1. CASE main.phase = "FamilyStarted"
    <3>1. Quiet
      BY <1>1, <2>1, WhenQuiet DEF Reply, StartsNone, Alive, Over
    <3>2. /\ main'.phase = "select" /\ main'.family = main.family
          /\ worker' = [worker EXCEPT ![main.family].st = "starting"]
      BY <1>0, <1>1, <2>1 DEF Succeeds, Mains
    <3>3. main.family \in Families
      BY <2>1 DEF Types, InLoop
    <3>4. \A f \in Families : worker'[f].st # "none" => f = main.family
      BY <1>0, <3>1, <3>2, <3>3 DEF Quiet, Workers
    <3> QED
      BY <3>2, <3>4 DEF OneWorker
  <2>2. CASE main.phase \in {"MarkInProgress", "FamilyFinished"}
    <3>1. Quiet
      BY <2>2, WhenQuiet DEF StartsNone, Alive, Over
    <3>2. worker' = worker
      BY <1>1, <2>2 DEF Succeeds
    <3> QED
      BY <3>1, <3>2, QuietIsFine
  <2>3. CASE main.phase \in {"MarkDone", "MarkFailed"}
    <3>1. worker' = worker /\ main'.phase = "exited"
      BY <1>0, <1>1, <2>3 DEF Succeeds, Goes, Mains
    <3>2. StartsNone'
      BY <3>1 DEF StartsNone, Alive, Over
    <3> QED
      BY <3>1, <3>2, Stopping
  <2> QED
    BY <2>1, <2>2, <2>3 DEF Reply, Updating
<1>2. CASE Fails("exited")
  BY <1>2, GivesUpKeepsOne DEF Reply
<1> QED
  BY <1>1, <1>2 DEF Reply

LEMMA NextOneWorker == ASSUME Types, OneWorker, Next PROVE OneWorker'
<1>0. /\ main \in Mains /\ worker \in [Families -> Workers]
      /\ InLoop => main.family \in Families
  BY DEF Types, TypeOK
<1>1. CASE WaitForReadyState \/ MountVolumes
  <2>1. Quiet
    BY <1>1, WhenQuiet DEF WaitForReadyState, MountVolumes, StartsNone, Alive, Over
  <2> QED
    BY <1>1, <2>1, QuietIsFine DEF WaitForReadyState, MountVolumes
<1>2. CASE GetAssetScan
  <2>1. CASE main.phase = "MarkFailed"
    BY <1>0, <1>2, <2>1 DEF GetAssetScan, OneWorker, StartsNone, Alive, Over, Mains
  <2>2. CASE main.phase # "MarkFailed"
    <3>1. Quiet
      BY <1>2, <2>2, WhenQuiet
      DEF GetAssetScan, StartsNone, Alive, Over, Updating, Hindered, OfFamily
    <3> QED
      BY <1>2, <3>1, QuietIsFine DEF GetAssetScan
  <2> QED
    BY <2>1, <2>2
<1>3. CASE PatchAssetScan \/ UpdateAssetScan
  <2>1. CASE main.phase = "MarkFailed"
    <3>1. main'.phase = "MarkFailed" /\ worker' = worker /\ cancelled' = cancelled
      BY <1>0, <1>3, <2>1 DEF PatchAssetScan, UpdateAssetScan, Mains
    <3> QED
      BY <2>1, <3>1 DEF OneWorker, StartsNone, Alive
  <2>2. CASE main.phase # "MarkFailed"
    <3>1. Quiet
      BY <1>3, <2>2, WhenQuiet
      DEF PatchAssetScan, UpdateAssetScan, StartsNone, Alive, Over, Updating
    <3> QED
      BY <1>3, <3>1, QuietIsFine DEF PatchAssetScan, UpdateAssetScan
  <2> QED
    BY <2>1, <2>2
<1>4. CASE Reply
  BY <1>4, ReplyKeepsOne
<1>5. CASE CallCancelled \/ CallFails
  BY <1>5, GivesUpKeepsOne DEF CallCancelled, CallFails, GivesUp, Hindered, OfFamily, Updating
<1>6. CASE ReceivesResult
  <2>1. main.family \in Families
    BY <1>0, <1>6 DEF ReceivesResult, InLoop
  <2>2. \A f \in Families : worker[f].st # "none" => f = main.family
    BY <1>6 DEF ReceivesResult, OneWorker, StartsNone, Alive, Over
  <2>3. Quiet'
    BY <1>0, <1>6, <2>1, <2>2 DEF ReceivesResult, Quiet, Workers
  <2> QED
    BY <2>3 DEF Quiet, OneWorker
<1>7. CASE Abandons
  <2>1. main'.phase \in {"FamilyStarted", "MarkFailed"} /\ main'.call = "get" /\ cancelled'
    BY <1>7, NextFamilyMoves DEF Abandons
  <2>2. StartsNone'
    BY <2>1 DEF StartsNone
  <2> QED
    BY <1>7, <2>2, Stopping DEF Abandons
<1>8. CASE Dies
  <2>1. main'.phase = "lost"
    BY <1>0, <1>8 DEF Dies, Goes, Mains
  <2>2. StartsNone'
    BY <2>1 DEF StartsNone, Alive, Over
  <2> QED
    BY <1>8, <2>2, Stopping DEF Dies
<1>9. ASSUME NEW f \in Families, WorkerBegins(f) \/ WorkerEnds(f) PROVE OneWorker'
  <2>1. /\ UNCHANGED <<main, cancelled>>
        /\ \A g \in Families : worker'[g].st # "none" => worker[g].st # "none"
    BY <1>0, <1>9 DEF WorkerBegins, WorkerEnds, Workers
  <2> QED
    BY <2>1 DEF OneWorker, StartsNone, Alive
<1>10. CASE UNCHANGED <<main, worker>> /\ (cancelled => cancelled')
  BY <1>10 DEF OneWorker, StartsNone, Alive
<1> QED
  BY <1>1, <1>2, <1>3, <1>4, <1>5, <1>6, <1>7, <1>8, <1>9, <1>10
  DEF Next, MainSteps, WatcherSteps, IsAborted, Cancels,
      OthersPatch, OthersSave, LatePatch, LateSave

LEMMA StaysStopped == ASSUME Types, StartsNone, Next PROVE StartsNone'
<1>0. main \in Mains
  BY DEF Types, TypeOK
<1>1. CASE ~Alive
  <2>1. UNCHANGED main
    BY <1>1 DEF Next, MainSteps, WaitForReadyState, MountVolumes, GetAssetScan,
      PatchAssetScan, UpdateAssetScan, Reply, CallCancelled, CallFails, ReceivesResult,
      Abandons, Dies, WatcherSteps, IsAborted, Cancels, OthersPatch, OthersSave,
      LatePatch, LateSave, WorkerBegins, WorkerEnds, Alive, Over, Updating, Hindered, OfFamily
  <2> QED
    BY <1>1, <2>1 DEF StartsNone, Alive
<1>2. CASE Alive
  <2>1. /\ cancelled
        /\ main.phase = "MarkFailed" \/ (main.phase = "FamilyStarted" /\ main.call = "get")
    BY <1>2 DEF StartsNone
  <2>2. CASE GetAssetScan \/ PatchAssetScan \/ UpdateAssetScan
    <3>1. main.phase = "MarkFailed" /\ cancelled'
      BY <2>1, <2>2 DEF GetAssetScan, PatchAssetScan, UpdateAssetScan, Hindered, OfFamily
    <3>2. main'.phase \in {"MarkFailed", "panicked"}
      BY <1>0, <2>2, <3>1 DEF GetAssetScan, PatchAssetScan, UpdateAssetScan, Mains
    <3> QED
      BY <3>1, <3>2 DEF StartsNone, Alive, Over
  <2>3. CASE Reply
    <3>1. main.phase = "MarkFailed"
      BY <2>1, <2>3 DEF Reply
    <3>2. Goes("exited")
      BY <2>3, <3>1 DEF Reply, Succeeds, Fails, OfFamily
    <3>3. main'.phase = "exited"
      BY <1>0, <3>2 DEF Goes, Mains
    <3> QED
      BY <3>3 DEF StartsNone, Alive, Over
  <2>4. CASE CallCancelled \/ CallFails
    <3>1. Fails("lost") /\ cancelled' = cancelled
      BY <2>4 DEF CallCancelled, CallFails, GivesUp
    <3>2. CASE OfFamily
      <4>1. main'.phase \in {"FamilyStarted", "MarkFailed"} /\ main'.call = "get"
        BY <3>1, <3>2, NextFamilyMoves DEF Fails
      <4> QED
        BY <2>1, <3>1, <4>1 DEF StartsNone
    <3>3. CASE ~OfFamily
      <4>1. main'.phase = "lost"
        BY <1>0, <3>1, <3>3 DEF Fails, Goes, Mains
      <4> QED
        BY <4>1 DEF StartsNone, Alive, Over
    <3> QED
      BY <3>2, <3>3
  <2>5. CASE Dies
    <3>1. main'.phase = "lost"
      BY <1>0, <2>5 DEF Dies, Goes, Mains
    <3> QED
      BY <3>1 DEF StartsNone, Alive, Over
  <2>6. CASE UNCHANGED main /\ cancelled'
    BY <2>1, <2>6 DEF StartsNone
  <2> QED
    BY <2>1, <2>2, <2>3, <2>4, <2>5, <2>6
    DEF Next, MainSteps, WaitForReadyState, MountVolumes, ReceivesResult, Abandons,
        WatcherSteps, IsAborted, Cancels, OthersPatch, OthersSave,
        LatePatch, LateSave, WorkerBegins, WorkerEnds
<1> QED
  BY <1>1, <1>2

\* Who starts a goroutine, and who takes it off.
LEMMA WorkerMoves ==
    ASSUME Types, Next
    PROVE  \/ worker' = worker
           \/ /\ main.phase = "FamilyStarted" /\ main'.phase = "select"
              /\ main'.family = main.family /\ main.family \in Families
              /\ worker' = [worker EXCEPT ![main.family].st = "starting"]
           \/ ReceivesResult
           \/ \E f \in Families : WorkerBegins(f) \/ WorkerEnds(f)
<1>0. main \in Mains /\ (InLoop => main.family \in Families)
  BY DEF Types, TypeOK
<1>1. CASE Reply
  BY <1>0, <1>1 DEF Reply, Succeeds, Fails, Updating, InLoop, Mains
<1> QED
  BY <1>1 DEF Next, MainSteps, WaitForReadyState, MountVolumes, GetAssetScan, PatchAssetScan,
    UpdateAssetScan, CallCancelled, CallFails, GivesUp, Fails, Abandons, Dies, WatcherSteps,
    IsAborted, Cancels, OthersPatch, OthersSave, LatePatch, LateSave

\* RunE waits for a goroutine it has just started, or still waits.
LEMMA SelectMoves ==
    ASSUME Types, Next, main'.phase = "select"
    PROVE  /\ main'.family = main.family
           /\ \/ main.phase = "select" /\ main' = main
              \/ /\ main.phase = "FamilyStarted" /\ main.call = "reply" /\ main.ok
                 /\ worker' = [worker EXCEPT ![main.family].st = "starting"]
                 /\ UNCHANGED <<assetScan, disordered, results>>
<1>0. main \in Mains /\ errs \in BOOLEAN
  BY DEF Types, TypeOK
<1>1. ASSUME NEW failed \in BOOLEAN, NextFamily(failed) PROVE FALSE
  BY <1>1, NextFamilyMoves
<1>2. ASSUME NEW over \in {"exited", "lost"}, Fails(over) PROVE FALSE
  BY <1>0, <1>1, <1>2 DEF Fails, Goes, Mains
<1>3. CASE Reply
  <2>1. Succeeds /\ main.ok
    BY <1>2, <1>3 DEF Reply
  <2>2. main.phase = "FamilyStarted"
    BY <1>0, <1>1, <1>3, <2>1, ZenonT(40) DEF Reply, Succeeds, Updating, Goes, Mains
  <2> QED
    BY <1>0, <1>3, <2>1, <2>2 DEF Reply, Succeeds, Mains, server
<1>4. CASE CallCancelled \/ CallFails
  BY <1>2, <1>4 DEF CallCancelled, CallFails, GivesUp
<1>5. CASE WaitForReadyState \/ MountVolumes \/ GetAssetScan \/ PatchAssetScan \/ UpdateAssetScan
           \/ ReceivesResult \/ Dies
  BY <1>0, <1>5 DEF WaitForReadyState, MountVolumes, GetAssetScan, PatchAssetScan,
    UpdateAssetScan, ReceivesResult, Dies, Goes, Mains, Updating
<1>6. CASE Abandons
  BY <1>1, <1>6 DEF Abandons
<1>7. CASE UNCHANGED main
  BY <1>7
<1> QED
  BY <1>3, <1>4, <1>5, <1>6, <1>7
  DEF Next, MainSteps, WatcherSteps, IsAborted, Cancels, OthersPatch, OthersSave, LatePatch,
    LateSave, WorkerBegins, WorkerEnds

LEMMA ResultsGrow == ASSUME Types, Next PROVE results \subseteq results'
BY DEF Next, MainSteps, WaitForReadyState, MountVolumes, GetAssetScan, PatchAssetScan,
  UpdateAssetScan, Reply, CallCancelled, CallFails, GivesUp, ReceivesResult, Abandons, Dies,
  WatcherSteps, IsAborted, Cancels, OthersPatch, OthersSave, LatePatch, LateSave,
  WorkerBegins, WorkerEnds

LEMMA NextRunning == ASSUME Types, OneWorker, Running, Next PROVE Running'
<1>0. /\ main \in Mains /\ worker \in [Families -> Workers]
      /\ InLoop => main.family \in Families
  BY DEF Types, TypeOK
<1>1. \A f \in Families : worker'[f].st = "running" =>
        worker'[f].runs = f \/ StartsNone'
  <2> SUFFICES ASSUME NEW f \in Families, worker'[f].st = "running", ~StartsNone'
               PROVE  worker'[f].runs = f
    OBVIOUS
  <2>1. ~StartsNone
    BY StaysStopped
  <2>2. CASE worker[f].st = "running"
    <3>1. worker'[f].runs = worker[f].runs
      <4>1. ASSUME NEW h \in Families, NEW st,
                   worker' = [worker EXCEPT ![h].st = st]
            PROVE  worker'[f].runs = worker[f].runs
        BY <1>0, <4>1 DEF Workers
      <4>2. CASE main.family \in Families
                 /\ worker' = [worker EXCEPT ![main.family].st = "starting"]
        BY <4>1, <4>2
      <4>3. CASE ReceivesResult
        <5>1. worker' = [worker EXCEPT ![main.family].st = "none"]
          BY <4>3 DEF ReceivesResult
        <5>2. main.family \in Families
          BY <1>0, <4>3 DEF ReceivesResult, InLoop
        <5> QED
          BY <4>1, <5>1, <5>2
      <4>4. ASSUME NEW g \in Families, WorkerBegins(g)
            PROVE  worker'[f].runs = worker[f].runs
        <5>1. g # f
          BY <2>2, <4>4 DEF WorkerBegins
        <5>2. worker' = [worker EXCEPT ![g].st = "running", ![g].runs = main.family]
          BY <4>4 DEF WorkerBegins
        <5> QED
          BY <1>0, <5>1, <5>2
      <4>5. ASSUME NEW g \in Families, WorkerEnds(g)
            PROVE  worker'[f].runs = worker[f].runs
        <5>1. PICK ok \in BOOLEAN : worker' = [worker EXCEPT ![g].st = "ended", ![g].ok = ok]
          BY <4>5 DEF WorkerEnds
        <5> QED
          BY <1>0, <5>1 DEF Workers
      <4> QED
        BY <4>2, <4>3, <4>4, <4>5, WorkerMoves
    <3> QED
      BY <2>1, <2>2, <3>1 DEF Running
  <2>3. CASE worker[f].st # "running"
    <3>1. WorkerBegins(f)
      <4>0. worker' # worker
        BY <2>3
      <4>1. ASSUME ReceivesResult PROVE FALSE
        <5>1. worker' = [worker EXCEPT ![main.family].st = "none"]
          BY <4>1 DEF ReceivesResult
        <5> QED
          BY <1>0, <2>3, <5>1 DEF Workers
      <4>2. PICK g \in Families : WorkerBegins(g) \/ WorkerEnds(g)
        BY <1>0, <2>3, <4>0, <4>1, WorkerMoves DEF Workers
      <4> QED
        BY <1>0, <2>3, <4>2 DEF WorkerBegins, WorkerEnds, Workers
    <3>2. main.family = f
      BY <2>1, <3>1 DEF OneWorker, WorkerBegins
    <3> QED
      BY <1>0, <3>1, <3>2 DEF WorkerBegins
  <2> QED
    BY <2>2, <2>3
<1>2. main'.phase = "select" /\ worker'[main'.family].st \in {"running", "ended"} =>
        worker'[main'.family].runs = main'.family
  <2> SUFFICES ASSUME main'.phase = "select", worker'[main'.family].st \in {"running", "ended"}
               PROVE  worker'[main'.family].runs = main'.family
    OBVIOUS
  <2>1. main'.family = main.family /\ main.family \in Families
    BY <1>0, SelectMoves DEF InLoop
  <2>2. main.phase = "select"
    BY <1>0, <2>1, SelectMoves DEF Workers
  <2>3. main' = main
    BY <2>2, SelectMoves
  <2>4. ~ReceivesResult
    BY <1>0, <2>2, <2>3 DEF ReceivesResult, Mains
  <2>5. CASE worker' = worker
    BY <2>1, <2>2, <2>5 DEF Running
  <2>6. ASSUME NEW f \in Families, WorkerBegins(f) \/ WorkerEnds(f)
        PROVE  worker'[main'.family].runs = main'.family
    BY <1>0, <2>1, <2>2, <2>6 DEF Running, WorkerBegins, WorkerEnds, Workers
  <2> QED
    BY <2>2, <2>4, <2>5, <2>6, WorkerMoves
<1>3. \A f \in Families : worker'[f].st = "ended" /\ worker'[f].ok =>
        HasInput(worker[f].runs)'
  <2> SUFFICES ASSUME NEW f \in Families, worker'[f].st = "ended", worker'[f].ok
               PROVE  HasInput(worker[f].runs)'
    OBVIOUS
  <2>1. HasInput(worker'[f].runs)
    <3>1. CASE worker' = worker
      BY <3>1 DEF Running
    <3>2. CASE ReceivesResult
      <4>1. main.family \in Families /\ worker' = [worker EXCEPT ![main.family].st = "none"]
        BY <1>0, <3>2 DEF ReceivesResult, InLoop
      <4>2. f # main.family
        BY <1>0, <4>1 DEF Workers
      <4>3. worker'[f] = worker[f]
        BY <1>0, <4>1, <4>2
      <4> QED
        BY <4>3 DEF Running
    <3>3. ASSUME NEW g \in Families, WorkerBegins(g) \/ WorkerEnds(g)
          PROVE  HasInput(worker'[f].runs)
      <4>1. CASE f = g
        <5>1. ~WorkerBegins(g)
          BY <1>0, <4>1 DEF WorkerBegins, Workers
        <5>2. PICK ok \in BOOLEAN :
                /\ ok => HasInput(worker[g].runs)
                /\ worker' = [worker EXCEPT ![g].st = "ended", ![g].ok = ok]
          BY <3>3, <5>1 DEF WorkerEnds
        <5>3. worker'[f].ok = ok /\ worker'[f].runs = worker[f].runs
          BY <1>0, <4>1, <5>2 DEF Workers
        <5> QED
          BY <4>1, <5>2, <5>3
      <4>2. CASE f # g
        <5>1. worker'[f] = worker[f]
          BY <1>0, <3>3, <4>2 DEF WorkerBegins, WorkerEnds
        <5> QED
          BY <5>1 DEF Running
      <4> QED
        BY <4>1, <4>2
    <3>4. CASE /\ main.family \in Families
               /\ worker' = [worker EXCEPT ![main.family].st = "starting"]
      <4>1. worker'[f] = worker[f]
        BY <1>0, <3>4 DEF Workers
      <4> QED
        BY <4>1 DEF Running
    <3> QED
      BY <3>1, <3>2, <3>3, <3>4, WorkerMoves
  <2> QED
    BY <2>1, ResultsGrow DEF HasInput
<1> QED
  BY <1>1, <1>2, <1>3 DEF Running

\* Who writes the AssetScan.
LEMMA SaveMoves ==
    ASSUME Types, Next
    PROVE  /\ UNCHANGED <<assetScan, aborted>> \/ UpdateAssetScan \/ OthersSave \/ LateSave
           /\ disordered => disordered'
           /\ disordered' = disordered \/ UpdateAssetScan \/ OthersSave \/ LateSave
BY DEF Types, TypeOK, Next, MainSteps, WaitForReadyState, MountVolumes, GetAssetScan,
  PatchAssetScan, UpdateAssetScan, Reply, CallCancelled, CallFails, GivesUp, ReceivesResult,
  Abandons, Dies, WatcherSteps, IsAborted, Cancels, OthersPatch, OthersSave, LatePatch,
  LateSave, WorkerBegins, WorkerEnds, server

\* What the steps of others leave alone.
LEMMA OthersSaveKeeps ==
    ASSUME Types, OthersSave
    PROVE  assetScan' \in AssetScans /\ assetScan'.family = assetScan.family
           /\ assetScan'.stats = assetScan.stats /\ assetScan'.state = others
           /\ UNCHANGED <<main, results, errs, late, faults>>
<1>1. assetScan \in AssetScans /\ others \in AssetScanStates
  BY DEF Types, TypeOK, OthersSave, AssetScanStates
<1> QED
  BY <1>1 DEF OthersSave, Saves, AssetScans

LEMMA NextAnnounced == ASSUME Types, Announced, Next PROVE Announced'
<1>0. main \in Mains /\ assetScan \in AssetScans /\ (InLoop => main.family \in Families)
  BY DEF Types, TypeOK
<1>1. SUFFICES ASSUME Starts' \/ main'.phase = "select", ~disordered'
               PROVE  assetScan'.family[main'.family] = "InProgress"
  BY DEF Announced
<1>2. ~LateSave
  BY <1>1 DEF LateSave
<1>3. CASE UNCHANGED main
  <2>1. assetScan.family[main.family] = "InProgress"
    BY <1>1, <1>3, SaveMoves DEF Announced, Starts
  <2>2. assetScan'.family = assetScan.family
    BY <1>0, <1>2, <1>3, SaveMoves, OthersSaveKeeps DEF UpdateAssetScan, Mains
  <2> QED
    BY <1>3, <2>1, <2>2
<1>4. CASE main'.phase = "select" /\ main' # main
  <2>1. Starts /\ UNCHANGED <<assetScan, disordered>> /\ main'.family = main.family
    BY <1>4, SelectMoves DEF Starts
  <2> QED
    BY <1>1, <2>1 DEF Announced
<1>5. CASE Starts' /\ main' # main
  <2>1. UpdateAssetScan /\ main.phase = "FamilyStarted" /\ main'.family = main.family
    <3>1. ~Goes("exited") /\ ~Goes("lost") /\ ~Goes("mount") /\ ~Goes("MarkInProgress")
          /\ ~Goes("MarkFailed")
      BY <1>0, <1>5 DEF Goes, Starts, Mains
    <3>2. ASSUME NEW failed \in BOOLEAN, NextFamily(failed) PROVE FALSE
      BY <1>5, <3>2, NextFamilyMoves DEF Starts
    <3>3. ~Succeeds \/ ~Reply
      BY <1>0, <1>5, <3>1, <3>2 DEF Types, TypeOK, Reply, Succeeds, Updating, Starts, Mains
    <3>4. ~Fails("exited") /\ ~Fails("lost")
      BY <3>1, <3>2 DEF Fails
    <3>5. PatchAssetScan => FALSE
      BY <1>0, <1>5 DEF PatchAssetScan, Starts, Mains
    <3>6. UpdateAssetScan
      BY <1>0, <1>5, <3>1, <3>2, <3>3, <3>4, <3>5
      DEF Next, MainSteps, WaitForReadyState, MountVolumes, GetAssetScan, Reply, CallCancelled,
        CallFails, GivesUp, ReceivesResult, Abandons, Dies, WatcherSteps, IsAborted, Cancels,
        OthersPatch, OthersSave, LatePatch, LateSave, WorkerBegins, WorkerEnds, Starts, Mains
    <3> QED
      BY <1>0, <1>5, <3>6 DEF UpdateAssetScan, Starts, Mains
  <2>2. assetScan' = [main.held EXCEPT !.family[main.family] = "InProgress"]
    BY <2>1 DEF UpdateAssetScan, Saves, Patched
  <2>3. main.family \in Families /\ main.held \in AssetScans
    BY <1>0, <2>1 DEF InLoop, Mains
  <2> QED
    BY <2>1, <2>2, <2>3 DEF AssetScans
<1> QED
  BY <1>1, <1>3, <1>4, <1>5

LEMMA InitLoopView == Init => LoopView
BY DEF Init, LoopView, OneWorker, Running, Announced, Starts

LEMMA NextLoopView == Types /\ LoopView /\ [Next]_vars => LoopView'
<1> SUFFICES ASSUME Types, LoopView, [Next]_vars PROVE LoopView'
  OBVIOUS
<1>1. CASE Next
  BY <1>1, NextOneWorker, NextRunning, NextAnnounced DEF LoopView
<1>2. CASE UNCHANGED vars
  BY <1>2 DEF vars, server, LoopView, OneWorker, Running, Announced, Starts, StartsNone,
              Alive, HasInput
<1> QED
  BY <1>1, <1>2

LEMMA LoopViewIsEnough == LoopView => OneFamilyAtATime
BY DEF LoopView, OneWorker, Running, Announced, StartsNone, OneFamilyAtATime, Busy

LEMMA ScannerTypes == Spec => []Types
BY InitType, NextTypes, PTL DEF Spec

\* Families run one at a time, in order and announced, for any number of them and
\* whatever is lost: a goroutine that was abandoned is the last one
\* (cli/families/manager.go:112-156).
THEOREM OneFamilyRuns == Spec => []OneFamilyAtATime
<1>1. Types /\ LoopView /\ [Next]_vars => Types' /\ LoopView'
  BY NextTypes, NextLoopView
<1> QED
  BY <1>1, InitType, InitLoopView, LoopViewIsEnough, PTL DEF Spec

\* The types of the scanner's state.
THEOREM ScannerTyped == Spec => []TypeOK
<1>1. Types => TypeOK
  BY DEF Types
<1> QED
  BY <1>1, ScannerTypes, PTL
-----------------------------------------------------------------------------
(* What Done means.                                                        *)

LEMMA NextAbortSeen == ASSUME Types, AbortSeen, Next PROVE AbortSeen'
<1>1. aborted => aborted'
  BY SaveMoves DEF UpdateAssetScan, OthersSave, LateSave, Saves
<1>2. assetScan'.state = "Aborted" => aborted'
  BY <1>1, SaveMoves DEF UpdateAssetScan, OthersSave, LateSave, Saves, AbortSeen
<1>3. cancelled' \/ watcher' = "cancelling" => aborted
  BY DEF AbortSeen, Next, MainSteps, WaitForReadyState, MountVolumes, GetAssetScan,
    PatchAssetScan, UpdateAssetScan, Reply, CallCancelled, CallFails, GivesUp, ReceivesResult,
    Abandons, Dies, WatcherSteps, IsAborted, Cancels, OthersPatch, OthersSave, LatePatch,
    LateSave, WorkerBegins, WorkerEnds
<1> QED
  BY <1>1, <1>2, <1>3 DEF AbortSeen

\* Nothing that went wrong is forgotten.
LEMMA NeverForgotten ==
    ASSUME Types, Next
    PROVE  /\ aborted => aborted'
           /\ faults' \in Nat /\ faults \in Nat /\ faults <= faults'
           /\ errs => errs'
           /\ main.phase \in Over => main' = main
           /\ main.phase \in Over => UNCHANGED <<errs, worker, results, faults>>
<1>0. main \in Mains /\ errs \in BOOLEAN
  BY DEF Types, TypeOK
<1>1. aborted => aborted'
  BY SaveMoves DEF UpdateAssetScan, OthersSave, LateSave, Saves
<1>2. faults \in Nat /\ faults' \in Nat /\ faults <= faults'
  <2>1. UNCHANGED faults \/ Fault
    BY DEF Next, MainSteps, WaitForReadyState, MountVolumes, GetAssetScan, PatchAssetScan,
      UpdateAssetScan, Reply, CallCancelled, CallFails, ReceivesResult, Abandons, Dies,
      WatcherSteps, IsAborted, Cancels, OthersPatch, OthersSave, LatePatch, LateSave,
      WorkerBegins, WorkerEnds
  <2>2. faults \in 0..MaxFaults
    BY DEF Types, TypeOK
  <2> QED
    BY <2>1, <2>2, ConstantTypes DEF Fault
<1>3. ASSUME errs PROVE errs'
  <2>1. ASSUME NEW over \in {"exited", "lost"}, Fails(over) PROVE errs'
    BY <1>3, <2>1 DEF Fails
  <2>2. CASE Reply
    BY <1>3, <2>1, <2>2 DEF Reply, Succeeds, Updating
  <2> QED
    BY <1>3, <2>1, <2>2 DEF Next, MainSteps, WaitForReadyState, MountVolumes, GetAssetScan,
      PatchAssetScan, UpdateAssetScan, CallCancelled, CallFails, GivesUp, ReceivesResult,
      Abandons, Dies, WatcherSteps, IsAborted, Cancels, OthersPatch, OthersSave, LatePatch,
      LateSave, WorkerBegins, WorkerEnds
<1>4. CASE main.phase \in Over
  <2>1. UNCHANGED <<main, errs, worker, results, faults>>
    BY <1>4 DEF Next, MainSteps, WaitForReadyState, MountVolumes, GetAssetScan,
      PatchAssetScan, UpdateAssetScan, Reply, CallCancelled, CallFails, ReceivesResult,
      Abandons, Dies, WatcherSteps, IsAborted, Cancels, OthersPatch, OthersSave,
      LatePatch, LateSave, WorkerBegins, WorkerEnds, Alive, Over, Updating, Hindered, OfFamily
  <2> QED
    BY <1>1, <1>2, <1>3, <2>1
<1> QED
  BY <1>1, <1>2, <1>3, <1>4

LEMMA CalmBefore == ASSUME Types, Next, Calm' PROVE Calm
BY NeverForgotten DEF Calm, Undisturbed

\* What is sent was read before.
LEMMA SendingMoves ==
    ASSUME Types, Next, Sending'
    PROVE  \/ /\ GetAssetScan /\ main'.held = assetScan /\ main'.call = "patch"
              /\ main'.phase = main.phase /\ main'.family = main.family /\ main'.ok = main.ok
           \/ /\ PatchAssetScan /\ main' = [main EXCEPT !.call = "save"]
              /\ Accepts(Patched, OfFamily)
           \/ main' = main /\ Sending
<1>0. main \in Mains
  BY DEF Types, TypeOK
<1>1. ASSUME NEW failed \in BOOLEAN, NextFamily(failed) PROVE FALSE
  BY <1>1, NextFamilyMoves DEF Sending
<1>2. ASSUME NEW phase \in MainPhases, Goes(phase) PROVE FALSE
  BY <1>0, <1>2 DEF Goes, Mains, Sending
<1>3. ASSUME NEW over \in {"exited", "lost"}, Fails(over) PROVE FALSE
  BY <1>1, <1>2, <1>3 DEF Fails, MainPhases, Over
<1>4. CASE Reply
  <2>1. Succeeds
    BY <1>3, <1>4 DEF Reply
  <2>2. CASE main.phase = "FamilyStarted"
    <3>1. main'.phase = "select"
      BY <1>0, <2>1, <2>2 DEF Succeeds, Mains
    <3> QED
      BY <3>1 DEF Sending, Updating
  <2>3. CASE main.phase # "FamilyStarted"
    <3>1. NextFamily(errs) \/ Goes("exited")
      BY <1>4, <2>1, <2>3 DEF Reply, Succeeds, Updating
    <3>2. errs \in BOOLEAN /\ "exited" \in MainPhases
      BY DEF Types, TypeOK, MainPhases, Over
    <3> QED
      BY <1>1, <1>2, <3>1, <3>2
  <2> QED
    BY <2>2, <2>3
<1>5. CASE CallCancelled \/ CallFails
  BY <1>3, <1>5 DEF CallCancelled, CallFails, GivesUp
<1>6. CASE WaitForReadyState \/ MountVolumes \/ Dies
  BY <1>2, <1>6 DEF WaitForReadyState, MountVolumes, Dies, MainPhases, Over, Updating
<1>7. CASE GetAssetScan
  <2>1. main'.phase # "panicked"
    BY DEF Sending, Updating
  <2>2. main' = [main EXCEPT !.call = "patch", !.held = assetScan]
    BY <1>0, <1>7, <2>1 DEF GetAssetScan, Mains
  <2> QED
    BY <1>0, <1>7, <2>2 DEF Mains
<1>8. CASE PatchAssetScan
  BY <1>0, <1>8 DEF PatchAssetScan, Sending, Mains
<1>9. CASE UpdateAssetScan \/ ReceivesResult
  BY <1>0, <1>9 DEF UpdateAssetScan, ReceivesResult, Sending, Mains
<1>10. CASE Abandons
  BY <1>1, <1>10 DEF Abandons
<1>11. CASE UNCHANGED main
  BY <1>11 DEF Sending
<1> QED
  BY <1>4, <1>5, <1>6, <1>7, <1>8, <1>9, <1>10, <1>11
  DEF Next, MainSteps, WatcherSteps, IsAborted, Cancels, OthersPatch, OthersSave, LatePatch,
    LateSave, WorkerBegins, WorkerEnds

\* A PATCH is left to the server by giving it up or by dying.
LEMMA LateMoves ==
    ASSUME Types, Next
    PROVE  \/ late' \subseteq late
           \/ LeavesPatch /\ Sending /\ ((GivesUp /\ (CallCancelled \/ CallFails)) \/ Dies)
           \/ LatePatch
BY DEF Next, MainSteps, WaitForReadyState, MountVolumes, GetAssetScan, PatchAssetScan,
  UpdateAssetScan, Reply, CallCancelled, CallFails, GivesUp, ReceivesResult, Abandons, Dies,
  WatcherSteps, IsAborted, Cancels, OthersPatch, OthersSave, LatePatch, LateSave,
  WorkerBegins, WorkerEnds, server, LeavesPatch, Sending

LEMMA NextAlone == ASSUME Types, AbortSeen, Alone, Next PROVE Alone'
<1>0. main \in Mains /\ (InLoop => main.family \in Families)
  BY DEF Types, TypeOK
<1>1. SUFFICES ASSUME main'.phase # "lost", Calm'
               PROVE  late' = {} /\ (Sending' => main'.held.family = assetScan'.family)
  BY DEF Alone
<1>2. main.phase # "lost" /\ Calm
  BY <1>1, CalmBefore, NeverForgotten DEF Over
<1>3. late = {} /\ (Sending => main.held.family = assetScan.family)
  BY <1>2 DEF Alone
<1>4. ~LateSave /\ ~LatePatch
  BY <1>3 DEF LateSave, LatePatch
<1>5. ~Dies
  BY <1>0, <1>1 DEF Dies, Goes, Mains
<1>6. ~(GivesUp /\ (CallCancelled \/ CallFails))
  <2> SUFFICES ASSUME GivesUp, CallCancelled \/ CallFails PROVE FALSE
    OBVIOUS
  <2>1. CASE OfFamily
    <3>1. errs'
      BY <2>1 DEF GivesUp, Fails
    <3>2. Undisturbed'
      BY <1>1, <3>1 DEF Calm
    <3>3. ~CallFails
      <4>1. faults \in Nat
        BY NeverForgotten
      <4> QED
        BY <3>2, <4>1 DEF CallFails, Fault, Undisturbed
    <3>4. cancelled
      BY <3>3 DEF CallCancelled, Hindered
    <3>5. aborted'
      BY <3>4, NeverForgotten DEF AbortSeen
    <3> QED
      BY <3>2, <3>5 DEF Undisturbed
  <2>2. CASE ~OfFamily
    <3>1. Goes("lost")
      BY <2>2 DEF GivesUp, Fails
    <3> QED
      BY <1>0, <1>1, <3>1 DEF Goes, Mains
  <2> QED
    BY <2>1, <2>2
<1>7. late' = {}
  BY <1>3, <1>4, <1>5, <1>6, LateMoves
<1>8. ASSUME Sending' PROVE main'.held.family = assetScan'.family
  <2>1. CASE GetAssetScan
    BY <2>1, <1>8, SendingMoves DEF GetAssetScan, PatchAssetScan, Sending
  <2>2. CASE PatchAssetScan
    BY <1>0, <1>3, <2>2 DEF PatchAssetScan, Sending, Mains
  <2>3. CASE main' = main /\ Sending
    <3>1. assetScan'.family = assetScan.family
      BY <1>0, <1>4, <2>3, SaveMoves, OthersSaveKeeps DEF UpdateAssetScan, Mains
    <3> QED
      BY <1>3, <2>3, <3>1
  <2> QED
    BY <1>8, <2>1, <2>2, <2>3, SendingMoves
<1> QED
  BY <1>7, <1>8

\* What is good stays so while the scan says so.
LEMMA GoodKept ==
    ASSUME Types, Next, NEW f \in Families, NEW scan, NEW later,
           Good(scan, f), later.family[f] = scan.family[f]
    PROVE  /\ f \in results' /\ (Input[f] = 0 \/ Input[f] \in results')
           /\ later.family[f] = "Done" \/ (later.family[f] = "Failed" /\ faults' > 0)
BY ResultsGrow, NeverForgotten DEF Good, HasInput

\* A call that is given up leaves Run with an error, or ends it.
LEMMA FailsMoves ==
    ASSUME Types, NEW over \in {"exited", "lost"}, Fails(over)
    PROVE  \/ /\ OfFamily /\ errs' /\ main'.phase \in {"FamilyStarted", "MarkFailed"}
              /\ main'.call = "get"
              /\ main'.phase = "FamilyStarted" => main'.family = main.family + 1
              /\ main'.phase = "MarkFailed" => main.family = NFamilies
           \/ ~OfFamily /\ main'.phase = over /\ errs' = errs
<1>1. main \in Mains
  BY DEF Types, TypeOK
<1> QED
  BY <1>1, NextFamilyMoves DEF Fails, Goes, Mains

\* Before the families and after a failure.
LEMMA FirstFamily ==
    ASSUME Types, Progress, Next, main'.phase \in {"wait", "mount", "MarkInProgress"}
    PROVE  main'.family = 0
<1>0. main \in Mains /\ errs \in BOOLEAN
  BY DEF Types, TypeOK
<1>1. ASSUME NEW failed \in BOOLEAN, NextFamily(failed) PROVE FALSE
  BY <1>1, NextFamilyMoves
<1>2. ASSUME NEW over \in {"exited", "lost"}, Fails(over) PROVE FALSE
  BY <1>2, FailsMoves
<1>3. ASSUME Reply, Succeeds PROVE FALSE
  BY <1>0, <1>1, <1>3 DEF Reply, Succeeds, Updating, Goes, Mains
<1>4. CASE WaitForReadyState \/ MountVolumes \/ Dies
  BY <1>0, <1>4 DEF WaitForReadyState, MountVolumes, Dies, Goes, Mains, Progress
<1>5. CASE GetAssetScan \/ PatchAssetScan \/ UpdateAssetScan \/ ReceivesResult
  BY <1>0, <1>5 DEF GetAssetScan, PatchAssetScan, UpdateAssetScan, ReceivesResult, Mains,
                    Progress
<1>6. CASE UNCHANGED main
  BY <1>6 DEF Progress
<1> QED
  BY <1>1, <1>2, <1>3, <1>4, <1>5, <1>6
  DEF Next, MainSteps, Reply, CallCancelled, CallFails, GivesUp, Abandons, WatcherSteps,
    IsAborted, Cancels, OthersPatch, OthersSave, LatePatch, LateSave, WorkerBegins, WorkerEnds

LEMMA StandsStill ==
    ASSUME Types, Alone, Progress, Next, UNCHANGED <<main, errs>>
    PROVE  Reported'
<1>0. main \in Mains /\ (InLoop => main.family \in Families)
  BY DEF Types, TypeOK
<1>1. SUFFICES ASSUME Alive, ~errs PROVE Reported'
  BY DEF Reported, Progress, Alive, Over
<1>2. late = {}
  BY <1>1 DEF Alone, Calm, Alive, Over
<1>3. assetScan'.family = assetScan.family
  BY <1>0, <1>2, SaveMoves, OthersSaveKeeps DEF UpdateAssetScan, LateSave, Mains
<1>4. ASSUME NEW f \in Families, Good(assetScan, f) PROVE Good(assetScan, f)'
  BY <1>3, <1>4, GoodKept DEF Good, HasInput
<1>5. InLoop => 1..(main.family - 1) \subseteq Families
  BY <1>0, ConstantTypes
<1>6. main.phase = "FamilyFinished" => main.family \in Families
  BY <1>0 DEF InLoop
<1>7. main.family \in results /\ HasInput(main.family) =>
        main.family \in results' /\ HasInput(main.family)'
  BY ResultsGrow DEF HasInput
<1>8. faults > 0 => faults' > 0
  BY NeverForgotten
<1> QED
  BY <1>1, <1>4, <1>5, <1>6, <1>7, <1>8 DEF Reported, Progress, InLoop

LEMMA UpdateReports ==
    ASSUME Types, Alone, Progress, UpdateAssetScan, Next PROVE Reported'
<1>0. main \in Mains /\ assetScan \in AssetScans /\ (InLoop => main.family \in Families)
  BY DEF Types, TypeOK
<1>1. /\ main.phase \in Updating /\ main.call = "save"
      /\ main' = [main EXCEPT !.call = "reply", !.ok = TRUE]
      /\ assetScan' = Patched /\ UNCHANGED <<results, errs, faults>>
  BY DEF UpdateAssetScan, Saves
<1>2. SUFFICES ASSUME ~errs PROVE Reported'
  BY <1>0, <1>1 DEF Reported, Progress, Mains
<1>3. main.held \in AssetScans /\ main.held.family = assetScan.family
  BY <1>0, <1>1, <1>2 DEF Alone, Calm, Sending, Updating, Mains
<1>4. Alive /\ main'.phase = main.phase /\ main'.family = main.family /\ main'.call = "reply"
  BY <1>0, <1>1 DEF Alive, Over, Updating, Mains
<1>5. ASSUME NEW f \in Families, Good(assetScan, f), assetScan'.family[f] = assetScan.family[f]
      PROVE  Good(assetScan, f)'
  BY <1>1, <1>5 DEF Good, HasInput
<1>6. CASE main.phase = "FamilyStarted"
  <2>1. \A f \in 1..(main.family - 1) : f \in Families /\ f # main.family
    BY <1>0, <1>6, ConstantTypes DEF InLoop
  <2>2. \A f \in 1..(main.family - 1) : assetScan'.family[f] = assetScan.family[f]
    BY <1>0, <1>1, <1>3, <1>6, <2>1 DEF Patched, AssetScans
  <2> QED
    BY <1>2, <1>4, <1>5, <1>6, <2>1, <2>2 DEF Reported, Progress, InLoop
<1>7. CASE main.phase = "FamilyFinished"
  <2>1. \A f \in 1..(main.family - 1) : f \in Families /\ f # main.family
    BY <1>0, <1>7, ConstantTypes DEF InLoop
  <2>2. assetScan' = [main.held EXCEPT
                        !.family[main.family] = IF main.ok THEN "Done" ELSE "Failed"]
    BY <1>1, <1>7 DEF Patched
  <2>3. \A f \in 1..(main.family - 1) : assetScan'.family[f] = assetScan.family[f]
    BY <1>0, <1>3, <2>1, <2>2 DEF AssetScans
  <2>4. assetScan'.family[main.family] = IF main.ok THEN "Done" ELSE "Failed"
    BY <1>0, <1>3, <1>7, <2>2 DEF AssetScans, InLoop
  <2>5. main.family \in results /\ HasInput(main.family) /\ (main.ok \/ faults > 0)
    BY <1>1, <1>2, <1>4, <1>7 DEF Progress, Reported
  <2>6. Good(assetScan', main.family)
    BY <1>1, <2>4, <2>5 DEF Good, HasInput
  <2>7. Good(assetScan, main.family)'
    BY <1>1, <1>4, <2>6 DEF Good, HasInput
  <2>8. HasInput(main.family)'
    BY <1>1, <1>4, <2>5 DEF HasInput
  <2> QED
    BY <1>1, <1>2, <1>4, <1>5, <1>7, <2>1, <2>3, <2>5, <2>7, <2>8
    DEF Reported, Progress, InLoop
<1>8. CASE main.phase = "MarkDone"
  <2>1. assetScan'.family = assetScan.family
    BY <1>0, <1>1, <1>3, <1>8 DEF Patched, AssetScans
  <2> QED
    BY <1>1, <1>2, <1>4, <1>5, <1>8, <2>1 DEF Reported, Progress, InLoop
<1>9. CASE main.phase \in {"MarkInProgress", "MarkFailed"}
  BY <1>4, <1>9 DEF Reported, InLoop
<1> QED
  BY <1>1, <1>6, <1>7, <1>8, <1>9 DEF Updating

\* With an error to report and nothing to call Done there is nothing to show.
LEMMA NothingToReport ==
    ASSUME Types, main'.phase # "MarkDone",
           ~Alive' \/ errs' \/ main'.phase \in {"wait", "mount", "MarkInProgress", "MarkFailed"}
    PROVE  Reported'
BY DEF Reported, InLoop

LEMMA ReplyReports == ASSUME Types, Alone, Progress, Reply, Next PROVE Reported'
<1>0. /\ main \in Mains /\ errs \in BOOLEAN /\ (InLoop => main.family \in Families)
      /\ main.family \in 0..NFamilies
  BY DEF Types, TypeOK, Mains
<1>1. UNCHANGED <<assetScan, results, faults>>
  BY DEF Reply
<1>2. CASE Succeeds /\ main.ok
  <2>1. CASE main.phase = "FamilyStarted"
    <3>1. main'.phase = "select" /\ main'.family = main.family /\ UNCHANGED errs
      BY <1>0, <1>2, <2>1 DEF Succeeds, Mains
    <3> QED
      BY <1>1, <2>1, <3>1 DEF Reported, Progress, InLoop, Good, HasInput, Alive, Over
  <2>2. CASE main.phase \in {"MarkInProgress", "FamilyFinished"}
    <3>1. NextFamily(errs) /\ UNCHANGED errs
      BY <1>2, <2>2 DEF Succeeds
    <3>2. ASSUME ~errs PROVE \A f \in 1..main.family : Good(assetScan, f)
      <4>1. CASE main.phase = "MarkInProgress"
        BY <4>1 DEF Progress
      <4>2. CASE main.phase = "FamilyFinished"
        <5>1. \A f \in 1..(main.family - 1) : Good(assetScan, f)
          BY <3>2, <4>2 DEF Progress, Reported, Alive, Over, InLoop
        <5>2. Good(assetScan, main.family)
          BY <1>2, <3>2, <4>2 DEF Progress, Reported, Alive, Over, InLoop, Reply
        <5>3. \A f \in 1..main.family : f = main.family \/ f \in 1..(main.family - 1)
          BY <1>0, ConstantTypes
        <5> QED
          BY <5>1, <5>2, <5>3
      <4> QED
        BY <2>2, <4>1, <4>2
    <3>3. ASSUME ~errs PROVE \A f \in 1..main.family : Good(assetScan, f)'
      BY <1>1, <3>2, <3>3 DEF Good, HasInput
    <3>4. /\ main'.call = "get"
          /\ \/ main'.phase = "FamilyStarted" /\ main'.family - 1 = main.family
             \/ main'.phase = "MarkFailed"
             \/ main'.phase = "MarkDone" /\ ~errs /\ main.family = NFamilies
      BY <1>0, <3>1, NextFamilyMoves, ConstantTypes
    <3> QED
      BY <3>1, <3>3, <3>4, ConstantTypes DEF Reported, InLoop
  <2>3. CASE main.phase \in {"MarkDone", "MarkFailed"}
    <3>1. main'.phase = "exited"
      BY <1>0, <1>2, <2>3 DEF Succeeds, Goes, Mains
    <3> QED
      BY <3>1, NothingToReport DEF Alive, Over
  <2> QED
    BY <2>1, <2>2, <2>3 DEF Reply, Updating
<1>3. CASE Fails("exited")
  BY <1>3, FailsMoves, NothingToReport DEF Alive, Over
<1> QED
  BY <1>2, <1>3 DEF Reply

LEMMA ReceivesReports ==
    ASSUME Types, LoopView, Progress, ReceivesResult, Next PROVE Reported'
<1>0. /\ main \in Mains /\ worker \in [Families -> Workers] /\ main.family \in Families
      /\ faults \in Nat
  BY NeverForgotten DEF Types, TypeOK, InLoop, ReceivesResult
<1>1. /\ UNCHANGED assetScan /\ main'.phase = "FamilyFinished" /\ main'.call = "get"
      /\ main'.family = main.family
  BY <1>0 DEF ReceivesResult, Mains
<1>2. SUFFICES ASSUME ~errs' PROVE Reported'
  BY <1>1 DEF Reported
<1>3. worker[main.family].st = "ended" /\ worker[main.family].ok /\ ~errs
  BY <1>0, <1>2 DEF ReceivesResult, Workers
<1>4. HasInput(main.family)
  <2>1. worker[main.family].runs = main.family
    BY <1>3 DEF ReceivesResult, LoopView, Running
  <2> QED
    BY <1>0, <1>3, <2>1 DEF LoopView, Running
<1>5. results' = results \cup {main.family}
  BY <1>3 DEF ReceivesResult
<1>6. main'.ok \/ faults' > 0
  <2>1. PICK ok \in BOOLEAN :
          /\ (ok = worker[main.family].ok /\ UNCHANGED faults) \/ (~ok /\ Fault)
          /\ main' = [main EXCEPT !.phase = "FamilyFinished", !.call = "get", !.ok = ok]
    BY DEF ReceivesResult
  <2>2. CASE Fault
    BY <1>0, <2>2 DEF Fault
  <2>3. CASE ok = worker[main.family].ok
    BY <1>0, <1>3, <2>1, <2>3 DEF Mains
  <2> QED
    BY <2>1, <2>2, <2>3
<1>7. \A f \in 1..(main.family - 1) : Good(assetScan, f)
  BY <1>3 DEF Progress, Reported, InLoop, Alive, Over, ReceivesResult
<1>8. \A f \in 1..(main.family - 1) : Good(assetScan, f)'
  BY <1>1, <1>5, <1>7, NeverForgotten DEF Good, HasInput
<1>9. HasInput(main.family)'
  BY <1>1, <1>4, <1>5 DEF HasInput
<1> QED
  BY <1>1, <1>5, <1>6, <1>8, <1>9 DEF Reported

LEMMA NextReported == ASSUME Types, LoopView, Alone, Progress, Next PROVE Reported'
<1>0. main \in Mains
  BY DEF Types, TypeOK
<1>1. CASE WaitForReadyState \/ MountVolumes \/ Dies
  <2>1. main'.phase \in {"mount", "MarkInProgress", "MarkFailed", "lost"}
    BY <1>0, <1>1 DEF WaitForReadyState, MountVolumes, Dies, Goes, Mains
  <2> QED
    BY <2>1, NothingToReport DEF Alive, Over
<1>2. CASE GetAssetScan
  <2>1. CASE main'.phase = "panicked"
    BY <2>1, NothingToReport DEF Alive, Over
  <2>2. CASE main' = [main EXCEPT !.call = "patch", !.held = assetScan]
    <3>1. /\ main'.phase = main.phase /\ main'.family = main.family /\ main'.ok = main.ok
          /\ main'.call = "patch" /\ main.call = "get"
          /\ UNCHANGED <<assetScan, results, errs, faults>>
      BY <1>0, <1>2, <2>2 DEF GetAssetScan, Mains
    <3> QED
      BY <3>1 DEF Progress, Reported, InLoop, Alive, Good, HasInput
  <2> QED
    BY <1>0, <1>2, <2>1, <2>2 DEF GetAssetScan, Mains
<1>3. CASE PatchAssetScan
  <2>1. /\ main'.phase = main.phase /\ main'.family = main.family
        /\ (main'.call = "save" /\ main'.ok = main.ok) \/ (main'.call = "reply" /\ ~main'.ok)
        /\ main.call = "patch"
        /\ UNCHANGED <<assetScan, results, errs, faults>>
    BY <1>0, <1>3 DEF PatchAssetScan, Mains
  <2> QED
    BY <2>1 DEF Progress, Reported, InLoop, Alive, Good, HasInput
<1>4. CASE CallCancelled \/ CallFails
  BY <1>4, FailsMoves, NothingToReport
  DEF CallCancelled, CallFails, GivesUp, Alive, Over
<1>5. CASE Abandons
  <2>1. errs' /\ main'.phase # "MarkDone"
    BY <1>5, NextFamilyMoves DEF Abandons
  <2> QED
    BY <2>1, NothingToReport
<1>6. CASE UNCHANGED <<main, errs>>
  BY <1>6, StandsStill
<1> QED
  BY <1>1, <1>2, <1>3, <1>4, <1>5, <1>6, UpdateReports, ReplyReports, ReceivesReports
  DEF Next, MainSteps, WatcherSteps, IsAborted, Cancels, OthersPatch, OthersSave, LatePatch,
    LateSave, WorkerBegins, WorkerEnds

LEMMA NextProgress == ASSUME Types, LoopView, Alone, Progress, Next PROVE Progress'
BY NextReported, FirstFamily DEF Progress

LEMMA PatchedDone ==
    ASSUME Types, Sending, NotDoneYet, Patched.state = "Done" PROVE main.phase = "MarkDone"
<1>1. main.held \in AssetScans /\ main.held.state # "Done"
  BY DEF Types, TypeOK, Mains, NotDoneYet
<1> QED
  BY <1>1 DEF Patched, Sending, Updating, AssetScans

\* What the scanner sends as Done is good.
LEMMA SendsGood ==
    ASSUME Types, Alone, Progress, NotDoneYet, Sending, Patched.state = "Done",
           NEW f \in Families
    PROVE  Good(Patched, f)
<1>1. main.phase = "MarkDone"
  BY PatchedDone
<1>2. ~errs /\ Good(assetScan, f)
  BY <1>1 DEF Progress, Reported
<1>3. main.held \in AssetScans /\ main.held.family = assetScan.family
  BY <1>1, <1>2 DEF Alone, Calm, Types, TypeOK, Mains
<1>4. Patched.family = assetScan.family
  BY <1>1, <1>3 DEF Patched, AssetScans
<1> QED
  BY <1>2, <1>4 DEF Good

LEMMA NextLateDone ==
    ASSUME Types, Alone, Progress, NotDoneYet, LateDone, Next PROVE LateDone'
<1>1. SUFFICES ASSUME NEW r \in late', r.patch.state = "Done", NEW f \in Families
               PROVE  Good(r.patch, f)'
  BY DEF LateDone
<1>2. SUFFICES Good(r.patch, f)
  BY <1>2, GoodKept DEF Good, HasInput
<1>3. CASE \E q \in late : q.patch = r.patch
  BY <1>1, <1>3 DEF LateDone
<1>4. CASE ~\E q \in late : q.patch = r.patch
  <2>1. ~LatePatch
    BY <1>4 DEF LatePatch, Types, TypeOK, LatePatches
  <2>2. LeavesPatch /\ Sending
    BY <1>4, <2>1, LateMoves
  <2>3. r.patch = Patched
    BY <1>4, <2>2 DEF LeavesPatch
  <2> QED
    BY <1>1, <2>2, <2>3, SendsGood
<1> QED
  BY <1>3, <1>4

LEMMA NextDone ==
    ASSUME Types, Alone, Progress, NotDoneYet, LateDone, DoneMeansAllDone, Next
    PROVE  DoneMeansAllDone'
<1>1. SUFFICES ASSUME assetScan'.state = "Done", NEW f \in Families
               PROVE  Good(assetScan, f)'
  BY DEF DoneMeansAllDone, Good
<1>2. SUFFICES \E scan : Good(scan, f) /\ scan.family[f] = assetScan'.family[f]
  BY <1>2, GoodKept DEF Good, HasInput
<1>3. CASE assetScan' = assetScan
  BY <1>1, <1>3 DEF DoneMeansAllDone, Good
<1>4. CASE UpdateAssetScan
  <2>1. Sending /\ assetScan' = Patched
    BY <1>4 DEF UpdateAssetScan, Saves, Sending
  <2> QED
    BY <1>1, <2>1, SendsGood
<1>5. CASE OthersSave
  BY <1>1, <1>5, OthersSaveKeeps DEF Types, TypeOK
<1>6. CASE LateSave
  BY <1>1, <1>6 DEF LateSave, Saves, LateDone
<1> QED
  BY <1>3, <1>4, <1>5, <1>6, SaveMoves

LEMMA NextNotDoneYet == ASSUME Types, Alone, Progress, NotDoneYet, Next PROVE NotDoneYet'
<1>0. main \in Mains /\ assetScan \in AssetScans
  BY DEF Types, TypeOK
<1>1. ASSUME Alive', NEW r \in late' PROVE r.patch.state # "Done"
  <2>1. Alive
    BY <1>1, NeverForgotten DEF Alive
  <2>2. \A q \in late : q.patch.state # "Done"
    BY <2>1 DEF NotDoneYet
  <2>3. CASE late' \subseteq late
    BY <2>2, <2>3
  <2>4. CASE LatePatch
    BY <1>1, <2>2, <2>4 DEF LatePatch, Types, TypeOK, LatePatches
  <2>5. CASE LeavesPatch /\ Sending /\ GivesUp
    <3>1. OfFamily
      <4>1. Fails("lost")
        BY <2>5 DEF GivesUp
      <4> QED
        BY <1>1, <4>1, FailsMoves DEF Alive, Over
    <3>2. Patched.state # "Done"
      BY <2>5, <3>1, PatchedDone DEF OfFamily
    <3> QED
      BY <1>1, <2>2, <2>5, <3>2 DEF LeavesPatch
  <2>6. CASE Dies
    <3>1. main'.phase = "lost"
      BY <1>0, <2>6 DEF Dies, Goes, Mains
    <3> QED
      BY <1>1, <3>1 DEF Alive, Over
  <2> QED
    BY <2>3, <2>4, <2>5, <2>6, LateMoves
<1>2. ASSUME Alive', assetScan'.state = "Done"
      PROVE  main'.phase = "MarkDone" /\ main'.call = "reply"
  <2>1. Alive
    BY <1>2, NeverForgotten DEF Alive
  <2>2. CASE UpdateAssetScan
    <3>1. Sending /\ Patched.state = "Done"
      BY <1>2, <2>2 DEF UpdateAssetScan, Saves, Sending
    <3> QED
      BY <1>0, <2>2, <3>1, PatchedDone DEF UpdateAssetScan, Mains
  <2>3. CASE OthersSave
    BY <1>2, <2>3, OthersSaveKeeps DEF Types, TypeOK
  <2>4. CASE LateSave
    BY <1>2, <2>1, <2>4 DEF LateSave, Saves, NotDoneYet
  <2>5. CASE assetScan' = assetScan
    <3>1. main.phase = "MarkDone" /\ main.call = "reply"
      BY <1>2, <2>1, <2>5 DEF NotDoneYet
    <3>2. CASE Reply
      <4>1. Goes("exited")
        BY <3>1, <3>2 DEF Reply, Succeeds, Fails, OfFamily
      <4> QED
        BY <1>0, <1>2, <4>1 DEF Goes, Mains, Alive, Over
    <3>3. CASE CallCancelled \/ CallFails
      <4>1. Goes("lost")
        BY <3>1, <3>3 DEF CallCancelled, CallFails, GivesUp, Fails, OfFamily
      <4> QED
        BY <1>0, <1>2, <4>1 DEF Goes, Mains, Alive, Over
    <3>4. CASE Dies
      BY <1>0, <1>2, <3>4 DEF Dies, Goes, Mains, Alive, Over
    <3>5. CASE UNCHANGED main
      BY <3>1, <3>5
    <3> QED
      BY <3>1, <3>2, <3>3, <3>4, <3>5
      DEF Next, MainSteps, WaitForReadyState, MountVolumes, GetAssetScan, PatchAssetScan,
        UpdateAssetScan, ReceivesResult, Abandons, WatcherSteps, IsAborted, Cancels,
        OthersPatch, OthersSave, LatePatch, LateSave, WorkerBegins, WorkerEnds
  <2> QED
    BY <2>2, <2>3, <2>4, <2>5, SaveMoves
<1>3. ASSUME Sending' PROVE main'.held.state # "Done"
  <2>1. CASE GetAssetScan /\ main'.held = assetScan
    BY <2>1 DEF GetAssetScan, NotDoneYet, Alive, Over, Updating
  <2>2. CASE PatchAssetScan /\ main' = [main EXCEPT !.call = "save"]
    BY <1>0, <2>2 DEF PatchAssetScan, NotDoneYet, Sending, Mains
  <2>3. CASE main' = main /\ Sending
    BY <2>3 DEF NotDoneYet
  <2> QED
    BY <1>3, <2>1, <2>2, <2>3, SendingMoves
<1> QED
  BY <1>1, <1>2, <1>3 DEF NotDoneYet

LEMMA InitDoneView == Init => DoneView
BY ConstantTypes DEF Init, DoneView, AbortSeen, Alone, Progress, Reported, NotDoneYet, LateDone,
  DoneMeansAllDone, Sending, Updating, InLoop

LEMMA NextDoneView == Types /\ LoopView /\ DoneView /\ [Next]_vars => DoneView'
<1> SUFFICES ASSUME Types, LoopView, DoneView, [Next]_vars PROVE DoneView'
  OBVIOUS
<1>1. CASE Next
  BY <1>1, NextAbortSeen, NextAlone, NextProgress, NextNotDoneYet, NextLateDone, NextDone
  DEF DoneView
<1>2. CASE UNCHANGED vars
  BY <1>2 DEF vars, server, DoneView, AbortSeen, Alone, Calm, Undisturbed, Progress, Reported,
    NotDoneYet, LateDone, DoneMeansAllDone, Sending, Updating, InLoop, Alive, Good, HasInput
<1> QED
  BY <1>1, <1>2

LEMMA ScannerViews == Spec => [](Types /\ LoopView /\ DoneView)
<1>1. Init => Types /\ LoopView /\ DoneView
  BY InitType, InitLoopView, InitDoneView
<1>2. Types /\ LoopView /\ DoneView /\ [Next]_vars => (Types /\ LoopView /\ DoneView)'
  BY NextTypes, NextLoopView, NextDoneView
<1> QED
  BY <1>1, <1>2, PTL DEF Spec
-----------------------------------------------------------------------------
(* How a scan ends that nothing disturbed.                                 *)

\* What does not happen to it.
LEMMA SteadySteps ==
    ASSUME Types, DoneView, Next, Steady'
    PROVE  /\ Steady /\ ~cancelled /\ faults = 0 /\ ~aborted
           /\ assetScan.state # "Aborted" /\ late = {} /\ UNCHANGED faults
           /\ Sending => main.held.family = assetScan.family
           /\ \/ /\ \/ WaitForReadyState \/ MountVolumes \/ GetAssetScan \/ PatchAssetScan
                    \/ UpdateAssetScan \/ Reply \/ ReceivesResult
                 /\ UNCHANGED others
              \/ UNCHANGED <<main, assetScan>> /\ (UNCHANGED others \/ OthersPatch)
              \/ OthersSave
<1>0. main \in Mains
  BY DEF Types, TypeOK
<1>1. Steady /\ faults = 0 /\ ~aborted /\ UNCHANGED faults
  BY NeverForgotten DEF Steady, Undisturbed, Over
<1>2. ~cancelled /\ assetScan.state # "Aborted"
  BY <1>1 DEF DoneView, AbortSeen
<1>3. late = {} /\ (Sending => main.held.family = assetScan.family)
  BY <1>1 DEF DoneView, Alone, Calm, Steady
<1>4. ~CallFails /\ ~CallCancelled /\ ~Abandons /\ ~LatePatch /\ ~LateSave
  <2>1. ~Fault
    BY <1>1 DEF Fault
  <2>2. ~LatePatch /\ ~LateSave
    BY <1>3 DEF LatePatch, LateSave
  <2> QED
    BY <1>2, <2>1, <2>2 DEF CallFails, CallCancelled, Hindered, Abandons
<1>5. ~Dies
  BY <1>0 DEF Dies, Goes, Mains, Steady
<1>6. \/ /\ \/ WaitForReadyState \/ MountVolumes \/ GetAssetScan \/ PatchAssetScan
            \/ UpdateAssetScan \/ Reply \/ ReceivesResult
         /\ UNCHANGED others
      \/ UNCHANGED <<main, assetScan>> /\ (UNCHANGED others \/ OthersPatch)
      \/ OthersSave
  BY <1>4, <1>5 DEF Next, MainSteps, WaitForReadyState, MountVolumes, GetAssetScan,
    PatchAssetScan, UpdateAssetScan, Reply, ReceivesResult, WatcherSteps, IsAborted, Cancels,
    OthersPatch, WorkerBegins, WorkerEnds, server
<1> QED
  BY <1>1, <1>2, <1>3, <1>6

EndPart ==
    /\ others \in {"ReadyToScan", "Failed"} =>
         main.phase = "wait" /\ assetScan.state = "Scheduled"
    /\ StateAt
    /\ ToldSoFar

LEMMA OthersKeepEnd ==
    ASSUME Types, DoneView, EndPart, Next, Steady', OthersPatch \/ OthersSave PROVE EndPart'
<1>0. main \in Mains /\ assetScan \in AssetScans /\ assetScan.state # "Aborted"
  BY SteadySteps DEF Types, TypeOK
<1>1. CASE OthersPatch
  <2>1. UNCHANGED <<main, assetScan>>
    BY <1>1 DEF OthersPatch
  <2>2. others' \in {"ReadyToScan", "Failed"} => assetScan.state = "Scheduled"
    BY <1>0, <1>1 DEF OthersPatch
  <2>3. assetScan.state = "Scheduled" => main.phase = "wait"
    <3>1. main.phase # "lost"
      BY SteadySteps DEF Steady
    <3> QED
      BY <1>0, <3>1 DEF EndPart, StateAt, InLoop, Mains, MainPhases, Updating, Over
  <2>4. StateAt' /\ ToldSoFar'
    BY <2>1 DEF EndPart, StateAt, ToldSoFar, InLoop, Sending, Told
  <2> QED
    BY <2>1, <2>2, <2>3, <2>4 DEF EndPart
<1>2. CASE OthersSave
  <2>1. others # "Aborted"
    <3>1. assetScan'.state # "Aborted"
      BY NextAbortSeen DEF DoneView, AbortSeen, Steady, Undisturbed
    <3> QED
      BY <1>2, <3>1, OthersSaveKeeps
  <2>2. main.phase = "wait" /\ assetScan.state = "Scheduled"
    BY <1>2, <2>1 DEF EndPart, OthersSave, Types, TypeOK
  <2>3. /\ assetScan'.state \in {"ReadyToScan", "Failed"} /\ ~assetScan'.stats
        /\ others' = "none" /\ main' = main
    BY <1>2, <2>1, <2>2, OthersSaveKeeps DEF EndPart, StateAt, OthersSave, Types, TypeOK
  <2> QED
    BY <2>2, <2>3 DEF EndPart, StateAt, ToldSoFar, InLoop
<1> QED
  BY <1>1, <1>2

LEMMA StartKeepsEnd ==
    ASSUME Types, DoneView, EndPart, Next, Steady',
           WaitForReadyState \/ MountVolumes \/ GetAssetScan \/ ReceivesResult
    PROVE  EndPart'
<1>0. main \in Mains /\ assetScan \in AssetScans /\ ~cancelled /\ UNCHANGED <<faults, others>>
  BY SteadySteps DEF Types, TypeOK, WaitForReadyState, MountVolumes, GetAssetScan,
    ReceivesResult, server
<1>1. CASE WaitForReadyState
  <2>1. /\ main.phase = "wait" /\ UNCHANGED assetScan
        /\ \/ assetScan.state = "ReadyToScan" /\ main' = [main EXCEPT !.phase = "mount", !.call = "get"]
           \/ assetScan.state = "Failed" /\ main' = [main EXCEPT !.phase = "MarkFailed", !.call = "get"]
    BY <1>0, <1>1 DEF WaitForReadyState, EndPart, StateAt, InLoop, Goes
  <2> QED
    BY <1>0, <2>1 DEF EndPart, StateAt, ToldSoFar, InLoop, Mains
<1>2. CASE MountVolumes
  <2>1. /\ main.phase = "mount" /\ UNCHANGED assetScan
        /\ main' = [main EXCEPT !.phase = "MarkInProgress", !.call = "get"]
    BY <1>0, <1>2, SteadySteps DEF MountVolumes, Fault, Goes
  <2> QED
    BY <1>0, <2>1 DEF EndPart, StateAt, ToldSoFar, InLoop, Mains
<1>3. CASE GetAssetScan
  <2>1. main.phase \in Updating /\ main.call = "get" /\ UNCHANGED assetScan
    BY <1>3 DEF GetAssetScan
  <2>2. CASE main' = [main EXCEPT !.phase = "panicked"]
    <3>1. main.phase = "MarkFailed" /\ ~assetScan.stats
      BY <1>0, <1>3, <2>2 DEF GetAssetScan, Mains
    <3> QED
      BY <1>0, <2>1, <2>2, <3>1 DEF EndPart, StateAt, ToldSoFar, InLoop, Mains
  <2>3. CASE /\ main' = [main EXCEPT !.call = "patch", !.held = assetScan]
             /\ main.phase # "MarkFailed" \/ assetScan.stats
    <3>1. /\ main'.phase = main.phase /\ main'.call = "patch" /\ main'.held = assetScan
          /\ main'.family = main.family
      BY <1>0, <2>3 DEF Mains
    <3> QED
      BY <1>0, <2>1, <2>3, <3>1 DEF EndPart, StateAt, ToldSoFar, InLoop, Updating, Told
  <2> QED
    BY <1>3, <2>2, <2>3 DEF GetAssetScan
<1>4. CASE ReceivesResult
  <2>1. /\ main'.phase = "FamilyFinished" /\ main'.call = "get" /\ main'.family = main.family
        /\ main.phase = "select" /\ UNCHANGED assetScan
    BY <1>0, <1>4 DEF ReceivesResult, Mains
  <2> QED
    BY <1>0, <2>1 DEF EndPart, StateAt, ToldSoFar, InLoop, Sending, Told
<1> QED
  BY <1>1, <1>2, <1>3, <1>4

\* The server accepts whatever the scanner sends.
LEMMA SteadyAccepts ==
    ASSUME Types, EndPart, Steady, main.phase \in Updating, main.call = "patch"
    PROVE  Accepts(Patched, OfFamily)
<1>0. main.held \in AssetScans /\ assetScan \in AssetScans
  BY DEF Types, TypeOK, Mains
<1>1. CASE OfFamily
  <2>1. main.held.state = "InProgress" /\ assetScan.state = "InProgress"
    BY <1>1 DEF OfFamily, EndPart, StateAt, InLoop, Sending
  <2>2. Patched.state = "InProgress"
    BY <1>0, <1>1, <2>1 DEF OfFamily, Patched, AssetScans
  <2> QED
    BY <1>1, <2>1, <2>2 DEF Accepts
<1>2. CASE main.phase = "MarkInProgress"
  <2>1. assetScan.state = "ReadyToScan" /\ Patched.state = "InProgress"
    BY <1>0, <1>2 DEF EndPart, StateAt, InLoop, Patched, AssetScans
  <2> QED
    BY <2>1 DEF Accepts, IsValidAssetScanTransition, assetScanStatusStateTransitions
<1>3. CASE main.phase \in {"MarkDone", "MarkFailed"}
  <2>1. assetScan.state = "InProgress" /\ Patched.state \in {"Done", "Failed"}
    BY <1>0, <1>3 DEF EndPart, StateAt, InLoop, Patched, AssetScans
  <2> QED
    BY <2>1 DEF Accepts, IsValidAssetScanTransition, assetScanStatusStateTransitions
<1> QED
  BY <1>1, <1>2, <1>3 DEF Updating, OfFamily

LEMMA PatchKeepsEnd ==
    ASSUME Types, DoneView, EndPart, Next, Steady', PatchAssetScan \/ UpdateAssetScan
    PROVE  EndPart'
<1>0. /\ main \in Mains /\ assetScan \in AssetScans /\ Steady
      /\ main.held \in AssetScans /\ (InLoop => main.family \in Families)
      /\ main.family \in 0..NFamilies
  BY SteadySteps DEF Types, TypeOK, Mains
<1>1. CASE PatchAssetScan
  <2>1. /\ main' = [main EXCEPT !.call = "save"] /\ UNCHANGED <<assetScan, others>>
        /\ main.phase \in Updating /\ main.call = "patch"
    BY <1>0, <1>1, SteadyAccepts DEF PatchAssetScan, server
  <2>2. /\ main'.phase = main.phase /\ main'.call = "save" /\ main'.held = main.held
        /\ main'.family = main.family
    BY <1>0, <2>1 DEF Mains
  <2> QED
    BY <1>0, <2>1, <2>2 DEF EndPart, StateAt, ToldSoFar, InLoop, Sending, Updating, Told
<1>2. CASE UpdateAssetScan
  <2>1. /\ main.phase \in Updating /\ main.call = "save" /\ assetScan' = Patched
        /\ UNCHANGED others
    BY <1>2 DEF UpdateAssetScan, Saves
  <2>2. /\ main'.phase = main.phase /\ main'.call = "reply" /\ main'.ok
        /\ main'.family = main.family
    BY <1>0, <1>2 DEF UpdateAssetScan, Mains
  <2>3. main.held.family = assetScan.family
    BY <2>1, SteadySteps DEF Sending
  <2>4. others' \notin {"ReadyToScan", "Failed"}
    BY <2>1 DEF EndPart, Updating
  <2>5. StateAt'
    BY <1>0, <2>1, <2>2 DEF EndPart, StateAt, InLoop, Sending, Updating, Patched, AssetScans
  <2>6. CASE OfFamily
    <3>1. main.family \in Families
      BY <1>0, <2>6 DEF OfFamily, InLoop
    <3>2. \A f \in 1..(main.family - 1) : f \in Families /\ f # main.family /\ Told(f)
      BY <2>6, <3>1, ConstantTypes DEF OfFamily, InLoop, EndPart, ToldSoFar
    <3>3. \A f \in 1..(main.family - 1) : assetScan'.family[f] = assetScan.family[f]
      BY <1>0, <2>1, <2>3, <2>6, <3>1, <3>2 DEF OfFamily, Patched, AssetScans
    <3>4. main.phase = "FamilyFinished" => Told(main.family)'
      BY <1>0, <2>1, <2>2, <3>1 DEF Patched, AssetScans, Told
    <3>5. \A f \in 1..(main.family - 1) : Told(f)'
      BY <3>2, <3>3 DEF Told
    <3> QED
      BY <2>2, <2>4, <2>5, <2>6, <3>4, <3>5 DEF EndPart, ToldSoFar, OfFamily, InLoop
  <2>7. CASE ~OfFamily
    <3>1. assetScan'.family = assetScan.family
      BY <1>0, <2>1, <2>3, <2>7 DEF OfFamily, Updating, Patched, AssetScans
    <3> QED
      BY <2>1, <2>2, <2>4, <2>5, <2>7, <3>1
      DEF EndPart, ToldSoFar, OfFamily, InLoop, Updating, Told
  <2> QED
    BY <2>6, <2>7
<1> QED
  BY <1>1, <1>2

LEMMA ReplyKeepsEnd ==
    ASSUME Types, DoneView, EndPart, Next, Steady', Reply PROVE EndPart'
<1>0. /\ main \in Mains /\ Steady /\ errs \in BOOLEAN /\ UNCHANGED <<assetScan, others>>
      /\ (InLoop => main.family \in Families) /\ main.family \in 0..NFamilies
      /\ main.phase \in Updating /\ main.call = "reply"
  BY SteadySteps DEF Types, TypeOK, Mains, Reply, server
<1>1. main.ok /\ Succeeds
  BY <1>0 DEF Reply, EndPart, StateAt, InLoop, Updating
<1>2. others \notin {"ReadyToScan", "Failed"}
  BY <1>0 DEF EndPart, Updating
<1>3. CASE main.phase = "FamilyStarted"
  <2>1. main'.phase = "select" /\ main'.family = main.family
    BY <1>0, <1>1, <1>3 DEF Succeeds, Mains
  <2>2. assetScan.state = "InProgress" /\ assetScan.stats
    BY <1>3 DEF EndPart, StateAt, InLoop
  <2> QED
    BY <1>0, <1>2, <1>3, <2>1, <2>2 DEF EndPart, StateAt, ToldSoFar, InLoop, Sending, Updating, Told
<1>4. CASE main.phase \in {"MarkInProgress", "FamilyFinished"}
  <2>1. NextFamily(errs)
    BY <1>1, <1>4 DEF Succeeds
  <2>2. assetScan.state = "InProgress" /\ assetScan.stats
    BY <1>0, <1>4 DEF EndPart, StateAt, InLoop
  <2>3. \A f \in 1..main.family : Told(f)
    <3>1. CASE main.phase = "MarkInProgress"
      BY <3>1 DEF DoneView, Progress
    <3>2. CASE main.phase = "FamilyFinished"
      <4>1. Told(main.family) /\ \A f \in 1..(main.family - 1) : Told(f)
        BY <1>0, <3>2 DEF EndPart, ToldSoFar, InLoop
      <4>2. \A f \in 1..main.family : f = main.family \/ f \in 1..(main.family - 1)
        BY <1>0, ConstantTypes
      <4> QED
        BY <4>1, <4>2
    <3> QED
      BY <1>4, <3>1, <3>2
  <2>4. /\ main'.call = "get"
        /\ \/ main'.phase = "FamilyStarted" /\ main'.family - 1 = main.family
           \/ main'.phase \in {"MarkFailed", "MarkDone"} /\ main.family = NFamilies
    BY <1>0, <2>1, NextFamilyMoves, ConstantTypes
  <2>5. StateAt'
    <3>1. assetScan'.state = "InProgress" /\ assetScan'.stats
      BY <1>0, <2>2
    <3> QED
      BY <2>4, <3>1 DEF StateAt, InLoop, Sending, Updating
  <2>6. ToldSoFar'
    BY <1>0, <2>3, <2>4, ConstantTypes DEF ToldSoFar, InLoop, Told
  <2> QED
    BY <1>0, <1>2, <2>5, <2>6 DEF EndPart
<1>5. CASE main.phase \in {"MarkDone", "MarkFailed"}
  <2>1. main'.phase = "exited"
    BY <1>0, <1>1, <1>5 DEF Succeeds, Goes, Mains
  <2>2. assetScan.state \in {"Done", "Failed"} /\ \A f \in Families : Told(f)
    BY <1>0, <1>5 DEF EndPart, StateAt, ToldSoFar, InLoop
  <2> QED
    BY <1>0, <1>2, <2>1, <2>2 DEF EndPart, StateAt, ToldSoFar, InLoop, Told
<1> QED
  BY <1>0, <1>3, <1>4, <1>5 DEF Updating

LEMMA InitEndView == Init => EndView
BY ConstantTypes DEF Init, EndView, StateAt, ToldSoFar, InLoop

LEMMA NextEndView == Types /\ DoneView /\ EndView /\ [Next]_vars => EndView'
<1> SUFFICES ASSUME Types, DoneView, EndView, [Next]_vars, Steady' PROVE EndPart'
  BY DEF EndView, EndPart
<1>1. CASE Next
  <2>1. EndPart
    BY <1>1, SteadySteps DEF EndView, EndPart
  <2>2. CASE UNCHANGED <<main, assetScan, others>>
    BY <2>1, <2>2 DEF EndPart, StateAt, ToldSoFar, InLoop, Sending, Told
  <2> QED
    BY <1>1, <2>1, <2>2, SteadySteps, OthersKeepEnd, StartKeepsEnd, PatchKeepsEnd, ReplyKeepsEnd
<1>2. CASE UNCHANGED vars
  BY <1>2 DEF vars, server, EndView, Steady, Undisturbed, EndPart, StateAt, ToldSoFar, InLoop,
              Sending, Told
<1> QED
  BY <1>1, <1>2

LEMMA EndViewIsEnough == EndView => EndIsReported
BY DEF EndView, Steady, Undisturbed, StateAt, ToldSoFar, InLoop, Told, EndIsReported

\* What the stored AssetScan says is true, for any number of families and faults:
\* Done only if every family found something and was reported, whatever went wrong
\* in between, and a scan that nothing disturbed says how each went
\* (manager.go:112-162, scan.go:119-136, presenter/vmclarity.go:376-395).
THEOREM ReportHolds == Spec => []ReportIsTrue
<1>1. DoneView /\ EndView => ReportIsTrue
  BY EndViewIsEnough DEF DoneView, ReportIsTrue
<1> QED
  BY <1>1, InitEndView, NextEndView, ScannerViews, PTL DEF Spec
-----------------------------------------------------------------------------
(* The refinement.                                                         *)

LEMMA NextOrderView ==
    ASSUME Types, OrderView, Next PROVE OrderView'
<1>0. main \in Mains /\ assetScan \in AssetScans /\ disordered \in BOOLEAN
  BY DEF Types, TypeOK
<1>1. SUFFICES ASSUME ~disordered'
               PROVE  /\ others' # "none" => IsValidAssetScanTransition(assetScan'.state, others')
                      /\ main'.phase \in Updating /\ main'.call = "save" =>
                           Accepts(Patched, OfFamily)'
                      /\ Sending' => main'.held.stats = assetScan'.stats
                      /\ Sending' /\ main'.phase = "MarkFailed" => main'.held.stats
                      /\ aborted' => assetScan'.state \in {"Aborted", "Failed"}
  BY DEF OrderView
<1>2. ~disordered /\ ~LateSave
  BY <1>1, SaveMoves DEF LateSave
<1>3. CASE UpdateAssetScan
  <2>1. /\ main.phase \in Updating /\ main.call = "save" /\ assetScan' = Patched
        /\ UNCHANGED others /\ ~Overtakes(Patched, others # "none")
    BY <1>1, <1>3 DEF UpdateAssetScan, Saves
  <2>2. main'.call = "reply"
    BY <1>0, <1>3 DEF UpdateAssetScan, Mains
  <2>3. others # "none" => assetScan'.state = assetScan.state
    BY <2>1 DEF Overtakes
  <2>4. Accepts(Patched, OfFamily)
    BY <1>2, <2>1 DEF OrderView
  <2>5. aborted' = (aborted \/ Patched.state = "Aborted")
    BY <1>3 DEF UpdateAssetScan, Saves
  <2>6. aborted => Patched.state \in {"Aborted", "Failed"}
    BY <1>2, <2>4 DEF OrderView, Accepts, IsValidAssetScanTransition,
      assetScanStatusStateTransitions
  <2> QED
    BY <1>2, <2>1, <2>2, <2>3, <2>5, <2>6 DEF OrderView, Sending
<1>4. CASE OthersSave
  <2>1. /\ others # "none" /\ others' = "none" /\ main' = main
        /\ assetScan'.state = others /\ assetScan'.stats = assetScan.stats
    BY <1>4, OthersSaveKeeps DEF OthersSave
  <2>2. aborted' = (aborted \/ assetScan'.state = "Aborted")
    BY <1>4 DEF OthersSave, Saves
  <2>3. IsValidAssetScanTransition(assetScan.state, others)
    BY <1>2, <2>1 DEF OrderView
  <2>4. aborted => others \in {"Aborted", "Failed"}
    BY <1>2, <2>3 DEF OrderView, IsValidAssetScanTransition, assetScanStatusStateTransitions
  <2>5. main.call = "save" => assetScan'.state = assetScan.state
    BY <1>1, <1>4 DEF OthersSave, Saves, Overtakes
  <2>6. main.phase \in Updating /\ main.call = "save" => Accepts(Patched, OfFamily)'
    BY <1>2, <2>1, <2>5 DEF OrderView, Accepts, Patched, OfFamily
  <2> QED
    BY <1>2, <2>1, <2>2, <2>4, <2>6 DEF OrderView, Sending
<1>5. CASE UNCHANGED <<assetScan, aborted>>
  <2>1. others' # "none" => IsValidAssetScanTransition(assetScan'.state, others')
    <3>1. CASE OthersPatch
      BY <1>5, <3>1 DEF OthersPatch, IsValidAssetScanTransition, assetScanStatusStateTransitions
    <3>2. CASE UNCHANGED others
      BY <1>2, <1>5, <3>2 DEF OrderView
    <3> QED
      BY <1>2, <1>5, <3>1, <3>2 DEF Next, MainSteps, WaitForReadyState, MountVolumes, GetAssetScan,
        PatchAssetScan, UpdateAssetScan, Reply, CallCancelled, CallFails, GivesUp, ReceivesResult,
        Abandons, Dies, WatcherSteps, IsAborted, Cancels, OthersSave, LatePatch,
        WorkerBegins, WorkerEnds, server
  <2>2. ASSUME main'.phase \in Updating, main'.call = "save" PROVE Accepts(Patched, OfFamily)'
    <3>1. Sending'
      BY <2>2 DEF Sending
    <3>2. CASE PatchAssetScan /\ Accepts(Patched, OfFamily) /\ main' = [main EXCEPT !.call = "save"]
      <4>1. /\ main'.phase = main.phase /\ main'.held = main.held
            /\ main'.family = main.family /\ main'.ok = main.ok
        BY <1>0, <3>2 DEF Mains
      <4> QED
        BY <1>5, <3>2, <4>1 DEF Accepts, Patched, OfFamily
    <3>3. CASE main' = main
      BY <1>2, <1>5, <2>2, <3>3 DEF OrderView, Accepts, Patched, OfFamily
    <3> QED
      BY <2>2, <3>1, <3>2, <3>3, SendingMoves
  <2>3. ASSUME Sending' PROVE main'.held.stats = assetScan'.stats
    <3>1. CASE main'.held = assetScan
      BY <1>5, <3>1
    <3>2. CASE main'.held = main.held /\ Sending
      BY <1>2, <1>5, <3>2 DEF OrderView
    <3>3. PatchAssetScan => main'.held = main.held /\ Sending
      BY <1>0 DEF PatchAssetScan, Sending, Mains
    <3> QED
      BY <2>3, <3>1, <3>2, <3>3, SendingMoves
  <2>4. ASSUME Sending', main'.phase = "MarkFailed" PROVE main'.held.stats
    <3>1. CASE GetAssetScan /\ main'.held = assetScan /\ main'.phase = main.phase
      BY <1>0, <2>4, <3>1 DEF GetAssetScan, Mains
    <3>2. CASE PatchAssetScan
      BY <1>0, <1>2, <2>4, <3>2 DEF PatchAssetScan, OrderView, Sending, Mains
    <3>3. CASE main' = main /\ Sending
      BY <1>2, <2>4, <3>3 DEF OrderView
    <3> QED
      BY <2>4, <3>1, <3>2, <3>3, SendingMoves
  <2> QED
    BY <1>2, <1>5, <2>1, <2>2, <2>3, <2>4 DEF OrderView
<1> QED
  BY <1>2, <1>3, <1>4, <1>5, SaveMoves

LEMMA InitOrderView == Init => OrderView
BY DEF Init, OrderView, Sending, Updating

(* What each step is for the scanner of AssetScanLifecycle.                *)

Record == <<assetScan.state, assetScan.stats>>
Alike == (main'.phase = "lost") <=> (main.phase = "lost")

LEMMA AbstractGoes ==
    ASSUME NEW from, NEW to, ScannerPhase = from, ScannerPhase' = to, Alike
    PROVE  Abstract!ScannerGoes(1, from, to)
BY DEF Abstract!ScannerGoes, Alike

LEMMA AbstractUnchanged ==
    ASSUME UNCHANGED Record
    PROVE  UNCHANGED [a \in {1} |-> [state |-> assetScan.state, cleanup |-> "Pending",
                                    stats |-> assetScan.stats]]
BY DEF Record

LEMMA AbstractWaits ==
    ASSUME ScannerPhase = "waiting", Alike, UNCHANGED Record,
           \/ assetScan.state \in {"ReadyToScan", "InProgress"} /\ ScannerPhase' = "ready"
           \/ assetScan.state \in {"Done", "Failed", "Aborted"} /\ ScannerPhase' = "failing"
    PROVE  Abstract!ScannerStep(1)
BY AbstractGoes, AbstractUnchanged
DEF Abstract!ScannerStep, Abstract!WaitForReadyState, Abstract!StateOf

LEMMA AbstractMount ==
    ASSUME ScannerPhase = "ready", ScannerPhase' = "failing", Alike, UNCHANGED Record
    PROVE  Abstract!ScannerStep(1)
BY AbstractGoes, AbstractUnchanged DEF Abstract!ScannerStep, Abstract!MountFails

LEMMA AbstractMarkInProgress ==
    ASSUME ScannerPhase = "ready", Alike,
           \/ /\ ScannerPhase' = "running"
              /\ IsValidAssetScanTransition(assetScan.state, "InProgress")
              /\ assetScan'.state = "InProgress" /\ assetScan'.stats = TRUE
           \/ /\ ScannerPhase' = "exited" /\ UNCHANGED Record
              /\ ~IsValidAssetScanTransition(assetScan.state, "InProgress")
    PROVE  Abstract!ScannerStep(1)
BY AbstractGoes, AbstractUnchanged
DEF Abstract!ScannerStep, Abstract!MarkInProgress, Abstract!StateOf, Abstract!RefusesState,
    Abstract!IsValidAssetScanTransition, IsValidAssetScanTransition,
    Abstract!assetScanStatusStateTransitions, assetScanStatusStateTransitions

LEMMA AbstractFamilies ==
    ASSUME ScannerPhase = "running", ScannerPhase' \in {"failing", "finished"}, Alike,
           UNCHANGED Record
    PROVE  Abstract!ScannerStep(1)
BY AbstractGoes, AbstractUnchanged DEF Abstract!ScannerStep, Abstract!FamiliesRun

\* MarkDone, and MarkFailed of an AssetScan that was InProgress.
LEMMA AbstractMarks ==
    ASSUME NEW to \in {"Done", "Failed"}, Alike,
           ScannerPhase = IF to = "Done" THEN "finished" ELSE "failing",
           ScannerPhase' = "exited",
           to = "Failed" => assetScan.stats,
           \/ /\ IsValidAssetScanTransition(assetScan.state, to)
              /\ assetScan'.state = to /\ assetScan'.stats = assetScan.stats
           \/ /\ ~IsValidAssetScanTransition(assetScan.state, to)
              /\ UNCHANGED Record
    PROVE  Abstract!ScannerStep(1)
BY AbstractGoes, AbstractUnchanged
DEF Abstract!ScannerStep, Abstract!MarkDone, Abstract!MarkFailed, Abstract!StateOf,
    Abstract!RefusesState, Abstract!PatchState,
    Abstract!IsValidAssetScanTransition, IsValidAssetScanTransition,
    Abstract!assetScanStatusStateTransitions, assetScanStatusStateTransitions

LEMMA AbstractPanics ==
    ASSUME ScannerPhase = "failing", ScannerPhase' = "panicked", Alike, UNCHANGED Record,
           ~assetScan.stats
    PROVE  Abstract!ScannerStep(1)
BY AbstractGoes, AbstractUnchanged DEF Abstract!ScannerStep, Abstract!MarkFailed

LEMMA AbstractDies ==
    ASSUME main.phase # "lost", main'.phase = "lost", UNCHANGED Record,
           ScannerPhase \in Abstract!ScannerPhases \ {"none", "panicked", "exited"}
    PROVE  Abstract!ScannerDies(1)
<1>1. ScannerPhase' = "exited"
  BY DEF ScannerPhase
<1> QED
  BY <1>1, AbstractUnchanged DEF Abstract!ScannerDies, Abstract!Fault

Implemented ==
    \/ Abstract!ScannerStep(1) \/ Abstract!ScannerDies(1) \/ OthersStep
    \/ UNCHANGED <<assetScan.state, assetScan.stats, ScannerPhase>>

LEMMA MovesOn ==
    ASSUME Types, ScannerPhase = "running", NEW failed \in BOOLEAN, NextFamily(failed),
           UNCHANGED Record, main.phase # "lost"
    PROVE  Implemented
<1>1. main'.phase \in {"FamilyStarted", "MarkFailed", "MarkDone"} /\ main'.call = "get"
  BY NextFamilyMoves
<1>2. ScannerPhase' \in {"running", "failing", "finished"} /\ Alike
  BY <1>1 DEF ScannerPhase, Alike
<1> QED
  BY <1>2, AbstractFamilies DEF Implemented, Record

\* A call is given up, or the machine is gone.
LEMMA LosesIt ==
    ASSUME Types, Alive, main'.phase = "lost", UNCHANGED Record PROVE Implemented
<1>1. ScannerPhase \in {"waiting", "ready", "running", "finished", "failing", "exited"}
  BY DEF ScannerPhase, Alive, Over
<1>2. ScannerPhase' = "exited"
  BY DEF ScannerPhase
<1> QED
  BY <1>1, <1>2, AbstractDies DEF Implemented, Alive, Over, Record, Abstract!ScannerPhases

LEMMA FailsImplements ==
    ASSUME Types, Fails("lost"), UNCHANGED assetScan, main.phase \in Updating
    PROVE  Implemented
<1>0. main \in Mains
  BY DEF Types, TypeOK
<1>1. CASE OfFamily
  <2>1. ScannerPhase = "running" /\ main.phase # "lost"
    BY <1>1 DEF OfFamily, ScannerPhase
  <2> QED
    BY <1>1, <2>1, MovesOn DEF Fails, Record
<1>2. CASE ~OfFamily
  BY <1>0, <1>2, LosesIt DEF Fails, Goes, Mains, Alive, Over, Updating, Record
<1> QED
  BY <1>1, <1>2

LEMMA ReplyImplements == ASSUME Types, Reply PROVE Implemented
<1>0. main \in Mains /\ errs \in BOOLEAN /\ UNCHANGED Record
  BY DEF Types, TypeOK, Reply, Record
<1>1. CASE main.phase = "MarkInProgress"
  <2>1. CASE main.ok
    <3>1. NextFamily(errs) /\ ScannerPhase = "running"
      BY <1>1, <2>1 DEF Reply, Succeeds, ScannerPhase
    <3> QED
      BY <1>0, <1>1, <3>1, MovesOn
  <2>2. CASE ~main.ok
    <3>1. main'.phase = "exited" /\ ScannerPhase = "exited"
      BY <1>0, <1>1, <2>2 DEF Reply, Fails, OfFamily, Goes, ScannerPhase, Mains
    <3> QED
      BY <1>0, <3>1 DEF Implemented, ScannerPhase, Record
  <2> QED
    BY <2>1, <2>2
<1>2. CASE OfFamily
  <2>0. ScannerPhase = "running" /\ main.phase # "lost"
    BY <1>2 DEF OfFamily, ScannerPhase
  <2>1. CASE \E failed \in BOOLEAN : NextFamily(failed)
    BY <1>0, <2>0, <2>1, MovesOn
  <2>2. CASE main'.phase = "select"
    BY <1>0, <2>0, <2>2 DEF ScannerPhase, Implemented, Record
  <2>3. (\E failed \in BOOLEAN : NextFamily(failed)) \/ main'.phase = "select"
    BY <1>0, <1>2 DEF Reply, Succeeds, Fails, OfFamily, Mains
  <2> QED
    BY <2>1, <2>2, <2>3
<1>3. CASE main.phase \in {"MarkDone", "MarkFailed"}
  <2>1. main'.phase = "exited" /\ ScannerPhase = "exited"
    BY <1>0, <1>3 DEF Reply, Succeeds, Fails, OfFamily, Goes, ScannerPhase, Mains
  <2> QED
    BY <1>0, <2>1 DEF Implemented, ScannerPhase, Record
<1> QED
  BY <1>1, <1>2, <1>3 DEF Reply, Updating, OfFamily

LEMMA PatchImplements ==
    ASSUME Types, PatchAssetScan, OrderView, ~disordered PROVE Implemented
<1>0. main \in Mains /\ UNCHANGED Record /\ main.held \in AssetScans
  BY DEF Types, TypeOK, PatchAssetScan, Record, Mains
<1>1. CASE main'.call = "save"
  <2>1. main'.phase = main.phase /\ main.call = "patch"
    BY <1>0 DEF PatchAssetScan, Mains
  <2>2. ScannerPhase' = ScannerPhase
    BY <1>1, <2>1 DEF ScannerPhase
  <2> QED
    BY <1>0, <2>2 DEF Implemented, Record
<1>2. CASE main'.call # "save"
  <2>1. /\ ~Accepts(Patched, OfFamily) /\ main'.call = "reply" /\ ~main'.ok
        /\ main'.phase = main.phase /\ main.call = "patch" /\ main.phase \in Updating
    BY <1>0, <1>2 DEF PatchAssetScan, Mains
  <2>2. Alike
    BY <2>1 DEF Alike
  <2>3. ~IsValidAssetScanTransition(assetScan.state, Patched.state)
    BY <2>1 DEF Accepts
  <2>4. CASE OfFamily
    BY <1>0, <2>1, <2>4 DEF OfFamily, ScannerPhase, Implemented, Record
  <2>5. CASE main.phase = "MarkInProgress"
    <3>1. Patched.state = "InProgress"
      BY <1>0, <2>5 DEF Patched, AssetScans
    <3>2. ScannerPhase = "ready" /\ ScannerPhase' = "exited"
      BY <2>1, <2>5 DEF ScannerPhase
    <3> QED
      BY <1>0, <2>2, <2>3, <3>1, <3>2, AbstractMarkInProgress DEF Implemented
  <2>6. CASE main.phase = "MarkDone"
    <3>1. Patched.state = "Done"
      BY <1>0, <2>6 DEF Patched, AssetScans
    <3>2. ScannerPhase = "finished" /\ ScannerPhase' = "exited"
      BY <2>1, <2>6 DEF ScannerPhase
    <3> QED
      BY <1>0, <2>2, <2>3, <3>1, <3>2, AbstractMarks DEF Implemented
  <2>7. CASE main.phase = "MarkFailed"
    <3>1. Patched.state = "Failed"
      BY <1>0, <2>7 DEF Patched, AssetScans
    <3>2. ScannerPhase = "failing" /\ ScannerPhase' = "exited"
      BY <2>1, <2>7 DEF ScannerPhase
    <3>3. assetScan.stats
      BY <2>1, <2>7 DEF OrderView, Sending
    <3> QED
      BY <1>0, <2>2, <2>3, <3>1, <3>2, <3>3, AbstractMarks DEF Implemented
  <2> QED
    BY <2>1, <2>4, <2>5, <2>6, <2>7 DEF Updating, OfFamily
<1> QED
  BY <1>1, <1>2

LEMMA UpdateImplements ==
    ASSUME Types, UpdateAssetScan, OrderView, ~disordered PROVE Implemented
<1>0. main \in Mains /\ main.held \in AssetScans /\ assetScan \in AssetScans
  BY DEF Types, TypeOK, Mains
<1>1. /\ main.phase \in Updating /\ main.call = "save" /\ assetScan' = Patched
      /\ main'.phase = main.phase /\ main'.call = "reply" /\ main'.ok
  BY <1>0 DEF UpdateAssetScan, Saves, Mains
<1>2. Alike
  BY <1>1 DEF Alike
<1>3. Accepts(Patched, OfFamily) /\ main.held.stats = assetScan.stats
  BY <1>1 DEF OrderView, Sending
<1>4. CASE OfFamily
  <2>1. ScannerPhase' = ScannerPhase
    BY <1>1, <1>4 DEF OfFamily, ScannerPhase
  <2>2. assetScan'.stats = assetScan.stats
    BY <1>0, <1>1, <1>3, <1>4 DEF OfFamily, Patched, AssetScans
  <2>3. \/ assetScan'.state = assetScan.state
        \/ <<assetScan.state, assetScan'.state>> \in assetScanStatusStateTransitions
    BY <1>1, <1>3 DEF Accepts, IsValidAssetScanTransition
  <2> QED
    BY <2>1, <2>2, <2>3 DEF Implemented, OthersStep
<1>5. CASE ~OfFamily
  <2>1. IsValidAssetScanTransition(assetScan.state, Patched.state)
    BY <1>3, <1>5 DEF Accepts
  <2>2. CASE main.phase = "MarkInProgress"
    <3>1. assetScan'.state = "InProgress" /\ assetScan'.stats = TRUE
      BY <1>0, <1>1, <2>2 DEF Patched, AssetScans
    <3>2. ScannerPhase = "ready" /\ ScannerPhase' = "running"
      BY <1>1, <2>2 DEF ScannerPhase
    <3> QED
      BY <1>1, <1>2, <2>1, <3>1, <3>2, AbstractMarkInProgress DEF Implemented
  <2>3. CASE main.phase = "MarkDone"
    <3>1. assetScan'.state = "Done" /\ assetScan'.stats = assetScan.stats
      BY <1>0, <1>1, <1>3, <2>3 DEF Patched, AssetScans
    <3>2. ScannerPhase = "finished" /\ ScannerPhase' = "exited"
      BY <1>1, <2>3 DEF ScannerPhase
    <3> QED
      BY <1>1, <1>2, <2>1, <3>1, <3>2, AbstractMarks DEF Implemented
  <2>4. CASE main.phase = "MarkFailed"
    <3>1. assetScan'.state = "Failed" /\ assetScan'.stats = assetScan.stats
      BY <1>0, <1>1, <1>3, <2>4 DEF Patched, AssetScans
    <3>2. ScannerPhase = "failing" /\ ScannerPhase' = "exited"
      BY <1>1, <2>4 DEF ScannerPhase
    <3>3. assetScan.stats
      BY <1>1, <1>3, <2>4 DEF OrderView, Sending
    <3> QED
      BY <1>1, <1>2, <2>1, <3>1, <3>2, <3>3, AbstractMarks DEF Implemented
  <2> QED
    BY <1>1, <1>5, <2>2, <2>3, <2>4 DEF Updating, OfFamily
<1> QED
  BY <1>4, <1>5

LEMMA NextImplements ==
    ASSUME Types, AbortSeen, OrderView, ~disordered', Next PROVE Implemented
<1>0. main \in Mains /\ assetScan \in AssetScans /\ ~disordered
  BY SaveMoves DEF Types, TypeOK
<1>1. CASE WaitForReadyState
  <2>1. cancelled => assetScan.state \in {"Aborted", "Failed"}
    BY <1>0 DEF AbortSeen, OrderView
  <2>2. /\ ScannerPhase = "waiting" /\ Alike /\ UNCHANGED Record
        /\ \/ assetScan.state \in {"ReadyToScan", "InProgress"} /\ ScannerPhase' = "ready"
           \/ assetScan.state \in {"Done", "Failed", "Aborted"} /\ ScannerPhase' = "failing"
    BY <1>0, <1>1, <2>1 DEF WaitForReadyState, Goes, ScannerPhase, Alike, Record, Mains
  <2> QED
    BY <2>2, AbstractWaits DEF Implemented
<1>2. CASE MountVolumes
  <2>1. /\ ScannerPhase = "ready" /\ ScannerPhase' \in {"ready", "failing"} /\ Alike
        /\ UNCHANGED Record
    BY <1>0, <1>2 DEF MountVolumes, Goes, ScannerPhase, Alike, Record, Mains
  <2> QED
    BY <2>1, AbstractMount DEF Implemented, Record
<1>3. CASE GetAssetScan
  <2>0. UNCHANGED Record /\ main.phase \in Updating /\ main.call = "get"
    BY <1>3 DEF GetAssetScan, Record
  <2>1. CASE main' = [main EXCEPT !.phase = "panicked"]
    <3>1. main.phase = "MarkFailed" /\ ~assetScan.stats /\ main'.phase = "panicked"
      BY <1>0, <1>3, <2>1 DEF GetAssetScan, Mains
    <3>2. ScannerPhase = "failing" /\ ScannerPhase' = "panicked" /\ Alike
      BY <2>0, <3>1 DEF ScannerPhase, Alike
    <3> QED
      BY <2>0, <3>1, <3>2, AbstractPanics DEF Implemented
  <2>2. CASE main' = [main EXCEPT !.call = "patch", !.held = assetScan]
    <3>1. main'.phase = main.phase /\ main'.call = "patch"
      BY <1>0, <2>2 DEF Mains
    <3>2. ScannerPhase' = ScannerPhase
      BY <2>0, <3>1 DEF ScannerPhase
    <3> QED
      BY <2>0, <3>2 DEF Implemented, Record
  <2> QED
    BY <1>3, <2>1, <2>2 DEF GetAssetScan
<1>4. CASE CallCancelled \/ CallFails
  <2>1. Fails("lost") /\ UNCHANGED assetScan /\ main.phase \in Updating
    BY <1>4 DEF CallCancelled, CallFails, GivesUp, Hindered, OfFamily, Updating
  <2> QED
    BY <2>1, FailsImplements
<1>5. CASE ReceivesResult
  <2>1. ScannerPhase = "running" /\ ScannerPhase' = "running" /\ UNCHANGED Record
    BY <1>0, <1>5 DEF ReceivesResult, ScannerPhase, Record, Mains
  <2> QED
    BY <2>1 DEF Implemented, Record
<1>6. CASE Abandons
  <2>1. /\ ScannerPhase = "running" /\ NextFamily(TRUE) /\ UNCHANGED Record
        /\ main.phase # "lost"
    BY <1>6 DEF Abandons, ScannerPhase, Record
  <2> QED
    BY <2>1, MovesOn
<1>7. CASE Dies
  <2>1. Alive /\ main'.phase = "lost" /\ UNCHANGED Record
    BY <1>0, <1>7 DEF Dies, Goes, Record, Mains
  <2> QED
    BY <2>1, LosesIt
<1>8. CASE OthersSave
  <2>1. /\ assetScan'.state = others /\ assetScan'.stats = assetScan.stats /\ main' = main
        /\ others # "none"
    BY <1>8, OthersSaveKeeps DEF OthersSave
  <2>2. IsValidAssetScanTransition(assetScan.state, others)
    BY <1>0, <2>1 DEF OrderView
  <2>3. ScannerPhase' = ScannerPhase
    BY <2>1 DEF ScannerPhase
  <2> QED
    BY <2>1, <2>2, <2>3 DEF Implemented, OthersStep, IsValidAssetScanTransition
<1>9. CASE LateSave
  BY <1>9 DEF LateSave
<1>10. CASE UNCHANGED <<main, assetScan>>
  BY <1>10 DEF Implemented, ScannerPhase
<1> QED
  BY <1>0, <1>1, <1>2, <1>3, <1>4, <1>5, <1>6, <1>7, <1>8, <1>9, <1>10, ReplyImplements,
     PatchImplements, UpdateImplements
  DEF Next, MainSteps, WatcherSteps, IsAborted, Cancels, OthersPatch, LatePatch,
    WorkerBegins, WorkerEnds

\* The scanner with its separate reads and writes, families, goroutines and lost
\* calls is the scanner of AssetScanLifecycle, unless a PATCH overtook another: every
\* step is one of that scanner or of others (scan.go:66-143, state/vmclarity.go).
THEOREM ScannerIsImplemented == Spec => ImplementsScanner
<1>1. Types /\ DoneView /\ OrderView /\ [Next]_vars => OrderView'
  <2> SUFFICES ASSUME Types, OrderView, [Next]_vars PROVE OrderView'
    OBVIOUS
  <2>1. CASE UNCHANGED vars
    BY <2>1 DEF vars, server, OrderView, Sending, Accepts, Patched, OfFamily
  <2> QED
    BY <2>1, NextOrderView
<1>2. Spec => [](Types /\ DoneView /\ OrderView)
  BY <1>1, InitOrderView, ScannerViews, PTL DEF Spec
<1>3. Types /\ DoneView /\ OrderView /\ [Next]_vars =>
        [disordered' \/ Abstract!ScannerStep(1) \/ Abstract!ScannerDies(1) \/ OthersStep]_
          <<assetScan.state, assetScan.stats, ScannerPhase>>
  <2> SUFFICES ASSUME Types, DoneView, OrderView, [Next]_vars, ~disordered'
               PROVE  Implemented
    BY DEF Implemented
  <2>1. CASE UNCHANGED vars
    BY <2>1 DEF vars, Implemented, ScannerPhase
  <2> QED
    BY <2>1, NextImplements DEF DoneView
<1> QED
  BY <1>2, <1>3, PTL DEF Spec, ImplementsScanner
=============================================================================
