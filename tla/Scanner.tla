------------------------------- MODULE Scanner -------------------------------
(***************************************************************************)
(* The scanner of one AssetScan (cli): RunE of the scan command, the       *)
(* families it runs one after the other in goroutines of their own, the    *)
(* goroutine that watches for an abort, and the AssetScan it reads and     *)
(* writes back whole.  AssetScanLifecycle has the same scanner in fewer    *)
(* steps; ImplementsScanner says that it is the same.                      *)
(*                                                                         *)
(* A family is the place it has in the order of manager.go.  What it finds *)
(* is left out: its jobs answer, well or not, or never do.                 *)
(***************************************************************************)
EXTENDS Naturals, FiniteSets, Statuses

CONSTANTS NFamilies,  \* how many families are enabled
          Input,      \* the family whose results a family works on, 0 for none
          MaxFaults   \* bound on failing calls and crashes

Families == 1..NFamilies

ASSUME ScannerAssumption ==
    /\ NFamilies \in Nat
    /\ Input \in [Families -> 0..NFamilies]
    /\ \A f \in Families : Input[f] < f
    /\ MaxFaults \in Nat

VARIABLES assetScan,  \* what the API server stores
          main,       \* RunE: where it is, and the AssetScan it read
          worker,     \* worker[f]: the goroutine started for family f
          results,    \* familyResults: the families that have some
          errs,       \* Run has errors to report
          watcher,    \* the goroutine that watches for an abort
          cancelled,  \* abortCtx is cancelled
          aborted,    \* the AssetScan was aborted at some time
          late,       \* PATCHes the scanner gave up that the server still handles
          others,     \* the state a PATCH of someone else will save, once checked
          disordered, \* a PATCH was saved that was given up, or after another one
                      \* had changed the state it was checked against
          faults

server == <<late, others, disordered>>
vars == <<assetScan, main, worker, results, errs, watcher, cancelled, aborted, server,
          faults>>

AssetScans == [state : AssetScanStates, stats : BOOLEAN,
               family : [Families -> {"Pending", "InProgress", "Done", "Failed"}]]

\* The phases that read the AssetScan and write it back.
Updating == {"MarkInProgress", "FamilyStarted", "FamilyFinished", "MarkDone", "MarkFailed"}
Over == {"exited", "panicked", "lost"}

MainPhases == {"wait", "mount", "select"} \cup Updating \cup Over

Mains == [phase : MainPhases, call : {"get", "patch", "save", "reply"},
          family : 0..NFamilies, ok : BOOLEAN, held : AssetScans]
Workers == [st : {"none", "starting", "running", "ended"}, runs : 0..NFamilies, ok : BOOLEAN]
LatePatches == [patch : AssetScans, repeats : BOOLEAN, checked : BOOLEAN]

TypeOK ==
    /\ assetScan \in AssetScans
    /\ main \in Mains
    /\ worker \in [Families -> Workers]
    /\ results \subseteq Families
    /\ errs \in BOOLEAN
    /\ watcher \in {"watching", "cancelling", "stopped"}
    /\ cancelled \in BOOLEAN
    /\ aborted \in BOOLEAN
    /\ late \subseteq LatePatches
    /\ others \in {"none", "ReadyToScan", "Aborted", "Failed"}
    /\ disordered \in BOOLEAN
    /\ faults \in 0..MaxFaults

Init ==
    /\ assetScan = [state |-> "Scheduled", stats |-> FALSE,
                    family |-> [f \in Families |-> "Pending"]]
    /\ main = [phase |-> "wait", call |-> "get", family |-> 0, ok |-> FALSE,
               held |-> assetScan]
    /\ worker = [f \in Families |-> [st |-> "none", runs |-> 0, ok |-> FALSE]]
    /\ results = {}
    /\ errs = FALSE
    /\ watcher = "watching"
    /\ cancelled = FALSE
    /\ aborted = FALSE
    /\ late = {}
    /\ others = "none"
    /\ disordered = FALSE
    /\ faults = 0

Fault == faults < MaxFaults /\ faults' = faults + 1
Alive == main.phase \notin Over
-----------------------------------------------------------------------------
(* RunE up to the families.                                                *)

Goes(phase) == main' = [main EXCEPT !.phase = phase, !.call = "get"]

\* Faulty variant: a scanner that is early does not wait.
WaitForReadyState_Early ==
    /\ main.phase = "wait"
    /\ \/ assetScan.state \in {"Scheduled", "ReadyToScan", "InProgress"} /\ Goes("mount")
       \/ /\ assetScan.state \in {"Done", "Failed"} \/ cancelled
          /\ Goes("MarkFailed")
    /\ UNCHANGED <<assetScan, worker, results, errs, watcher, cancelled, aborted, server,
                   faults>>

\* An error of the read is tried again.
WaitForReadyState ==
    /\ main.phase = "wait"
    /\ \/ assetScan.state \in {"ReadyToScan", "InProgress"} /\ Goes("mount")
       \/ /\ assetScan.state \in {"Done", "Failed"} \/ cancelled
          /\ Goes("MarkFailed")
    /\ UNCHANGED <<assetScan, worker, results, errs, watcher, cancelled, aborted, server,
                   faults>>

\* MountVolumes fails when the abort cancels it; it is only called with
\* --mount-attached-volume.
MountVolumes ==
    /\ main.phase = "mount"
    /\ \/ Goes("MarkInProgress") /\ UNCHANGED faults
       \/ cancelled /\ Goes("MarkFailed") /\ UNCHANGED faults
       \/ Fault /\ Goes("MarkFailed")
    /\ UNCHANGED <<assetScan, worker, results, errs, watcher, cancelled, aborted, server>>
-----------------------------------------------------------------------------
(* Every update of the AssetScan is a GET, a PATCH of the whole object that *)
(* was read, which the server acts on, and the answer.                      *)

\* These use abortCtx, the others a context that is never cancelled.
OfFamily == main.phase \in {"FamilyStarted", "FamilyFinished"}

\* Faulty variant: FamilyStarted is not given abortCtx.
Hindered_WhenFinished == main.phase = "FamilyFinished" /\ cancelled

Hindered == OfFamily /\ cancelled

Patched ==
    CASE main.phase = "MarkInProgress" ->
           [main.held EXCEPT !.state = "InProgress", !.stats = TRUE]
      [] main.phase = "FamilyStarted" ->
           [main.held EXCEPT !.family[main.family] = "InProgress"]
      [] main.phase = "FamilyFinished" ->
           [main.held EXCEPT !.family[main.family] = IF main.ok THEN "Done" ELSE "Failed"]
      [] main.phase = "MarkDone" -> [main.held EXCEPT !.state = "Done"]
      [] main.phase = "MarkFailed" -> [main.held EXCEPT !.state = "Failed"]

\* The status a family's update repeats is accepted while it is the stored one.
Accepts(patch, repeats) ==
    \/ repeats /\ patch.state = assetScan.state
    \/ IsValidAssetScanTransition(assetScan.state, patch.state)

\* The server checks the status in one read and merges the patch into another.
\* What is patched is the whole object, but others change nothing but the state.
Saves(patch) ==
    /\ assetScan' = patch
    /\ aborted' = (aborted \/ patch.state = "Aborted")

\* Some PATCH that has been checked will be saved over a state that has changed.
Overtakes(patch, pending) == patch.state # assetScan.state /\ pending

\* MarkFailed writes through Stats.General.ScanTime, which MarkInProgress
\* allocates.
GetAssetScan ==
    /\ main.phase \in Updating /\ main.call = "get"
    /\ ~Hindered
    /\ main' = IF main.phase = "MarkFailed" /\ ~assetScan.stats
               THEN [main EXCEPT !.phase = "panicked"]
               ELSE [main EXCEPT !.call = "patch", !.held = assetScan]
    /\ UNCHANGED <<assetScan, worker, results, errs, watcher, cancelled, aborted, server,
                   faults>>

PatchAssetScan ==
    /\ main.phase \in Updating /\ main.call = "patch"
    /\ ~Hindered
    /\ main' = IF Accepts(Patched, OfFamily) THEN [main EXCEPT !.call = "save"]
               ELSE [main EXCEPT !.call = "reply", !.ok = FALSE]
    /\ UNCHANGED <<assetScan, worker, results, errs, watcher, cancelled, aborted, server,
                   faults>>

UpdateAssetScan ==
    /\ main.phase \in Updating /\ main.call = "save"
    /\ ~Hindered
    /\ Saves(Patched)
    /\ disordered' = (disordered \/ Overtakes(Patched, others # "none"))
    /\ main' = [main EXCEPT !.call = "reply", !.ok = TRUE]
    /\ UNCHANGED <<worker, results, errs, watcher, cancelled, late, others, faults>>

\* Faulty variant: the scan is Done as soon as one family is.
NextFamily_AnyResult(failed) ==
    main' = [main EXCEPT
               !.call = "get",
               !.family = IF @ < NFamilies THEN @ + 1 ELSE @,
               !.phase = IF main.family < NFamilies THEN "FamilyStarted"
                         ELSE IF failed /\ results = {} THEN "MarkFailed" ELSE "MarkDone"]

\* The loop of Run, and what RunE makes of its errors.  The variable of the loop
\* keeps its last value.
NextFamily(failed) ==
    main' = [main EXCEPT
               !.call = "get",
               !.family = IF @ < NFamilies THEN @ + 1 ELSE @,
               !.phase = IF main.family < NFamilies THEN "FamilyStarted"
                         ELSE IF failed THEN "MarkFailed" ELSE "MarkDone"]

\* A family that was not announced is skipped.
Succeeds ==
    CASE main.phase = "MarkInProgress" -> NextFamily(errs) /\ UNCHANGED <<worker, errs>>
      [] main.phase = "FamilyStarted" ->
           /\ main' = [main EXCEPT !.phase = "select"]
           /\ worker' = [worker EXCEPT ![main.family].st = "starting"]
           /\ UNCHANGED errs
      [] main.phase = "FamilyFinished" -> NextFamily(errs) /\ UNCHANGED <<worker, errs>>
      [] OTHER -> Goes("exited") /\ UNCHANGED <<worker, errs>>

Fails(over) ==
    /\ UNCHANGED worker
    /\ IF OfFamily THEN NextFamily(TRUE) /\ errs' = TRUE
       ELSE Goes(over) /\ UNCHANGED errs

Reply ==
    /\ main.phase \in Updating /\ main.call = "reply"
    /\ IF main.ok THEN Succeeds ELSE Fails("exited")
    /\ UNCHANGED <<assetScan, results, watcher, cancelled, aborted, server, faults>>

\* The server goes on with a PATCH nobody waits for any more.
LeavesPatch ==
    late' = IF main.phase \in Updating /\ main.call \in {"patch", "save"}
            THEN late \cup {[patch |-> Patched, repeats |-> OfFamily,
                             checked |-> main.call = "save"]}
            ELSE late

\* A call is given up, before the server acted, or after.
GivesUp ==
    /\ Fails("lost")
    /\ LeavesPatch
    /\ UNCHANGED <<assetScan, results, watcher, cancelled, aborted, others, disordered>>

\* The abort cancels it.
CallCancelled == Hindered /\ GivesUp /\ UNCHANGED faults

\* It fails; or the file presenter does.
CallFails == main.phase \in Updating /\ Fault /\ GivesUp
-----------------------------------------------------------------------------
(* Manager.Run of the families.                                            *)

\* Results come from the goroutine Run waits for.  Those that cannot be converted
\* for the API are reported as a failure of the family, but are no error.
ReceivesResult ==
    /\ main.phase = "select"
    /\ LET f == main.family IN
         /\ worker[f].st = "ended"
         /\ worker' = [worker EXCEPT ![f].st = "none"]
         /\ results' = IF worker[f].ok THEN results \cup {f} ELSE results
         /\ errs' = (errs \/ ~worker[f].ok)
         /\ \E ok \in BOOLEAN :
              /\ \/ ok = worker[f].ok /\ UNCHANGED faults
                 \/ ~ok /\ Fault
              /\ main' = [main EXCEPT !.phase = "FamilyFinished", !.call = "get", !.ok = ok]
    /\ UNCHANGED <<assetScan, watcher, cancelled, aborted, server>>

\* On an abort the goroutine is left to itself; FamilyFinished is called with
\* the cancelled context and does nothing.
Abandons ==
    /\ main.phase = "select"
    /\ cancelled
    /\ NextFamily(TRUE)
    /\ errs' = TRUE
    /\ UNCHANGED <<assetScan, worker, results, watcher, cancelled, aborted, server, faults>>

\* The goroutine reads the variable of the loop, which may have moved on.
WorkerBegins(f) ==
    /\ Alive
    /\ worker[f].st = "starting"
    /\ worker' = [worker EXCEPT ![f].st = "running", ![f].runs = main.family]
    /\ UNCHANGED <<assetScan, main, results, errs, watcher, cancelled, aborted, server, faults>>

HasInput(f) == Input[f] = 0 \/ Input[f] \in results

\* Every job of the family has answered, and one of them well; or none did, or the
\* family could not start.
WorkerEnds(f) ==
    /\ Alive
    /\ worker[f].st = "running"
    /\ \E ok \in BOOLEAN :
         /\ ok => HasInput(worker[f].runs)
         /\ worker' = [worker EXCEPT ![f].st = "ended", ![f].ok = ok]
    /\ UNCHANGED <<assetScan, main, results, errs, watcher, cancelled, aborted, server, faults>>
-----------------------------------------------------------------------------
(* WatchForAbort.                                                          *)

\* Faulty variant: it looks once.
IsAborted_Once ==
    /\ Alive
    /\ watcher = "watching"
    /\ watcher' = IF assetScan.state = "Aborted" THEN "cancelling" ELSE "stopped"
    /\ UNCHANGED <<assetScan, main, worker, results, errs, cancelled, aborted, server, faults>>

\* An error of the read is tried again at the next tick.
IsAborted ==
    /\ Alive
    /\ watcher = "watching"
    /\ assetScan.state = "Aborted"
    /\ watcher' = "cancelling"
    /\ UNCHANGED <<assetScan, main, worker, results, errs, cancelled, aborted, server, faults>>

Cancels ==
    /\ Alive
    /\ watcher = "cancelling"
    /\ watcher' = "stopped"
    /\ cancelled' = TRUE
    /\ UNCHANGED <<assetScan, main, worker, results, errs, aborted, server, faults>>
-----------------------------------------------------------------------------
(* The others.                                                             *)

\* What the watchers make of the AssetScan: AwScheduled, and SwAborts or a user,
\* and AwAborted when the abort timeout is over (AssetScanLifecycle).
OthersPatch ==
    /\ others = "none"
    /\ \E to \in {"ReadyToScan", "Aborted", "Failed"} :
         /\ <<assetScan.state, to>> \in
              {<<"Scheduled", "ReadyToScan">>, <<"Scheduled", "Failed">>,
               <<"ReadyToScan", "Aborted">>, <<"InProgress", "Aborted">>,
               <<"Aborted", "Failed">>}
         /\ others' = to
    /\ UNCHANGED <<assetScan, main, worker, results, errs, watcher, cancelled, aborted,
                   late, disordered, faults>>

OthersSave ==
    /\ others # "none"
    /\ LET patch == [assetScan EXCEPT !.state = others] IN
         /\ Saves(patch)
         /\ disordered' = (disordered \/ Overtakes(patch,
                             main.call = "save" \/ \E r \in late : r.checked))
    /\ others' = "none"
    /\ UNCHANGED <<main, worker, results, errs, watcher, cancelled, late, faults>>

\* The server comes to a PATCH nobody waits for.
LatePatch ==
    /\ \E r \in {q \in late : ~q.checked} :
         late' = (late \ {r}) \cup (IF Accepts(r.patch, r.repeats)
                                    THEN {[r EXCEPT !.checked = TRUE]} ELSE {})
    /\ UNCHANGED <<assetScan, main, worker, results, errs, watcher, cancelled, aborted,
                   others, disordered, faults>>

LateSave ==
    /\ \E r \in {q \in late : q.checked} : Saves(r.patch) /\ late' = late \ {r}
    /\ disordered' = TRUE
    /\ UNCHANGED <<main, worker, results, errs, watcher, cancelled, others, faults>>

\* The machine crashes, or is removed once the AssetScan is over.
Dies ==
    /\ Alive
    /\ \/ assetScan.state \in {"Done", "Failed"} /\ UNCHANGED faults
       \/ Fault
    /\ Goes("lost")
    /\ LeavesPatch
    /\ UNCHANGED <<assetScan, worker, results, errs, watcher, cancelled, aborted, others,
                   disordered>>

MainSteps ==
    \/ WaitForReadyState \/ MountVolumes
    \/ GetAssetScan \/ PatchAssetScan \/ UpdateAssetScan \/ Reply \/ CallCancelled
    \/ ReceivesResult \/ Abandons

WatcherSteps == IsAborted \/ Cancels

Next ==
    \/ MainSteps \/ CallFails \/ WatcherSteps \/ Dies
    \/ OthersPatch \/ OthersSave \/ LatePatch \/ LateSave
    \/ \E f \in Families : WorkerBegins(f) \/ WorkerEnds(f)

Spec == Init /\ [][Next]_vars

\* Fairness: the goroutines run and calls return.  Nothing is assumed of the jobs
\* of a family, which have no timeout, or of the others.
FairSpec == Spec /\ WF_vars(MainSteps) /\ WF_vars(WatcherSteps)
-----------------------------------------------------------------------------
(* Properties.                                                             *)

\* Done means that every family found something and so did the one it worked on,
\* and that each was reported: no result, and no report of one, is missing,
\* whatever failed in between.  Only results that cannot be converted leave a
\* Failed family in an AssetScan that is Done (manager.go:112-162,
\* scan.go:119-136, presenter/vmclarity.go:376-395).
DoneMeansAllDone ==
    assetScan.state = "Done" =>
        \A f \in Families :
            /\ f \in results /\ HasInput(f)
            /\ \/ assetScan.family[f] = "Done"
               \/ assetScan.family[f] = "Failed" /\ faults > 0

\* A scanner that comes to its end without an abort or a failing call has said how
\* it went, and how each family went.  One that is aborted leaves families
\* InProgress: FamilyFinished is called with the cancelled context.
EndIsReported ==
    main.phase = "exited" /\ faults = 0 /\ ~aborted =>
        /\ assetScan.state \in {"Done", "Failed"}
        /\ \A f \in Families : assetScan.family[f] \in {"Done", "Failed"}

\* What the stored AssetScan says of the scanner is true.
ReportIsTrue == DoneMeansAllDone /\ EndIsReported

Busy(f) == Alive /\ worker[f].st \in {"starting", "running"}

\* Families run one at a time and in order, each announced to the server before,
\* although an abort leaves a family running in the background and the loop goes
\* on.  A goroutine that was abandoned before it began may run another family
\* than the one it was started for, and a PATCH that comes late takes what was
\* announced back (manager.go:112-156).
OneFamilyAtATime ==
    /\ \A f, g \in Families : Busy(f) /\ Busy(g) => f = g
    /\ \A f \in Families : Busy(f) =>
         \/ cancelled
         \/ /\ main.phase = "select" /\ main.family = f
            /\ worker[f].st = "running" => worker[f].runs = f
            /\ assetScan.family[f] = "InProgress" \/ disordered

\* A scanner whose AssetScan is aborted ends, wherever it is and even if a job
\* never answers, unless the abort timeout has hidden the abort from it, which
\* looks every two minutes, or a PATCH the server had checked before was saved
\* over the abort (cli.go:101-128, manager.go:128-142).
AbortEndsScanner ==
    assetScan.state = "Aborted" ~>
        (~Alive \/ (assetScan.state = "Failed" /\ ~cancelled) \/ disordered)

\* The scanner of AssetScanLifecycle.
ScannerPhase ==
    CASE main.phase = "wait" -> "waiting"
      [] main.phase = "mount" -> "ready"
      [] main.phase = "MarkInProgress" ->
           IF main.call # "reply" THEN "ready" ELSE IF main.ok THEN "running" ELSE "exited"
      [] main.phase \in {"FamilyStarted", "select", "FamilyFinished"} -> "running"
      [] main.phase = "MarkDone" -> IF main.call = "reply" THEN "exited" ELSE "finished"
      [] main.phase = "MarkFailed" -> IF main.call = "reply" THEN "exited" ELSE "failing"
      [] main.phase = "panicked" -> "panicked"
      [] OTHER -> "exited"

Abstract == INSTANCE AssetScanLifecycle
    WITH Assets <- {1}, MaxParallelScanners <- 1, DeleteJobPolicy <- "Never",
         MaxFaults <- 1, None <- 0,
         assetScan <- [a \in {1} |-> [state |-> assetScan.state, cleanup |-> "Pending",
                                      stats |-> assetScan.stats]],
         scanner <- [a \in {1} |-> ScannerPhase],
         faults <- IF main.phase = "lost" THEN 1 ELSE 0,
         aw <- 0, resources <- {1}, abortLate <- {}

OthersStep ==
    /\ UNCHANGED <<ScannerPhase, assetScan.stats>>
    /\ <<assetScan.state, assetScan'.state>> \in assetScanStatusStateTransitions

\* Every step is one the scanner of AssetScanLifecycle may take, or one of
\* others: what was checked of the AssetScans there holds of this scanner, whose
\* reads and writes are separate calls.  The exception is a PATCH the server saves
\* late, or over a state it did not check it against, as it does not lock what it
\* checks (asset_scan_controller.go:98-168): it can undo an abort.
ImplementsScanner ==
    [][disordered' \/ Abstract!ScannerStep(1) \/ Abstract!ScannerDies(1) \/ OthersStep]_
        <<assetScan.state, assetScan.stats, ScannerPhase>>
=============================================================================
