-------------------------- MODULE AssetScanLifecycle --------------------------
(***************************************************************************)
(* The AssetScans of one Scan: the objects the API server stores, the      *)
(* AssetScan watcher (orchestrator/watcher/assetscan), the provider it     *)
(* asks for resources, and the scanner (cli/cmd/scan, cli/state) those     *)
(* resources run.                                                          *)
(*                                                                         *)
(* An API call is one step: the server validates and stores.  The watcher  *)
(* is one goroutine; each Reconcile reads an AssetScan, decides on what it *)
(* read, perhaps calls the provider, and patches, and anybody may come     *)
(* between those steps.                                                    *)
(***************************************************************************)
EXTENDS Naturals, FiniteSets, Statuses

CONSTANTS Assets,               \* the assets, one AssetScan each at most
          MaxParallelScanners,  \* of the Scan
          DeleteJobPolicy,      \* "Always", "OnSuccess" or "Never"
          MaxFaults,            \* bound on failing calls, crashes and restarts
          None                  \* not an asset

ASSUME AssetScanAssumption ==
    /\ IsFiniteSet(Assets)
    /\ MaxParallelScanners \in Nat \ {0}
    /\ DeleteJobPolicy \in {"Always", "OnSuccess", "Never"}
    /\ MaxFaults \in Nat
    /\ None \notin Assets

VARIABLES assetScan,   \* assetScan[a]: what the API server stores
          aw,          \* the AssetScan watcher's Reconcile in progress
          resources,   \* the assets whose provider resources exist
          scanner,     \* scanner[a]: where the scanner on a is
          abortLate,   \* aborted for longer than the abort timeout
          faults       \* faults so far

avars == <<assetScan, aw, resources, scanner, abortLate, faults>>

Absent == "Absent"
ScannerPhases ==
    {"none",       \* not started
     "waiting",    \* WaitForReadyState
     "ready",      \* mounting volumes, about to MarkInProgress
     "running",    \* the families run
     "finished",   \* they ran without errors, about to MarkDone
     "failing",    \* about to MarkFailed
     "panicked",   \* nil pointer in MarkFailed
     "exited"}

AwIdle == [phase |-> "idle", asset |-> None, saw |-> Absent, to |-> Absent]

AssetScanTypeOK ==
    /\ assetScan \in [Assets -> [state : AssetScanStates \cup {Absent},
                                 cleanup : CleanupStates,
                                 stats : BOOLEAN]]
    /\ aw \in [phase : {"idle", "got", "status", "cleanup"},
               asset : Assets \cup {None},
               saw : AssetScanStates \cup {Absent},
               to : AssetScanStates \cup CleanupStates \cup {Absent}]
    /\ resources \in SUBSET Assets
    /\ scanner \in [Assets -> ScannerPhases]
    /\ abortLate \in SUBSET Assets
    /\ faults \in 0..MaxFaults

AssetScanInit ==
    /\ assetScan = [a \in Assets |->
                      [state |-> Absent, cleanup |-> "Pending", stats |-> FALSE]]
    /\ aw = AwIdle
    /\ resources = {}
    /\ scanner = [a \in Assets |-> "none"]
    /\ abortLate = {}
    /\ faults = 0

Fault == faults < MaxFaults /\ faults' = faults + 1
-----------------------------------------------------------------------------
(* The API server.                                                         *)

StateOf(a) == assetScan[a].state
Exists(a) == StateOf(a) # Absent
Ended(a) == StateOf(a) \in {"Done", "Failed"}

\* PATCH with a status: stored when the transition is valid, refused otherwise.
PatchState(a, to) ==
    /\ IsValidAssetScanTransition(StateOf(a), to)
    /\ assetScan' = [assetScan EXCEPT ![a].state = to]

RefusesState(a, to) ==
    /\ ~IsValidAssetScanTransition(StateOf(a), to)
    /\ UNCHANGED assetScan

\* POST of a new AssetScan, an accepted conflict when there is one already.
PostAssetScan(a) ==
    assetScan' = IF Exists(a) THEN assetScan
                 ELSE [assetScan EXCEPT ![a].state = "Pending"]
-----------------------------------------------------------------------------
(* The AssetScan watcher.                                                  *)

\* Faulty variant: an AssetScan that is over is not polled again.
Polled_OnlyRunning(a) == Exists(a) /\ ~Ended(a)

\* What GetAssetScans puts on the queue.
Polled(a) == Exists(a) /\ (~Ended(a) \/ assetScan[a].cleanup = "Pending")

\* The read Reconcile starts with; the AssetScan was polled now or a while ago.
AwGet(a) ==
    /\ aw.phase = "idle"
    /\ Exists(a)
    /\ aw' = [AwIdle EXCEPT !.phase = "got", !.asset = a, !.saw = StateOf(a)]
    /\ UNCHANGED <<assetScan, resources, scanner, abortLate, faults>>

\* The AssetScans reconcilePending counts against MaxParallelScanners.
Active == {a \in Assets : /\ StateOf(a) \notin {Absent, "Pending", "Done", "Failed"}
                          /\ assetScan[a].cleanup = "Pending"}

AwSaw(states) == aw.phase = "got" /\ aw.saw \in states

AwWillPatch(phase, to) == aw' = [aw EXCEPT !.phase = phase, !.to = to]

\* Faulty variant: off by one.
AwPending_OneTooMany ==
    /\ AwSaw({"Pending"})
    /\ \/ /\ Cardinality(Active) > MaxParallelScanners
          /\ aw' = AwIdle
       \/ /\ Cardinality(Active) <= MaxParallelScanners
          /\ AwWillPatch("status", "Scheduled")
    /\ UNCHANGED <<assetScan, resources, scanner, abortLate, faults>>

AwPending ==
    /\ AwSaw({"Pending"})
    /\ \/ /\ Cardinality(Active) >= MaxParallelScanners
          /\ aw' = AwIdle
       \/ /\ Cardinality(Active) < MaxParallelScanners
          /\ AwWillPatch("status", "Scheduled")
    /\ UNCHANGED <<assetScan, resources, scanner, abortLate, faults>>

\* RunAssetScan creates what is missing and starts the scanner with it.
Provision(a) ==
    /\ resources' = resources \cup {a}
    /\ scanner' = IF scanner[a] = "none" THEN [scanner EXCEPT ![a] = "waiting"]
                  ELSE scanner

AwScheduled ==
    /\ AwSaw({"Scheduled"})
    /\ \/ /\ Provision(aw.asset)
          /\ AwWillPatch("status", "ReadyToScan")
          /\ UNCHANGED faults
       \* RetryableError: resources are being created; try again later.  It
       \* does not go on for ever: once they exist no call is retried.
       \/ /\ aw.asset \notin resources
          /\ resources' = resources \cup {aw.asset}
          /\ aw' = AwIdle
          /\ UNCHANGED <<scanner, faults>>
       \* FatalError or another error, before or after creating something
       \/ /\ Fault
          /\ \/ Provision(aw.asset)
             \/ resources' = resources \cup {aw.asset} /\ UNCHANGED scanner
             \/ UNCHANGED <<resources, scanner>>
          /\ AwWillPatch("status", "Failed")
    /\ UNCHANGED <<assetScan, abortLate>>

\* Nothing to do: `break` with a TODO about a missing timeout.
AwReadyOrInProgress ==
    /\ AwSaw({"ReadyToScan", "InProgress"})
    /\ aw' = AwIdle
    /\ UNCHANGED <<assetScan, resources, scanner, abortLate, faults>>

AwAborted ==
    /\ AwSaw({"Aborted"})
    /\ \/ aw.asset \notin abortLate /\ aw' = AwIdle
       \/ aw.asset \in abortLate /\ AwWillPatch("status", "Failed")
    /\ UNCHANGED <<assetScan, resources, scanner, abortLate, faults>>

Keeps(policy, state) ==
    policy = "Never" \/ (policy = "OnSuccess" /\ state = "Failed")

\* The machine the scanner on a runs on is gone.
StopScanner(a) ==
    scanner' = [scanner EXCEPT ![a] = IF @ = "panicked" THEN @ ELSE "exited"]

\* Faulty variant: the provider says it is done when it has asked for the removal.
Deprovision_Asked(a) == UNCHANGED resources /\ StopScanner(a)

\* The resources of a, the machine among them, are gone.
Deprovision(a) == resources' = resources \ {a} /\ StopScanner(a)

\* reconcileDoneAndFailed and cleanupResources.
AwEnded ==
    /\ AwSaw({"Done", "Failed"})
    /\ \/ /\ assetScan[aw.asset].cleanup # "Pending"
          /\ aw' = AwIdle
          /\ UNCHANGED <<resources, scanner, faults>>
       \/ /\ assetScan[aw.asset].cleanup = "Pending"
          /\ Keeps(DeleteJobPolicy, aw.saw)
          /\ AwWillPatch("cleanup", "Skipped")
          /\ UNCHANGED <<resources, scanner, faults>>
       \/ /\ assetScan[aw.asset].cleanup = "Pending"
          /\ ~Keeps(DeleteJobPolicy, aw.saw)
          /\ \/ /\ Deprovision(aw.asset)
                /\ AwWillPatch("cleanup", "Done")
                /\ UNCHANGED faults
             \* RetryableError: the machine is being deleted; try again later
             \/ /\ scanner[aw.asset] \notin {"panicked", "exited"}
                /\ StopScanner(aw.asset)
                /\ aw' = AwIdle
                /\ UNCHANGED <<resources, faults>>
             \* a fatal error
             \/ /\ Fault
                /\ AwWillPatch("cleanup", "Failed")
                /\ UNCHANGED <<resources, scanner>>
    /\ UNCHANGED <<assetScan, abortLate>>

\* PatchAssetScan and the return from Reconcile.
AwPatchState ==
    /\ aw.phase = "status"
    /\ PatchState(aw.asset, aw.to) \/ RefusesState(aw.asset, aw.to)
    /\ aw' = AwIdle
    /\ UNCHANGED <<resources, scanner, abortLate, faults>>

AwPatchCleanup ==
    /\ aw.phase = "cleanup"
    /\ assetScan' =
         IF IsValidCleanupTransition(assetScan[aw.asset].cleanup, aw.to)
         THEN [assetScan EXCEPT ![aw.asset].cleanup = aw.to]
         ELSE assetScan
    /\ aw' = AwIdle
    /\ UNCHANGED <<resources, scanner, abortLate, faults>>

\* A call fails, Reconcile runs into its timeout, or the orchestrator restarts.
AwGivesUp ==
    /\ aw.phase # "idle"
    /\ Fault
    /\ aw' = AwIdle
    /\ UNCHANGED <<assetScan, resources, scanner, abortLate>>

\* LastTransitionTime + abortTimeout passes.
AbortTimeoutPasses(a) ==
    /\ StateOf(a) = "Aborted"
    /\ abortLate' = abortLate \cup {a}
    /\ UNCHANGED <<assetScan, aw, resources, scanner, faults>>

AwReconciles ==
    \/ AwPending \/ AwScheduled \/ AwReadyOrInProgress \/ AwAborted \/ AwEnded
    \/ AwPatchState \/ AwPatchCleanup
-----------------------------------------------------------------------------
(* The scanner.  Its abort watcher and the reaction of the goroutine whose *)
(* context it cancels are one step.                                        *)

ScannerGoes(a, from, to) ==
    /\ scanner[a] = from
    /\ scanner' = [scanner EXCEPT ![a] = to]
    /\ UNCHANGED <<aw, resources, abortLate, faults>>

WaitForReadyState(a) ==
    /\ \/ /\ StateOf(a) \in {"ReadyToScan", "InProgress"}
          /\ ScannerGoes(a, "waiting", "ready")
       \/ /\ StateOf(a) \in {"Done", "Failed", "Aborted"}
          /\ ScannerGoes(a, "waiting", "failing")
    /\ UNCHANGED assetScan

\* MountVolumes fails, of itself or because the AssetScan is aborted.
MountFails(a) == ScannerGoes(a, "ready", "failing") /\ UNCHANGED assetScan

\* The server refuses InProgress for an AssetScan that was aborted meanwhile;
\* the scanner then returns the error without another call.
MarkInProgress(a) ==
    \/ /\ ScannerGoes(a, "ready", "running")
       /\ IsValidAssetScanTransition(StateOf(a), "InProgress")
       /\ assetScan' = [assetScan EXCEPT ![a].state = "InProgress", ![a].stats = TRUE]
    \/ ScannerGoes(a, "ready", "exited") /\ RefusesState(a, "InProgress")

\* families.Run: with errors, as when an abort is noticed in time, or without.
FamiliesRun(a) ==
    /\ ScannerGoes(a, "running", "failing") \/ ScannerGoes(a, "running", "finished")
    /\ UNCHANGED assetScan

MarkDone(a) ==
    /\ ScannerGoes(a, "finished", "exited")
    /\ PatchState(a, "Done") \/ RefusesState(a, "Done")

\* MarkFailed writes through Stats.General.ScanTime, which only MarkInProgress
\* allocates.
MarkFailed(a) ==
    \/ /\ ScannerGoes(a, "failing", "exited")
       /\ assetScan[a].stats
       /\ PatchState(a, "Failed") \/ RefusesState(a, "Failed")
    \/ /\ ScannerGoes(a, "failing", "panicked")
       /\ ~assetScan[a].stats
       /\ UNCHANGED assetScan

ScannerStep(a) ==
    \/ WaitForReadyState(a) \/ MountFails(a) \/ MarkInProgress(a)
    \/ FamiliesRun(a) \/ MarkDone(a) \/ MarkFailed(a)

\* The machine dies, or an API call of the scanner fails: it is not retried.
ScannerDies(a) ==
    /\ scanner[a] \in ScannerPhases \ {"none", "panicked", "exited"}
    /\ Fault
    /\ scanner' = [scanner EXCEPT ![a] = "exited"]
    /\ UNCHANGED <<assetScan, aw, resources, abortLate>>

AssetScanNext ==
    \/ AwReconciles
    \/ AwGivesUp
    \/ \E a \in Assets :
         AwGet(a) \/ AbortTimeoutPasses(a) \/ ScannerStep(a) \/ ScannerDies(a)
-----------------------------------------------------------------------------
(* Properties.                                                             *)

\* "The maximum number of asset scans that can be scheduled in parallel": the
\* AssetScans that hold a slot never exceed MaxParallelScanners, although
\* counting and patching are separate calls and a crash may come in between
\* (watcher.go:193-237).
ParallelBound == Cardinality(Active) <= MaxParallelScanners

\* Once cleanup is Done the resources are gone for good: no retried, repeated or
\* interrupted RunAssetScan brings them back, and no scanner is left running
\* (watcher.go:262-303, 377-405).
CleanedUpForGood ==
    \A a \in Assets : assetScan[a].cleanup = "Done" =>
        a \notin resources /\ scanner[a] \in {"exited", "panicked"}
=============================================================================
