---------------------------- MODULE ScanLifecycle ----------------------------
(***************************************************************************)
(* One Scan, from its creation to its end: the Scan object the API server  *)
(* stores, the Scan watcher (orchestrator/watcher/scan), the user who may  *)
(* abort it, and the AssetScans it consists of.                            *)
(*                                                                         *)
(* The Scan watcher is one goroutine.  Its Reconcile decides on the Scan   *)
(* it read at the beginning, and its patch is validated against the Scan   *)
(* that is stored when the patch arrives.                                  *)
(***************************************************************************)
EXTENDS AssetScanLifecycle

VARIABLES scan,      \* the Scan the API server stores
          sw,        \* the Scan watcher's Reconcile in progress
          timedOut,  \* StartTime plus the Scan's timeout has passed
          missed     \* assets whose abort failed, which went unnoticed

svars == <<scan, sw, timedOut, missed>>
vars == <<avars, svars>>

Status(state, reason) == [state |-> state, reason |-> reason]

Pending    == Status("Pending", "Created")
Discovered == Status("Discovered", "AssetsDiscovered")
InProgress == Status("InProgress", "AssetScansRunning")
Aborted    == Status("Aborted", "Cancellation")
Timeout_AsCancelled  == Status("Aborted", "Cancellation")  \* faulty variant
Timeout    == Status("Failed", "Timeout")
Cancelled  == Status("Failed", "Cancellation")
Errored    == Status("Failed", "Error")
Success    == Status("Done", "Success")
NoAssets   == Status("Done", "NothingToScan")

\* sw.todo: the assets whose call is to be made; sw.unchecked: those whose
\* goroutine has stored the outcome of its PATCH in the shared variable err,
\* sw.err, and has not read it back yet; sw.failed: an error was noticed.
SwIdle == [phase |-> "idle", saw |-> Pending, to |-> Pending, ends |-> FALSE,
           assetIDs |-> {}, todo |-> {}, unchecked |-> {}, err |-> FALSE,
           failed |-> FALSE]

TypeOK ==
    /\ AssetScanTypeOK
    /\ scan \in [status : ScanStatuses, assetIDs : SUBSET Assets, ended : BOOLEAN]
    /\ sw \in [phase : {"idle", "got", "creating", "aborting", "patch"},
               saw : ScanStatuses, to : ScanStatuses, ends : BOOLEAN,
               assetIDs : SUBSET Assets, todo : SUBSET Assets,
               unchecked : SUBSET Assets, err : BOOLEAN, failed : BOOLEAN]
    /\ timedOut \in BOOLEAN
    /\ missed \subseteq Assets

Init ==
    /\ AssetScanInit
    /\ scan = [status |-> Pending, assetIDs |-> {}, ended |-> FALSE]
    /\ sw = SwIdle
    /\ timedOut = FALSE
    /\ missed = {}

Finished == scan.status.state \in {"Done", "Failed"}

\* Faulty variant: the last write wins.
PatchScan_Unchecked(to, assetIDs, ended) ==
    scan' = [status |-> to, assetIDs |-> assetIDs, ended |-> ended]

\* PATCH of the Scan by the watcher or by a user.
PatchScan(to, assetIDs, ended) ==
    scan' = IF IsValidScanTransition(scan.status, to)
            THEN [status |-> to, assetIDs |-> assetIDs, ended |-> ended]
            ELSE scan
-----------------------------------------------------------------------------
(* The Scan watcher.                                                       *)

SwWillPatch(to, assetIDs, ends) ==
    sw' = [SwIdle EXCEPT !.phase = "patch", !.saw = sw.saw, !.to = to,
                         !.assetIDs = assetIDs, !.ends = ends]

\* Reconcile reads the Scan, which GetRunningScans selected now or a while ago.
SwGet ==
    /\ sw.phase = "idle"
    /\ sw' = [SwIdle EXCEPT !.phase = "got", !.saw = scan.status,
                            !.assetIDs = scan.assetIDs]
    /\ UNCHANGED <<avars, scan, timedOut, missed>>

SwSaw(state) == sw.phase = "got" /\ sw.saw.state = state

\* A timed out Scan is patched to Failed whatever its state, with no EndTime.
\* Reconcile goes on with the state it has just patched, which needs nothing;
\* if the patch is refused it returns the error.
SwTimesOut ==
    /\ sw.phase = "got"
    /\ timedOut
    /\ SwWillPatch(Timeout, sw.assetIDs, FALSE)
    /\ UNCHANGED <<avars, scan, timedOut, missed>>

\* "Reconciling Scan is skipped as it is already finished."
SwSkips ==
    /\ SwSaw("Done") \/ SwSaw("Failed")
    /\ ~timedOut
    /\ sw' = SwIdle
    /\ UNCHANGED <<avars, scan, timedOut, missed>>

\* reconcilePending, with any selection of assets as the Scan's scope.
SwPending ==
    /\ SwSaw("Pending")
    /\ ~timedOut
    /\ \/ \E ids \in (SUBSET Assets) \ {{}} : SwWillPatch(Discovered, ids, FALSE)
       \/ SwWillPatch(NoAssets, {}, FALSE)
    /\ UNCHANGED <<avars, scan, timedOut, missed>>

\* reconcileDiscovered: one POST per asset, each in a goroutine of its own.
SwDiscovered ==
    /\ SwSaw("Discovered")
    /\ ~timedOut
    /\ sw' = [sw EXCEPT !.phase = "creating", !.todo = sw.assetIDs]
    /\ UNCHANGED <<avars, scan, timedOut, missed>>

SwCreates(a) ==
    /\ sw.phase = "creating"
    /\ a \in sw.todo
    /\ PostAssetScan(a)
    /\ sw' = [sw EXCEPT !.todo = @ \ {a}]
    /\ UNCHANGED <<aw, resources, scanner, abortLate, faults, scan, timedOut, missed>>

\* A POST fails, before or after the server stored the AssetScan.
SwCreateFails(a) ==
    /\ sw.phase = "creating"
    /\ a \in sw.todo
    /\ Fault
    /\ PostAssetScan(a) \/ UNCHANGED assetScan
    /\ sw' = [sw EXCEPT !.todo = @ \ {a}, !.failed = TRUE]
    /\ UNCHANGED <<aw, resources, scanner, abortLate, scan, timedOut, missed>>

SwCreated ==
    /\ sw.phase = "creating"
    /\ sw.todo = {}
    /\ \/ sw.failed /\ sw' = SwIdle
       \/ ~sw.failed /\ SwWillPatch(InProgress, sw.assetIDs, FALSE)
    /\ UNCHANGED <<avars, scan, timedOut, missed>>

\* The Scan's AssetScans, and how updateScanSummaryFromAssetScan counts them.
Jobs == {a \in Assets : Exists(a)}
\* Faulty variant: a job that waits for its slot is not counted.
JobsLeftToRun_WithoutPending == {a \in Jobs : ~Ended(a) /\ StateOf(a) # "Pending"}
JobsLeftToRun == {a \in Jobs : ~Ended(a)}

\* reconcileInProgress.
SwInProgress ==
    /\ SwSaw("InProgress")
    /\ ~timedOut
    /\ \/ /\ JobsLeftToRun # {}
          /\ SwWillPatch(sw.saw, sw.assetIDs, FALSE)
       \/ /\ JobsLeftToRun = {}
          /\ \E a \in Jobs : StateOf(a) = "Failed"
          /\ SwWillPatch(Errored, sw.assetIDs, TRUE)
       \/ /\ JobsLeftToRun = {}
          /\ \A a \in Jobs : StateOf(a) # "Failed"
          /\ SwWillPatch(Success, sw.assetIDs, TRUE)
    /\ UNCHANGED <<avars, scan, timedOut, missed>>

\* Faulty variant: the filter lets finished AssetScans through.
SwAborted_AlsoEnded ==
    /\ SwSaw("Aborted")
    /\ ~timedOut
    /\ sw' = [sw EXCEPT !.phase = "aborting", !.todo = {a \in Jobs : StateOf(a) # "Aborted"}]
    /\ UNCHANGED <<avars, scan, timedOut, missed>>

\* reconcileAborted: a goroutine per AssetScan that is not aborted or over.
SwAborted ==
    /\ SwSaw("Aborted")
    /\ ~timedOut
    /\ sw' = [sw EXCEPT !.phase = "aborting",
                        !.todo = {a \in JobsLeftToRun : StateOf(a) # "Aborted"}]
    /\ missed' = {}
    /\ UNCHANGED <<avars, scan, timedOut>>

\* err = w.client.PatchAssetScan(...), where err belongs to all goroutines.
SwAborts(a) ==
    /\ sw.phase = "aborting"
    /\ a \in sw.todo
    /\ \/ PatchState(a, "Aborted") /\ sw' = [sw EXCEPT !.todo = @ \ {a},
                                       !.unchecked = @ \cup {a}, !.err = FALSE]
       \/ RefusesState(a, "Aborted") /\ sw' = [sw EXCEPT !.todo = @ \ {a},
                                       !.unchecked = @ \cup {a}, !.err = TRUE]
    /\ UNCHANGED <<aw, resources, scanner, abortLate, faults, scan, timedOut, missed>>

\* The PATCH fails, before or after the server stored the state.
SwAbortFails(a) ==
    /\ sw.phase = "aborting"
    /\ a \in sw.todo
    /\ Fault
    /\ PatchState(a, "Aborted") \/ UNCHANGED assetScan
    /\ sw' = [sw EXCEPT !.todo = @ \ {a}, !.unchecked = @ \cup {a}, !.err = TRUE]
    /\ UNCHANGED <<aw, resources, scanner, abortLate, scan, timedOut, missed>>

\* What an abort leaves of an AssetScan.
AbortedOrOver(a) == StateOf(a) = "Aborted" \/ Ended(a)

\* if err != nil { reconciliationFailed = true }
SwChecksErr(a) ==
    /\ sw.phase = "aborting"
    /\ a \in sw.unchecked
    /\ sw' = [sw EXCEPT !.unchecked = @ \ {a}, !.failed = @ \/ sw.err]
    /\ missed' = IF sw.err \/ AbortedOrOver(a) THEN missed ELSE missed \cup {a}
    /\ UNCHANGED <<avars, scan, timedOut>>

SwAbortsDone ==
    /\ sw.phase = "aborting"
    /\ sw.todo = {}
    /\ sw.unchecked = {}
    /\ \/ sw.failed /\ sw' = SwIdle
       \/ ~sw.failed /\ SwWillPatch(Cancelled, sw.assetIDs, TRUE)
    /\ UNCHANGED <<avars, scan, timedOut, missed>>

\* PatchScan and the return from Reconcile.
SwPatches ==
    /\ sw.phase = "patch"
    /\ PatchScan(sw.to, sw.assetIDs, scan.ended \/ sw.ends)
    /\ sw' = SwIdle
    /\ UNCHANGED <<avars, timedOut, missed>>

\* A call fails, Reconcile runs into its timeout, or the orchestrator restarts.
SwGivesUp ==
    /\ sw.phase # "idle"
    /\ Fault
    /\ sw' = SwIdle
    /\ UNCHANGED <<assetScan, aw, resources, scanner, abortLate, scan, timedOut, missed>>

SwReconciles ==
    \/ SwTimesOut \/ SwSkips \/ SwPending \/ SwDiscovered \/ SwCreated \/ SwInProgress
    \/ SwAborted \/ SwAbortsDone \/ SwPatches
    \/ \E a \in Assets : SwCreates(a) \/ SwAborts(a) \/ SwChecksErr(a)
-----------------------------------------------------------------------------
\* External: a user patches the Scan to Aborted; the server may refuse.
UserAborts ==
    /\ scan.status # Aborted
    /\ PatchScan(Aborted, scan.assetIDs, scan.ended)
    /\ UNCHANGED <<avars, sw, timedOut, missed>>

TimeoutPasses ==
    /\ ~timedOut
    /\ timedOut' = TRUE
    /\ UNCHANGED <<avars, scan, sw, missed>>

Next ==
    \/ AssetScanNext /\ UNCHANGED svars
    \/ SwGet \/ SwReconciles \/ SwGivesUp
    \/ \E a \in Assets : SwCreateFails(a) \/ SwAbortFails(a)
    \/ UserAborts \/ TimeoutPasses

Spec == Init /\ [][Next]_vars

\* Fairness.  The pollers and reconcilers keep running and every item that is
\* polled again and again gets its turn (ReconcileLoop!QueuedIsServed); clocks
\* advance.  Nothing is assumed of users, scanners or faults.
Fairness ==
    /\ WF_vars(SwGet /\ ~Finished)
    /\ WF_vars(SwReconciles)
    /\ WF_vars(AwReconciles /\ UNCHANGED svars)
    /\ \A a \in Assets : /\ SF_vars(AwGet(a) /\ Polled(a) /\ UNCHANGED svars)
                         /\ WF_vars(AbortTimeoutPasses(a) /\ UNCHANGED svars)

FairSpec == Spec /\ Fairness
-----------------------------------------------------------------------------
(* Properties.                                                             *)

\* "Scan ended successfully without any errors": every asset the Scan
\* discovered has an AssetScan that is Done, although AssetScans are created
\* one by one with failing and repeated POSTs, the summary is counted from a
\* list read before the patch, and users abort in between
\* (watcher.go:284-346, 364-436).
SuccessMeansAllDone ==
    scan.status = Success =>
        /\ scan.assetIDs # {}
        /\ \A a \in scan.assetIDs : StateOf(a) = "Done"

\* "At least one AssetScan has ended with an error", and all have ended.
ErrorMeansAllEnded ==
    scan.status = Errored =>
        /\ \A a \in scan.assetIDs : Ended(a)
        /\ \E a \in scan.assetIDs : StateOf(a) = "Failed"

\* A Scan is InProgress only when each of its assets has its AssetScan: a partly
\* failed createAssetScansForScan is repeated (watcher.go:312-324).
RunningMeansAllCreated ==
    scan.status = InProgress => Jobs = scan.assetIDs

\* An aborted Scan ends when every AssetScan has taken its abort or is over, "in
\* case even a single error occurred" another Reconcile is due: but not for an
\* error that another goroutine's success overwrites (watcher.go:459-521).
CancelledMeansAllAborted ==
    scan.status = Cancelled => \A a \in Jobs : AbortedOrOver(a) \/ a \in missed

\* What the status of a Scan says of its AssetScans is true.
StatusIsTrue ==
    /\ SuccessMeansAllDone
    /\ ErrorMeansAllEnded
    /\ RunningMeansAllCreated
    /\ CancelledMeansAllAborted

\* A user's abort is never undone by the watcher, which may hold a Scan it read
\* before the abort and a decision based on it (watcher.go:129-175).
AbortIsNotLost ==
    [][scan.status = Aborted => scan'.status.state \in {"Aborted", "Failed"}]_vars

\* A Scan ends once and keeps the state and the EndTime it ended with, although
\* users and the watcher write it independently and the watcher may decide on a
\* Scan it read before (scan.go:279-302 and the ScanConfig watcher rely on it).
Life == INSTANCE ScanLife WITH finished <- Finished, endTime <- scan.ended
ImplementsScanLife == Life!Spec

\* An aborted Scan ends, however many of its AssetScans are still waiting for a
\* slot (which cannot be aborted) and whether or not any scanner answers.
AbortEnds == scan.status = Aborted ~> Finished

\* Every Scan ends when its timeout is over, whatever dies, except one that the
\* timeout finds Discovered (watcher.go:129-146).
EveryScanEnds ==
    WF_vars(TimeoutPasses) => <>(Finished \/ (timedOut /\ scan.status = Discovered))

\* The resources of every AssetScan that is over are removed, unless the delete
\* policy keeps them or the provider fails (watcher.go:311-416).
ResourcesAreReleased ==
    \A a \in Assets :
        Ended(a) ~> (a \notin resources \/ assetScan[a].cleanup \in {"Skipped", "Failed"})
=============================================================================
