---------------------------- MODULE ScanEstimation ----------------------------
(***************************************************************************)
(* One ScanEstimation and its AssetScanEstimations: the ScanEstimation     *)
(* watcher (orchestrator/watcher/scanestimation), which makes one for each *)
(* asset and sums them up, the AssetScanEstimation watcher                 *)
(* (orchestrator/watcher/assetscanestimation), which asks the provider,    *)
(* and the API server's checks.  Both watchers run in one process and      *)
(* delete what is finished when its time to live is over.                  *)
(***************************************************************************)
EXTENDS Naturals, FiniteSets

CONSTANTS Assets,
          MaxFaults   \* bound on failing calls and restarts

ASSUME EstimationAssumption == IsFiniteSet(Assets) /\ MaxFaults \in Nat

VARIABLES se,      \* the ScanEstimation the API server stores
          job,     \* job[a]: the AssetScanEstimation of a
          sw,      \* the ScanEstimation watcher's Reconcile in progress
          aw,      \* the AssetScanEstimation watcher's
          missed,  \* the assets of refused patches that went unnoticed
          faults

vars == <<se, job, sw, aw, missed, faults>>

States == {"Pending", "Discovered", "InProgress", "Aborted", "Failed", "Done", "Gone"}
Reasons == {"Created", "SuccessfulDiscovery", "Running", "Cancellation",
            "Aborted", "Error", "Timeout", "NothingToEstimate", "Success"}
JobStates == {"None", "Pending", "Aborted", "Failed", "Done", "Gone"}

Finished == {"Failed", "Done"}

\* late: the timeout is over; kept: deleteAfter is set; expired: and past.
Estimations == [state : States, reason : Reasons, assets : SUBSET Assets,
                parallel : BOOLEAN, started : BOOLEAN, late : BOOLEAN,
                ended : BOOLEAN, kept : BOOLEAN, expired : BOOLEAN]

Created(p) == [state |-> "Pending", reason |-> "Created", assets |-> {}, parallel |-> p,
               started |-> FALSE, late |-> FALSE, ended |-> FALSE, kept |-> FALSE,
               expired |-> FALSE]

SwIdle == [phase |-> "idle", held |-> Created(FALSE), todo |-> {}, failed |-> FALSE,
           to |-> "Pending"]
AwIdle == [phase |-> "idle", asset |-> {}, to |-> "Pending"]

TypeOK ==
    /\ se \in Estimations
    /\ job \in [Assets -> [state : JobStates, kept : BOOLEAN, expired : BOOLEAN]]
    /\ sw \in [phase : {"idle", "timeout", "create", "sum", "abort"} \cup (States \ {"Gone"}),
               held : Estimations, todo : SUBSET Assets, failed : BOOLEAN, to : States]
    /\ aw \in [phase : {"idle", "Pending", "Aborted", "Failed", "Done", "patch"},
               asset : {{}} \cup {{a} : a \in Assets},
               to : JobStates]
    /\ missed \subseteq Assets
    /\ faults \in 0..MaxFaults

Fault == faults < MaxFaults /\ faults' = faults + 1
-----------------------------------------------------------------------------
(* The API server.                                                         *)

scanEstimationStatusStateTransitions ==
    {<<"Pending", "Discovered">>, <<"Pending", "Aborted">>, <<"Pending", "Failed">>,
     <<"Pending", "Done">>, <<"Discovered", "InProgress">>, <<"Discovered", "Aborted">>,
     <<"Discovered", "Failed">>, <<"InProgress", "Aborted">>, <<"InProgress", "Failed">>,
     <<"InProgress", "Done">>, <<"Aborted", "Failed">>}

assetScanEstimationStatusStateTransitions ==
    {<<"Pending", "Aborted">>, <<"Pending", "Done">>, <<"Pending", "Failed">>,
     <<"Failed", "Aborted">>}

\* The same state for another reason is a transition too, and not in the table.
Accepts(state, reason) ==
    \/ se.state = state /\ se.reason = reason
    \/ <<se.state, state>> \in scanEstimationStatusStateTransitions

AcceptsJob(a, state) ==
    job[a].state = state \/ <<job[a].state, state>> \in assetScanEstimationStatusStateTransitions

Exists(a) == job[a].state \notin {"None", "Gone"}
-----------------------------------------------------------------------------
(* The ScanEstimation watcher.                                             *)

\* Faulty variant: a ScanEstimation is never late.
IsTimedOut_Never(held) == FALSE

IsTimedOut(held) == held.started /\ held.late

\* Faulty variant: those that are finished are not looked at again.
SGet_Unfinished ==
    /\ sw.phase = "idle"
    /\ se.state \notin Finished \cup {"Gone"}
    /\ sw' = [SwIdle EXCEPT !.held = se,
                            !.phase = IF IsTimedOut(se) THEN "timeout" ELSE se.state]
    /\ UNCHANGED <<se, job, aw, missed, faults>>

\* GetScanEstimations selects those that are not finished, and those that
\* deleteAfter is not set for or past.
SGet ==
    /\ sw.phase = "idle"
    /\ se.state # "Gone"
    /\ se.state \notin Finished \/ ~se.kept \/ se.expired
    /\ sw' = [SwIdle EXCEPT !.held = se,
                            !.phase = IF IsTimedOut(se) THEN "timeout" ELSE se.state]
    /\ UNCHANGED <<se, job, aw, missed, faults>>

\* Reconcile goes on with the state it has read.
STimesOut ==
    /\ sw.phase = "timeout"
    /\ IF Accepts("Failed", "Timeout")
       THEN /\ se' = [se EXCEPT !.state = "Failed", !.reason = "Timeout"]
            /\ sw' = [sw EXCEPT !.phase = sw.held.state]
       ELSE /\ sw' = SwIdle
            /\ UNCHANGED se
    /\ UNCHANGED <<job, aw, missed, faults>>

SPatches(new) ==
    /\ se' = IF Accepts(new.state, new.reason) THEN new ELSE se
    /\ sw' = SwIdle

\* reconcilePending: the assets in scope are any.
SDiscovers ==
    /\ sw.phase = "Pending"
    /\ \E assets \in SUBSET Assets :
         SPatches([se EXCEPT
                     !.state = IF assets = {} THEN "Done" ELSE "Discovered",
                     !.reason = IF assets = {} THEN "NothingToEstimate"
                                ELSE "SuccessfulDiscovery",
                     !.assets = assets, !.started = TRUE])
    /\ UNCHANGED <<job, aw, missed, faults>>

SCreates ==
    /\ sw.phase = "Discovered"
    /\ sw' = [sw EXCEPT !.phase = "create", !.todo = sw.held.assets]
    /\ UNCHANGED <<se, job, aw, missed, faults>>

\* createAssetScanEstimationForAsset: a conflict is fine.
WithJob(a) ==
    IF Exists(a) THEN job
    ELSE [job EXCEPT ![a] = [state |-> "Pending", kept |-> FALSE, expired |-> FALSE]]

SPosts(a) ==
    /\ sw.phase = "create"
    /\ a \in sw.todo
    /\ job' = WithJob(a)
    /\ sw' = [sw EXCEPT !.todo = @ \ {a}]
    /\ UNCHANGED <<se, aw, missed, faults>>

\* A POST or PATCH of one of the goroutines fails, before or after the server
\* acted; the others go on.
SCallFails(a) ==
    /\ sw.phase \in {"create", "abort"}
    /\ a \in sw.todo
    /\ Fault
    /\ \/ UNCHANGED job
       \/ sw.phase = "create" /\ job' = WithJob(a)
       \/ /\ sw.phase = "abort"
          /\ AcceptsJob(a, "Aborted")
          /\ job' = [job EXCEPT ![a].state = "Aborted"]
    /\ sw' = [sw EXCEPT !.todo = @ \ {a}, !.failed = TRUE]
    /\ UNCHANGED <<se, aw, missed>>

\* Faulty variant: the errors of the goroutines are not looked at.
SRuns_IgnoresErrors ==
    /\ sw.phase = "create"
    /\ sw.todo = {}
    /\ SPatches([se EXCEPT !.state = "InProgress", !.reason = "Running"])
    /\ UNCHANGED <<job, aw, missed, faults>>

SRuns ==
    /\ sw.phase = "create"
    /\ sw.todo = {}
    /\ IF sw.failed THEN sw' = SwIdle /\ UNCHANGED se
       ELSE SPatches([se EXCEPT !.state = "InProgress", !.reason = "Running"])
    /\ UNCHANGED <<job, aw, missed, faults>>

JobsIn(states) == {a \in Assets : job[a].state \in states}

\* reconcileInProgress over the AssetScanEstimations there are.  With none left
\* updateTotalScanTimeWithParallelScans is an error; when none is done there is
\* no TotalScanTime for it to divide.
SumsUp ==
    IF JobsIn({"Pending"}) # {} THEN "InProgress"
    ELSE IF JobsIn({"Done", "Aborted", "Failed"}) = {} THEN "Error"
    ELSE IF sw.held.parallel /\ JobsIn({"Done"}) = {} THEN "Panic"
    ELSE IF JobsIn({"Failed"}) # {} THEN "Failed"
    ELSE "Done"

\* A panic ends the process, and both watchers with it.
SSums ==
    /\ sw.phase = "InProgress"
    /\ sw' = IF SumsUp \in {"Error", "Panic"} THEN SwIdle
             ELSE [sw EXCEPT !.phase = "sum", !.to = SumsUp]
    /\ aw' = IF SumsUp = "Panic" THEN AwIdle ELSE aw
    /\ UNCHANGED <<se, job, missed, faults>>

SPatchesSum ==
    /\ sw.phase = "sum"
    /\ SPatches(IF sw.to = "InProgress"
                THEN [se EXCEPT !.state = "InProgress", !.reason = "Running"]
                ELSE [se EXCEPT !.state = sw.to, !.ended = TRUE, !.kept = TRUE,
                                !.reason = IF sw.to = "Done" THEN "Success" ELSE "Error"])
    /\ UNCHANGED <<job, aw, missed, faults>>

\* Faulty variant: those that are done are aborted too.
SListsActive_AlsoDone ==
    /\ sw.phase = "Aborted"
    /\ sw' = [sw EXCEPT !.phase = "abort", !.todo = JobsIn({"Pending", "Failed", "Done"})]
    /\ UNCHANGED <<se, job, aw, missed, faults>>

\* reconcileAborted: those that are neither aborted nor done.
SListsActive ==
    /\ sw.phase = "Aborted"
    /\ sw' = [sw EXCEPT !.phase = "abort", !.todo = JobsIn({"Pending", "Failed"})]
    /\ UNCHANGED <<se, job, aw, missed, faults>>

\* One goroutine for each.  They share err, so another one's success may hide
\* a refusal.
SAborts(a) ==
    /\ sw.phase = "abort"
    /\ a \in sw.todo
    /\ \/ /\ AcceptsJob(a, "Aborted")
          /\ job' = [job EXCEPT ![a].state = "Aborted"]
          /\ sw' = [sw EXCEPT !.todo = @ \ {a}]
          /\ UNCHANGED missed
       \/ /\ ~AcceptsJob(a, "Aborted")
          /\ sw' = [sw EXCEPT !.todo = @ \ {a}, !.failed = TRUE]
          /\ UNCHANGED <<job, missed>>
       \/ /\ ~AcceptsJob(a, "Aborted")
          /\ sw.todo # {a}
          /\ sw' = [sw EXCEPT !.todo = @ \ {a}]
          /\ missed' = missed \cup {a}
          /\ UNCHANGED job
    /\ UNCHANGED <<se, aw, faults>>

\* The race on err: a patch that failed is taken for another's success.
SMisses(a) ==
    /\ sw.phase = "abort"
    /\ a \in sw.todo
    /\ sw.todo # {a}
    /\ Fault
    /\ sw' = [sw EXCEPT !.todo = @ \ {a}]
    /\ missed' = missed \cup {a}
    /\ UNCHANGED <<se, job, aw>>

\* Faulty variant: the ScanEstimation fails whatever became of the patches.
SFails_Always ==
    /\ sw.phase = "abort"
    /\ sw.todo = {}
    /\ SPatches([se EXCEPT !.state = "Failed", !.reason = "Aborted", !.ended = TRUE])
    /\ UNCHANGED <<job, aw, missed, faults>>

SFails ==
    /\ sw.phase = "abort"
    /\ sw.todo = {}
    /\ IF sw.failed THEN sw' = SwIdle /\ UNCHANGED se
       ELSE SPatches([se EXCEPT !.state = "Failed", !.reason = "Aborted", !.ended = TRUE])
    /\ UNCHANGED <<job, aw, missed, faults>>

\* reconcileDone.  An EndTime that was stored may be so long ago that the time
\* to live is over already.
SDeletes ==
    /\ sw.phase \in Finished
    /\ \/ /\ ~sw.held.kept
          /\ se' = [se EXCEPT !.kept = TRUE, !.ended = TRUE]
       \/ /\ sw.held.expired \/ (~sw.held.kept /\ sw.held.ended)
          /\ se' = [se EXCEPT !.state = "Gone"]
    /\ sw' = SwIdle
    /\ UNCHANGED <<job, aw, missed, faults>>

SGivesUp ==
    /\ sw.phase # "idle"
    /\ Fault
    /\ sw' = SwIdle
    /\ UNCHANGED <<se, job, aw, missed>>

SStep ==
    \/ SGet \/ STimesOut \/ SDiscovers \/ SCreates \/ SRuns \/ SSums \/ SPatchesSum
    \/ SListsActive \/ SFails \/ SDeletes
    \/ \E a \in Assets : SPosts(a) \/ SAborts(a)
-----------------------------------------------------------------------------
(* The AssetScanEstimation watcher.                                        *)

AGet(a) ==
    /\ aw.phase = "idle"
    /\ Exists(a)
    /\ job[a].state \notin Finished \/ ~job[a].kept \/ job[a].expired
    /\ aw' = [AwIdle EXCEPT !.phase = job[a].state, !.asset = {a}]
    /\ UNCHANGED <<se, job, sw, missed, faults>>

\* The provider's answer; a retryable error is AGivesUp's.
AEstimates ==
    /\ aw.phase = "Pending"
    /\ \E to \in Finished : aw' = [aw EXCEPT !.phase = "patch", !.to = to]
    /\ UNCHANGED <<se, job, sw, missed, faults>>

APatches(a) ==
    /\ aw.phase = "patch"
    /\ aw.asset = {a}
    /\ job' = IF AcceptsJob(a, aw.to)
              THEN [job EXCEPT ![a].state = aw.to, ![a].kept = TRUE] ELSE job
    /\ aw' = AwIdle
    /\ UNCHANGED <<se, sw, missed, faults>>

\* reconcileAborted: to Failed, which the server's table does not have, so that
\* an AssetScanEstimation stays aborted for ever.
AAborted(a) ==
    /\ aw.phase = "Aborted"
    /\ aw.asset = {a}
    /\ job' = IF AcceptsJob(a, "Failed") THEN [job EXCEPT ![a].state = "Failed"] ELSE job
    /\ aw' = AwIdle
    /\ UNCHANGED <<se, sw, missed, faults>>

\* reconcileDone: deleteAfter was set with the state.
ADeletes(a) ==
    /\ aw.phase \in Finished
    /\ aw.asset = {a}
    /\ job' = [job EXCEPT ![a].state = "Gone"]
    /\ aw' = AwIdle
    /\ UNCHANGED <<se, sw, missed, faults>>

AGivesUp ==
    /\ aw.phase # "idle"
    /\ Fault
    /\ aw' = AwIdle
    /\ UNCHANGED <<se, job, sw, missed>>

AGoesOn(a) == APatches(a) \/ AAborted(a) \/ ADeletes(a)
-----------------------------------------------------------------------------
(* The user and the clock.                                                 *)

\* PATCH of the state by a user.
UserAborts ==
    /\ se.state # "Aborted"
    /\ Accepts("Aborted", "Cancellation")
    /\ se' = [se EXCEPT !.state = "Aborted", !.reason = "Cancellation"]
    /\ UNCHANGED <<job, sw, aw, missed, faults>>

TimeoutPasses ==
    /\ se.started /\ ~se.late
    /\ se' = [se EXCEPT !.late = TRUE]
    /\ UNCHANGED <<job, sw, aw, missed, faults>>

TimeToLivePasses ==
    /\ se.kept /\ ~se.expired
    /\ se' = [se EXCEPT !.expired = TRUE]
    /\ UNCHANGED <<job, sw, aw, missed, faults>>

JobTimeToLivePasses(a) ==
    /\ job[a].kept /\ ~job[a].expired
    /\ job' = [job EXCEPT ![a].expired = TRUE]
    /\ UNCHANGED <<se, sw, aw, missed, faults>>

Init ==
    /\ \E p \in BOOLEAN : se = Created(p)
    /\ job = [a \in Assets |-> [state |-> "None", kept |-> FALSE, expired |-> FALSE]]
    /\ sw = SwIdle
    /\ aw = AwIdle
    /\ missed = {}
    /\ faults = 0

Next ==
    \/ SStep \/ SGivesUp \/ AEstimates \/ AGivesUp
    \/ UserAborts \/ TimeoutPasses \/ TimeToLivePasses
    \/ \E a \in Assets : \/ SCallFails(a) \/ SMisses(a)
                         \/ AGet(a) \/ AGoesOn(a) \/ JobTimeToLivePasses(a)

Spec == Init /\ [][Next]_vars

\* Fairness: both reconcilers keep running, and the queue passes over nothing.
\* The timeout and the end of a time to live may be too far away.
FairSpec ==
    /\ Spec
    /\ WF_vars(SStep)
    /\ WF_vars(AEstimates)
    /\ \A a \in Assets : SF_vars(AGet(a)) /\ WF_vars(AGoesOn(a))
-----------------------------------------------------------------------------
(* Properties.                                                             *)

\* A ScanEstimation is a success when every asset was estimated and no estimation
\* failed.  One that was deleted before it was counted is not missed
\* (watcher.go:488-575).
SuccessMeansAllEstimated ==
    se.state = "Done" /\ se.reason = "Success" =>
        \A a \in se.assets : job[a].state \in {"Done", "Gone"}

\* When an aborted ScanEstimation fails, nothing of it is left to estimate, the
\* AssetScanEstimations that were being created at the time included, but for a
\* refusal the race on err hides (watcher.go:620-715).
AbortReachesAll ==
    se.state = "Failed" /\ se.reason = "Aborted" => JobsIn({"Pending"}) \subseteq missed

\* No write of the watcher takes an abort back, whatever it had read
\* (scan_estimation_controller.go:121-131).
AbortIsNotLost ==
    [][se.state = "Aborted" => se'.state \in {"Aborted", "Failed"}]_vars

\* An aborted ScanEstimation fails in the end: what is refused because it ended
\* meanwhile is not asked for again, so the timeout need not come
\* (watcher.go:631-695).
AbortEnds == se.state = "Aborted" ~> se.state \in {"Failed", "Gone"}

TimeoutComes == se.started ~> se.late

\* Every ScanEstimation ends.  Its AssetScanEstimations may all have been
\* deleted before they were counted, or none be done, which stops the process
\* again and again, but then the timeout ends it (watcher.go:133-146, 577-609).
EveryEstimationEnds ==
    TimeoutComes => <>(se.state \in Finished \cup {"Gone"})

\* "The duration in seconds this resource should last until it is deleted": a
\* ScanEstimation is deleted when its time to live is over, unless the timeout
\* passes first: the patch to Failed is refused then, and Reconcile ends there.
\* So are its AssetScanEstimations, which the panic above may keep from it, but
\* for those an abort reached (watcher.go:133-146, 186-231,
\* assetscanestimation/watcher.go:168-215).
FinishedIsDeleted ==
    se.state \in Finished /\ (se.expired \/ ~se.kept)
      ~> \/ se.state = "Gone"
         \/ se.kept /\ ~se.expired
         \/ se.late /\ se.reason # "Timeout"
JobsAreDeleted ==
    TimeoutComes =>
        \A a \in Assets : job[a].state \in Finished /\ job[a].expired
                             ~> job[a].state \in {"Gone", "Aborted"}
EndedIsDeleted == FinishedIsDeleted /\ JobsAreDeleted
=============================================================================
