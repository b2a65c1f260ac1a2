----------------------------- MODULE AwsProvider -----------------------------
(***************************************************************************)
(* The AWS provider (provider/aws): RunAssetScan and RemoveAssetScan for   *)
(* one AssetScan, called by the AssetScan watcher until they succeed or    *)
(* fail for good.  Each call starts goroutines that talk to EC2, which     *)
(* works asynchronously: machines, snapshots and volumes change by         *)
(* themselves between the calls, and between the steps of one.             *)
(*                                                                         *)
(* Availability zones, the types of machines and the contents of user data *)
(* are left out: what EC2 refuses because of them is a call that fails.    *)
(***************************************************************************)
EXTENDS ProviderCalls

Ids == 1..(MaxFaults + 1)
Goroutines == 1..3

VARIABLES remote,    \* the asset is in another region than the scanners
          instance,  \* external: what EC2 has of each kind, all with the tags of
          snapshot,  \*   the AssetScan; snapshots are in the region of the asset,
          copy,      \*   copies in that of the scanners
          volume,    \* external: [st, from: its snapshot, to: the instance it is at]
          phase,     \* where the watcher is with the AssetScan
          at,        \* the next call to EC2 of each goroutine; 3 is RunAssetScan itself
          use,       \* ids RunAssetScan works with
          todo,      \* ids a goroutine of RemoveAssetScan deletes
          errs,      \* the kinds of the errors so far
          landed,    \* kinds of which one was created by a request given up before
          faults

aws == <<instance, snapshot, copy, volume>>
call == <<at, use, todo, errs>>
env == <<remote, phase, landed, faults>>
vars == <<env, aws, call>>

AtRest == [g \in Goroutines |-> "idle"]
Each(a, b, c) == [g \in Goroutines |-> IF g = 1 THEN a ELSE IF g = 2 THEN b ELSE c]
NoIds == [instance |-> 0, source |-> 0, target |-> 0, volume |-> 0]
NoTodo == [g \in Goroutines |-> {}]
NoVolume == [st |-> "none", from |-> 0, to |-> 0]

Calls ==
    {"idle", "wait", "end", "DescribeInstances", "RunInstances", "InstanceReady",
     "DescribeSnapshots", "CreateSnapshot", "SnapshotReady", "DescribeCopies",
     "CopySnapshot", "TargetReady", "DescribeVolumes", "CreateVolume", "VolumeReady",
     "DescribeAttachment", "AttachVolume", "IsAttached", "ListInstances",
     "TerminateInstances", "ListVolumes", "DeleteVolumes", "ListSnapshots",
     "DeleteSnapshots"}

Snapshots == [Ids -> {"none", "sent", "pending", "completed", "error", "deleted"}]
Volumes ==
    [st : {"none", "sent", "creating", "available", "attaching", "attached", "error",
           "deleted"},
     from : Ids \cup {0}, to : Ids \cup {0}]

AwsOK ==
    /\ instance \in [Ids -> {"none", "sent", "pending", "running", "stopping", "terminated"}]
    /\ snapshot \in Snapshots
    /\ copy \in Snapshots
    /\ volume \in [Ids -> Volumes]
    /\ \A v \in Ids : volume[v].st # "none" => volume[v].from \in Ids

\* The calls of each goroutine, in the order of the code.
AtOK ==
    /\ at \in [Goroutines -> Calls]
    /\ phase = "run" =>
          /\ at[1] \in {"idle", "DescribeInstances", "RunInstances", "InstanceReady", "end"}
          /\ at[2] \in {"idle", "DescribeSnapshots", "CreateSnapshot", "SnapshotReady",
                        "DescribeCopies", "CopySnapshot", "TargetReady", "end"}
          /\ at[3] \in {"idle", "wait", "DescribeVolumes", "CreateVolume", "VolumeReady",
                        "DescribeAttachment", "AttachVolume", "IsAttached", "end"}
    /\ phase = "remove" =>
          /\ at[1] \in {"idle", "ListInstances", "TerminateInstances", "ListVolumes",
                        "DeleteVolumes", "end"}
          /\ at[2] \in {"idle", "ListSnapshots", "DeleteSnapshots", "end"}
          /\ at[3] \in {"idle", "ListSnapshots", "DeleteSnapshots", "end"}
    /\ phase \notin {"run", "remove"} => at = AtRest

CallOK ==
    /\ remote \in BOOLEAN
    /\ phase \in Phases
    /\ use \in [instance : Ids \cup {0}, source : Ids \cup {0},
                target : Ids \cup {0}, volume : Ids \cup {0}]
    /\ todo \in [Goroutines -> SUBSET Ids]
    /\ errs \in SUBSET Errors
    /\ landed \in SUBSET {"instance", "snapshot", "copy", "volume"}
    /\ faults \in 0..MaxFaults

TypeOK == AwsOK /\ AtOK /\ CallOK
-----------------------------------------------------------------------------
Fault == faults < MaxFaults /\ faults' = faults + 1

\* What a Describe call does not show.
Live(kind) == {i \in Ids : kind[i] \in {"pending", "running"}}
Listed(kind) == {i \in Ids : kind[i] \notin {"none", "sent", "deleted", "terminated"}}
VolumeState == [v \in Ids |-> volume[v].st]

\* CreateSnapshot makes another in place of one that went wrong.
Usable(kind) == {i \in Ids : kind[i] \in {"pending", "completed"}}

\* EC2 gives out ids in order.
Fresh(kind, i) == kind[i] = "none" /\ \A j \in Ids : j < i => kind[j] # "none"

Targets == IF remote THEN copy ELSE snapshot

Goes(g, next) == at' = [at EXCEPT ![g] = next] /\ UNCHANGED errs
Errs(g, e) == at' = [at EXCEPT ![g] = "end"] /\ errs' = errs \cup {e}

\* WrapError: what it does not know is worth another try.
Wrapped == {"fatal", "retryable"}
-----------------------------------------------------------------------------
(* RunAssetScan.                                                           *)

RunStarts ==
    /\ phase = "run"
    /\ at = AtRest
    /\ at' = Each("DescribeInstances", "DescribeSnapshots", "wait")
    /\ UNCHANGED <<env, aws, use, todo, errs>>

\* Faulty variant: a machine that is starting is not looked for.
DescribeInstances_Running ==
    /\ at[1] = "DescribeInstances"
    /\ LET running == {i \in Ids : instance[i] = "running"} IN
       \/ \E i \in running : use' = [use EXCEPT !.instance = i] /\ Goes(1, "InstanceReady")
       \/ running = {} /\ Goes(1, "RunInstances") /\ UNCHANGED use
    /\ UNCHANGED <<env, aws, todo>>

\* createInstance: the one there is, or a new one.
DescribeInstances ==
    /\ at[1] = "DescribeInstances"
    /\ \/ \E i \in Live(instance) :
             use' = [use EXCEPT !.instance = i] /\ Goes(1, "InstanceReady")
       \/ Live(instance) = {} /\ Goes(1, "RunInstances") /\ UNCHANGED use
    /\ UNCHANGED <<env, aws, todo>>

RunInstances ==
    /\ at[1] = "RunInstances"
    /\ \E i \in Ids : /\ Fresh(instance, i)
                      /\ instance' = [instance EXCEPT ![i] = "pending"]
                      /\ use' = [use EXCEPT !.instance = i]
    /\ Goes(1, "InstanceReady")
    /\ UNCHANGED <<env, snapshot, copy, volume, todo>>

InstanceReady ==
    /\ at[1] = "InstanceReady"
    /\ IF instance[use.instance] = "running" THEN Goes(1, "end") ELSE Errs(1, "retryable")
    /\ UNCHANGED <<env, aws, use, todo>>

\* getInstanceWithID, a read that fails for good when the asset is gone, and
\* CreateSnapshot of its root volume.
DescribeSnapshots ==
    /\ at[2] = "DescribeSnapshots"
    /\ \/ \E s \in Usable(snapshot) :
             use' = [use EXCEPT !.source = s] /\ Goes(2, "SnapshotReady")
       \/ Usable(snapshot) = {} /\ Goes(2, "CreateSnapshot") /\ UNCHANGED use
    /\ UNCHANGED <<env, aws, todo>>

CreateSnapshot ==
    /\ at[2] = "CreateSnapshot"
    /\ \E s \in Ids : /\ Fresh(snapshot, s)
                      /\ snapshot' = [snapshot EXCEPT ![s] = "pending"]
                      /\ use' = [use EXCEPT !.source = s]
    /\ Goes(2, "SnapshotReady")
    /\ UNCHANGED <<env, instance, copy, volume, todo>>

\* ... and Copy, which returns the Snapshot itself within one region.
SnapshotReady ==
    /\ at[2] = "SnapshotReady"
    /\ IF snapshot[use.source] # "completed" THEN Errs(2, "retryable") /\ UNCHANGED use
       ELSE IF remote THEN Goes(2, "DescribeCopies") /\ UNCHANGED use
       ELSE Goes(2, "TargetReady") /\ use' = [use EXCEPT !.target = use.source]
    /\ UNCHANGED <<env, aws, todo>>

\* Copy: unlike a Snapshot, a copy that went wrong is the end.
DescribeCopies ==
    /\ at[2] = "DescribeCopies"
    /\ \/ \E s \in Listed(copy) :
             IF copy[s] = "error" THEN Errs(2, "fatal") /\ UNCHANGED use
             ELSE Goes(2, "TargetReady") /\ use' = [use EXCEPT !.target = s]
       \/ Listed(copy) = {} /\ Goes(2, "CopySnapshot") /\ UNCHANGED use
    /\ UNCHANGED <<env, aws, todo>>

CopySnapshot ==
    /\ at[2] = "CopySnapshot"
    /\ \E s \in Ids : /\ Fresh(copy, s)
                      /\ copy' = [copy EXCEPT ![s] = "pending"]
                      /\ use' = [use EXCEPT !.target = s]
    /\ Goes(2, "TargetReady")
    /\ UNCHANGED <<env, instance, snapshot, volume, todo>>

TargetReady ==
    /\ at[2] = "TargetReady"
    /\ IF Targets[use.target] = "completed" THEN Goes(2, "end") ELSE Errs(2, "retryable")
    /\ UNCHANGED <<env, aws, use, todo>>

\* wg.Wait and errors.Join.
RunJoins ==
    /\ at[3] = "wait"
    /\ at[1] = "end"
    /\ at[2] = "end"
    /\ Goes(3, IF errs = {} THEN "DescribeVolumes" ELSE "end")
    /\ UNCHANGED <<env, aws, use, todo>>

\* CreateVolume.
DescribeVolumes ==
    /\ at[3] = "DescribeVolumes"
    /\ LET found == {v \in Ids : /\ volume[v].st \notin {"none", "sent"}
                                 /\ volume[v].from = use.target} IN
       \/ \E v \in found :
             IF volume[v].st \in {"error", "deleted"} THEN Errs(3, "fatal") /\ UNCHANGED use
             ELSE Goes(3, "VolumeReady") /\ use' = [use EXCEPT !.volume = v]
       \/ found = {} /\ Goes(3, "CreateVolume") /\ UNCHANGED use
    /\ UNCHANGED <<env, aws, todo>>

CreateVolume ==
    /\ at[3] = "CreateVolume"
    /\ \E v \in Ids :
          /\ Fresh(VolumeState, v)
          /\ volume' = [volume EXCEPT ![v] = [st |-> "creating", from |-> use.target, to |-> 0]]
          /\ use' = [use EXCEPT !.volume = v]
    /\ Goes(3, "VolumeReady")
    /\ UNCHANGED <<env, instance, snapshot, copy, todo>>

VolumeReady ==
    /\ at[3] = "VolumeReady"
    /\ LET st == volume[use.volume].st IN
       IF st = "creating" THEN Errs(3, "retryable")
       ELSE IF st = "error" THEN Errs(3, "fatal")
       ELSE Goes(3, "DescribeAttachment")
    /\ UNCHANGED <<env, aws, use, todo>>

\* Instance.AttachVolume.  A volume at another machine falls through its loop.
DescribeAttachment ==
    /\ at[3] = "DescribeAttachment"
    /\ LET v == volume[use.volume] IN
       IF v.st = "available" THEN Goes(3, "AttachVolume")
       ELSE IF v.st \in {"attaching", "attached"} /\ v.to = use.instance
            THEN Goes(3, "IsAttached")
       ELSE Errs(3, "fatal")
    /\ UNCHANGED <<env, aws, use, todo>>

\* EC2 refuses a machine that does not run.
AttachVolume ==
    /\ at[3] = "AttachVolume"
    /\ IF instance[use.instance] = "running"
       THEN /\ volume' = [volume EXCEPT
                  ![use.volume] = [@ EXCEPT !.st = "attaching", !.to = use.instance]]
            /\ Goes(3, "IsAttached")
       ELSE Errs(3, "fatal") /\ UNCHANGED volume
    /\ UNCHANGED <<env, instance, snapshot, copy, use, todo>>

IsAttached ==
    /\ at[3] = "IsAttached"
    /\ IF volume[use.volume].st = "attached" THEN Goes(3, "end") ELSE Errs(3, "retryable")
    /\ UNCHANGED <<env, aws, use, todo>>
-----------------------------------------------------------------------------
(* RemoveAssetScan.                                                        *)

\* Faulty variant: the asset's region is left alone.
RemoveStarts_ScannerOnly ==
    /\ phase = "remove"
    /\ at = AtRest
    /\ at' = Each("ListInstances", "ListSnapshots", "end")
    /\ UNCHANGED <<env, aws, use, todo, errs>>

RemoveStarts ==
    /\ phase = "remove"
    /\ at = AtRest
    /\ at' = Each("ListInstances", "ListSnapshots", IF remote THEN "ListSnapshots" ELSE "end")
    /\ UNCHANGED <<env, aws, use, todo, errs>>

\* deleteInstances.
ListInstances ==
    /\ at[1] = "ListInstances"
    /\ todo' = [todo EXCEPT ![1] = Listed(instance)]
    /\ Goes(1, IF Listed(instance) = {} THEN "ListVolumes" ELSE "TerminateInstances")
    /\ UNCHANGED <<env, aws, use>>

TerminateInstances ==
    /\ at[1] = "TerminateInstances"
    /\ instance' = [i \in Ids |-> IF i \in todo[1] /\ instance[i] \in {"pending", "running"}
                                  THEN "stopping" ELSE instance[i]]
    /\ Errs(1, "retryable")
    /\ UNCHANGED <<env, snapshot, copy, volume, use, todo>>

\* deleteVolumes.
ListVolumes ==
    /\ at[1] = "ListVolumes"
    /\ todo' = [todo EXCEPT ![1] = Listed(VolumeState)]
    /\ Goes(1, IF Listed(VolumeState) = {} THEN "end" ELSE "DeleteVolumes")
    /\ UNCHANGED <<env, aws, use>>

\* EC2 refuses to delete a volume that is at a machine.
DeleteVolumes ==
    /\ at[1] = "DeleteVolumes"
    /\ \/ \E v \in todo[1] :
             IF volume[v].st \in {"attaching", "attached"}
             THEN Errs(1, "fatal") /\ UNCHANGED <<volume, todo>>
             ELSE /\ volume' = [volume EXCEPT ![v].st = "deleted"]
                  /\ todo' = [todo EXCEPT ![1] = @ \ {v}]
                  /\ UNCHANGED <<at, errs>>
       \/ todo[1] = {} /\ Errs(1, "retryable") /\ UNCHANGED <<volume, todo>>
    /\ UNCHANGED <<env, instance, snapshot, copy, use>>

\* deleteVolumeSnapshots: in the region of the scanners, and in that of the asset.
InRegion(g) == IF g = 2 THEN Targets ELSE snapshot

ListSnapshots(g) ==
    /\ at[g] = "ListSnapshots"
    /\ todo' = [todo EXCEPT ![g] = Listed(InRegion(g))]
    /\ Goes(g, "DeleteSnapshots")
    /\ UNCHANGED <<env, aws, use>>

DeleteSnapshots(g) ==
    /\ at[g] = "DeleteSnapshots"
    /\ \/ \E s \in todo[g] :
             /\ IF g = 2 /\ remote
                THEN copy' = [copy EXCEPT ![s] = "deleted"] /\ UNCHANGED snapshot
                ELSE snapshot' = [snapshot EXCEPT ![s] = "deleted"] /\ UNCHANGED copy
             /\ todo' = [todo EXCEPT ![g] = @ \ {s}]
             /\ UNCHANGED <<at, errs>>
       \/ todo[g] = {} /\ Goes(g, "end") /\ UNCHANGED <<snapshot, copy, todo>>
    /\ UNCHANGED <<env, instance, volume, use>>
-----------------------------------------------------------------------------
\* Nothing of a call outlives it but what it made EC2 do.
Forgets == at' = AtRest /\ todo' = NoTodo /\ errs' = {}

Outcome == AfterCall(phase, errs)

Returns ==
    /\ \A g \in Goroutines : at[g] = "end"
    /\ phase' = Outcome
    /\ use' = IF Outcome = "scan" THEN use ELSE NoIds
    /\ Forgets
    /\ UNCHANGED <<remote, landed, faults, aws>>

\* The scanner is done; its AssetScan is to be cleaned up.
ScanEnds ==
    /\ phase = "scan"
    /\ phase' = "remove"
    /\ use' = NoIds
    /\ UNCHANGED <<remote, landed, faults, aws, at, todo, errs>>

\* A call to EC2 fails.  Every error is wrapped but that of the third goroutine of
\* RemoveAssetScan.
CallFails(g) ==
    /\ at[g] \notin {"idle", "wait", "end"}
    /\ Fault
    /\ IF phase = "remove" /\ g = 3 THEN Errs(g, "other")
       ELSE \E e \in Wrapped : Errs(g, e)
    /\ UNCHANGED <<remote, phase, landed, aws, use, todo>>

\* ... and the request is acted on all the same.  When that happens at once it is
\* as if the next call failed; this is when it happens later.
CreationIsLost(g) ==
    /\ Fault
    /\ \E i \in Ids :
         \/ /\ at[g] = "RunInstances" /\ Fresh(instance, i)
            /\ instance' = [instance EXCEPT ![i] = "sent"]
            /\ UNCHANGED <<snapshot, copy, volume>>
         \/ /\ at[g] = "CreateSnapshot" /\ Fresh(snapshot, i)
            /\ snapshot' = [snapshot EXCEPT ![i] = "sent"]
            /\ UNCHANGED <<instance, copy, volume>>
         \/ /\ at[g] = "CopySnapshot" /\ Fresh(copy, i)
            /\ copy' = [copy EXCEPT ![i] = "sent"]
            /\ UNCHANGED <<instance, snapshot, volume>>
         \/ /\ at[g] = "CreateVolume" /\ Fresh(VolumeState, i)
            /\ volume' = [volume EXCEPT ![i] = [st |-> "sent", from |-> use.target, to |-> 0]]
            /\ UNCHANGED <<instance, snapshot, copy>>
    /\ Errs(g, "retryable")
    /\ UNCHANGED <<remote, phase, landed, use, todo>>

\* The orchestrator stops, or the context of the Reconcile ends.
GivesUp ==
    /\ at # AtRest
    /\ Fault
    /\ use' = NoIds
    /\ Forgets
    /\ UNCHANGED <<remote, phase, landed, aws>>
-----------------------------------------------------------------------------
(* EC2, external.                                                          *)

RequestLands ==
    /\ \E i \in Ids :
         \/ /\ instance[i] = "sent"
            /\ instance' = [instance EXCEPT ![i] = "pending"]
            /\ landed' = landed \cup {"instance"}
            /\ UNCHANGED <<snapshot, copy, volume>>
         \/ /\ snapshot[i] = "sent"
            /\ snapshot' = [snapshot EXCEPT ![i] = "pending"]
            /\ landed' = landed \cup {"snapshot"}
            /\ UNCHANGED <<instance, copy, volume>>
         \/ /\ copy[i] = "sent"
            /\ copy' = [copy EXCEPT ![i] = "pending"]
            /\ landed' = landed \cup {"copy"}
            /\ UNCHANGED <<instance, snapshot, volume>>
         \/ /\ volume[i].st = "sent"
            /\ volume' = [volume EXCEPT ![i].st = "creating"]
            /\ landed' = landed \cup {"volume"}
            /\ UNCHANGED <<instance, snapshot, copy>>
    /\ UNCHANGED <<remote, phase, faults, call>>

InstanceStarts(i) ==
    /\ instance[i] = "pending"
    /\ instance' = [instance EXCEPT ![i] = "running"]
    /\ UNCHANGED <<env, snapshot, copy, volume, call>>

\* A spot instance is taken away.
InstanceIsInterrupted(i) ==
    /\ instance[i] \in {"pending", "running"}
    /\ Fault
    /\ instance' = [instance EXCEPT ![i] = "stopping"]
    /\ UNCHANGED <<remote, phase, landed, snapshot, copy, volume, call>>

\* ... and its volumes are free.
InstanceTerminates(i) ==
    /\ instance[i] = "stopping"
    /\ instance' = [instance EXCEPT ![i] = "terminated"]
    /\ volume' = [v \in Ids |->
                    IF volume[v].st \in {"attaching", "attached"} /\ volume[v].to = i
                    THEN [volume[v] EXCEPT !.st = "available"] ELSE volume[v]]
    /\ UNCHANGED <<env, snapshot, copy, call>>

SnapshotCompletes(s) ==
    /\ \/ /\ snapshot[s] = "pending"
          /\ snapshot' = [snapshot EXCEPT ![s] = "completed"]
          /\ UNCHANGED copy
       \/ /\ copy[s] = "pending"
          /\ copy' = [copy EXCEPT ![s] = "completed"]
          /\ UNCHANGED snapshot
    /\ UNCHANGED <<env, instance, volume, call>>

VolumeIsCreated(v) ==
    /\ volume[v].st = "creating"
    /\ volume' = [volume EXCEPT ![v].st = "available"]
    /\ UNCHANGED <<env, instance, snapshot, copy, call>>

VolumeIsAttached(v) ==
    /\ volume[v].st = "attaching"
    /\ volume' = [volume EXCEPT ![v].st = "attached"]
    /\ UNCHANGED <<env, instance, snapshot, copy, call>>

CreationGoesWrong(i) ==
    /\ Fault
    /\ \/ /\ snapshot[i] = "pending"
          /\ snapshot' = [snapshot EXCEPT ![i] = "error"]
          /\ UNCHANGED <<copy, volume>>
       \/ /\ copy[i] = "pending"
          /\ copy' = [copy EXCEPT ![i] = "error"]
          /\ UNCHANGED <<snapshot, volume>>
       \/ /\ volume[i].st = "creating"
          /\ volume' = [volume EXCEPT ![i].st = "error"]
          /\ UNCHANGED <<snapshot, copy>>
    /\ UNCHANGED <<remote, phase, landed, instance, call>>
-----------------------------------------------------------------------------
\* An AssetScan was scheduled and has no resources yet.
Init ==
    /\ remote \in BOOLEAN
    /\ instance = [i \in Ids |-> "none"]
    /\ snapshot = [i \in Ids |-> "none"]
    /\ copy = [i \in Ids |-> "none"]
    /\ volume = [i \in Ids |-> NoVolume]
    /\ phase = "run"
    /\ at = AtRest
    /\ use = NoIds
    /\ todo = NoTodo
    /\ errs = {}
    /\ landed = {}
    /\ faults = 0

CreatesInstance == DescribeInstances \/ RunInstances \/ InstanceReady
CreatesSnapshot ==
    \/ DescribeSnapshots \/ CreateSnapshot \/ SnapshotReady \/ DescribeCopies
    \/ CopySnapshot \/ TargetReady
AttachesVolume ==
    \/ RunJoins \/ DescribeVolumes \/ CreateVolume \/ VolumeReady
    \/ DescribeAttachment \/ AttachVolume \/ IsAttached
DeletesInstance == ListInstances \/ TerminateInstances \/ ListVolumes \/ DeleteVolumes
DeletesSnapshots(g) == ListSnapshots(g) \/ DeleteSnapshots(g)

Works ==
    \/ RunStarts \/ CreatesInstance \/ CreatesSnapshot \/ AttachesVolume
    \/ RemoveStarts \/ DeletesInstance \/ DeletesSnapshots(2) \/ DeletesSnapshots(3)
    \/ Returns

Progresses(i) ==
    \/ InstanceStarts(i) \/ InstanceTerminates(i) \/ SnapshotCompletes(i)
    \/ VolumeIsCreated(i) \/ VolumeIsAttached(i)

Next ==
    \/ Works \/ ScanEnds \/ GivesUp \/ RequestLands
    \/ \E g \in Goroutines : CallFails(g) \/ CreationIsLost(g)
    \/ \E i \in Ids : Progresses(i) \/ InstanceIsInterrupted(i) \/ CreationGoesWrong(i)

Spec == Init /\ [][Next]_vars

\* Fairness: the watcher calls again (ReconcileLoop!RequeuedComesBack), goroutines
\* go on, and what EC2 has begun ends.
FairSpec == Spec /\ WF_vars(Works) /\ WF_vars(\E i \in Ids : Progresses(i))
-----------------------------------------------------------------------------
(* Properties.                                                             *)

AtMostOne(S) == \A i, j \in S : i = j

\* RunAssetScan is idempotent (provider/types.go:50-54): however often it is
\* called, interrupted or fails half-way, no second machine, snapshot, copy or
\* volume is made beside one that is good, unless EC2 acted on a request only
\* after it was given up.
OneOfEach ==
    landed = {} =>
        /\ AtMostOne(Live(instance))
        /\ AtMostOne(Usable(snapshot))
        /\ AtMostOne(Usable(copy))
        /\ AtMostOne({v \in Ids : volume[v].st \notin {"none", "sent", "error", "deleted"}})

\* nil means what the interface promises (provider/types.go:53, 59): after
\* RunAssetScan the volume is at the machine that call worked with, unless that
\* was taken away since; after RemoveAssetScan nothing is left, in either region,
\* but what EC2 made of a request after it was given up.
AwsResultIsTrue ==
    /\ phase = "scan" =>
          \/ volume[use.volume].st = "attached" /\ volume[use.volume].to = use.instance
          \/ instance[use.instance] = "terminated"
    /\ phase = "removed" =>
          /\ Listed(instance) = {} \/ "instance" \in landed
          /\ Listed(snapshot) = {} \/ "snapshot" \in landed
          /\ Listed(copy) = {} \/ "copy" \in landed
          /\ Listed(VolumeState) = {} \/ "volume" \in landed

\* The calls are repeated until they succeed or fail for good, and that comes:
\* retries do not wait for what will not happen (watcher.go:272-298, 377-405).
AwsCallsEnd == []<>(phase \in {"scan", "removed", "failed"})
=============================================================================
