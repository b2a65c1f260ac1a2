---------------------------- MODULE ProviderProofs ----------------------------
(***************************************************************************)
(* Safety of the providers for any number of faults: the invariants of    *)
(* AWS, of Azure and GCP, and of Docker and Kubernetes, and from them that *)
(* of the provider the orchestrator is configured with.                    *)
(***************************************************************************)
EXTENDS Providers, TLAPS

\* Calls of RunAssetScan itself once the goroutines are done, and once it has a volume.
NoWait == {"DescribeVolumes", "CreateVolume", "VolumeReady", "DescribeAttachment",
           "AttachVolume", "IsAttached", "end"}
HasVolume == {"VolumeReady", "DescribeAttachment", "AttachVolume", "IsAttached"}

\* A volume EC2 shows, deleted or not.
Made(v) == volume[v].st \notin {"none", "sent"}

\* The volume is where RunAssetScan put it.
Attached ==
    /\ use.volume \in Ids
    /\ use.instance \in Ids
    /\ \/ volume[use.volume].st = "attached" /\ volume[use.volume].to = use.instance
       \/ instance[use.instance] = "terminated"

\* What RunAssetScan holds at each of its calls.
RunHolds ==
    /\ ~remote => \A i \in Ids : copy[i] = "none"
    /\ at[2] \in {"DescribeCopies", "CopySnapshot"} => remote
    /\ phase = "run" =>
          /\ at[1] = "InstanceReady" => use.instance \in Ids
          /\ at[1] = "end" /\ errs = {} => use.instance \in Ids
          /\ at[2] = "SnapshotReady" => use.source \in Ids
          /\ at[2] = "TargetReady" => use.target \in Ids
          /\ at[2] = "end" /\ errs = {} => use.target \in Ids
          /\ at[3] \in NoWait => at[1] = "end" /\ at[2] = "end"
          /\ at[3] \in NoWait \ {"end"} => errs = {}

\* ... and what of it is in the state it is to be in.
RunTarget ==
    phase = "run" /\ at[2] = "end" /\ errs = {} => Targets[use.target] = "completed"

RunVolume ==
    /\ phase = "run" =>
          /\ at[3] \in HasVolume => use.volume \in Ids /\ Made(use.volume)
          /\ at[3] = "AttachVolume" => volume[use.volume].st = "available"
          /\ at[3] = "IsAttached" => volume[use.volume].to = use.instance
          /\ at[3] = "end" /\ errs = {} => Attached
    /\ phase = "scan" => Attached

RunView == RunHolds /\ RunTarget /\ RunVolume

GoodVolumes == {v \in Ids : volume[v].st \notin {"none", "sent", "error", "deleted"}}

\* What RunAssetScan did not find is still not there when it makes it.
OneInstance ==
    landed = {} =>
        AtMostOne(Live(instance)) /\ (at[1] = "RunInstances" => Live(instance) = {})

OneSnapshot ==
    landed = {} =>
        /\ AtMostOne(Usable(snapshot))
        /\ AtMostOne(Usable(copy))
        /\ at[2] = "CreateSnapshot" => Usable(snapshot) = {}
        /\ at[2] = "CopySnapshot" => Listed(copy) = {}

\* Volumes are made of the one snapshot there is.
OneVolume ==
    landed = {} =>
        /\ AtMostOne(GoodVolumes)
        /\ phase = "run" =>
              \A v \in Ids : Made(v) => Targets[volume[v].from] = "completed"
        /\ at[3] = "CreateVolume" =>
              \A v \in Ids : Made(v) => volume[v].from # use.target

OneView == OneInstance /\ OneSnapshot /\ OneVolume

Unseen == {"none", "sent", "deleted", "terminated"}
NoneLeft(kind) == \A i \in Ids : kind[i] \in Unseen
NoVolumeLeft == \A v \in Ids : volume[v].st \in Unseen
TargetKind == IF remote THEN "copy" ELSE "snapshot"

\* What RemoveAssetScan has passed is gone: machines and volumes ...
RemoveInstances ==
    /\ at[1] = "DeleteVolumes" => \A v \in todo[1] : volume[v].st # "none"
    /\ phase = "remove" =>
          /\ at[1] \in {"ListVolumes", "DeleteVolumes"} =>
                NoneLeft(instance) \/ "instance" \in landed
          /\ at[1] = "end" /\ errs = {} =>
                /\ NoneLeft(instance) \/ "instance" \in landed
                /\ NoVolumeLeft \/ "volume" \in landed

\* ... and snapshots, in both regions.
RemoveSnapshots ==
    phase = "remove" =>
        /\ at[2] = "DeleteSnapshots" =>
              Listed(Targets) \subseteq todo[2] \/ TargetKind \in landed
        /\ at[2] = "end" /\ errs = {} => NoneLeft(Targets) \/ TargetKind \in landed
        /\ at[3] \in {"ListSnapshots", "DeleteSnapshots"} => remote
        /\ at[3] = "DeleteSnapshots" =>
              Listed(snapshot) \subseteq todo[3] \/ "snapshot" \in landed
        /\ at[3] = "end" /\ errs = {} /\ remote =>
              NoneLeft(snapshot) \/ "snapshot" \in landed

Removed ==
    phase = "removed" =>
        /\ NoneLeft(instance) \/ "instance" \in landed
        /\ NoneLeft(snapshot) \/ "snapshot" \in landed
        /\ NoneLeft(copy) \/ "copy" \in landed
        /\ NoVolumeLeft \/ "volume" \in landed

RemoveView == RemoveInstances /\ RemoveSnapshots /\ Removed

AwsInv == TypeOK /\ RunView /\ OneView /\ RemoveView
-----------------------------------------------------------------------------
\* A goroutine makes the calls of its own, in any state of EC2.
LEMMA AtStep ==
  ASSUME TypeOK, [Next]_vars PROVE AtOK'
<1> USE DEF TypeOK, AtOK, CallOK, Phases, Errors, AtRest, Calls, Goroutines, env, aws, call
<1>1. CASE RunStarts \/ RemoveStarts
  BY <1>1 DEF RunStarts, RemoveStarts, Each
<1>2. CASE CreatesInstance
  BY <1>2 DEF CreatesInstance, DescribeInstances, RunInstances, InstanceReady, Goes,
     Errs, Live, Fresh
<1>3. CASE CreatesSnapshot
  BY <1>3 DEF CreatesSnapshot, DescribeSnapshots, CreateSnapshot, SnapshotReady,
     DescribeCopies, CopySnapshot, TargetReady, Goes, Errs, Listed, Usable, Fresh,
     Targets
<1>4. CASE AttachesVolume
  BY <1>4 DEF AttachesVolume, RunJoins, DescribeVolumes, CreateVolume, VolumeReady,
     DescribeAttachment, AttachVolume, IsAttached, Goes, Errs, Fresh, VolumeState
<1>5. CASE DeletesInstance
  <2>1. CASE ListInstances
    BY <2>1 DEF ListInstances, Goes, Listed
  <2>2. CASE TerminateInstances
    BY <2>2 DEF TerminateInstances, Errs
  <2>3. CASE ListVolumes
    BY <2>3 DEF ListVolumes, Goes, Listed, VolumeState
  <2>4. CASE DeleteVolumes
    BY <2>4 DEF DeleteVolumes, Errs
  <2> QED
    BY <1>5, <2>1, <2>2, <2>3, <2>4 DEF DeletesInstance
<1>6. ASSUME NEW g \in Goroutines, DeletesSnapshots(g) PROVE AtOK'
  BY <1>6 DEF DeletesSnapshots, ListSnapshots, DeleteSnapshots, Goes, Listed, Targets,
     InRegion
<1>7. CASE Returns \/ ScanEnds \/ GivesUp
  BY <1>7 DEF Returns, ScanEnds, GivesUp, Fault, Outcome, AfterCall, Forgets, NoIds, NoTodo
<1>8. CASE RequestLands
  BY <1>8 DEF RequestLands
<1>9. ASSUME NEW g \in Goroutines, CallFails(g) PROVE AtOK'
  BY <1>9 DEF CallFails, Errs, Fault, Wrapped
<1>10. ASSUME NEW g \in Goroutines, CreationIsLost(g) PROVE AtOK'
  BY <1>10 DEF CreationIsLost, Errs, Fault, Fresh, VolumeState
<1>11. ASSUME NEW i \in Ids, Progresses(i) PROVE AtOK'
  BY <1>11 DEF Progresses, InstanceStarts, InstanceTerminates, SnapshotCompletes,
     VolumeIsCreated, VolumeIsAttached
<1>12. ASSUME NEW i \in Ids, InstanceIsInterrupted(i) PROVE AtOK'
  BY <1>12 DEF InstanceIsInterrupted, Fault
<1>13. ASSUME NEW i \in Ids, CreationGoesWrong(i) PROVE AtOK'
  BY <1>13 DEF CreationGoesWrong, Fault
<1>14. CASE UNCHANGED vars
  BY <1>14 DEF vars
<1> QED
  BY <1>1, <1>2, <1>3, <1>4, <1>5, <1>6, <1>7, <1>8, <1>9, <1>10, <1>11, <1>12, <1>13,
     <1>14 DEF Next, Works, Progresses, Goroutines

\* What a call holds keeps its types, whatever EC2 does.
LEMMA CallStep ==
  ASSUME TypeOK, [Next]_vars PROVE CallOK'
<1> USE DEF TypeOK, AtOK, AwsOK, CallOK, Phases, Errors, AtRest, Ids, Goroutines, Volumes, env, aws,
call
<1>1. CASE RunStarts \/ RemoveStarts
  <2>1. UNCHANGED <<env, use, todo, errs>>
    BY <1>1 DEF RunStarts, RemoveStarts
  <2> QED
    BY <2>1
<1>2. CASE CreatesInstance
  BY <1>2 DEF CreatesInstance, DescribeInstances, RunInstances, InstanceReady, Goes,
     Errs, Live, Fresh
<1>3. CASE CreatesSnapshot
  BY <1>3 DEF CreatesSnapshot, DescribeSnapshots, CreateSnapshot, SnapshotReady,
     DescribeCopies, CopySnapshot, TargetReady, Goes, Errs, Listed, Usable, Fresh,
     Targets
<1>4. CASE AttachesVolume
  BY <1>4 DEF AttachesVolume, RunJoins, DescribeVolumes, CreateVolume, VolumeReady,
     DescribeAttachment, AttachVolume, IsAttached, Goes, Errs, Fresh, VolumeState
<1>5. CASE DeletesInstance
  <2>1. CASE ListInstances
    BY <2>1 DEF ListInstances, Goes, Listed
  <2>2. CASE TerminateInstances
    BY <2>2 DEF TerminateInstances, Errs
  <2>3. CASE ListVolumes
    BY <2>3 DEF ListVolumes, Goes, Listed, VolumeState
  <2>4. CASE DeleteVolumes
    BY <2>4 DEF DeleteVolumes, Errs
  <2> QED
    BY <1>5, <2>1, <2>2, <2>3, <2>4 DEF DeletesInstance
<1>6. ASSUME NEW g \in Goroutines, DeletesSnapshots(g) PROVE CallOK'
  <2>1. CASE ListSnapshots(g)
    BY <2>1 DEF ListSnapshots, Goes, Listed, Targets, InRegion
  <2>2. CASE DeleteSnapshots(g)
    <3>1. todo' \in [Goroutines -> SUBSET Ids]
      BY <2>2 DEF DeleteSnapshots, TypeOK, CallOK, Phases, Errors, Goroutines
    <3>2. UNCHANGED <<remote, phase, landed, faults, use, errs>>
      BY <2>2 DEF DeleteSnapshots, Goes, env
    <3> QED
      BY <3>1, <3>2 DEF TypeOK, CallOK, Phases, Errors
  <2> QED
    BY <1>6, <2>1, <2>2 DEF DeletesSnapshots
<1>7. CASE Returns \/ ScanEnds \/ GivesUp
  <2>1. CASE Returns
    BY <2>1 DEF Returns, Outcome, AfterCall, Forgets, NoIds, NoTodo
  <2>2. CASE ScanEnds
    BY <2>2 DEF ScanEnds, NoIds
  <2>3. CASE GivesUp
    BY ProviderAssumption, <2>3 DEF GivesUp, Fault, Forgets, NoIds, NoTodo
  <2> QED
    BY <1>7, <2>1, <2>2, <2>3
<1>8. CASE RequestLands
  BY <1>8 DEF RequestLands
<1>9. ASSUME NEW g \in Goroutines, CallFails(g) PROVE CallOK'
  <2>1. errs' \in SUBSET Errors
    <3>1. PICK e \in Errors : errs' = errs \cup {e}
      BY <1>9 DEF CallFails, Errs, Wrapped, Errors
    <3> QED
      BY <3>1 DEF TypeOK, CallOK
  <2>2. faults' \in 0..MaxFaults
    BY ProviderAssumption, <1>9 DEF CallFails, Fault, TypeOK, CallOK, Phases, Errors
  <2>3. UNCHANGED <<remote, phase, landed, use, todo>>
    BY <1>9 DEF CallFails
  <2> QED
    BY <2>1, <2>2, <2>3 DEF TypeOK, CallOK, Phases, Errors
<1>10. ASSUME NEW g \in Goroutines, CreationIsLost(g) PROVE CallOK'
  BY ProviderAssumption, <1>10 DEF CreationIsLost, Errs, Fault, Fresh, VolumeState
<1>11. ASSUME NEW i \in Ids, Progresses(i) PROVE CallOK'
  BY <1>11 DEF Progresses, InstanceStarts, InstanceTerminates, SnapshotCompletes,
     VolumeIsCreated, VolumeIsAttached
<1>12. ASSUME NEW i \in Ids, InstanceIsInterrupted(i) PROVE CallOK'
  BY ProviderAssumption, <1>12 DEF InstanceIsInterrupted, Fault
<1>13. ASSUME NEW i \in Ids, CreationGoesWrong(i) PROVE CallOK'
  BY ProviderAssumption, <1>13 DEF CreationGoesWrong, Fault
<1>14. CASE UNCHANGED vars
  BY <1>14 DEF vars
<1> QED
  BY <1>1, <1>2, <1>3, <1>4, <1>5, <1>6, <1>7, <1>8, <1>9, <1>10, <1>11, <1>12, <1>13,
     <1>14 DEF Next, Works, Progresses, Goroutines

\* EC2 keeps its types; that a Volume is made of a snapshot there is needs RunView.
LEMMA AwsStep ==
  ASSUME AwsInv, [Next]_vars PROVE AwsOK'
<1> USE DEF AwsInv, TypeOK, AwsOK, CallOK, Phases, Errors, Snapshots, Volumes, env, aws, call
<1>1. CASE RunStarts \/ RemoveStarts
  BY <1>1 DEF RunStarts, RemoveStarts, Each, AtRest
<1>2. CASE CreatesInstance
  BY <1>2 DEF CreatesInstance, DescribeInstances, RunInstances, InstanceReady, Goes,
     Errs, Live, Fresh
<1>3. CASE CreatesSnapshot
  <2>1. CASE DescribeSnapshots
    BY <2>1 DEF DescribeSnapshots, Goes, Usable
  <2>2. CASE CreateSnapshot
    BY <2>2 DEF CreateSnapshot, Goes, Fresh
  <2>3. CASE SnapshotReady
    BY <2>3 DEF SnapshotReady, Goes, Errs
  <2>4. CASE DescribeCopies
    BY <2>4 DEF DescribeCopies, Goes, Errs, Listed
  <2>5. CASE CopySnapshot
    BY <2>5 DEF CopySnapshot, Goes, Fresh
  <2>6. CASE TargetReady
    BY <2>6 DEF TargetReady, Goes, Errs, Targets
  <2> QED
    BY <1>3, <2>1, <2>2, <2>3, <2>4, <2>5, <2>6 DEF CreatesSnapshot
<1>4. CASE AttachesVolume
  <2>1. CASE RunJoins
    BY <2>1 DEF RunJoins, Goes
  <2>2. CASE DescribeVolumes
    BY <2>2 DEF DescribeVolumes, Goes, Errs
  <2>3. CASE CreateVolume
    <3>1. use.target \in Ids
      BY <2>3 DEF CreateVolume, AwsInv, TypeOK, AtOK, AtRest, RunView, RunHolds,
         RunVolume, NoWait, HasVolume, Goroutines
    <3>2. PICK v \in Ids :
            volume' = [volume EXCEPT ![v] = [st |-> "creating", from |-> use.target, to |-> 0]]
      BY <2>3 DEF CreateVolume
    <3>3. volume' \in [Ids -> Volumes]
      BY <3>1, <3>2 DEF AwsInv, TypeOK, AwsOK, Volumes
    <3>4. \A w \in Ids : volume'[w].st # "none" => volume'[w].from \in Ids
      BY <3>1, <3>2 DEF AwsInv, TypeOK, AwsOK
    <3> QED
      BY <2>3, <3>3, <3>4 DEF CreateVolume, AwsInv, TypeOK, AwsOK
  <2>4. CASE VolumeReady
    BY <2>4 DEF VolumeReady, Goes, Errs
  <2>5. CASE DescribeAttachment
    BY <2>5 DEF DescribeAttachment, Goes, Errs
  <2>6. CASE AttachVolume
    <3>1. use.volume \in Ids /\ use.instance \in Ids /\ Made(use.volume)
      BY <2>6 DEF AttachVolume, AwsInv, TypeOK, AtOK, AtRest, RunView, RunHolds,
         RunVolume, NoWait, HasVolume, Goroutines
    <3>2. CASE UNCHANGED volume
      BY <2>6, <3>2 DEF AttachVolume, AwsInv, TypeOK, AwsOK
    <3>3. CASE volume' = [volume EXCEPT ![use.volume] =
                            [@ EXCEPT !.st = "attaching", !.to = use.instance]]
      <4>a. volume[use.volume] \in Volumes
        BY <3>1
      <4>1. [volume[use.volume] EXCEPT !.st = "attaching", !.to = use.instance] \in Volumes
        BY <3>1, <4>a
      <4>2. volume' \in [Ids -> Volumes]
        BY <3>1, <3>3, <4>1 DEF AwsInv, TypeOK, AwsOK
      <4>3. \A w \in Ids : volume'[w].st # "none" => volume'[w].from \in Ids
        BY <3>1, <3>3 DEF AwsInv, TypeOK, AwsOK, Volumes, Made
      <4> QED
        BY <2>6, <4>2, <4>3 DEF AttachVolume, AwsInv, TypeOK, AwsOK
    <3> QED
      BY <2>6, <3>2, <3>3 DEF AttachVolume
  <2>7. CASE IsAttached
    BY <2>7 DEF IsAttached, Goes, Errs
  <2> QED
    BY <1>4, <2>1, <2>2, <2>3, <2>4, <2>5, <2>6, <2>7 DEF AttachesVolume
<1>5. CASE DeletesInstance
  <2>1. CASE ListInstances
    BY <2>1 DEF ListInstances, Goes, Listed
  <2>2. CASE TerminateInstances
    BY <2>2 DEF TerminateInstances, Errs
  <2>3. CASE ListVolumes
    BY <2>3 DEF ListVolumes, Goes, Listed, VolumeState
  <2>4. CASE DeleteVolumes
    <3>1. ASSUME NEW v \in todo[1], volume' = [volume EXCEPT ![v].st = "deleted"]
          PROVE AwsOK'
      <4>1. v \in Ids /\ volume[v].st # "none"
        BY <2>4 DEF DeleteVolumes, AwsInv, RemoveView, RemoveInstances, TypeOK, CallOK, Phases, Errors,
           Goroutines
      <4>2. UNCHANGED <<instance, snapshot, copy>>
        BY <2>4 DEF DeleteVolumes
      <4> QED
        BY <3>1, <4>1, <4>2 DEF AwsInv, TypeOK, AwsOK, Volumes
    <3>2. CASE UNCHANGED volume
      BY <2>4, <3>2 DEF DeleteVolumes, AwsInv, TypeOK, AwsOK
    <3> QED
      BY <2>4, <3>1, <3>2 DEF DeleteVolumes
  <2> QED
    BY <1>5, <2>1, <2>2, <2>3, <2>4 DEF DeletesInstance
<1>6. ASSUME NEW g \in Goroutines, DeletesSnapshots(g) PROVE AwsOK'
  BY <1>6 DEF DeletesSnapshots, ListSnapshots, DeleteSnapshots, Goes, Listed, Targets,
     InRegion
<1>7. CASE Returns \/ ScanEnds \/ GivesUp
  BY <1>7 DEF Returns, ScanEnds, GivesUp, Fault, Outcome, AfterCall, Forgets, AtRest, NoIds, NoTodo
<1>8. CASE RequestLands
  <2>1. PICK i \in Ids :
          \/ /\ instance' = [instance EXCEPT ![i] = "pending"]
             /\ UNCHANGED <<snapshot, copy, volume>>
          \/ /\ snapshot' = [snapshot EXCEPT ![i] = "pending"]
             /\ UNCHANGED <<instance, copy, volume>>
          \/ /\ copy' = [copy EXCEPT ![i] = "pending"]
             /\ UNCHANGED <<instance, snapshot, volume>>
          \/ /\ volume[i].st = "sent"
             /\ volume' = [volume EXCEPT ![i].st = "creating"]
             /\ UNCHANGED <<instance, snapshot, copy>>
    BY <1>8 DEF RequestLands
  <2>2. CASE UNCHANGED volume
    BY <2>1, <2>2 DEF AwsInv, TypeOK, AwsOK, Snapshots
  <2>3. CASE /\ volume[i].st = "sent"
             /\ volume' = [volume EXCEPT ![i].st = "creating"]
             /\ UNCHANGED <<instance, snapshot, copy>>
    BY <2>3 DEF AwsInv, TypeOK, AwsOK, Volumes
  <2> QED
    BY <2>1, <2>2, <2>3
<1>9. ASSUME NEW g \in Goroutines, CallFails(g) PROVE AwsOK'
  BY <1>9 DEF CallFails, Errs, Fault, Wrapped
<1>10. ASSUME NEW g \in Goroutines, CreationIsLost(g) PROVE AwsOK'
  <2>1. PICK i \in Ids :
          \/ /\ instance' = [instance EXCEPT ![i] = "sent"]
             /\ UNCHANGED <<snapshot, copy, volume>>
          \/ /\ snapshot' = [snapshot EXCEPT ![i] = "sent"]
             /\ UNCHANGED <<instance, copy, volume>>
          \/ /\ copy' = [copy EXCEPT ![i] = "sent"]
             /\ UNCHANGED <<instance, snapshot, volume>>
          \/ /\ at[g] = "CreateVolume"
             /\ volume' = [volume EXCEPT
                   ![i] = [st |-> "sent", from |-> use.target, to |-> 0]]
             /\ UNCHANGED <<instance, snapshot, copy>>
    BY <1>10 DEF CreationIsLost
  <2>2. CASE UNCHANGED volume
    BY <2>1, <2>2 DEF AwsInv, TypeOK, AwsOK, Snapshots
  <2>3. CASE /\ at[g] = "CreateVolume"
             /\ volume' = [volume EXCEPT
                   ![i] = [st |-> "sent", from |-> use.target, to |-> 0]]
             /\ UNCHANGED <<instance, snapshot, copy>>
    <3>1. g = 3 /\ phase = "run"
      BY <2>3 DEF AwsInv, TypeOK, AtOK, AtRest, CallOK, Phases, Errors, Goroutines
    <3>2. use.target \in Ids
      BY <2>3, <3>1 DEF AwsInv, RunView, RunHolds, NoWait
    <3> QED
      BY <2>3, <3>2 DEF AwsInv, TypeOK, AwsOK, Volumes
  <2> QED
    BY <2>1, <2>2, <2>3
<1>11. ASSUME NEW i \in Ids, Progresses(i) PROVE AwsOK'
  BY <1>11, SMTT(30) DEF Progresses, InstanceStarts, InstanceTerminates, SnapshotCompletes,
     VolumeIsCreated, VolumeIsAttached
<1>12. ASSUME NEW i \in Ids, InstanceIsInterrupted(i) PROVE AwsOK'
  BY <1>12 DEF InstanceIsInterrupted, Fault
<1>13. ASSUME NEW i \in Ids, CreationGoesWrong(i) PROVE AwsOK'
  <2>1. CASE UNCHANGED volume
    BY <1>13, <2>1 DEF CreationGoesWrong, AwsInv, TypeOK, AwsOK, Snapshots
  <2>2. CASE /\ volume[i].st = "creating"
             /\ volume' = [volume EXCEPT ![i].st = "error"]
             /\ UNCHANGED <<snapshot, copy>>
    BY <1>13, <2>2 DEF CreationGoesWrong, AwsInv, TypeOK, AwsOK, Volumes
  <2> QED
    BY <1>13, <2>1, <2>2 DEF CreationGoesWrong
<1>14. CASE UNCHANGED vars
  BY <1>14 DEF vars
<1> QED
  BY <1>1, <1>2, <1>3, <1>4, <1>5, <1>6, <1>7, <1>8, <1>9, <1>10, <1>11, <1>12, <1>13,
     <1>14 DEF Next, Works, Progresses, Goroutines

\* An error ends the goroutine, and makes the call one that failed.
LEMMA ErrsEnds ==
  ASSUME NEW g, NEW e, Errs(g, e)
  PROVE  errs' # {} /\ at' = [at EXCEPT ![g] = "end"]
  BY DEF Errs

\* What RunAssetScan works with exists once it was found or made.
LEMMA HoldsStep ==
  ASSUME AwsInv, [Next]_vars PROVE RunHolds'
<1> USE DEF AwsInv, RunView, RunHolds, TypeOK, AwsOK, AtOK, CallOK, Phases, Errors, AtRest, NoWait,
Goroutines, env, aws, call
<1>1. CASE RunStarts \/ RemoveStarts
  BY <1>1 DEF RunStarts, RemoveStarts, Each
<1>2. CASE CreatesInstance
  BY <1>2 DEF CreatesInstance, DescribeInstances, RunInstances, InstanceReady, Goes,
     Errs, Live, Fresh
<1>3. CASE CreatesSnapshot
  <2>1. CASE DescribeSnapshots
    BY <2>1 DEF DescribeSnapshots, Goes, Usable
  <2>2. CASE CreateSnapshot
    BY <2>2 DEF CreateSnapshot, Goes, Fresh
  <2>3. CASE SnapshotReady
    <3>1. CASE snapshot[use.source] # "completed"
      <4>0. Errs(2, "retryable") /\ use' = use
        BY <2>3, <3>1 DEF SnapshotReady
      <4>1. errs' # {} /\ at' = [at EXCEPT ![2] = "end"] /\ use' = use
        BY <4>0, ErrsEnds
      <4> QED
        BY <2>3, <4>1 DEF SnapshotReady, AwsInv, RunView, RunHolds, TypeOK,
         AwsOK, AtOK, CallOK, Phases, Errors, AtRest, NoWait, Goroutines, env, aws, call
    <3>2. CASE snapshot[use.source] = "completed" /\ remote
      <4>1. at' = [at EXCEPT ![2] = "DescribeCopies"] /\ UNCHANGED <<use, errs>>
        BY <2>3, <3>2 DEF SnapshotReady, Goes
      <4> QED
        BY <2>3, <3>2, <4>1 DEF SnapshotReady, AwsInv, RunView, RunHolds, TypeOK,
         AwsOK, AtOK, CallOK, Phases, Errors, AtRest, NoWait, Goroutines, env, aws, call
    <3>3. CASE snapshot[use.source] = "completed" /\ ~remote
      <4>1. /\ at' = [at EXCEPT ![2] = "TargetReady"]
            /\ use' = [use EXCEPT !.target = use.source]
            /\ UNCHANGED errs
        BY <2>3, <3>3 DEF SnapshotReady, Goes
      <4> QED
        BY <2>3, <3>3, <4>1 DEF SnapshotReady, AwsInv, RunView, RunHolds, TypeOK,
         AwsOK, AtOK, CallOK, Phases, Errors, AtRest, NoWait, Goroutines, env, aws, call
    <3> QED
      BY <3>1, <3>2, <3>3
  <2>4. CASE DescribeCopies
    BY <2>4, SMTT(30) DEF DescribeCopies, Goes, Errs, Listed
  <2>5. CASE CopySnapshot
    BY <2>5 DEF CopySnapshot, Goes, Fresh
  <2>6. CASE TargetReady
    BY <2>6 DEF TargetReady, Goes, Errs, Targets
  <2> QED
    BY <1>3, <2>1, <2>2, <2>3, <2>4, <2>5, <2>6 DEF CreatesSnapshot
<1>4. CASE AttachesVolume
  <2>1. CASE RunJoins
    BY <2>1 DEF RunJoins, Goes
  <2>2. CASE DescribeVolumes
    BY <2>2 DEF DescribeVolumes, Goes, Errs
  <2>3. CASE CreateVolume
    BY <2>3 DEF CreateVolume, Goes, Fresh, VolumeState
  <2>4. CASE VolumeReady
    <3>1. CASE \E e \in {"retryable", "fatal"} : Errs(3, e)
      <4>1. errs' # {} /\ at' = [at EXCEPT ![3] = "end"]
        BY <3>1 DEF Errs
      <4> QED
        BY <2>4, <4>1 DEF VolumeReady, AwsInv, RunView, RunHolds, TypeOK,
         AwsOK, AtOK, CallOK, Phases, Errors, AtRest, NoWait, Goroutines, env, aws, call
    <3>2. CASE \E c \in Calls : Goes(3, c)
      BY <2>4, <3>2 DEF VolumeReady, Goes, Errs, AwsInv, RunView, RunHolds, TypeOK,
         AwsOK, AtOK, CallOK, Phases, Errors, AtRest, NoWait, Goroutines, env, aws, call
    <3> QED
      BY <2>4, <3>1, <3>2 DEF VolumeReady, Calls
  <2>5. CASE DescribeAttachment
    <3>1. CASE \E e \in {"retryable", "fatal"} : Errs(3, e)
      <4>1. errs' # {} /\ at' = [at EXCEPT ![3] = "end"]
        BY <3>1 DEF Errs
      <4> QED
        BY <2>5, <4>1 DEF DescribeAttachment, AwsInv, RunView, RunHolds, TypeOK,
         AwsOK, AtOK, CallOK, Phases, Errors, AtRest, NoWait, Goroutines, env, aws, call
    <3>2. CASE \E c \in Calls : Goes(3, c)
      BY <2>5, <3>2 DEF DescribeAttachment, Goes, Errs, AwsInv, RunView, RunHolds,
         TypeOK,
         AwsOK, AtOK, CallOK, Phases, Errors, AtRest, NoWait, Goroutines, env, aws, call
    <3> QED
      BY <2>5, <3>1, <3>2 DEF DescribeAttachment, Calls
  <2>6. CASE AttachVolume
    BY <2>6 DEF AttachVolume, Goes, Errs
  <2>7. CASE IsAttached
    BY <2>7 DEF IsAttached, Goes, Errs
  <2> QED
    BY <1>4, <2>1, <2>2, <2>3, <2>4, <2>5, <2>6, <2>7 DEF AttachesVolume
<1>5. CASE DeletesInstance
  BY <1>5 DEF DeletesInstance, ListInstances, TerminateInstances, ListVolumes,
     DeleteVolumes, Goes, Errs, Listed, VolumeState
<1>6. ASSUME NEW g \in Goroutines, DeletesSnapshots(g) PROVE RunHolds'
  BY <1>6 DEF DeletesSnapshots, ListSnapshots, DeleteSnapshots, Goes, Listed, Targets,
     InRegion
<1>7. CASE Returns \/ ScanEnds \/ GivesUp
  BY <1>7 DEF Returns, ScanEnds, GivesUp, Fault, Outcome, AfterCall, Forgets, NoIds, NoTodo
<1>8. CASE RequestLands
  BY <1>8 DEF RequestLands
<1>9. ASSUME NEW g \in Goroutines, CallFails(g) PROVE RunHolds'
  <2>0. \E e \in Wrapped \cup {"other"} : Errs(g, e)
    BY <1>9 DEF CallFails
  <2>1. errs' # {} /\ at' = [at EXCEPT ![g] = "end"]
    BY <2>0, ErrsEnds
  <2> QED
    BY <1>9, <2>1 DEF CallFails, AwsInv, RunView, RunHolds, TypeOK,
       AwsOK, AtOK, CallOK, Phases, Errors, AtRest, NoWait, Goroutines, env, aws, call
<1>10. ASSUME NEW g \in Goroutines, CreationIsLost(g) PROVE RunHolds'
  BY <1>10 DEF CreationIsLost, Errs, Fault, Fresh, VolumeState
<1>11. ASSUME NEW i \in Ids, Progresses(i) PROVE RunHolds'
  BY <1>11 DEF Progresses, InstanceStarts, InstanceTerminates, SnapshotCompletes,
     VolumeIsCreated, VolumeIsAttached
<1>12. ASSUME NEW i \in Ids, InstanceIsInterrupted(i) PROVE RunHolds'
  BY <1>12 DEF InstanceIsInterrupted, Fault
<1>13. ASSUME NEW i \in Ids, CreationGoesWrong(i) PROVE RunHolds'
  BY <1>13 DEF CreationGoesWrong, Fault
<1>14. CASE UNCHANGED vars
  BY <1>14 DEF vars
<1> QED
  BY <1>1, <1>2, <1>3, <1>4, <1>5, <1>6, <1>7, <1>8, <1>9, <1>10, <1>11, <1>12, <1>13,
     <1>14 DEF Next, Works, Progresses, Goroutines

\* Nothing deletes a completed snapshot while RunAssetScan works.
LEMMA TargetStep ==
  ASSUME AwsInv, [Next]_vars PROVE RunTarget'
<1> USE DEF AwsInv, RunView, RunHolds, RunTarget, Targets, TypeOK, AwsOK, AtOK, CallOK, Phases, Errors,
AtRest, NoWait, Goroutines, Snapshots, env, aws, call
<1>1. CASE RunStarts \/ RemoveStarts
  BY <1>1 DEF RunStarts, RemoveStarts, Each
<1>2. CASE CreatesInstance
  BY <1>2 DEF CreatesInstance, DescribeInstances, RunInstances, InstanceReady, Goes,
     Errs, Live, Fresh
<1>3. CASE CreatesSnapshot
  BY <1>3 DEF CreatesSnapshot, DescribeSnapshots, CreateSnapshot, SnapshotReady,
     DescribeCopies, CopySnapshot, TargetReady, Goes, Errs, Listed, Usable, Fresh
<1>4. CASE AttachesVolume
  BY <1>4 DEF AttachesVolume, RunJoins, DescribeVolumes, CreateVolume, VolumeReady,
     DescribeAttachment, AttachVolume, IsAttached, Goes, Errs, Fresh, VolumeState
<1>5. CASE DeletesInstance
  BY <1>5 DEF DeletesInstance, ListInstances, TerminateInstances, ListVolumes,
     DeleteVolumes, Goes, Errs, Listed, VolumeState
<1>6. ASSUME NEW g \in Goroutines, DeletesSnapshots(g) PROVE RunTarget'
  BY <1>6 DEF DeletesSnapshots, ListSnapshots, DeleteSnapshots, Goes, Listed, InRegion
<1>7. CASE Returns \/ ScanEnds \/ GivesUp
  BY <1>7 DEF Returns, ScanEnds, GivesUp, Fault, Outcome, AfterCall, Forgets, NoIds, NoTodo
<1>8. CASE RequestLands
  BY <1>8 DEF RequestLands
<1>9. ASSUME NEW g \in Goroutines, CallFails(g) PROVE RunTarget'
  BY <1>9 DEF CallFails, Errs, Fault, Wrapped
<1>10. ASSUME NEW g \in Goroutines, CreationIsLost(g) PROVE RunTarget'
  BY <1>10 DEF CreationIsLost, Errs, Fault, Fresh, VolumeState
<1>11. ASSUME NEW i \in Ids, Progresses(i) PROVE RunTarget'
  BY <1>11 DEF Progresses, InstanceStarts, InstanceTerminates, SnapshotCompletes,
     VolumeIsCreated, VolumeIsAttached
<1>12. ASSUME NEW i \in Ids, InstanceIsInterrupted(i) PROVE RunTarget'
  BY <1>12 DEF InstanceIsInterrupted, Fault
<1>13. ASSUME NEW i \in Ids, CreationGoesWrong(i) PROVE RunTarget'
  BY <1>13 DEF CreationGoesWrong, Fault
<1>14. CASE UNCHANGED vars
  BY <1>14 DEF vars
<1> QED
  BY <1>1, <1>2, <1>3, <1>4, <1>5, <1>6, <1>7, <1>8, <1>9, <1>10, <1>11, <1>12, <1>13,
     <1>14 DEF Next, Works, Progresses, Goroutines

\* A volume at the machine of the call stays there until that is gone.
LEMMA VolumeStep ==
  ASSUME AwsInv, [Next]_vars PROVE RunVolume'
<1> USE DEF AwsInv, RunView, RunHolds, RunVolume, Attached, Made, TypeOK, AwsOK, AtOK,
CallOK, Phases, Errors, AtRest, NoWait, HasVolume, Goroutines, Volumes, env, aws, call
<1>1. CASE RunStarts \/ RemoveStarts
  BY <1>1 DEF RunStarts, RemoveStarts, Each
<1>2. CASE CreatesInstance
  BY <1>2 DEF CreatesInstance, DescribeInstances, RunInstances, InstanceReady, Goes,
     Errs, Live, Fresh
<1>3. CASE CreatesSnapshot
  BY <1>3 DEF CreatesSnapshot, DescribeSnapshots, CreateSnapshot, SnapshotReady,
     DescribeCopies, CopySnapshot, TargetReady, Goes, Errs, Listed, Usable, Fresh,
     Targets
<1>4. CASE AttachesVolume
  <2>1. CASE RunJoins
    BY <2>1 DEF RunJoins, Goes
  <2>2. CASE DescribeVolumes
    BY <2>2 DEF DescribeVolumes, Goes, Errs
  <2>3. CASE CreateVolume
    BY <2>3 DEF CreateVolume, Goes, Fresh, VolumeState
  <2>4. CASE VolumeReady
    BY <2>4 DEF VolumeReady, Goes, Errs
  <2>5. CASE DescribeAttachment
    BY <2>5 DEF DescribeAttachment, Goes, Errs
  <2>6. CASE AttachVolume
    <3>1. phase = "run" /\ use.volume \in Ids /\ Made(use.volume)
      BY <2>6 DEF AttachVolume, AwsInv, RunView, RunHolds, RunVolume,
         Attached, Made, TypeOK, AwsOK, AtOK, CallOK, Phases, Errors, AtRest, NoWait, HasVolume,
         Goroutines,
         Volumes, env, aws, call
    <3>2. CASE instance[use.instance] = "running"
      <4>1. /\ volume' = [volume EXCEPT
                    ![use.volume] = [@ EXCEPT !.st = "attaching", !.to = use.instance]]
            /\ at' = [at EXCEPT ![3] = "IsAttached"]
            /\ UNCHANGED <<phase, instance, use, errs>>
        BY <2>6, <3>2 DEF AttachVolume, Goes, env
      <4>2. volume'[use.volume].to = use.instance /\ Made(use.volume)'
        BY <3>1, <4>1 DEF AwsInv, TypeOK, AwsOK, Volumes, Made
      <4>3. at'[3] = "IsAttached" /\ phase' = "run"
        BY <3>1, <4>1 DEF AwsInv, TypeOK, AtOK, Goroutines
      <4> QED
        BY <3>1, <4>1, <4>2, <4>3 DEF RunVolume, HasVolume
    <3>3. CASE instance[use.instance] # "running"
      <4>1. /\ errs' # {}
            /\ at' = [at EXCEPT ![3] = "end"]
            /\ UNCHANGED <<phase, instance, volume, use>>
        BY <2>6, <3>3 DEF AttachVolume, Errs, env
      <4>2. at'[3] = "end" /\ phase' = "run"
        BY <3>1, <4>1 DEF AwsInv, TypeOK, AtOK, Goroutines
      <4> QED
        BY <4>1, <4>2 DEF RunVolume, HasVolume
    <3> QED
      BY <3>2, <3>3
  <2>7. CASE IsAttached
    BY <2>7 DEF IsAttached, Goes, Errs
  <2> QED
    BY <1>4, <2>1, <2>2, <2>3, <2>4, <2>5, <2>6, <2>7 DEF AttachesVolume
<1>5. CASE DeletesInstance
  BY <1>5 DEF DeletesInstance, ListInstances, TerminateInstances, ListVolumes,
     DeleteVolumes, Goes, Errs, Listed, VolumeState
<1>6. ASSUME NEW g \in Goroutines, DeletesSnapshots(g) PROVE RunVolume'
  BY <1>6 DEF DeletesSnapshots, ListSnapshots, DeleteSnapshots, Goes, Listed, Targets,
     InRegion
<1>7. CASE Returns \/ ScanEnds \/ GivesUp
  BY <1>7 DEF Returns, ScanEnds, GivesUp, Fault, Outcome, AfterCall, Forgets, NoIds, NoTodo
<1>8. CASE RequestLands
  BY <1>8 DEF RequestLands
<1>9. ASSUME NEW g \in Goroutines, CallFails(g) PROVE RunVolume'
  BY <1>9 DEF CallFails, Errs, Fault, Wrapped
<1>10. ASSUME NEW g \in Goroutines, CreationIsLost(g) PROVE RunVolume'
  BY <1>10 DEF CreationIsLost, Errs, Fault, Fresh, VolumeState
<1>11. ASSUME NEW i \in Ids, Progresses(i) PROVE RunVolume'
  BY <1>11 DEF Progresses, InstanceStarts, InstanceTerminates, SnapshotCompletes,
     VolumeIsCreated, VolumeIsAttached
<1>12. ASSUME NEW i \in Ids, InstanceIsInterrupted(i) PROVE RunVolume'
  BY <1>12 DEF InstanceIsInterrupted, Fault
<1>13. ASSUME NEW i \in Ids, CreationGoesWrong(i) PROVE RunVolume'
  BY <1>13 DEF CreationGoesWrong, Fault
<1>14. CASE UNCHANGED vars
  BY <1>14 DEF vars
<1> HIDE DEF AwsInv, RunView, RunHolds, RunVolume, Attached, Made, TypeOK, AwsOK, AtOK,
CallOK, Phases, Errors, AtRest, NoWait, HasVolume, Goroutines, Volumes, env, aws, call
<1> QED
  BY <1>1, <1>2, <1>3, <1>4, <1>5, <1>6, <1>7, <1>8, <1>9, <1>10, <1>11, <1>12, <1>13,
     <1>14 DEF Next, Works, Progresses, Goroutines

\* One machine: there is none when RunInstances is called.
LEMMA OneInstanceStep ==
  ASSUME AwsInv, [Next]_vars PROVE OneInstance'
<1> USE DEF AwsInv, TypeOK, AwsOK, AtOK, CallOK, Phases, Errors, AtRest, Goroutines, OneView,
OneInstance, AtMostOne, Live, env, aws, call
<1>1. CASE RunStarts \/ RemoveStarts
  BY <1>1 DEF RunStarts, RemoveStarts, Each
<1>2. CASE CreatesInstance
  BY <1>2 DEF CreatesInstance, DescribeInstances, RunInstances, InstanceReady, Goes,
     Errs, Fresh
<1>3. CASE CreatesSnapshot
  BY <1>3 DEF CreatesSnapshot, DescribeSnapshots, CreateSnapshot, SnapshotReady,
     DescribeCopies, CopySnapshot, TargetReady, Goes, Errs, Listed, Usable, Fresh,
     Targets
<1>4. CASE AttachesVolume
  BY <1>4 DEF AttachesVolume, RunJoins, DescribeVolumes, CreateVolume, VolumeReady,
     DescribeAttachment, AttachVolume, IsAttached, Goes, Errs, Fresh, VolumeState
<1>5. CASE DeletesInstance
  <2>1. CASE ListInstances
    BY <2>1 DEF ListInstances, Goes, Listed
  <2>2. CASE TerminateInstances
    BY <2>2 DEF TerminateInstances, Errs
  <2>3. CASE ListVolumes
    BY <2>3 DEF ListVolumes, Goes, Listed, VolumeState
  <2>4. CASE DeleteVolumes
    BY <2>4 DEF DeleteVolumes, Errs
  <2> QED
    BY <1>5, <2>1, <2>2, <2>3, <2>4 DEF DeletesInstance
<1>6. ASSUME NEW g \in Goroutines, DeletesSnapshots(g) PROVE OneInstance'
  BY <1>6 DEF DeletesSnapshots, ListSnapshots, DeleteSnapshots, Goes, Listed, Targets,
     InRegion
<1>7. CASE Returns \/ ScanEnds \/ GivesUp
  BY <1>7 DEF Returns, ScanEnds, GivesUp, Fault, Outcome, AfterCall, Forgets, NoIds, NoTodo
<1>8. CASE RequestLands
  BY <1>8 DEF RequestLands
<1>9. ASSUME NEW g \in Goroutines, CallFails(g) PROVE OneInstance'
  BY <1>9 DEF CallFails, Errs, Fault, Wrapped
<1>10. ASSUME NEW g \in Goroutines, CreationIsLost(g) PROVE OneInstance'
  BY <1>10 DEF CreationIsLost, Errs, Fault, Fresh, VolumeState
<1>11. ASSUME NEW i \in Ids, Progresses(i) PROVE OneInstance'
  BY <1>11 DEF Progresses, InstanceStarts, InstanceTerminates, SnapshotCompletes,
     VolumeIsCreated, VolumeIsAttached
<1>12. ASSUME NEW i \in Ids, InstanceIsInterrupted(i) PROVE OneInstance'
  BY <1>12 DEF InstanceIsInterrupted, Fault
<1>13. ASSUME NEW i \in Ids, CreationGoesWrong(i) PROVE OneInstance'
  BY <1>13 DEF CreationGoesWrong, Fault
<1>14. CASE UNCHANGED vars
  BY <1>14 DEF vars
<1> QED
  BY <1>1, <1>2, <1>3, <1>4, <1>5, <1>6, <1>7, <1>8, <1>9, <1>10, <1>11, <1>12, <1>13,
     <1>14 DEF Next, Works, Progresses, Goroutines

\* One snapshot and one copy, by the same argument.
LEMMA OneSnapshotStep ==
  ASSUME AwsInv, [Next]_vars PROVE OneSnapshot'
<1> USE DEF AwsInv, TypeOK, AwsOK, AtOK, CallOK, Phases, Errors, AtRest, Goroutines, OneView,
OneSnapshot, AtMostOne, Usable, Listed, Snapshots, env, aws, call
<1>1. CASE RunStarts \/ RemoveStarts
  BY <1>1 DEF RunStarts, RemoveStarts, Each
<1>2. CASE CreatesInstance
  BY <1>2 DEF CreatesInstance, DescribeInstances, RunInstances, InstanceReady, Goes,
     Errs, Live, Fresh
<1>3. CASE CreatesSnapshot
  BY <1>3 DEF CreatesSnapshot, DescribeSnapshots, CreateSnapshot, SnapshotReady,
     DescribeCopies, CopySnapshot, TargetReady, Goes, Errs, Fresh, Targets
<1>4. CASE AttachesVolume
  BY <1>4 DEF AttachesVolume, RunJoins, DescribeVolumes, CreateVolume, VolumeReady,
     DescribeAttachment, AttachVolume, IsAttached, Goes, Errs, Fresh, VolumeState
<1>5. CASE DeletesInstance
  BY <1>5 DEF DeletesInstance, ListInstances, TerminateInstances, ListVolumes,
     DeleteVolumes, Goes, Errs, VolumeState
<1>6. ASSUME NEW g \in Goroutines, DeletesSnapshots(g) PROVE OneSnapshot'
  BY <1>6 DEF DeletesSnapshots, ListSnapshots, DeleteSnapshots, Goes, Targets, InRegion
<1>7. CASE Returns \/ ScanEnds \/ GivesUp
  BY <1>7 DEF Returns, ScanEnds, GivesUp, Fault, Outcome, AfterCall, Forgets, NoIds, NoTodo
<1>8. CASE RequestLands
  BY <1>8 DEF RequestLands
<1>9. ASSUME NEW g \in Goroutines, CallFails(g) PROVE OneSnapshot'
  BY <1>9 DEF CallFails, Errs, Fault, Wrapped
<1>10. ASSUME NEW g \in Goroutines, CreationIsLost(g) PROVE OneSnapshot'
  BY <1>10 DEF CreationIsLost, Errs, Fault, Fresh, VolumeState
<1>11. ASSUME NEW i \in Ids, Progresses(i) PROVE OneSnapshot'
  BY <1>11 DEF Progresses, InstanceStarts, InstanceTerminates, SnapshotCompletes,
     VolumeIsCreated, VolumeIsAttached
<1>12. ASSUME NEW i \in Ids, InstanceIsInterrupted(i) PROVE OneSnapshot'
  BY <1>12 DEF InstanceIsInterrupted, Fault
<1>13. ASSUME NEW i \in Ids, CreationGoesWrong(i) PROVE OneSnapshot'
  BY <1>13 DEF CreationGoesWrong, Fault
<1>14. CASE UNCHANGED vars
  BY <1>14 DEF vars
<1> QED
  BY <1>1, <1>2, <1>3, <1>4, <1>5, <1>6, <1>7, <1>8, <1>9, <1>10, <1>11, <1>12, <1>13,
     <1>14 DEF Next, Works, Progresses, Goroutines

\* One volume, because there is one snapshot to make it of.
LEMMA OneVolumeStep ==
  ASSUME AwsInv, [Next]_vars PROVE OneVolume'
<1> USE DEF AwsInv, TypeOK, AwsOK, AtOK, CallOK, Phases, Errors, AtRest, Goroutines, OneView,
OneVolume, OneSnapshot, RunView, RunHolds, RunTarget, NoWait, AtMostOne, GoodVolumes,
Made, Targets, Usable, Volumes, Snapshots, env, aws, call
<1>1. CASE RunStarts \/ RemoveStarts
  BY <1>1 DEF RunStarts, RemoveStarts, Each
<1>2. CASE CreatesInstance
  BY <1>2 DEF CreatesInstance, DescribeInstances, RunInstances, InstanceReady, Goes,
     Errs, Live, Fresh
<1>3. CASE CreatesSnapshot
  BY <1>3 DEF CreatesSnapshot, DescribeSnapshots, CreateSnapshot, SnapshotReady,
     DescribeCopies, CopySnapshot, TargetReady, Goes, Errs, Listed, Fresh
<1>4. CASE AttachesVolume
  <2>1. CASE RunJoins
    BY <2>1 DEF RunJoins, Goes
  <2>2. CASE DescribeVolumes
    BY <2>2 DEF DescribeVolumes, Goes, Errs
  <2>3. CASE CreateVolume
    BY <2>3 DEF CreateVolume, Goes, Fresh, VolumeState
  <2>4. CASE VolumeReady
    BY <2>4 DEF VolumeReady, Goes, Errs
  <2>5. CASE DescribeAttachment
    BY <2>5 DEF DescribeAttachment, Goes, Errs
  <2>6. CASE AttachVolume
    <3>1. phase = "run" /\ use.volume \in Ids
      BY <2>6 DEF AttachVolume, AwsInv, RunView, RunVolume, HasVolume, TypeOK, AtOK,
         CallOK, Phases, Errors,
         AtRest, Goroutines
    <3>2. CASE UNCHANGED volume
      BY <2>6, <3>2 DEF AttachVolume, Goes, Errs, AwsInv, TypeOK, AwsOK, AtOK, CallOK, Phases, Errors,
         Goroutines, OneView, OneVolume, AtMostOne, GoodVolumes, Made, Targets, env
    <3>3. CASE volume' = [volume EXCEPT
                    ![use.volume] = [@ EXCEPT !.st = "attaching", !.to = use.instance]]
      <4>1. volume[use.volume].st = "available"
        BY <3>1, <2>6 DEF AttachVolume, AwsInv, RunView, RunVolume
      <4>2. \A v \in Ids : /\ volume'[v].from = volume[v].from
                          /\ Made(v)' = Made(v)
                          /\ (v \in GoodVolumes' <=> v \in GoodVolumes)
        BY <3>1, <3>3, <4>1 DEF AwsInv, TypeOK, AwsOK, Volumes, Made, GoodVolumes
      <4>3. AtMostOne(GoodVolumes) => AtMostOne(GoodVolumes)'
        BY <4>2 DEF AtMostOne, GoodVolumes
      <4>4. at'[3] # "CreateVolume" /\ UNCHANGED <<landed, phase, remote, snapshot,
      copy>>
        BY <2>6 DEF AttachVolume, Goes, Errs, env, AwsInv, TypeOK, AtOK, Goroutines
      <4> QED
        BY <4>2, <4>3, <4>4 DEF AwsInv, OneView, OneVolume, Targets
    <3> QED
      BY <2>6, <3>2, <3>3 DEF AttachVolume
  <2>7. CASE IsAttached
    BY <2>7 DEF IsAttached, Goes, Errs
  <2> QED
    BY <1>4, <2>1, <2>2, <2>3, <2>4, <2>5, <2>6, <2>7 DEF AttachesVolume
<1>5. CASE DeletesInstance
  BY <1>5 DEF DeletesInstance, ListInstances, TerminateInstances, ListVolumes,
     DeleteVolumes, Goes, Errs, Listed, VolumeState
<1>6. ASSUME NEW g \in Goroutines, DeletesSnapshots(g) PROVE OneVolume'
  BY <1>6 DEF DeletesSnapshots, ListSnapshots, DeleteSnapshots, Goes, Listed, InRegion
<1>7. CASE Returns \/ ScanEnds \/ GivesUp
  BY <1>7 DEF Returns, ScanEnds, GivesUp, Fault, Outcome, AfterCall, Forgets, NoIds, NoTodo
<1>8. CASE RequestLands
  BY <1>8 DEF RequestLands
<1>9. ASSUME NEW g \in Goroutines, CallFails(g) PROVE OneVolume'
  BY <1>9 DEF CallFails, Errs, Fault, Wrapped
<1>10. ASSUME NEW g \in Goroutines, CreationIsLost(g) PROVE OneVolume'
  BY <1>10 DEF CreationIsLost, Errs, Fault, Fresh, VolumeState
<1>11. ASSUME NEW i \in Ids, Progresses(i) PROVE OneVolume'
  BY <1>11, SMTT(30) DEF Progresses, InstanceStarts, InstanceTerminates, SnapshotCompletes,
     VolumeIsCreated, VolumeIsAttached
<1>12. ASSUME NEW i \in Ids, InstanceIsInterrupted(i) PROVE OneVolume'
  BY <1>12 DEF InstanceIsInterrupted, Fault
<1>13. ASSUME NEW i \in Ids, CreationGoesWrong(i) PROVE OneVolume'
  BY <1>13 DEF CreationGoesWrong, Fault
<1>14. CASE UNCHANGED vars
  BY <1>14 DEF vars
<1> HIDE DEF AwsInv, TypeOK, AwsOK, AtOK, CallOK, Phases, Errors, AtRest, Goroutines, OneView,
OneVolume, OneSnapshot, RunView, RunHolds, RunTarget, NoWait, AtMostOne, GoodVolumes,
Made, Targets, Usable, Volumes, Snapshots, env, aws, call
<1> QED
  BY <1>1, <1>2, <1>3, <1>4, <1>5, <1>6, <1>7, <1>8, <1>9, <1>10, <1>11, <1>12, <1>13,
     <1>14 DEF Next, Works, Progresses, Goroutines

\* Nothing makes a machine or a volume while RemoveAssetScan works.
LEMMA RemoveInstancesStep ==
  ASSUME AwsInv, [Next]_vars PROVE RemoveInstances'
<1> USE DEF AwsInv, TypeOK, AwsOK, AtOK, CallOK, Phases, Errors, AtRest, Goroutines, RemoveView,
NoneLeft, NoVolumeLeft, Unseen, RemoveInstances, Volumes, env, aws, call
<1>1. CASE RunStarts \/ RemoveStarts
  BY <1>1 DEF RunStarts, RemoveStarts, Each
<1>2. CASE CreatesInstance
  BY <1>2 DEF CreatesInstance, DescribeInstances, RunInstances, InstanceReady, Goes,
     Errs, Live, Fresh
<1>3. CASE CreatesSnapshot
  BY <1>3 DEF CreatesSnapshot, DescribeSnapshots, CreateSnapshot, SnapshotReady,
     DescribeCopies, CopySnapshot, TargetReady, Goes, Errs, Listed, Usable, Fresh,
     Targets
<1>4. CASE AttachesVolume
  BY <1>4 DEF AttachesVolume, RunJoins, DescribeVolumes, CreateVolume, VolumeReady,
     DescribeAttachment, AttachVolume, IsAttached, Goes, Errs, Fresh, VolumeState
<1>5. CASE DeletesInstance
  <2>1. CASE ListInstances
    BY <2>1 DEF ListInstances, Goes, Listed
  <2>2. CASE TerminateInstances
    BY <2>2 DEF TerminateInstances, Errs
  <2>3. CASE ListVolumes
    <3>1. \A v \in Listed(VolumeState) : volume[v].st # "none"
      BY DEF Listed, VolumeState
    <3>2. Listed(VolumeState) = {} => NoVolumeLeft
      BY DEF Listed, VolumeState, NoVolumeLeft, Unseen
    <3>3. /\ todo'[1] = Listed(VolumeState)
          /\ at'[1] = IF Listed(VolumeState) = {} THEN "end" ELSE "DeleteVolumes"
      BY <2>3 DEF ListVolumes, Goes, AwsInv, TypeOK, AtOK, CallOK, Phases, Errors, Goroutines
    <3>4. phase = "remove" => NoneLeft(instance) \/ "instance" \in landed
      BY <2>3 DEF ListVolumes, AwsInv, RemoveView, RemoveInstances
    <3> QED
      BY <2>3, <3>1, <3>2, <3>3, <3>4 DEF ListVolumes, Goes, RemoveInstances,
         NoVolumeLeft,
         NoneLeft, env, aws
  <2>4. CASE DeleteVolumes
    BY <2>4 DEF DeleteVolumes, Errs
  <2> QED
    BY <1>5, <2>1, <2>2, <2>3, <2>4 DEF DeletesInstance
<1>6. ASSUME NEW g \in Goroutines, DeletesSnapshots(g) PROVE RemoveInstances'
  BY <1>6 DEF DeletesSnapshots, ListSnapshots, DeleteSnapshots, Goes, Listed, Targets,
     InRegion
<1>7. CASE Returns \/ ScanEnds \/ GivesUp
  BY <1>7 DEF Returns, ScanEnds, GivesUp, Fault, Outcome, AfterCall, Forgets, NoIds, NoTodo
<1>8. CASE RequestLands
  BY <1>8 DEF RequestLands
<1>9. ASSUME NEW g \in Goroutines, CallFails(g) PROVE RemoveInstances'
  BY <1>9 DEF CallFails, Errs, Fault, Wrapped
<1>10. ASSUME NEW g \in Goroutines, CreationIsLost(g) PROVE RemoveInstances'
  BY <1>10 DEF CreationIsLost, Errs, Fault, Fresh, VolumeState
<1>11. ASSUME NEW i \in Ids, Progresses(i) PROVE RemoveInstances'
  BY <1>11 DEF Progresses, InstanceStarts, InstanceTerminates, SnapshotCompletes,
     VolumeIsCreated, VolumeIsAttached
<1>12. ASSUME NEW i \in Ids, InstanceIsInterrupted(i) PROVE RemoveInstances'
  BY <1>12 DEF InstanceIsInterrupted, Fault
<1>13. ASSUME NEW i \in Ids, CreationGoesWrong(i) PROVE RemoveInstances'
  BY <1>13 DEF CreationGoesWrong, Fault
<1>14. CASE UNCHANGED vars
  BY <1>14 DEF vars
<1> QED
  BY <1>1, <1>2, <1>3, <1>4, <1>5, <1>6, <1>7, <1>8, <1>9, <1>10, <1>11, <1>12, <1>13,
     <1>14 DEF Next, Works, Progresses, Goroutines

\* Nor a snapshot.
LEMMA RemoveSnapshotsStep ==
  ASSUME AwsInv, [Next]_vars PROVE RemoveSnapshots'
<1> USE DEF AwsInv, TypeOK, AwsOK, AtOK, CallOK, Phases, Errors, AtRest, Goroutines, RemoveView,
Listed, NoneLeft, NoVolumeLeft, Unseen, RemoveSnapshots, RunView, RunHolds, Targets,
TargetKind, Snapshots, env, aws, call
<1>1. CASE RunStarts \/ RemoveStarts
  BY <1>1 DEF RunStarts, RemoveStarts, Each
<1>2. CASE CreatesInstance
  BY <1>2 DEF CreatesInstance, DescribeInstances, RunInstances, InstanceReady, Goes,
     Errs, Live, Fresh
<1>3. CASE CreatesSnapshot
  BY <1>3 DEF CreatesSnapshot, DescribeSnapshots, CreateSnapshot, SnapshotReady,
     DescribeCopies, CopySnapshot, TargetReady, Goes, Errs, Usable, Fresh
<1>4. CASE AttachesVolume
  BY <1>4 DEF AttachesVolume, RunJoins, DescribeVolumes, CreateVolume, VolumeReady,
     DescribeAttachment, AttachVolume, IsAttached, Goes, Errs, Fresh, VolumeState
<1>5. CASE DeletesInstance
  BY <1>5 DEF DeletesInstance, ListInstances, TerminateInstances, ListVolumes,
     DeleteVolumes, Goes, Errs, VolumeState
<1>6. ASSUME NEW g \in Goroutines, DeletesSnapshots(g) PROVE RemoveSnapshots'
  BY <1>6 DEF DeletesSnapshots, ListSnapshots, DeleteSnapshots, Goes, InRegion
<1>7. CASE Returns \/ ScanEnds \/ GivesUp
  BY <1>7 DEF Returns, ScanEnds, GivesUp, Fault, Outcome, AfterCall, Forgets, NoIds, NoTodo
<1>8. CASE RequestLands
  BY <1>8 DEF RequestLands
<1>9. ASSUME NEW g \in Goroutines, CallFails(g) PROVE RemoveSnapshots'
  BY <1>9 DEF CallFails, Errs, Fault, Wrapped
<1>10. ASSUME NEW g \in Goroutines, CreationIsLost(g) PROVE RemoveSnapshots'
  BY <1>10 DEF CreationIsLost, Errs, Fault, Fresh, VolumeState
<1>11. ASSUME NEW i \in Ids, Progresses(i) PROVE RemoveSnapshots'
  BY <1>11 DEF Progresses, InstanceStarts, InstanceTerminates, SnapshotCompletes,
     VolumeIsCreated, VolumeIsAttached
<1>12. ASSUME NEW i \in Ids, InstanceIsInterrupted(i) PROVE RemoveSnapshots'
  BY <1>12 DEF InstanceIsInterrupted, Fault
<1>13. ASSUME NEW i \in Ids, CreationGoesWrong(i) PROVE RemoveSnapshots'
  BY <1>13 DEF CreationGoesWrong, Fault
<1>14. CASE UNCHANGED vars
  BY <1>14 DEF vars
<1> HIDE DEF AwsInv, TypeOK, AwsOK, AtOK, CallOK, Phases, Errors, AtRest, Goroutines, RemoveView,
Listed, NoneLeft, NoVolumeLeft, Unseen, RemoveSnapshots, RunView, RunHolds, Targets,
TargetKind, Snapshots, env, aws, call
<1> QED
  BY <1>1, <1>2, <1>3, <1>4, <1>5, <1>6, <1>7, <1>8, <1>9, <1>10, <1>11, <1>12, <1>13,
     <1>14 DEF Next, Works, Progresses, Goroutines

\* Nor after it.
LEMMA RemovedStep ==
  ASSUME AwsInv, [Next]_vars PROVE Removed'
<1> USE DEF AwsInv, TypeOK, AwsOK, AtOK, CallOK, Phases, Errors, AtRest, Goroutines, RemoveView,
Listed, NoneLeft, NoVolumeLeft, Unseen, Removed, RemoveInstances, RemoveSnapshots,
RunView, RunHolds, Targets, TargetKind, VolumeState, Volumes, Snapshots, env, aws, call
<1>1. CASE RunStarts \/ RemoveStarts
  BY <1>1 DEF RunStarts, RemoveStarts, Each
<1>2. CASE CreatesInstance
  BY <1>2 DEF CreatesInstance, DescribeInstances, RunInstances, InstanceReady, Goes,
     Errs, Live, Fresh
<1>3. CASE CreatesSnapshot
  BY <1>3 DEF CreatesSnapshot, DescribeSnapshots, CreateSnapshot, SnapshotReady,
     DescribeCopies, CopySnapshot, TargetReady, Goes, Errs, Usable, Fresh
<1>4. CASE AttachesVolume
  BY <1>4 DEF AttachesVolume, RunJoins, DescribeVolumes, CreateVolume, VolumeReady,
     DescribeAttachment, AttachVolume, IsAttached, Goes, Errs, Fresh
<1>5. CASE DeletesInstance
  BY <1>5 DEF DeletesInstance, ListInstances, TerminateInstances, ListVolumes,
     DeleteVolumes, Goes, Errs
<1>6. ASSUME NEW g \in Goroutines, DeletesSnapshots(g) PROVE Removed'
  BY <1>6 DEF DeletesSnapshots, ListSnapshots, DeleteSnapshots, Goes, InRegion
<1>7. CASE Returns \/ ScanEnds \/ GivesUp
  BY <1>7 DEF Returns, ScanEnds, GivesUp, Fault, Outcome, AfterCall, Forgets, NoIds, NoTodo
<1>8. CASE RequestLands
  BY <1>8 DEF RequestLands
<1>9. ASSUME NEW g \in Goroutines, CallFails(g) PROVE Removed'
  BY <1>9 DEF CallFails, Errs, Fault, Wrapped
<1>10. ASSUME NEW g \in Goroutines, CreationIsLost(g) PROVE Removed'
  BY <1>10 DEF CreationIsLost, Errs, Fault, Fresh
<1>11. ASSUME NEW i \in Ids, Progresses(i) PROVE Removed'
  BY <1>11, SMTT(30) DEF Progresses, InstanceStarts, InstanceTerminates, SnapshotCompletes,
     VolumeIsCreated, VolumeIsAttached
<1>12. ASSUME NEW i \in Ids, InstanceIsInterrupted(i) PROVE Removed'
  BY <1>12 DEF InstanceIsInterrupted, Fault
<1>13. ASSUME NEW i \in Ids, CreationGoesWrong(i) PROVE Removed'
  BY <1>13 DEF CreationGoesWrong, Fault
<1>14. CASE UNCHANGED vars
  BY <1>14 DEF vars
<1> QED
  BY <1>1, <1>2, <1>3, <1>4, <1>5, <1>6, <1>7, <1>8, <1>9, <1>10, <1>11, <1>12, <1>13,
     <1>14 DEF Next, Works, Progresses, Goroutines

\* The invariant holds at first ...
LEMMA InvInit == Init => AwsInv
<1> SUFFICES ASSUME Init PROVE AwsInv
  OBVIOUS
<1> USE DEF Init, AtRest, NoIds, NoTodo, NoVolume, Ids, Goroutines
<1>1. AwsOK
  BY DEF AwsOK, Snapshots, Volumes
<1>2. AtOK
  BY DEF AtOK, Calls
<1>3. CallOK
  BY ProviderAssumption DEF CallOK, Phases, Errors
<1>4. RunView
  BY DEF RunView, RunHolds, RunTarget, RunVolume, NoWait, HasVolume
<1>5. OneView
  BY DEF OneView, OneInstance, OneSnapshot, OneVolume, AtMostOne, Live, Usable, Made,
     GoodVolumes
<1>6. RemoveView
  BY DEF RemoveView, RemoveInstances, RemoveSnapshots, Removed
<1> QED
  BY <1>1, <1>2, <1>3, <1>4, <1>5, <1>6 DEF AwsInv, TypeOK

\* ... and is kept by every step.
LEMMA InvStep == AwsInv /\ [Next]_vars => AwsInv'
<1> SUFFICES ASSUME AwsInv, [Next]_vars PROVE AwsInv'
  OBVIOUS
<1>1. TypeOK
  BY DEF AwsInv
<1>2. TypeOK'
  BY <1>1, AwsStep, AtStep, CallStep DEF TypeOK
<1>3. RunView'
  BY HoldsStep, TargetStep, VolumeStep DEF RunView
<1>4. OneView'
  BY OneInstanceStep, OneSnapshotStep, OneVolumeStep DEF OneView
<1>5. RemoveView'
  BY RemoveInstancesStep, RemoveSnapshotsStep, RemovedStep DEF RemoveView
<1> QED
  BY <1>2, <1>3, <1>4, <1>5 DEF AwsInv

-----------------------------------------------------------------------------
(* Azure and GCP.                                                          *)

\* The kinds RunAssetScan makes one of.
UsedKinds ==
    IF cloud = "gcp" THEN {"snapshot", "disk", "machine"}
    ELSE IF away THEN Kinds ELSE Kinds \ {"blob"}

\* The calls of RunAssetScan and of RemoveAssetScan.
CloudSteps ==
    /\ cloud = "other" => step.op = "idle" /\ watcher = "run"
    /\ watcher \notin {"run", "remove"} => step.op = "idle"
    /\ watcher = "run" => step.op \in {"idle", "Get", "Create", "Revoke", "Attach", "Check"}
    /\ watcher = "remove" => step.op \in {"idle", "Get", "Abort", "Delete"}
    /\ step.op # "idle" => step.n \in 1..Len(Order)
    /\ step.op = "Revoke" => step.n < Len(RunOrder)
    /\ step.op = "Abort" => cloud = "gcp" \/ away
    /\ step.listed = "attached" => step.op = "Attach" /\ attachment = "attached"

\* What the cloud can have.
CloudHas ==
    /\ \A k \in Kinds \ UsedKinds : resource[k] = "none" /\ k \notin sent
    /\ attachment # "no" => resource["machine"] # "none"
    /\ spent = 0 => sent = {} /\ overdue = {}

\* RunAssetScan is past what is there, and nothing is deleted before the clean-up.
CloudRun ==
    watcher \in {"run", "scan"} =>
        /\ \A k \in Kinds : resource[k] # "deleting"
        /\ step.op # "idle" => \A i \in 1..(step.n - 1) : resource[RunOrder[i]] # "none"
        /\ step.op \in {"Revoke", "Attach", "Check"} => resource[RunOrder[step.n]] # "none"
        /\ step.op \in {"Attach", "Check"} => step.n = Len(RunOrder)
        /\ step.op = "Check" => attachment # "no" \/ spent # 0

Gone(k) == resource[k] = "none" \/ k \in overdue

\* RemoveAssetScan is past what is gone.
CloudRemove ==
    watcher = "remove" /\ step.op # "idle" =>
        \A i \in 1..(step.n - 1) : Gone(RemoveOrder[i])

CloudInv ==
    /\ CloudTypeOK
    /\ CloudSteps
    /\ CloudHas
    /\ CloudRun
    /\ CloudRemove
    /\ CloudResultIsTrue
    /\ CloudCleanupIsNotSpoilt

LEMMA OrderFacts ==
  /\ Len(RunOrder) \in 1..5
  /\ Len(RemoveOrder) \in 1..5
  /\ UsedKinds \subseteq Kinds
  /\ "machine" \in UsedKinds
  /\ \A i \in 1..Len(RunOrder) :
        /\ RunOrder[i] \in UsedKinds
        /\ RunOrder[i] = "blob" => i < Len(RunOrder)
  /\ RunOrder[Len(RunOrder)] = "machine"
  /\ \A i \in 1..Len(RemoveOrder) : RemoveOrder[i] \in Kinds
  /\ \A k \in UsedKinds : \E i \in 1..Len(RemoveOrder) : RemoveOrder[i] = k
  /\ \A i \in 1..Len(RemoveOrder) :
        RemoveOrder[i] = "disk" => 1 < i /\ RemoveOrder[1] = "machine"
<1>1. CASE cloud = "gcp"
  <2>1. RunOrder = <<"snapshot", "disk", "machine">>
    BY <1>1 DEF RunOrder
  <2>2. RemoveOrder = <<"machine", "disk", "snapshot">>
    BY <1>1 DEF RemoveOrder
  <2> QED
    BY <1>1, <2>1, <2>2 DEF UsedKinds, Kinds
<1>2. CASE cloud # "gcp" /\ away
  <2>1. RunOrder = <<"snapshot", "blob", "disk", "interface", "machine">>
    BY <1>2 DEF RunOrder
  <2>2. RemoveOrder = <<"machine", "interface", "disk", "blob", "snapshot">>
    BY <1>2 DEF RemoveOrder
  <2> QED
    BY <1>2, <2>1, <2>2 DEF UsedKinds, Kinds
<1>3. CASE cloud # "gcp" /\ ~away
  <2>1. RunOrder = <<"snapshot", "disk", "interface", "machine">>
    BY <1>3 DEF RunOrder
  <2>2. RemoveOrder = <<"machine", "interface", "disk", "blob", "snapshot">>
    BY <1>3 DEF RemoveOrder
  <2> QED
    BY <1>3, <2>1, <2>2 DEF UsedKinds, Kinds
<1> QED
  BY <1>1, <1>2, <1>3

LEMMA KindsFacts == "machine" \in Kinds /\ "blob" \in Kinds /\ "disk" \in Kinds
  BY DEF Kinds

LEMMA SpendFacts ==
  ASSUME CloudTypeOK, Spend PROVE spent' \in 0..MaxFaults /\ spent' # 0
  BY ProviderAssumption DEF CloudTypeOK, Spend

\* The cloud stays what it is, and with it the orders.
LEMMA CloudKept ==
  ASSUME [CloudNext]_cloudvars
  PROVE  /\ UNCHANGED <<cloud, away>>
         /\ RunOrder' = RunOrder /\ RemoveOrder' = RemoveOrder /\ UsedKinds' = UsedKinds
<1>1. UNCHANGED <<cloud, away>>
  BY DEF CloudNext, cloudvars, outside, Ensures, Deletes, Starts, EnsureGets, EnsureCreates,
     EnsureRevokes, EnsureAttaches, EnsureChecks, DeleteGets, DeleteAborts, DeleteDeletes,
     RequestFails, ServerFails, CreateIsLost, Stops, IsOver, AttachmentEnds,
     AttachmentFails, SentLands, CreationEnds, CreationFails, DeletionEnds
<1> QED
  BY <1>1 DEF RunOrder, RemoveOrder, UsedKinds

LEMMA KindsOfErrors == {} \in SUBSET Errors /\ {"fatal"} \in SUBSET Errors
                       /\ {"retryable"} \in SUBSET Errors /\ {"other"} \in SUBSET Errors
  BY DEF Errors

LEMMA CallTypes == \A op \in CloudCalls, n \in 0..5 : Call(op, n) \in Steps
  BY DEF Call, Steps

LEMMA AfterCallTypes == \A now, errors : AfterCall(now, errors) \in Phases
  BY DEF AfterCall, Phases

\* What each way to go on does.
LEMMA Moves ==
  ASSUME CloudTypeOK
  PROVE  /\ \A op \in CloudCalls : Proceeds(op) =>
               /\ step' \in Steps /\ watcher' \in Phases
               /\ step'.op = op /\ step'.n = step.n /\ step'.listed = "no"
               /\ watcher' = watcher
         /\ \A errors \in SUBSET Errors : Finishes(errors) =>
               /\ step' \in Steps /\ watcher' \in Phases
               /\ step'.op = "idle" /\ step'.n = 0 /\ step'.listed = "no"
               /\ watcher' = AfterCall(watcher, errors)
         /\ NextResource /\ step.n < 5 =>
               /\ step' \in Steps /\ watcher' \in Phases
               /\ step'.op = "Get" /\ step'.n = step.n + 1 /\ step'.listed = "no"
               /\ watcher' = watcher
               /\ \A i \in 1..(step'.n - 1) : i = step.n \/ i \in 1..(step.n - 1)
         /\ step \in Steps /\ step.n \in 0..5
<1> USE AfterCallTypes DEF CloudTypeOK, Steps
<1>0. step \in Steps /\ step.n \in 0..5
  OBVIOUS
<1>1. ASSUME NEW op \in CloudCalls, Proceeds(op)
      PROVE  /\ step' \in Steps /\ watcher' \in Phases
             /\ step'.op = op /\ step'.n = step.n /\ step'.listed = "no"
             /\ watcher' = watcher
  BY <1>0, <1>1 DEF Proceeds, Call
<1>2. ASSUME NEW errors \in SUBSET Errors, Finishes(errors)
      PROVE  /\ step' \in Steps /\ watcher' \in Phases
             /\ step'.op = "idle" /\ step'.n = 0 /\ step'.listed = "no"
             /\ watcher' = AfterCall(watcher, errors)
  BY <1>2 DEF Finishes, CloudCalls
<1>3. ASSUME NextResource, step.n < 5
      PROVE  /\ step' \in Steps /\ watcher' \in Phases
             /\ step'.op = "Get" /\ step'.n = step.n + 1 /\ step'.listed = "no"
             /\ watcher' = watcher
             /\ \A i \in 1..(step'.n - 1) : i = step.n \/ i \in 1..(step.n - 1)
  <2>1. step' = Call("Get", step.n + 1) /\ watcher' = watcher /\ step.n + 1 \in 0..5
    BY <1>0, <1>3 DEF NextResource
  <2>2. step'.op = "Get" /\ step'.n = step.n + 1 /\ step'.listed = "no" /\ step'.errs = {}
    BY <2>1 DEF Call
  <2>3. step' \in Steps
    BY <2>1 DEF Call, CloudCalls
  <2>4. \A i \in 1..((step.n + 1) - 1) : i = step.n \/ i \in 1..(step.n - 1)
    BY <1>0
  <2> QED
    BY <2>1, <2>2, <2>3, <2>4
<1> QED
  BY <1>0, <1>1, <1>2, <1>3

LEMMA Room ==
  ASSUME CloudTypeOK
  PROVE  /\ step.n < Len(RunOrder) => step.n < 5
         /\ step.n < Len(RemoveOrder) => step.n < 5
<1>1. step.n \in 0..5
  BY Moves
<1>2. Len(RunOrder) \in 1..5 /\ Len(RemoveOrder) \in 1..5
  BY OrderFacts
<1>3. ASSUME NEW n \in 0..5, NEW length \in 1..5, n < length
      PROVE  n < 5
  BY <1>3
<1> QED
  BY <1>1, <1>2, <1>3

\* Types.
LEMMA CloudTypeStep ==
  ASSUME CloudInv, [CloudNext]_cloudvars PROVE CloudTypeOK'
<1> USE CloudKept, OrderFacts, KindsFacts, Moves, KindsOfErrors, CallTypes DEF CloudInv,
     CloudTypeOK, CloudCalls, Phases, outside, CloudSteps, Order, Kind
<1>1. CASE Starts
  BY <1>1 DEF Starts
<1>2. CASE EnsureGets
  <2>1. step' \in Steps /\ watcher' \in Phases
    <3>1. CASE ~Exists
      BY <1>2, <3>1 DEF EnsureGets
    <3>2. CASE Exists /\ resource[Kind] # "ready"
      BY <1>2, <3>2 DEF EnsureGets
    <3>3. CASE Exists /\ resource[Kind] = "ready" /\ Kind = "blob"
      BY <1>2, <3>3 DEF EnsureGets
    <3>4. CASE Exists /\ resource[Kind] = "ready" /\ Kind # "blob" /\ step.n < Len(RunOrder)
      <4>1. NextResource
        BY <1>2, <3>4 DEF EnsureGets
      <4>2. step.n < Len(RunOrder)
        BY <3>4
      <4>3. step.n < 5
        <5> HIDE CloudKept, OrderFacts, KindsFacts, Moves, KindsOfErrors, CallTypes
                 DEF Order, Kind, CloudSteps, CloudCalls, Phases
        <5> QED
          BY <4>2, Room
      <4> QED
        BY <4>1, <4>3
    <3>5. CASE Exists /\ resource[Kind] = "ready" /\ Kind # "blob" /\ ~(step.n < Len(RunOrder))
      <4>1. /\ step' = [op |-> "Attach", n |-> step.n, errs |-> {},
                         listed |-> IF attachment = "attached" THEN "attached" ELSE "no"]
            /\ UNCHANGED watcher
        BY <1>2, <3>5 DEF EnsureGets
      <4>2. step.n \in 0..5 /\ {} \in SUBSET Errors
        BY Moves
      <4> QED
        BY <4>1, <4>2 DEF Steps
    <3> QED
      BY <3>1, <3>2, <3>3, <3>4, <3>5
  <2> QED
    BY <1>2, <2>1 DEF EnsureGets
<1>3. CASE EnsureCreates
  BY <1>3 DEF EnsureCreates
<1>4. CASE EnsureRevokes
  <2>1. NextResource /\ step.n < 5
    BY <1>4 DEF EnsureRevokes
  <2> QED
    BY <1>4, <2>1 DEF EnsureRevokes
<1>5. CASE EnsureAttaches
  BY <1>5 DEF EnsureAttaches
<1>6. CASE EnsureChecks
  BY <1>6 DEF EnsureChecks
<1>7. CASE DeleteGets
  <2>1. step' \in Steps /\ watcher' \in Phases
    <3>1. CASE Exists
      BY <1>7, <3>1 DEF DeleteGets
    <3>2. CASE ~Exists /\ step.n < Len(RemoveOrder)
      <4>1. NextResource
        BY <1>7, <3>2 DEF DeleteGets
      <4>2. step.n < Len(RemoveOrder)
        BY <3>2
      <4>3. step.n < 5
        <5> HIDE CloudKept, OrderFacts, KindsFacts, Moves, KindsOfErrors, CallTypes
                 DEF Order, Kind, CloudSteps, CloudCalls, Phases
        <5> QED
          BY <4>2, Room
      <4> QED
        BY <4>1, <4>3
    <3>3. CASE ~Exists /\ ~(step.n < Len(RemoveOrder))
      BY <1>7, <3>3 DEF DeleteGets
    <3> QED
      BY <3>1, <3>2, <3>3
  <2> QED
    BY <1>7, <2>1 DEF DeleteGets
<1>8. CASE DeleteAborts
  BY <1>8 DEF DeleteAborts
<1>9. CASE DeleteDeletes
  BY <1>9 DEF DeleteDeletes
<1>10. CASE RequestFails \/ ServerFails
  BY <1>10, SpendFacts DEF RequestFails, ServerFails
<1>11. CASE CreateIsLost
  BY <1>11, SpendFacts DEF CreateIsLost
<1>12. CASE Stops
  BY <1>12, SpendFacts DEF Stops
<1>13. CASE IsOver
  BY <1>13 DEF IsOver
<1>14. CASE AttachmentEnds
  BY <1>14 DEF AttachmentEnds
<1>15. CASE AttachmentFails
  BY <1>15, SpendFacts DEF AttachmentFails
<1>16. ASSUME NEW k \in Kinds, SentLands(k) PROVE CloudTypeOK'
  BY <1>16 DEF SentLands
<1>17. ASSUME NEW k \in Kinds, CreationEnds(k) PROVE CloudTypeOK'
  BY <1>17 DEF CreationEnds
<1>18. ASSUME NEW k \in Kinds, CreationFails(k) PROVE CloudTypeOK'
  BY <1>18, SpendFacts DEF CreationFails
<1>19. ASSUME NEW k \in Kinds, DeletionEnds(k) PROVE CloudTypeOK'
  BY <1>19 DEF DeletionEnds
<1>20. CASE UNCHANGED cloudvars
  BY <1>20 DEF cloudvars
<1> QED
    BY <1>1, <1>2, <1>3, <1>4, <1>5, <1>6, <1>7, <1>8, <1>9, <1>10, <1>11, <1>12, <1>13,
     <1>14, <1>15, <1>16, <1>17, <1>18, <1>19, <1>20
     DEF CloudNext, Ensures, Deletes

\* The calls come in their order.
LEMMA CloudStepsStep ==
  ASSUME CloudInv, [CloudNext]_cloudvars PROVE CloudSteps'
<1> USE CloudKept, OrderFacts, KindsFacts DEF CloudInv, CloudTypeOK, CloudSteps,
     CloudRun, CloudHas, Proceeds, NextResource, Finishes, Call, AfterCall, outside,
     Exists, Kind, Order
<1>1. CASE Starts
  <2>1. step'.op = "Get" /\ step'.n = 1 /\ step'.listed = "no" /\ UNCHANGED watcher
    BY <1>1 DEF Starts
  <2>2. Len(Order)' \in 1..5
    BY <1>1, <2>1
  <2>3. cloud' # "other" /\ watcher' \in {"run", "remove"}
    BY <1>1, <2>1 DEF Starts
  <2>4. step'.n \in 1..Len(Order)'
    BY <2>1, <2>2
  <2> HIDE DEF Order
  <2> QED
    BY <2>1, <2>3, <2>4
<1>2. CASE EnsureGets
  BY <1>2 DEF EnsureGets
<1>3. CASE EnsureCreates
  BY <1>3 DEF EnsureCreates
<1>4. CASE EnsureRevokes
  BY <1>4 DEF EnsureRevokes
<1>5. CASE EnsureAttaches
  BY <1>5 DEF EnsureAttaches
<1>6. CASE EnsureChecks
  BY <1>6 DEF EnsureChecks
<1>7. CASE DeleteGets
  <2>1. CASE Exists /\ Kind = "blob" /\ resource["blob"] = "creating"
    <3>1. Proceeds("Abort")
      BY <1>7, <2>1 DEF DeleteGets
    <3>2. watcher' = "remove" /\ step'.op = "Abort" /\ step'.n = step.n /\ step'.listed = "no"
      BY <1>7, <3>1 DEF DeleteGets
    <3>3. cloud = "gcp" \/ away
      BY <2>1 DEF UsedKinds
    <3> QED
      BY <1>7, <3>2, <3>3 DEF DeleteGets
  <2>2. CASE Exists /\ ~(Kind = "blob" /\ resource["blob"] = "creating")
    <3>1. Proceeds("Delete")
      BY <1>7, <2>2 DEF DeleteGets
    <3>2. watcher' = "remove" /\ step'.op = "Delete" /\ step'.n = step.n /\ step'.listed = "no"
      BY <1>7, <3>1 DEF DeleteGets
    <3> QED
      BY <1>7, <3>2 DEF DeleteGets
  <2>3. CASE ~Exists /\ step.n < Len(RemoveOrder)
    <3>1. watcher' = "remove" /\ step'.op = "Get" /\ step'.n = step.n + 1 /\ step'.listed = "no"
      BY <1>7, <2>3 DEF DeleteGets, Call
    <3>2. step'.n \in 1..Len(Order)'
      BY <1>7, <2>3, <3>1 DEF DeleteGets
    <3> QED
      BY <1>7, <3>1, <3>2 DEF DeleteGets
  <2>4. CASE ~Exists /\ ~(step.n < Len(RemoveOrder))
    BY <1>7, <2>4 DEF DeleteGets
  <2> QED
    BY <2>1, <2>2, <2>3, <2>4
<1>8. CASE DeleteAborts
  BY <1>8 DEF DeleteAborts
<1>9. CASE DeleteDeletes
  BY <1>9 DEF DeleteDeletes
<1>10. CASE RequestFails \/ ServerFails
  BY <1>10, SpendFacts DEF RequestFails, ServerFails
<1>11. CASE CreateIsLost
  BY <1>11, SpendFacts DEF CreateIsLost
<1>12. CASE Stops
  BY <1>12, SpendFacts DEF Stops
<1>13. CASE IsOver
  BY <1>13 DEF IsOver
<1>14. CASE AttachmentEnds
  BY <1>14 DEF AttachmentEnds
<1>15. CASE AttachmentFails
  BY <1>15, SpendFacts DEF AttachmentFails
<1>16. ASSUME NEW k \in Kinds, SentLands(k) PROVE CloudSteps'
  BY <1>16 DEF SentLands
<1>17. ASSUME NEW k \in Kinds, CreationEnds(k) PROVE CloudSteps'
  BY <1>17 DEF CreationEnds
<1>18. ASSUME NEW k \in Kinds, CreationFails(k) PROVE CloudSteps'
  BY <1>18, SpendFacts DEF CreationFails
<1>19. ASSUME NEW k \in Kinds, DeletionEnds(k) PROVE CloudSteps'
  BY <1>19 DEF DeletionEnds
<1>20. CASE UNCHANGED cloudvars
  BY <1>20 DEF cloudvars
<1> QED
    BY <1>1, <1>2, <1>3, <1>4, <1>5, <1>6, <1>7, <1>8, <1>9, <1>10, <1>11, <1>12, <1>13,
     <1>14, <1>15, <1>16, <1>17, <1>18, <1>19, <1>20
     DEF CloudNext, Ensures, Deletes

\* Only what is of use is made.
LEMMA CloudHasStep ==
  ASSUME CloudInv, [CloudNext]_cloudvars PROVE CloudHas'
<1> USE CloudKept, OrderFacts, KindsFacts DEF CloudInv, CloudTypeOK, CloudSteps,
     CloudHas, CloudRun, Proceeds, NextResource, Finishes, Call, AfterCall, outside,
     Exists, Kind, Order
<1>1. CASE Starts
  BY <1>1 DEF Starts
<1>2. CASE EnsureGets
  BY <1>2 DEF EnsureGets
<1>3. CASE EnsureCreates
  BY <1>3 DEF EnsureCreates
<1>4. CASE EnsureRevokes
  BY <1>4 DEF EnsureRevokes
<1>5. CASE EnsureAttaches
  BY <1>5 DEF EnsureAttaches
<1>6. CASE EnsureChecks
  BY <1>6 DEF EnsureChecks
<1>7. CASE DeleteGets
  BY <1>7 DEF DeleteGets
<1>8. CASE DeleteAborts
  BY <1>8 DEF DeleteAborts
<1>9. CASE DeleteDeletes
  BY <1>9 DEF DeleteDeletes
<1>10. CASE RequestFails \/ ServerFails
  BY <1>10, SpendFacts DEF RequestFails, ServerFails
<1>11. CASE CreateIsLost
  BY <1>11, SpendFacts DEF CreateIsLost
<1>12. CASE Stops
  BY <1>12, SpendFacts DEF Stops
<1>13. CASE IsOver
  BY <1>13 DEF IsOver
<1>14. CASE AttachmentEnds
  BY <1>14 DEF AttachmentEnds
<1>15. CASE AttachmentFails
  BY <1>15, SpendFacts DEF AttachmentFails
<1>16. ASSUME NEW k \in Kinds, SentLands(k) PROVE CloudHas'
  BY <1>16 DEF SentLands
<1>17. ASSUME NEW k \in Kinds, CreationEnds(k) PROVE CloudHas'
  BY <1>17 DEF CreationEnds
<1>18. ASSUME NEW k \in Kinds, CreationFails(k) PROVE CloudHas'
  BY <1>18, SpendFacts DEF CreationFails
<1>19. ASSUME NEW k \in Kinds, DeletionEnds(k) PROVE CloudHas'
  BY <1>19 DEF DeletionEnds
<1>20. CASE UNCHANGED cloudvars
  BY <1>20 DEF cloudvars
<1> QED
    BY <1>1, <1>2, <1>3, <1>4, <1>5, <1>6, <1>7, <1>8, <1>9, <1>10, <1>11, <1>12, <1>13,
     <1>14, <1>15, <1>16, <1>17, <1>18, <1>19, <1>20
     DEF CloudNext, Ensures, Deletes

\* Nothing RunAssetScan is past goes away.
LEMMA CloudRunStep ==
  ASSUME CloudInv, [CloudNext]_cloudvars PROVE CloudRun'
<1> USE CloudKept, OrderFacts, KindsFacts DEF CloudInv, CloudTypeOK, CloudSteps,
     CloudRun, Proceeds, NextResource, Finishes, Call, AfterCall, outside, Exists, Kind,
     Order
<1>1. CASE Starts
  BY <1>1 DEF Starts
<1>2. CASE EnsureGets
  BY <1>2 DEF EnsureGets
<1>3. CASE EnsureCreates
  BY <1>3 DEF EnsureCreates
<1>4. CASE EnsureRevokes
  BY <1>4 DEF EnsureRevokes
<1>5. CASE EnsureAttaches
  BY <1>5 DEF EnsureAttaches
<1>6. CASE EnsureChecks
  BY <1>6 DEF EnsureChecks
<1>7. CASE DeleteGets
  BY <1>7 DEF DeleteGets
<1>8. CASE DeleteAborts
  BY <1>8 DEF DeleteAborts
<1>9. CASE DeleteDeletes
  BY <1>9 DEF DeleteDeletes
<1>10. CASE RequestFails \/ ServerFails
  BY <1>10, SpendFacts DEF RequestFails, ServerFails
<1>11. CASE CreateIsLost
  BY <1>11, SpendFacts DEF CreateIsLost
<1>12. CASE Stops
  BY <1>12, SpendFacts DEF Stops
<1>13. CASE IsOver
  BY <1>13 DEF IsOver
<1>14. CASE AttachmentEnds
  BY <1>14 DEF AttachmentEnds
<1>15. CASE AttachmentFails
  BY <1>15, SpendFacts DEF AttachmentFails
<1>16. ASSUME NEW k \in Kinds, SentLands(k) PROVE CloudRun'
  BY <1>16 DEF SentLands
<1>17. ASSUME NEW k \in Kinds, CreationEnds(k) PROVE CloudRun'
  BY <1>17 DEF CreationEnds
<1>18. ASSUME NEW k \in Kinds, CreationFails(k) PROVE CloudRun'
  BY <1>18, SpendFacts DEF CreationFails
<1>19. ASSUME NEW k \in Kinds, DeletionEnds(k) PROVE CloudRun'
  BY <1>19 DEF DeletionEnds
<1>20. CASE UNCHANGED cloudvars
  BY <1>20 DEF cloudvars
<1> QED
    BY <1>1, <1>2, <1>3, <1>4, <1>5, <1>6, <1>7, <1>8, <1>9, <1>10, <1>11, <1>12, <1>13,
     <1>14, <1>15, <1>16, <1>17, <1>18, <1>19, <1>20
     DEF CloudNext, Ensures, Deletes

\* Nothing RemoveAssetScan is past comes back, but late.
LEMMA CloudRemoveStep ==
  ASSUME CloudInv, [CloudNext]_cloudvars PROVE CloudRemove'
<1> USE CloudKept, OrderFacts, KindsFacts DEF CloudInv, CloudTypeOK, CloudSteps,
     CloudRemove, Gone, Proceeds, NextResource, Finishes, Call, AfterCall, outside,
     Exists, Kind, Order
<1>1. CASE Starts
  BY <1>1 DEF Starts
<1>2. CASE EnsureGets
  BY <1>2 DEF EnsureGets
<1>3. CASE EnsureCreates
  BY <1>3 DEF EnsureCreates
<1>4. CASE EnsureRevokes
  BY <1>4 DEF EnsureRevokes
<1>5. CASE EnsureAttaches
  BY <1>5 DEF EnsureAttaches
<1>6. CASE EnsureChecks
  BY <1>6 DEF EnsureChecks
<1>7. CASE DeleteGets
  BY <1>7 DEF DeleteGets
<1>8. CASE DeleteAborts
  BY <1>8 DEF DeleteAborts
<1>9. CASE DeleteDeletes
  BY <1>9 DEF DeleteDeletes
<1>10. CASE RequestFails \/ ServerFails
  BY <1>10, SpendFacts DEF RequestFails, ServerFails
<1>11. CASE CreateIsLost
  BY <1>11, SpendFacts DEF CreateIsLost
<1>12. CASE Stops
  BY <1>12, SpendFacts DEF Stops
<1>13. CASE IsOver
  BY <1>13 DEF IsOver
<1>14. CASE AttachmentEnds
  BY <1>14 DEF AttachmentEnds
<1>15. CASE AttachmentFails
  BY <1>15, SpendFacts DEF AttachmentFails
<1>16. ASSUME NEW k \in Kinds, SentLands(k) PROVE CloudRemove'
  BY <1>16 DEF SentLands
<1>17. ASSUME NEW k \in Kinds, CreationEnds(k) PROVE CloudRemove'
  BY <1>17 DEF CreationEnds
<1>18. ASSUME NEW k \in Kinds, CreationFails(k) PROVE CloudRemove'
  BY <1>18, SpendFacts DEF CreationFails
<1>19. ASSUME NEW k \in Kinds, DeletionEnds(k) PROVE CloudRemove'
  BY <1>19 DEF DeletionEnds
<1>20. CASE UNCHANGED cloudvars
  BY <1>20 DEF cloudvars
<1> QED
    BY <1>1, <1>2, <1>3, <1>4, <1>5, <1>6, <1>7, <1>8, <1>9, <1>10, <1>11, <1>12, <1>13,
     <1>14, <1>15, <1>16, <1>17, <1>18, <1>19, <1>20
     DEF CloudNext, Ensures, Deletes

\* nil is true.
LEMMA CloudResultStep ==
  ASSUME CloudInv, [CloudNext]_cloudvars PROVE CloudResultIsTrue'
<1> USE CloudKept, OrderFacts, KindsFacts DEF CloudInv, CloudTypeOK, CloudSteps,
     CloudHas, CloudRun, CloudRemove, Gone, CloudResultIsTrue, Proceeds, NextResource,
     Finishes, Call, AfterCall, outside, Exists, Kind, Order
<1>1. CASE Starts
  BY <1>1 DEF Starts
<1>2. CASE EnsureGets
  BY <1>2 DEF EnsureGets
<1>3. CASE EnsureCreates
  BY <1>3 DEF EnsureCreates
<1>4. CASE EnsureRevokes
  BY <1>4 DEF EnsureRevokes
<1>5. CASE EnsureAttaches
  BY <1>5 DEF EnsureAttaches
<1>6. CASE EnsureChecks
  BY <1>6 DEF EnsureChecks
<1>7. CASE DeleteGets
  BY <1>7 DEF DeleteGets
<1>8. CASE DeleteAborts
  BY <1>8 DEF DeleteAborts
<1>9. CASE DeleteDeletes
  BY <1>9 DEF DeleteDeletes
<1>10. CASE RequestFails \/ ServerFails
  BY <1>10, SpendFacts DEF RequestFails, ServerFails
<1>11. CASE CreateIsLost
  BY <1>11, SpendFacts DEF CreateIsLost
<1>12. CASE Stops
  BY <1>12, SpendFacts DEF Stops
<1>13. CASE IsOver
  BY <1>13 DEF IsOver
<1>14. CASE AttachmentEnds
  BY <1>14 DEF AttachmentEnds
<1>15. CASE AttachmentFails
  BY <1>15, SpendFacts DEF AttachmentFails
<1>16. ASSUME NEW k \in Kinds, SentLands(k) PROVE CloudResultIsTrue'
  BY <1>16 DEF SentLands
<1>17. ASSUME NEW k \in Kinds, CreationEnds(k) PROVE CloudResultIsTrue'
  BY <1>17 DEF CreationEnds
<1>18. ASSUME NEW k \in Kinds, CreationFails(k) PROVE CloudResultIsTrue'
  BY <1>18, SpendFacts DEF CreationFails
<1>19. ASSUME NEW k \in Kinds, DeletionEnds(k) PROVE CloudResultIsTrue'
  BY <1>19 DEF DeletionEnds
<1>20. CASE UNCHANGED cloudvars
  BY <1>20 DEF cloudvars
<1> QED
    BY <1>1, <1>2, <1>3, <1>4, <1>5, <1>6, <1>7, <1>8, <1>9, <1>10, <1>11, <1>12, <1>13,
     <1>14, <1>15, <1>16, <1>17, <1>18, <1>19, <1>20
     DEF CloudNext, Ensures, Deletes

\* Nothing but the two races spoils the clean-up.
LEMMA CloudCleanupStep ==
  ASSUME CloudInv, [CloudNext]_cloudvars PROVE CloudCleanupIsNotSpoilt'
<1> USE CloudKept, OrderFacts, KindsFacts DEF CloudInv, CloudTypeOK, CloudSteps,
     CloudHas, CloudRun, CloudRemove, Gone, CloudCleanupIsNotSpoilt, Proceeds,
     NextResource, Finishes, Call, AfterCall, outside, Exists, Kind, Order
<1>1. CASE Starts
  BY <1>1 DEF Starts
<1>2. CASE EnsureGets
  BY <1>2 DEF EnsureGets
<1>3. CASE EnsureCreates
  BY <1>3 DEF EnsureCreates
<1>4. CASE EnsureRevokes
  BY <1>4 DEF EnsureRevokes
<1>5. CASE EnsureAttaches
  BY <1>5 DEF EnsureAttaches
<1>6. CASE EnsureChecks
  BY <1>6 DEF EnsureChecks
<1>7. CASE DeleteGets
  BY <1>7 DEF DeleteGets
<1>8. CASE DeleteAborts
  BY <1>8 DEF DeleteAborts
<1>9. CASE DeleteDeletes
  BY <1>9 DEF DeleteDeletes
<1>10. CASE RequestFails \/ ServerFails
  BY <1>10, SpendFacts DEF RequestFails, ServerFails
<1>11. CASE CreateIsLost
  BY <1>11, SpendFacts DEF CreateIsLost
<1>12. CASE Stops
  BY <1>12, SpendFacts DEF Stops
<1>13. CASE IsOver
  BY <1>13 DEF IsOver
<1>14. CASE AttachmentEnds
  BY <1>14 DEF AttachmentEnds
<1>15. CASE AttachmentFails
  BY <1>15, SpendFacts DEF AttachmentFails
<1>16. ASSUME NEW k \in Kinds, SentLands(k) PROVE CloudCleanupIsNotSpoilt'
  BY <1>16 DEF SentLands
<1>17. ASSUME NEW k \in Kinds, CreationEnds(k) PROVE CloudCleanupIsNotSpoilt'
  BY <1>17 DEF CreationEnds
<1>18. ASSUME NEW k \in Kinds, CreationFails(k) PROVE CloudCleanupIsNotSpoilt'
  BY <1>18, SpendFacts DEF CreationFails
<1>19. ASSUME NEW k \in Kinds, DeletionEnds(k) PROVE CloudCleanupIsNotSpoilt'
  BY <1>19 DEF DeletionEnds
<1>20. CASE UNCHANGED cloudvars
  BY <1>20 DEF cloudvars
<1> QED
    BY <1>1, <1>2, <1>3, <1>4, <1>5, <1>6, <1>7, <1>8, <1>9, <1>10, <1>11, <1>12, <1>13,
     <1>14, <1>15, <1>16, <1>17, <1>18, <1>19, <1>20
     DEF CloudNext, Ensures, Deletes

LEMMA CloudInvInit == CloudInit => CloudInv
<1> SUFFICES ASSUME CloudInit PROVE CloudInv
  OBVIOUS
<1>1. step \in Steps /\ step.op = "idle" /\ step.listed = "no"
  BY CallTypes DEF CloudInit, Call, CloudCalls
<1>2. CloudTypeOK
  BY <1>1, ProviderAssumption DEF CloudInit, CloudTypeOK, Phases
<1> QED
  BY <1>1, <1>2 DEF CloudInit, CloudInv, CloudSteps, CloudHas, CloudRun, CloudRemove,
     CloudResultIsTrue, CloudCleanupIsNotSpoilt

LEMMA CloudInvStep == CloudInv /\ [CloudNext]_cloudvars => CloudInv'
  BY CloudTypeStep, CloudStepsStep, CloudHasStep, CloudRunStep, CloudRemoveStep,
     CloudResultStep, CloudCleanupStep DEF CloudInv
-----------------------------------------------------------------------------
(* Docker and Kubernetes.                                                  *)

\* The requests of each call, in the order of the code.
Requested ==
    /\ stage \notin {"run", "remove"} => request = "none"
    /\ runtime = "other" => request = "none" /\ stage = "run"
    /\ runtime = "docker" /\ stage = "run" =>
          request \in {"none", "VolumeList", "VolumeCreate", "HelperCreate", "CopyContents",
                       "HelperRemove", "HelperRemoveAfterError", "NetworkCreate",
                       "ContainerList", "ContainerCreate", "CopyConfiguration",
                       "ContainerStart"}
    /\ runtime = "docker" /\ stage = "remove" =>
          request \in {"none", "ContainerList", "ContainerRemove", "VolumeRemove"}
    /\ runtime = "kubernetes" /\ stage = "run" =>
          request \in {"none", "DiscovererList", "ConfigMapCreate", "JobCreate"}
    /\ runtime = "kubernetes" /\ stage = "remove" =>
          request \in {"none", "JobDelete", "ConfigMapDelete"}

\* What there can be, and what RunAssetScan has made when it is at a request.
Built ==
    /\ runtime = "docker" => there \cap {"config map", "job", "pods"} = {}
    /\ runtime = "kubernetes" => there \subseteq {"config map", "job", "pods"}
    /\ stage = "run" =>
          /\ request \in {"HelperCreate", "CopyContents", "HelperRemove", "NetworkCreate",
                          "ContainerList", "ContainerCreate", "CopyConfiguration",
                          "ContainerStart"} => "volume" \in there
          /\ request \in {"HelperRemove", "NetworkCreate", "ContainerList",
                          "ContainerCreate", "CopyConfiguration", "ContainerStart"}
                => "contents" \in there
          /\ request \in {"CopyConfiguration", "ContainerStart"} => "container" \in there
          /\ "container" \in there /\ "configuration" \notin there =>
                costs > 0 \/ request = "CopyConfiguration"
          /\ request = "JobCreate" => "config map" \in there

\* What RemoveAssetScan has left when it is at a request.
Bared ==
    stage = "remove" =>
        /\ request = "VolumeRemove" => there \subseteq {"volume", "contents", "helper"}
        /\ request = "ConfigMapDelete" => there \subseteq {"config map", "pods"}

\* Without a fault there is always either all there should be or nothing.
Undisturbed ==
    /\ request = "HelperRemoveAfterError" => costs # 0
    /\ costs = 0 =>
          /\ stage = "run" /\ request = "none" => there = {}
          /\ "helper" \in there => request \in {"CopyContents", "HelperRemove"}
          /\ stage = "run" /\ "container" \in there =>
                request \in {"CopyConfiguration", "ContainerStart"}
          /\ stage = "run" /\ "config map" \in there => request = "JobCreate"
          /\ stage = "run" => "job" \notin there
          /\ stage = "scan" /\ runtime = "docker" => "container" \in there
          /\ stage = "remove" /\ runtime = "docker" /\ request \in {"none", "ContainerList"} =>
                there = {} \/ "container" \in there

ContainerInv ==
    /\ ContainerTypeOK
    /\ Requested
    /\ Built
    /\ Bared
    /\ Undisturbed
    /\ ContainerResultIsTrue
    /\ ContainerCleanupIsNotSpoilt

LEMMA ContainerInvInit == ContainerInit => ContainerInv
  BY ProviderAssumption DEF ContainerInit, ContainerInv, ContainerTypeOK, Requested, Built, Bared,
     Undisturbed, ContainerResultIsTrue, ContainerCleanupIsNotSpoilt, Phases, Things

LEMMA PaysCosts ==
  ASSUME ContainerTypeOK, Pays PROVE costs' \in 0..MaxFaults /\ costs' > 0 /\ costs' # 0
  BY ProviderAssumption DEF ContainerTypeOK, Pays

\* A request that is answered, or fails, changes only what it is about.
LEMMA ContainerInvStep ==
  ASSUME ContainerInv, [ContainerNext]_containervars PROVE ContainerInv'
<1> USE DEF ContainerInv, ContainerTypeOK, Requested, Built, Bared, Undisturbed,
    ContainerResultIsTrue, ContainerCleanupIsNotSpoilt, Phases, Things, Asks, Answers,
    AfterCall
<1>1. CASE CallBegins
  BY <1>1 DEF CallBegins
<1>2. CASE PreparesVolume
  <2>1. ContainerTypeOK'
    BY <1>2 DEF PreparesVolume, Effect
  <2>2. Requested'
    BY <1>2 DEF PreparesVolume, Effect
  <2>3. Built'
    BY <1>2 DEF PreparesVolume, Effect
  <2>4. Bared'
    BY <1>2 DEF PreparesVolume, Effect
  <2>5. Undisturbed'
    <3>1. stage = "run" /\ runtime = "docker" /\ costs' = costs
      BY <1>2 DEF PreparesVolume
    <3>2. /\ "container" \in there' => "container" \in there
          /\ "config map" \notin there' /\ "job" \notin there'
      BY <1>2, <3>1 DEF PreparesVolume, Effect
    <3>3. "helper" \in there' =>
             \/ request = "HelperCreate"
             \/ request = "CopyContents"
             \/ "helper" \in there /\ request \notin {"HelperRemove", "HelperRemoveAfterError"}
      BY <1>2, <3>1 DEF PreparesVolume, Effect
    <3>4. request' = "none" => costs # 0
      BY <1>2, <3>1 DEF PreparesVolume
    <3>5. request = "HelperCreate" => request' = "CopyContents"
      BY <1>2, <3>1 DEF PreparesVolume
    <3>6. request = "CopyContents" => request' = "HelperRemove"
      BY <1>2, <3>1 DEF PreparesVolume
    <3>7. request' # "HelperRemoveAfterError"
      BY <1>2, <3>1 DEF PreparesVolume
    <3>8. stage' = "run" \/ costs # 0
      BY <1>2, <3>1 DEF PreparesVolume
    <3>9. request \notin {"CopyConfiguration", "ContainerStart"}
      BY <1>2, <3>1 DEF PreparesVolume
    <3>10. CASE costs # 0
      BY <3>1, <3>7, <3>10
    <3>11. CASE costs = 0
      <4>1. stage' = "run" /\ request' # "none"
        BY <3>4, <3>8, <3>11
      <4>2. "helper" \in there' => request' \in {"CopyContents", "HelperRemove"}
        BY <3>3, <3>5, <3>6, <3>11
      <4>3. "container" \notin there'
        BY <3>1, <3>2, <3>9, <3>11
      <4> QED
        BY <3>2, <3>7, <4>1, <4>2, <4>3
    <3> QED
      BY <3>10, <3>11
  <2>6. ContainerResultIsTrue'
    BY <1>2 DEF PreparesVolume, Effect
  <2>7. ContainerCleanupIsNotSpoilt'
    BY <1>2 DEF PreparesVolume, Effect
  <2> HIDE DEF ContainerTypeOK, Requested, Built, Bared, Undisturbed,
      ContainerResultIsTrue, ContainerCleanupIsNotSpoilt
  <2> QED
    BY <2>1, <2>2, <2>3, <2>4, <2>5, <2>6, <2>7
<1>3. CASE CreatesContainer
  BY <1>3, ZenonT(40) DEF CreatesContainer, Effect
<1>4. CASE RemovesContainer
  BY <1>4, ZenonT(40) DEF RemovesContainer, Effect
<1>5. CASE RunsJob
  BY <1>5, ZenonT(40) DEF RunsJob, Effect
<1>6. CASE DeletesJob
  BY <1>6 DEF DeletesJob, Effect
<1>7. CASE PodsEnd
  BY <1>7 DEF PodsEnd
<1>8. CASE RequestIsRefused
  <2>1. costs' \in 0..MaxFaults /\ costs' > 0 /\ costs' # 0
    BY <1>8, PaysCosts DEF RequestIsRefused
  <2>2. there' = there \/ there' = Effect
    BY <1>8 DEF RequestIsRefused
  <2>3. ContainerTypeOK'
    BY <1>8, <2>1, <2>2 DEF RequestIsRefused, FatalRequests, Effect
  <2>4. Requested'
    BY <1>8, <2>1, <2>2 DEF RequestIsRefused, FatalRequests, Effect
  <2>5. Built'
    BY <1>8, <2>1, <2>2 DEF RequestIsRefused, FatalRequests, Effect
  <2>6. Bared'
    BY <1>8, <2>1, <2>2 DEF RequestIsRefused, FatalRequests, Effect
  <2>7. Undisturbed'
    BY <1>8, <2>1, <2>2 DEF RequestIsRefused, FatalRequests, Effect
  <2>8. ContainerResultIsTrue'
    BY <1>8, <2>1, <2>2 DEF RequestIsRefused, FatalRequests, Effect
  <2>9. ContainerCleanupIsNotSpoilt'
    BY <1>8, <2>1, <2>2 DEF RequestIsRefused, FatalRequests, Effect
  <2> HIDE DEF ContainerTypeOK, Requested, Built, Bared, Undisturbed,
      ContainerResultIsTrue, ContainerCleanupIsNotSpoilt
  <2> QED
    BY <2>3, <2>4, <2>5, <2>6, <2>7, <2>8, <2>9
<1>9. CASE CallIsCut
  <2>1. costs' \in 0..MaxFaults /\ costs' > 0 /\ costs' # 0
    BY <1>9, PaysCosts DEF CallIsCut
  <2>2. /\ UNCHANGED <<runtime, stage>> /\ request # "none" /\ request' = "none"
        /\ there' = there \/ there' = Effect
    BY <1>9 DEF CallIsCut
  <2>3. ContainerTypeOK'
    BY <2>1, <2>2 DEF Effect
  <2>4. Requested'
    BY <2>1, <2>2 DEF Effect
  <2>5. Built'
    BY <2>1, <2>2 DEF Effect
  <2>6. Bared'
    BY <2>1, <2>2 DEF Effect
  <2>7. Undisturbed'
    BY <2>1, <2>2 DEF Effect
  <2>8. ContainerResultIsTrue'
    BY <2>1, <2>2 DEF Effect
  <2>9. ContainerCleanupIsNotSpoilt'
    BY <2>1, <2>2 DEF Effect
  <2> HIDE DEF ContainerTypeOK, Requested, Built, Bared, Undisturbed,
      ContainerResultIsTrue, ContainerCleanupIsNotSpoilt
  <2> QED
    BY <2>3, <2>4, <2>5, <2>6, <2>7, <2>8, <2>9
<1>10. CASE ScanIsOver
  BY <1>10 DEF ScanIsOver
<1>11. CASE UNCHANGED containervars
  <2>1. ContainerTypeOK'
    BY <1>11 DEF containervars
  <2>2. Requested'
    BY <1>11 DEF containervars
  <2>3. Built'
    BY <1>11 DEF containervars
  <2>4. Bared'
    BY <1>11 DEF containervars
  <2>5. Undisturbed'
    BY <1>11 DEF containervars
  <2>6. ContainerResultIsTrue'
    BY <1>11 DEF containervars
  <2>7. ContainerCleanupIsNotSpoilt'
    BY <1>11 DEF containervars
  <2> HIDE DEF ContainerTypeOK, Requested, Built, Bared, Undisturbed,
      ContainerResultIsTrue, ContainerCleanupIsNotSpoilt
  <2> QED
    BY <2>1, <2>2, <2>3, <2>4, <2>5, <2>6, <2>7
<1> QED
  BY <1>1, <1>2, <1>3, <1>4, <1>5, <1>6, <1>7, <1>8, <1>9, <1>10, <1>11
     DEF ContainerNext
-----------------------------------------------------------------------------
(* The provider in use.                                                    *)

\* Whichever it is, the other two parts do not move.
LEMMA PartsHold == ProviderSpec => [](AwsInv /\ CloudInv /\ ContainerInv)
<1>1. ProviderInit => AwsInv /\ CloudInv /\ ContainerInv
  BY InvInit, CloudInvInit, ContainerInvInit DEF ProviderInit
<1>2. ASSUME AwsInv, CloudInv, ContainerInv, [ProviderNext]_providervars
      PROVE  AwsInv' /\ CloudInv' /\ ContainerInv'
  <2>1. [Next]_vars
    BY <1>2 DEF ProviderNext, providervars
  <2>2. [CloudNext]_cloudvars
    BY <1>2 DEF ProviderNext, providervars
  <2>3. [ContainerNext]_containervars
    BY <1>2 DEF ProviderNext, providervars
  <2> QED
    BY <1>2, <2>1, <2>2, <2>3, InvStep, CloudInvStep, ContainerInvStep
<1> QED
  BY <1>1, <1>2, PTL DEF ProviderSpec

\* Whatever the clouds do and whichever calls fail, every call of a provider is one
\* of those its code makes at that place, about a resource that it has made.
THEOREM TypeCorrect == ProviderSpec => [](TypeOK /\ CloudTypeOK /\ ContainerTypeOK)
<1>1. AwsInv /\ CloudInv /\ ContainerInv => TypeOK /\ CloudTypeOK /\ ContainerTypeOK
  BY DEF AwsInv, CloudInv, ContainerInv
<1> QED
  BY <1>1, PartsHold, PTL

\* RunAssetScan of AWS is idempotent for any number of failing calls, interruptions
\* and crashes: there are never two machines, snapshots, copies or volumes.
THEOREM OneOfEachHolds == ProviderSpec => []OneOfEach
<1>1. AwsInv => OneOfEach
  BY DEF AwsInv, OneView, OneInstance, OneSnapshot, OneVolume, OneOfEach, GoodVolumes
<1> QED
  BY <1>1, PartsHold, PTL

\* nil means what the interface promises, whichever the provider and for any number
\* of faults.
THEOREM ResultHolds == ProviderSpec => []ResultIsTrue
<1>1. ASSUME NEW kind, NoneLeft(kind) PROVE Listed(kind) = {}
  BY <1>1 DEF NoneLeft, Listed, Unseen
<1>2. NoVolumeLeft => Listed(VolumeState) = {}
  BY DEF NoVolumeLeft, Listed, VolumeState, Unseen
<1>3. AwsInv => AwsResultIsTrue
  BY <1>1, <1>2 DEF AwsInv, RunView, RunVolume, Attached, RemoveView, Removed,
     AwsResultIsTrue
<1>4. AwsInv /\ CloudInv /\ ContainerInv => ResultIsTrue
  BY <1>3 DEF CloudInv, ContainerInv, ResultIsTrue
<1> QED
  BY <1>4, PartsHold, PTL

\* Without a fault only the two races of Azure and GCP and Docker's clean-up of
\* nothing can spoil a clean-up, wherever the AssetScan is aborted.
THEOREM CleanupHolds == ProviderSpec => []CleanupIsNotSpoilt
<1>1. CloudInv /\ ContainerInv => CleanupIsNotSpoilt
  BY DEF CloudInv, ContainerInv, CleanupIsNotSpoilt
<1> QED
  BY <1>1, PartsHold, PTL
-----------------------------------------------------------------------------
(* The contract of the providers, AWS first.                               *)

\* What a step does to one kind of resource of AWS: it makes none that can be seen,
\* and gives up no request ...
NothingNew(old, new) ==
    \A i \in Ids : /\ old[i] \in Unseen => new[i] \in Unseen
                   /\ new[i] = "sent" => old[i] = "sent"

\* ... nor is one acted on, and what is complete stays.
Stays(old, new) == \A i \in Ids : old[i] \in {"sent", "completed"} => new[i] = old[i]

AwsQuiet ==
    /\ landed' = landed
    /\ NothingNew(instance, instance') /\ NothingNew(snapshot, snapshot')
    /\ NothingNew(copy, copy') /\ NothingNew(VolumeState, VolumeState')

AwsWaits ==
    /\ Stays(instance, instance') /\ Stays(snapshot, snapshot')
    /\ Stays(copy, copy') /\ Stays(VolumeState, VolumeState')

\* When the watcher does not run the AssetScan only a late request makes anything.
LEMMA AwsMakesNothing ==
  ASSUME AwsInv, [Next]_vars, phase # "run", ~RequestLands
  PROVE  AwsQuiet
<1> USE DEF NothingNew, Unseen, VolumeState
<1>t. TypeOK
  BY DEF AwsInv
<1>a. at[1] \notin {"DescribeInstances", "RunInstances", "InstanceReady"}
  BY <1>t DEF TypeOK, AtOK, CallOK, Phases, AtRest, Goroutines
<1>b. at[2] \notin {"DescribeSnapshots", "CreateSnapshot", "SnapshotReady", "DescribeCopies",
                    "CopySnapshot", "TargetReady"}
  BY <1>t DEF TypeOK, AtOK, CallOK, Phases, AtRest, Goroutines
<1>c. at[3] \notin {"wait", "DescribeVolumes", "CreateVolume", "VolumeReady",
                    "DescribeAttachment", "AttachVolume", "IsAttached"}
  BY <1>t DEF TypeOK, AtOK, CallOK, Phases, AtRest, Goroutines
<1>0. ASSUME UNCHANGED <<aws, landed>> PROVE AwsQuiet
  BY <1>0 DEF aws, AwsQuiet
<1>1. CASE RunStarts \/ RemoveStarts
  BY <1>0, <1>1 DEF RunStarts, RemoveStarts, env
<1>2. CASE CreatesInstance \/ CreatesSnapshot \/ AttachesVolume
  BY <1>2, <1>a, <1>b, <1>c DEF CreatesInstance, DescribeInstances, RunInstances,
     InstanceReady, CreatesSnapshot, DescribeSnapshots, CreateSnapshot, SnapshotReady,
     DescribeCopies, CopySnapshot, TargetReady, AttachesVolume, RunJoins, DescribeVolumes,
     CreateVolume, VolumeReady, DescribeAttachment, AttachVolume, IsAttached
<1>3. CASE DeletesInstance
  <2>1. CASE ListInstances \/ ListVolumes
    BY <1>0, <2>1 DEF ListInstances, ListVolumes, env
  <2>2. CASE TerminateInstances
    BY <2>2 DEF TerminateInstances, env, AwsQuiet
  <2>3. CASE DeleteVolumes
    BY <1>t, <2>3 DEF DeleteVolumes, env, AwsQuiet, TypeOK, AwsOK, Volumes
  <2> QED
    BY <1>3, <2>1, <2>2, <2>3 DEF DeletesInstance
<1>4. ASSUME NEW g \in Goroutines, DeletesSnapshots(g) PROVE AwsQuiet
  <2>1. CASE ListSnapshots(g)
    BY <1>0, <2>1 DEF ListSnapshots, env
  <2>2. CASE DeleteSnapshots(g)
    BY <1>t, <2>2 DEF DeleteSnapshots, env, AwsQuiet, TypeOK, AwsOK, Snapshots
  <2> QED
    BY <1>4, <2>1, <2>2 DEF DeletesSnapshots
<1>5. CASE Returns \/ ScanEnds \/ GivesUp
  BY <1>0, <1>5 DEF Returns, ScanEnds, GivesUp
<1>6. ASSUME NEW g \in Goroutines, CallFails(g) PROVE AwsQuiet
  BY <1>0, <1>6 DEF CallFails
<1>7. ASSUME NEW g \in Goroutines PROVE ~CreationIsLost(g)
  <2>1. at[g] \notin {"RunInstances", "CreateSnapshot", "CopySnapshot", "CreateVolume"}
    BY <1>t DEF TypeOK, AtOK, CallOK, Phases, AtRest, Goroutines
  <2> QED
    BY <2>1 DEF CreationIsLost
<1>8. ASSUME NEW i \in Ids, InstanceStarts(i) \/ InstanceIsInterrupted(i) PROVE AwsQuiet
  BY <1>t, <1>8 DEF InstanceStarts, InstanceIsInterrupted, env, AwsQuiet, TypeOK, AwsOK
<1>9. ASSUME NEW i \in Ids, InstanceTerminates(i) PROVE AwsQuiet
  BY <1>t, <1>9 DEF InstanceTerminates, env, AwsQuiet, TypeOK, AwsOK, Volumes
<1>10. ASSUME NEW i \in Ids, SnapshotCompletes(i) PROVE AwsQuiet
  BY <1>t, <1>10 DEF SnapshotCompletes, env, AwsQuiet, TypeOK, AwsOK, Snapshots
<1>11. ASSUME NEW i \in Ids, VolumeIsCreated(i) \/ VolumeIsAttached(i) PROVE AwsQuiet
  BY <1>t, <1>11 DEF VolumeIsCreated, VolumeIsAttached, env, AwsQuiet, TypeOK, AwsOK, Volumes
<1>12. ASSUME NEW i \in Ids, CreationGoesWrong(i) PROVE AwsQuiet
  BY <1>t, <1>12 DEF CreationGoesWrong, AwsQuiet, TypeOK, AwsOK, Snapshots, Volumes
<1>13. CASE UNCHANGED vars
  BY <1>0, <1>13 DEF vars, env
<1> HIDE DEF NothingNew, Unseen, VolumeState
<1> QED
  BY <1>1, <1>2, <1>3, <1>4, <1>5, <1>6, <1>7, <1>8, <1>9, <1>10, <1>11, <1>12, <1>13
     DEF Next, Works, Progresses, Goroutines

\* While no call is under way no request that was given up comes to nothing, either,
\* and snapshots stay.
LEMMA AwsRests ==
  ASSUME AwsInv, [Next]_vars, phase \notin {"run", "remove"}, ~RequestLands
  PROVE  AwsWaits
<1> USE DEF Stays, VolumeState, AwsWaits
<1>t. TypeOK /\ at = AtRest
  BY DEF AwsInv, TypeOK, AtOK
<1>a. \A g \in Goroutines : at[g] = "idle"
  BY <1>t DEF AtRest
<1>0. ASSUME UNCHANGED aws PROVE AwsWaits
  BY <1>0 DEF aws
<1>1. ~(RunStarts \/ RemoveStarts \/ GivesUp)
  BY <1>t DEF RunStarts, RemoveStarts, GivesUp
<1>2. ~(CreatesInstance \/ CreatesSnapshot \/ AttachesVolume \/ DeletesInstance)
  BY <1>a DEF CreatesInstance, DescribeInstances, RunInstances, InstanceReady,
     CreatesSnapshot, DescribeSnapshots, CreateSnapshot, SnapshotReady, DescribeCopies,
     CopySnapshot, TargetReady, AttachesVolume, RunJoins, DescribeVolumes, CreateVolume,
     VolumeReady, DescribeAttachment, AttachVolume, IsAttached, DeletesInstance,
     ListInstances, TerminateInstances, ListVolumes, DeleteVolumes, Goroutines
<1>3. ASSUME NEW g \in Goroutines
      PROVE  ~(DeletesSnapshots(g) \/ CallFails(g) \/ CreationIsLost(g))
  BY <1>a DEF DeletesSnapshots, ListSnapshots, DeleteSnapshots, CallFails, CreationIsLost
<1>4. ~Returns
  BY <1>a DEF Returns, Goroutines
<1>5. CASE ScanEnds
  BY <1>0, <1>5 DEF ScanEnds
<1>6. ASSUME NEW i \in Ids, InstanceStarts(i) \/ InstanceIsInterrupted(i) PROVE AwsWaits
  BY <1>t, <1>6 DEF InstanceStarts, InstanceIsInterrupted, TypeOK, AwsOK
<1>7. ASSUME NEW i \in Ids, InstanceTerminates(i) PROVE AwsWaits
  BY <1>t, <1>7 DEF InstanceTerminates, TypeOK, AwsOK, Volumes
<1>8. ASSUME NEW i \in Ids, SnapshotCompletes(i) PROVE AwsWaits
  BY <1>t, <1>8 DEF SnapshotCompletes, TypeOK, AwsOK, Snapshots
<1>9. ASSUME NEW i \in Ids, VolumeIsCreated(i) \/ VolumeIsAttached(i) PROVE AwsWaits
  BY <1>t, <1>9 DEF VolumeIsCreated, VolumeIsAttached, TypeOK, AwsOK, Volumes
<1>10. ASSUME NEW i \in Ids, CreationGoesWrong(i) PROVE AwsWaits
  BY <1>t, <1>10 DEF CreationGoesWrong, TypeOK, AwsOK, Snapshots, Volumes
<1>11. CASE UNCHANGED vars
  BY <1>0, <1>11 DEF vars
<1> HIDE DEF Stays, VolumeState, AwsWaits
<1> QED
  BY <1>1, <1>2, <1>3, <1>4, <1>5, <1>6, <1>7, <1>8, <1>9, <1>10, <1>11
     DEF Next, Works, Progresses, Goroutines

\* Where the watcher goes: AfterCall, and what AWS leaves to it.
LEMMA AwsStages ==
  ASSUME TypeOK, [Next]_vars
  PROVE  /\ \/ phase' = phase
            \/ /\ Returns \/ ScanEnds
               /\ UNCHANGED <<aws, landed>>
               /\ \/ phase = "run" /\ phase' \in {"run", "scan", "remove"}
                  \/ phase = "scan" /\ phase' = "remove"
                  \/ phase = "remove" /\ phase' \in {"remove", "removed", "failed"}
         /\ ~RequestLands => landed' = landed
         /\ remote' = remote
<1>1. CASE Returns
  <2>1. phase \in {"run", "remove"}
    BY <1>1 DEF Returns, TypeOK, AtOK, CallOK, Phases, AtRest, Goroutines
  <2>2. UNCHANGED <<aws, landed, remote>> /\ phase' = AfterCall(phase, errs)
    BY <1>1 DEF Returns, Outcome, aws
  <2> QED
    BY <1>1, <2>1, <2>2 DEF AfterCall
<1>2. CASE ScanEnds
  BY <1>2 DEF ScanEnds, aws
<1>3. CASE ~Returns /\ ~ScanEnds
  <2>1. phase' = phase /\ remote' = remote
    BY <1>3 DEF Next, Works, RunStarts, RemoveStarts, CreatesInstance, DescribeInstances,
       RunInstances, InstanceReady, CreatesSnapshot, DescribeSnapshots, CreateSnapshot,
       SnapshotReady, DescribeCopies, CopySnapshot, TargetReady, AttachesVolume, RunJoins,
       DescribeVolumes, CreateVolume, VolumeReady, DescribeAttachment, AttachVolume,
       IsAttached, DeletesInstance, ListInstances, TerminateInstances, ListVolumes,
       DeleteVolumes, DeletesSnapshots, ListSnapshots, DeleteSnapshots, GivesUp,
       RequestLands, CallFails, CreationIsLost, Progresses, InstanceStarts,
       InstanceTerminates, SnapshotCompletes, VolumeIsCreated, VolumeIsAttached,
       InstanceIsInterrupted, CreationGoesWrong, vars, env
  <2>2. ~RequestLands => landed' = landed
    <3>1. CASE RunStarts \/ RemoveStarts \/ GivesUp
      BY <3>1 DEF RunStarts, RemoveStarts, GivesUp, env
    <3>2. CASE CreatesInstance \/ CreatesSnapshot
      BY <3>2 DEF CreatesInstance, DescribeInstances, RunInstances, InstanceReady,
         CreatesSnapshot, DescribeSnapshots, CreateSnapshot, SnapshotReady,
         DescribeCopies, CopySnapshot, TargetReady, env
    <3>3. CASE AttachesVolume \/ DeletesInstance
      BY <3>3 DEF AttachesVolume, RunJoins, DescribeVolumes, CreateVolume, VolumeReady,
         DescribeAttachment, AttachVolume, IsAttached, DeletesInstance, ListInstances,
         TerminateInstances, ListVolumes, DeleteVolumes, env
    <3>4. ASSUME NEW g \in Goroutines,
                 DeletesSnapshots(g) \/ CallFails(g) \/ CreationIsLost(g)
          PROVE  landed' = landed
      BY <3>4 DEF DeletesSnapshots, ListSnapshots, DeleteSnapshots, CallFails,
         CreationIsLost, env
    <3>5. ASSUME NEW i \in Ids,
                 Progresses(i) \/ InstanceIsInterrupted(i) \/ CreationGoesWrong(i)
          PROVE  landed' = landed
      BY <3>5 DEF Progresses, InstanceStarts, InstanceTerminates, SnapshotCompletes,
         VolumeIsCreated, VolumeIsAttached, InstanceIsInterrupted, CreationGoesWrong, env
    <3>6. CASE UNCHANGED vars
      BY <3>6 DEF vars, env
    <3> QED
      BY <1>3, <3>1, <3>2, <3>3, <3>4, <3>5, <3>6 DEF Next, Works, Goroutines
  <2> QED
    BY <2>1, <2>2
<1> QED
  BY <1>1, <1>2, <1>3

\* What is there, kind by kind.
AwsView ==
  /\ AwsExists <=> ~(NoneLeft(instance) /\ NoneLeft(snapshot) /\ NoneLeft(copy)
                     /\ NoneLeft(VolumeState))
  /\ NoVolumeLeft <=> NoneLeft(VolumeState)
  /\ AwsLost <=> \E i \in Ids : \/ instance[i] = "sent" \/ snapshot[i] = "sent"
                                \/ copy[i] = "sent" \/ VolumeState[i] = "sent"

LEMMA AwsSees == AwsView
<1>1. ASSUME NEW kind PROVE NoneLeft(kind) <=> Listed(kind) = {}
  BY DEF NoneLeft, Listed, Unseen
<1>2. NoVolumeLeft <=> NoneLeft(VolumeState)
  BY DEF NoVolumeLeft, NoneLeft, VolumeState
<1>3. AwsExists <=> ~(/\ Listed(instance) = {} /\ Listed(snapshot) = {}
                      /\ Listed(copy) = {} /\ Listed(VolumeState) = {})
  BY DEF AwsExists
<1>4. AwsLost <=> \E i \in Ids : \/ instance[i] = "sent" \/ snapshot[i] = "sent"
                                 \/ copy[i] = "sent" \/ VolumeState[i] = "sent"
  BY DEF AwsLost, VolumeState
<1> QED
  BY <1>1, <1>2, <1>3, <1>4 DEF AwsView

LEMMA AwsQuietly ==
  ASSUME AwsQuiet
  PROVE  (AwsExists' => AwsExists) /\ (AwsLost' => AwsLost)
<1>0. AwsView /\ AwsView'
  BY AwsSees, PTL
<1>1. ASSUME NEW old, NEW new, NothingNew(old, new), NoneLeft(old) PROVE NoneLeft(new)
  BY <1>1 DEF NothingNew, NoneLeft
<1>2. AwsExists' => AwsExists
  BY <1>0, <1>1 DEF AwsView, AwsQuiet, NoneLeft
<1>3. AwsLost' => AwsLost
  BY <1>0 DEF AwsView, AwsQuiet, NothingNew
<1> QED
  BY <1>2, <1>3
\* While the scanner works the snapshot its volume was made of is there.
AwsScanned == phase = "scan" => \E s \in Ids : Targets[s] = "completed"

LEMMA AwsScannedStep ==
  ASSUME AwsInv, AwsScanned, [Next]_vars PROVE AwsScanned'
<1>t. TypeOK /\ AwsView
  BY AwsSees DEF AwsInv
<1>s. SUFFICES ASSUME phase' = "scan" PROVE \E s \in Ids : Targets'[s] = "completed"
  BY DEF AwsScanned
<1>1. CASE phase = "scan"
  <2>1. PICK s \in Ids : Targets[s] = "completed"
    BY <1>1 DEF AwsScanned
  <2>2. remote' = remote
    BY <1>t, AwsStages
  <2>3. CASE RequestLands
    BY <1>t, <2>1, <2>2, <2>3 DEF RequestLands, Targets, TypeOK, AwsOK, Snapshots
  <2>4. CASE ~RequestLands
    BY <1>1, <2>1, <2>2, <2>4, AwsRests DEF AwsWaits, Stays, Targets
  <2> QED
    BY <2>3, <2>4
<1>2. CASE phase # "scan"
  <2>1. Returns
    BY <1>s, <1>t, <1>2, AwsStages DEF ScanEnds
  <2>2. phase = "run" /\ UNCHANGED <<aws, remote>>
    BY <1>s, <1>t, <1>2, AwsStages
  <2>3. at[2] = "end" /\ errs = {}
    BY <1>s, <2>1, <2>2 DEF Returns, Outcome, AfterCall, Goroutines
  <2>4. use.target \in Ids /\ Targets[use.target] = "completed"
    BY <2>2, <2>3 DEF AwsInv, RunView, RunHolds, RunTarget
  <2> QED
    BY <2>2, <2>4 DEF aws, Targets
<1> QED
  BY <1>1, <1>2

\* AWS keeps the contract, step by step.
LEMMA AwsKeeps ==
  ASSUME AwsInv, AwsInv', AwsScanned, AwsScanned', [Next]_vars
  PROVE  [AwsContract!Next]_(AwsContract!contractvars)
<1>t. TypeOK /\ phase \in Phases /\ AwsExists \in BOOLEAN /\ AwsExists' \in BOOLEAN
      /\ AwsLost \in BOOLEAN /\ AwsLost' \in BOOLEAN
  BY DEF AwsInv, TypeOK, CallOK, AwsExists, AwsLost
<1>0. AwsView /\ AwsView'
  BY AwsSees, PTL
<1>a. phase = "scan" => AwsExists
  BY <1>0 DEF AwsScanned, AwsView, NoneLeft, Unseen, Targets
<1>b. phase' = "scan" => AwsExists'
  BY <1>0 DEF AwsScanned, AwsView, NoneLeft, Unseen, Targets
<1>c. phase' = "removed" => ~AwsExists' \/ landed' # {}
  BY <1>0 DEF AwsInv, RemoveView, Removed, AwsView
<1>1. CASE RequestLands
  <2>1. phase' = phase /\ landed' # {} /\ AwsLost
    BY <1>0, <1>1 DEF RequestLands, AwsView, VolumeState
  <2>2. AwsExists'
    <3>1. \E i \in Ids : \/ instance'[i] = "pending" \/ snapshot'[i] = "pending"
                         \/ copy'[i] = "pending" \/ VolumeState'[i] = "creating"
      BY <1>t, <1>1 DEF RequestLands, VolumeState, TypeOK, AwsOK, Snapshots, Volumes
    <3> QED
      BY <1>0, <3>1 DEF AwsView, NoneLeft, Unseen
  <2>3. AwsContract!Lands
    BY <1>t, <2>1, <2>2 DEF AwsContract!Lands
  <2> QED
    BY <2>3 DEF AwsContract!Next
<1>2. CASE phase' = phase /\ ~RequestLands
  <2>1. landed' = landed
    BY <1>t, <1>2, AwsStages
  <2>2. CASE phase = "run"
    BY <1>t, <1>2, <2>1, <2>2 DEF AwsContract!Next, AwsContract!Runs
  <2>3. CASE phase # "run"
    <3>1. (AwsExists' => AwsExists) /\ (AwsLost' => AwsLost)
      BY <1>2, <2>3, AwsMakesNothing, AwsQuietly
    <3>2. CASE phase = "remove"
      <4>1. AwsExists' \in {AwsExists, FALSE} /\ AwsLost' \in {AwsLost, FALSE}
        BY <1>t, <3>1
      <4> QED
        BY <1>2, <2>1, <3>2, <4>1 DEF AwsContract!Next, AwsContract!Removes
    <3>3. CASE phase \notin {"run", "remove"}
      <4>1. AwsLost' = AwsLost
        <5>1. AwsWaits
          BY <1>2, <3>3, AwsRests
        <5>2. AwsLost => AwsLost'
          BY <1>0, <5>1 DEF AwsView, AwsWaits, Stays
        <5> QED
          BY <1>t, <3>1, <5>2
      <4>2. CASE AwsExists' = AwsExists
        BY <1>2, <2>1, <4>1, <4>2 DEF AwsContract!contractvars
      <4>3. CASE AwsExists' # AwsExists
        <5>1. AwsExists' = FALSE /\ phase \in {"removed", "failed"}
          BY <1>t, <1>a, <1>b, <1>2, <3>1, <3>3, <4>3 DEF Phases
        <5> QED
          BY <1>2, <2>1, <4>1, <5>1 DEF AwsContract!Next, AwsContract!Vanishes
      <4> QED
        BY <4>2, <4>3
    <3> QED
      BY <2>3, <3>2, <3>3
  <2> QED
    BY <2>2, <2>3
<1>3. CASE phase' # phase
  <2>1. /\ UNCHANGED <<aws, landed>>
        /\ \/ phase = "run" /\ phase' \in {"run", "scan", "remove"}
           \/ phase = "scan" /\ phase' = "remove"
           \/ phase = "remove" /\ phase' \in {"remove", "removed", "failed"}
    BY <1>t, <1>3, AwsStages
  <2>2. AwsExists' = AwsExists /\ AwsLost' = AwsLost
    BY <2>1 DEF aws, AwsExists, AwsLost, Listed, VolumeState
  <2>3. CASE phase = "run" /\ phase' = "scan"
    BY <1>t, <1>b, <2>1, <2>2, <2>3 DEF AwsContract!Next, AwsContract!IsReady
  <2>4. CASE phase = "run" /\ phase' = "remove"
    BY <1>t, <2>1, <2>2, <2>4 DEF AwsContract!Next, AwsContract!Runs
  <2>5. CASE phase = "scan"
    BY <2>1, <2>2, <2>5 DEF AwsContract!Next, AwsContract!ScanIsDone
  <2>6. CASE phase = "remove"
    BY <1>t, <1>c, <2>1, <2>2, <2>6 DEF AwsContract!Next, AwsContract!Removes
  <2> QED
    BY <1>3, <2>1, <2>3, <2>4, <2>5, <2>6
<1> QED
  BY <1>1, <1>2, <1>3
-----------------------------------------------------------------------------
(* ... then the clouds ...                                                 *)

\* A cloud that makes nothing.
LEMMA CloudQuietly ==
  ASSUME \A k \in Kinds : resource[k] = "none" => resource'[k] = "none"
  PROVE  CloudExists' => CloudExists
BY DEF CloudExists

LEMMA CloudKeeps ==
  ASSUME CloudInv, CloudInv', [CloudNext]_cloudvars
  PROVE  [CloudContract!Next]_(CloudContract!contractvars)
<1>t. CloudTypeOK /\ CloudSteps /\ CloudRun /\ CloudExists \in BOOLEAN /\ CloudExists' \in BOOLEAN
      /\ watcher \in Phases /\ resource \in [Kinds -> {"none", "creating", "ready", "failed", "deleting"}]
  BY DEF CloudInv, CloudTypeOK, CloudExists
<1>a. watcher' = "scan" => CloudExists'
  <2>1. Len(RunOrder') \in 1..5 /\ RunOrder'[1] \in Kinds
    <3>1. RunOrder' = RunOrder
      BY CloudKept
    <3>2. Len(RunOrder) \in 1..5
      BY OrderFacts
    <3>3. 1 \in 1..Len(RunOrder)
      BY <3>2
    <3> QED
      BY <3>1, <3>2, <3>3, OrderFacts
  <2>2. 1 \in 1..Len(RunOrder')
    BY <2>1
  <2>3. watcher' = "scan" => resource'[RunOrder'[1]] # "none"
    BY <2>2 DEF CloudInv, CloudResultIsTrue
  <2> QED
    BY <2>1, <2>3 DEF CloudExists
<1>b. watcher' = "removed" => ~CloudExists' \/ overdue' # {}
  BY DEF CloudInv, CloudResultIsTrue, CloudExists
<1>r. ASSUME watcher = "run", watcher' \in {"run", "scan", "remove"}, overdue' = overdue,
             watcher' = "scan" => sent' = sent
      PROVE  CloudContract!Next
  <2>1. CASE watcher' = "scan"
    BY <1>a, <1>r, <2>1 DEF CloudContract!Next, CloudContract!IsReady
  <2>2. CASE watcher' # "scan"
    BY <1>t, <1>r, <2>2 DEF CloudContract!Next, CloudContract!Runs
  <2> QED
    BY <2>1, <2>2
<1>d. ASSUME watcher = "remove", watcher' \in {"remove", "removed", "failed"},
             UNCHANGED <<sent, overdue>>, CloudExists' => CloudExists
      PROVE  CloudContract!Next
  <2>1. CloudExists' \in {CloudExists, FALSE}
    BY <1>t, <1>d
  <2>2. CloudContract!Removes
    BY <1>b, <1>d, <2>1 DEF CloudContract!Removes
  <2> QED
    BY <2>2 DEF CloudContract!Next
<1>s. ASSUME UNCHANGED <<watcher, sent, overdue>>, CloudExists' = CloudExists
      PROVE  UNCHANGED CloudContract!contractvars
  BY <1>s DEF CloudContract!contractvars
<1>n. ASSUME UNCHANGED <<watcher, sent, overdue, resource>>
      PROVE  UNCHANGED CloudContract!contractvars
  BY <1>s, <1>n DEF CloudExists
<1>1. CASE Starts \/ AttachmentEnds \/ AttachmentFails \/ UNCHANGED cloudvars
  BY <1>1, <1>n DEF Starts, AttachmentEnds, AttachmentFails, cloudvars, outside
<1>2. CASE Ensures
  <2>1. watcher = "run"
    BY <1>t, <1>2 DEF Ensures, EnsureGets, EnsureCreates, EnsureRevokes, EnsureAttaches,
       EnsureChecks, CloudSteps, CloudTypeOK, Phases
  <2>2. UNCHANGED <<sent, overdue>>
    BY <1>2 DEF Ensures, EnsureGets, EnsureCreates, EnsureRevokes, EnsureAttaches,
       EnsureChecks, outside
  <2>3. watcher' \in {"run", "scan", "remove"}
    BY <1>2, <2>1 DEF Ensures, EnsureGets, EnsureCreates, EnsureRevokes, EnsureAttaches,
       EnsureChecks, Proceeds, NextResource, Finishes, AfterCall
  <2> QED
    BY <1>r, <2>1, <2>2, <2>3
<1>3. CASE Deletes
  <2>1. watcher = "remove"
    BY <1>t, <1>3 DEF Deletes, DeleteGets, DeleteAborts, DeleteDeletes, CloudSteps,
       CloudTypeOK, Phases
  <2>2. UNCHANGED <<sent, overdue>>
    BY <1>3 DEF Deletes, DeleteGets, DeleteAborts, DeleteDeletes, outside
  <2>3. watcher' \in {"remove", "removed", "failed"}
    BY <1>3, <2>1 DEF Deletes, DeleteGets, DeleteAborts, DeleteDeletes, Proceeds,
       NextResource, Finishes, AfterCall
  <2>4. CloudExists' => CloudExists
    <3>1. CASE DeleteGets
      BY <3>1 DEF DeleteGets, CloudExists
    <3>2. CASE DeleteAborts
      BY <1>t, <3>2, CloudQuietly DEF DeleteAborts
    <3>3. CASE DeleteDeletes
      BY <1>t, <3>3, CloudQuietly DEF DeleteDeletes, Exists
    <3> QED
      BY <1>3, <3>1, <3>2, <3>3 DEF Deletes
  <2> QED
    BY <1>d, <2>1, <2>2, <2>3, <2>4
<1>4. CASE RequestFails \/ ServerFails \/ CreateIsLost
  <2>1. watcher \in {"run", "remove"} /\ overdue' = overdue
    BY <1>t, <1>4 DEF RequestFails, ServerFails, CreateIsLost, CloudSteps, CloudTypeOK, Phases
  <2>2. CASE watcher = "run"
    <3>1. watcher' = "remove"
      BY <1>4, <2>2 DEF RequestFails, ServerFails, CreateIsLost, Finishes, AfterCall
    <3> QED
      BY <1>r, <2>1, <2>2, <3>1
  <2>3. CASE watcher = "remove"
    <3>1. UNCHANGED <<sent, resource>>
      BY <1>t, <1>4, <2>3 DEF RequestFails, ServerFails, CreateIsLost, CloudSteps
    <3>2. watcher' = "failed"
      BY <1>4, <2>3 DEF RequestFails, ServerFails, CreateIsLost, Finishes, AfterCall
    <3>3. CloudExists' = CloudExists
      BY <3>1 DEF CloudExists
    <3> QED
      BY <1>d, <2>1, <2>3, <3>1, <3>2, <3>3
  <2> QED
    BY <2>1, <2>2, <2>3
<1>5. CASE IsOver
  <2>1. watcher \in {"run", "scan"} /\ watcher' = "remove" /\ UNCHANGED <<sent, overdue, resource>>
    BY <1>5 DEF IsOver, outside
  <2>2. CloudExists' = CloudExists
    BY <2>1 DEF CloudExists
  <2>3. CASE watcher = "scan"
    BY <2>1, <2>2, <2>3 DEF CloudContract!Next, CloudContract!ScanIsDone
  <2> QED
    BY <1>r, <2>1, <2>3
<1>6. ASSUME NEW k \in Kinds, SentLands(k) PROVE CloudContract!Next
  <2>1. watcher' = watcher /\ sent # {}
    BY <1>6 DEF SentLands
  <2>2. CloudExists'
    <3>1. resource'[k] # "none"
      BY <1>t, <1>6 DEF SentLands
    <3> QED
      BY <3>1 DEF CloudExists
  <2>3. (overdue' # {}) \in {overdue # {}, TRUE} /\ (CloudExists \/ overdue' # {})
    BY <1>6 DEF SentLands, CloudExists
  <2>4. CloudContract!Lands
    BY <1>t, <2>1, <2>2, <2>3 DEF CloudContract!Lands
  <2> QED
    BY <2>4 DEF CloudContract!Next
<1>7. ASSUME NEW k \in Kinds, CreationEnds(k) \/ CreationFails(k)
      PROVE  UNCHANGED CloudContract!contractvars
  <2>1. UNCHANGED <<watcher, sent, overdue>>
    BY <1>7 DEF CreationEnds, CreationFails, outside
  <2>2. resource[k] # "none" /\ resource'[k] # "none"
    BY <1>t, <1>7 DEF CreationEnds, CreationFails
  <2>3. CloudExists /\ CloudExists'
    BY <2>2 DEF CloudExists
  <2> QED
    BY <1>s, <2>1, <2>3 DEF CloudExists
<1>8. ASSUME NEW k \in Kinds, DeletionEnds(k)
      PROVE  [CloudContract!Next]_(CloudContract!contractvars)
  <2>1. UNCHANGED <<watcher, sent, overdue>>
    BY <1>8 DEF DeletionEnds, outside
  <2>2. CloudExists' => CloudExists
    BY <1>t, <1>8, CloudQuietly DEF DeletionEnds
  <2>3. watcher \in {"remove", "removed", "failed"}
    BY <1>t, <1>8 DEF DeletionEnds, CloudRun, Phases
  <2>4. CASE watcher = "remove"
    BY <1>d, <2>1, <2>2, <2>4
  <2>5. CASE watcher # "remove" /\ CloudExists' = CloudExists
    BY <1>s, <2>1, <2>5
  <2>6. CASE watcher # "remove" /\ CloudExists' # CloudExists
    <3>1. CloudExists' = FALSE
      BY <1>t, <2>2, <2>6
    <3> QED
      BY <2>1, <2>3, <2>6, <3>1 DEF CloudContract!Next, CloudContract!Vanishes
  <2> QED
    BY <2>4, <2>5, <2>6
<1>9. CASE Stops
  <2>1. UNCHANGED <<watcher, overdue, resource>>
    BY <1>9 DEF Stops
  <2>2. CASE sent' = sent
    BY <1>n, <2>1, <2>2
  <2>3. CASE step.op = "Create"
    <3>1. watcher = "run"
      BY <1>t, <2>3 DEF CloudSteps, CloudTypeOK, Phases
    <3> QED
      BY <1>r, <2>1, <3>1
  <2> QED
    BY <1>9, <2>2, <2>3 DEF Stops
<1> QED
  BY <1>1, <1>2, <1>3, <1>4, <1>5, <1>6, <1>7, <1>8, <1>9 DEF CloudNext
-----------------------------------------------------------------------------
(* ... and Docker and Kubernetes.                                          *)

LEMMA RuntimeKept ==
  ASSUME [ContainerNext]_containervars PROVE runtime' = runtime
BY DEF ContainerNext, containervars, CallBegins, PreparesVolume, CreatesContainer,
   RemovesContainer, RunsJob, DeletesJob, PodsEnd, RequestIsRefused, CallIsCut, ScanIsOver

\* The requests of RemoveAssetScan make nothing.
RemoveRequests ==
    {"ContainerList", "ContainerRemove", "VolumeRemove", "JobDelete", "ConfigMapDelete"}

LEMMA EffectMakesNothing ==
  ASSUME request \in RemoveRequests PROVE Effect \subseteq there
BY DEF RemoveRequests, Effect

\* What there is after each call.
ContainerShows ==
    (stage = "scan" => ContainerExists) /\ (stage = "removed" => ~ContainerExists)

LEMMA ContainerSees == ContainerInv => ContainerShows
<1> SUFFICES ASSUME ContainerInv PROVE ContainerShows
  OBVIOUS
<1>1. ASSUME stage = "scan" PROVE "job" \in there \/ "volume" \in there
  BY <1>1 DEF ContainerInv, Requested, ContainerResultIsTrue, ContainerTypeOK
<1>2. stage = "removed" => there \subseteq {"pods"}
  BY DEF ContainerInv, ContainerResultIsTrue
<1> QED
  BY <1>1, <1>2 DEF ContainerShows, ContainerExists

LEMMA ContainerKeeps ==
  ASSUME ContainerInv, ContainerInv', [ContainerNext]_containervars
  PROVE  [ContainerContract!Next]_(ContainerContract!contractvars)
<1>t. /\ ContainerTypeOK /\ Requested /\ stage \in Phases
      /\ ContainerExists \in BOOLEAN /\ ContainerExists' \in BOOLEAN
  BY DEF ContainerInv, ContainerTypeOK, ContainerExists
<1>0. ContainerShows'
  BY ContainerSees, PTL
<1>a. stage' = "scan" => ContainerExists'
  BY <1>0 DEF ContainerShows
<1>b. stage' = "removed" => ~ContainerExists'
  BY <1>0 DEF ContainerShows
<1>r. ASSUME stage = "run", stage' \in {"run", "scan", "remove"}
      PROVE  ContainerContract!Next
  <2>1. CASE stage' = "scan"
    BY <1>a, <1>r, <2>1 DEF ContainerContract!Next, ContainerContract!IsReady
  <2>2. CASE stage' # "scan"
    BY <1>t, <1>r, <2>2 DEF ContainerContract!Next, ContainerContract!Runs
  <2> QED
    BY <2>1, <2>2
<1>d. ASSUME stage = "remove", stage' \in {"remove", "removed", "failed"},
             there' \subseteq there
      PROVE  ContainerContract!Next
  <2>1. ContainerExists' \in {ContainerExists, FALSE}
    BY <1>t, <1>d DEF ContainerExists
  <2>2. ContainerContract!Removes
    BY <1>b, <1>d, <2>1 DEF ContainerContract!Removes
  <2> QED
    BY <2>2 DEF ContainerContract!Next
<1>s. ASSUME stage' = stage, there' \ {"pods"} = there \ {"pods"}
      PROVE  UNCHANGED ContainerContract!contractvars
  BY <1>s DEF ContainerContract!contractvars, ContainerExists
<1>1. CASE CallBegins \/ UNCHANGED containervars
  <2>1. UNCHANGED <<stage, there>>
    BY <1>1 DEF CallBegins, Asks, containervars
  <2> QED
    BY <1>s, <2>1
<1>2. CASE PodsEnd
  <2>1. stage' = stage /\ there' = there \ {"pods"}
    BY <1>2 DEF PodsEnd
  <2> QED
    BY <1>s, <2>1
<1>3. CASE ScanIsOver
  <2>1. stage \in {"run", "scan"} /\ stage' = "remove" /\ there' = there
    BY <1>3 DEF ScanIsOver
  <2>2. CASE stage = "scan"
    BY <2>1, <2>2 DEF ContainerContract!Next, ContainerContract!ScanIsDone, ContainerExists
  <2> QED
    BY <1>r, <2>1, <2>2
<1>4. CASE PreparesVolume \/ CreatesContainer \/ RunsJob
  <2>1. stage = "run"
    BY <1>t, <1>4 DEF PreparesVolume, CreatesContainer, RunsJob, Requested, ContainerTypeOK,
       Phases
  <2>2. stage' \in {"run", "scan", "remove"}
    BY <1>4, <2>1 DEF PreparesVolume, CreatesContainer, RunsJob, Asks, Answers, AfterCall
  <2> QED
    BY <1>r, <2>1, <2>2
<1>5. CASE RemovesContainer \/ DeletesJob
  <2>1. stage = "remove" /\ request \in RemoveRequests
    BY <1>t, <1>5 DEF RemovesContainer, DeletesJob, Requested, ContainerTypeOK, Phases,
       RemoveRequests
  <2>2. there' \subseteq there
    BY <1>5, <2>1, EffectMakesNothing DEF RemovesContainer, DeletesJob
  <2>3. stage' \in {"remove", "removed", "failed"}
    BY <1>5, <2>1 DEF RemovesContainer, DeletesJob, Asks, Answers, AfterCall
  <2> QED
    BY <1>d, <2>1, <2>2, <2>3
<1>6. CASE RequestIsRefused \/ CallIsCut
  <2>1. stage \in {"run", "remove"} /\ request # "none"
    BY <1>t, <1>6 DEF RequestIsRefused, CallIsCut, Requested, ContainerTypeOK, Phases
  <2>2. CASE stage = "run"
    <3>1. stage' \in {"run", "scan", "remove"}
      BY <1>6, <2>2 DEF RequestIsRefused, CallIsCut, Asks, Answers, AfterCall
    <3> QED
      BY <1>r, <2>2, <3>1
  <2>3. CASE stage = "remove"
    <3>1. request \in RemoveRequests
      BY <1>t, <2>1, <2>3 DEF Requested, ContainerTypeOK, RemoveRequests
    <3>2. there' \subseteq there
      BY <1>6, <3>1, EffectMakesNothing DEF RequestIsRefused, CallIsCut
    <3>3. stage' \in {"remove", "removed", "failed"}
      BY <1>6, <2>3, <3>1 DEF RequestIsRefused, CallIsCut, Asks, Answers, AfterCall,
         RemoveRequests
    <3> QED
      BY <1>d, <2>3, <3>2, <3>3
  <2> QED
    BY <2>1, <2>2, <2>3
<1> QED
  BY <1>1, <1>2, <1>3, <1>4, <1>5, <1>6 DEF ContainerNext
-----------------------------------------------------------------------------
(* The provider in use keeps it.                                           *)

\* Which one it is does not change, and the others do not move.
LEMMA ContractStep ==
  ASSUME AwsInv, CloudInv, ContainerInv, AwsInv', CloudInv', ContainerInv',
         AwsScanned, AwsScanned', [ProviderNext]_providervars
  PROVE  [Contract!Next]_(Contract!contractvars)
<1>1. [Next]_vars /\ [CloudNext]_cloudvars /\ [ContainerNext]_containervars
  BY DEF ProviderNext, providervars
<1>2. UNCHANGED <<cloud, runtime>>
  BY <1>1, CloudKept, RuntimeKept
<1>3. CASE UsesAws
  <2>1. UsesAws'
    BY <1>2, <1>3 DEF UsesAws
  <2>2. [AwsContract!Next]_(AwsContract!contractvars)
    BY <1>1, AwsKeeps
  <2>3. /\ Stage = phase /\ Left = AwsExists /\ Lost = AwsLost /\ Late = (landed # {})
        /\ Stage' = phase' /\ Left' = AwsExists' /\ Lost' = AwsLost'
        /\ Late' = (landed' # {})
    BY <1>3, <2>1 DEF Stage, Left, Lost, Late
  <2> QED
    BY <2>2, <2>3 DEF Contract!Next, Contract!contractvars, Contract!Runs, Contract!IsReady,
       Contract!ScanIsDone, Contract!Removes, Contract!Vanishes, Contract!Lands,
       AwsContract!Next, AwsContract!contractvars, AwsContract!Runs, AwsContract!IsReady,
       AwsContract!ScanIsDone, AwsContract!Removes, AwsContract!Vanishes, AwsContract!Lands
<1>4. CASE ~UsesAws /\ UsesCloud
  <2>1. ~UsesAws' /\ UsesCloud'
    BY <1>2, <1>4 DEF UsesAws, UsesCloud
  <2>2. [CloudContract!Next]_(CloudContract!contractvars)
    BY <1>1, CloudKeeps
  <2>3. /\ Stage = watcher /\ Left = CloudExists /\ Lost = (sent # {})
        /\ Late = (overdue # {})
        /\ Stage' = watcher' /\ Left' = CloudExists' /\ Lost' = (sent' # {})
        /\ Late' = (overdue' # {})
    BY <1>4, <2>1 DEF Stage, Left, Lost, Late
  <2> QED
    BY <2>2, <2>3 DEF Contract!Next, Contract!contractvars, Contract!Runs, Contract!IsReady,
       Contract!ScanIsDone, Contract!Removes, Contract!Vanishes, Contract!Lands,
       CloudContract!Next, CloudContract!contractvars, CloudContract!Runs,
       CloudContract!IsReady, CloudContract!ScanIsDone, CloudContract!Removes,
       CloudContract!Vanishes, CloudContract!Lands
<1>5. CASE ~UsesAws /\ ~UsesCloud
  <2>1. ~UsesAws' /\ ~UsesCloud'
    BY <1>2, <1>5 DEF UsesAws, UsesCloud
  <2>2. [ContainerContract!Next]_(ContainerContract!contractvars)
    BY <1>1, ContainerKeeps
  <2>3. /\ Stage = stage /\ Left = ContainerExists /\ Lost = FALSE /\ Late = FALSE
        /\ Stage' = stage' /\ Left' = ContainerExists' /\ Lost' = FALSE /\ Late' = FALSE
    BY <1>5, <2>1 DEF Stage, Left, Lost, Late
  <2> QED
    BY <2>2, <2>3 DEF Contract!Next, Contract!contractvars, Contract!Runs, Contract!IsReady,
       Contract!ScanIsDone, Contract!Removes, Contract!Vanishes, Contract!Lands,
       ContainerContract!Next, ContainerContract!contractvars, ContainerContract!Runs,
       ContainerContract!IsReady, ContainerContract!ScanIsDone, ContainerContract!Removes,
       ContainerContract!Vanishes, ContainerContract!Lands
<1> QED
  BY <1>3, <1>4, <1>5

LEMMA ScannedHolds == ProviderSpec => []AwsScanned
<1>1. ProviderInit => AwsScanned
  BY DEF ProviderInit, Init, AwsScanned
<1>2. AwsInv /\ AwsScanned /\ [ProviderNext]_providervars => AwsScanned'
  <2>1. [ProviderNext]_providervars => [Next]_vars
    BY DEF ProviderNext, providervars
  <2> QED
    BY <2>1, AwsScannedStep
<1> QED
  BY <1>1, <1>2, PartsHold, PTL DEF ProviderSpec

\* Every provider is what the AssetScan watcher takes it for: it makes nothing once
\* the watcher removes, nil of RunAssetScan means that something is there, nil of
\* RemoveAssetScan that nothing is, and what is gone stays gone.  The exception are
\* requests given up unanswered (provider/types.go:49-62).
THEOREM ContractIsKept == ProviderSpec => KeepsContract
<1>1. ProviderInit => Contract!Init
  BY DEF ProviderInit, Init, CloudInit, ContainerInit, Contract!Init, Stage, Left, Lost,
     Late, AwsExists, AwsLost, Listed, VolumeState, NoVolume, CloudExists, ContainerExists
<1>2. /\ AwsInv /\ CloudInv /\ ContainerInv /\ AwsScanned
      /\ AwsInv' /\ CloudInv' /\ ContainerInv' /\ AwsScanned'
      /\ [ProviderNext]_providervars
      => [Contract!Next]_(Contract!contractvars)
  BY ContractStep
<1> QED
  BY <1>1, <1>2, PartsHold, ScannedHolds, PTL DEF ProviderSpec, KeepsContract, Contract!Spec

\* What RemoveAssetScan has made an end of does not come back, however often the
\* watcher calls and whichever calls fail, once no request is on its way any more.
THEOREM NothingComesBackHolds == ProviderSpec => NothingComesBack
<1>1. ASSUME [Contract!Next]_(Contract!contractvars), Left',
             Stage \in {"remove", "removed", "failed"}
      PROVE  Left \/ Lost
  BY <1>1 DEF Contract!Next, Contract!contractvars, Contract!Runs, Contract!IsReady,
     Contract!ScanIsDone, Contract!Removes, Contract!Vanishes, Contract!Lands
<1>2. /\ AwsInv /\ CloudInv /\ ContainerInv /\ AwsScanned
      /\ AwsInv' /\ CloudInv' /\ ContainerInv' /\ AwsScanned'
      /\ [ProviderNext]_providervars
      => (Left' /\ Stage \in {"remove", "removed", "failed"} => Left \/ Lost)
  BY <1>1, ContractStep
<1> QED
  BY <1>2, PartsHold, ScannedHolds, PTL DEF ProviderSpec, NothingComesBack
=============================================================================
