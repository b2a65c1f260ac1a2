--------------------------- MODULE CloudProviders ---------------------------
(***************************************************************************)
(* The providers for Azure and GCP (provider/azure, provider/gcp).  Both   *)
(* give the resources of an AssetScan names made of its id, and go through *)
(* them in a fixed order: each call to the provider does what it can, and  *)
(* asks to be repeated at the first resource that is not there yet, or not *)
(* gone yet.  The clouds work asynchronously, between the calls and        *)
(* between the steps of one.                                               *)
(*                                                                         *)
(* Names, sizes, images and user data are left out.                        *)
(***************************************************************************)
EXTENDS ProviderCalls, Sequences

VARIABLES cloud,       \* what NewProvider made: "azure", "gcp", or another
          away,        \* Azure: the asset is in another region than the scanners
          resource,    \* external: the state of the one resource of each kind
          attachment,  \* external: whether the disk is at the machine
          sent,        \* external: kinds with a request that was given up
          overdue,     \* kinds of which one was created by such a request
          watcher,     \* where the watcher is with the AssetScan
          step,        \* the call to the cloud that is next, its place in the order, and
               \*   the error of the last one that ended
          spent        \* faults so far

outside == <<cloud, away, sent, overdue, spent>>
cloudvars == <<outside, resource, attachment, watcher, step>>

Kinds == {"snapshot", "blob", "disk", "interface", "machine"}
CloudCalls == {"idle", "Get", "Create", "Revoke", "Attach", "Check", "Abort", "Delete"}
Steps == [op : CloudCalls, n : 0..5, listed : {"attached", "no"}, errs : SUBSET Errors]
Call(op, n) == [op |-> op, n |-> n, listed |-> "no", errs |-> {}]

CloudTypeOK ==
    /\ cloud \in {"azure", "gcp", "other"}
    /\ away \in BOOLEAN
    /\ away => cloud = "azure"
    /\ resource \in [Kinds -> {"none", "creating", "ready", "failed", "deleting"}]
    /\ attachment \in {"no", "attaching", "attached"}
    /\ sent \in SUBSET Kinds
    /\ overdue \in SUBSET Kinds
    /\ watcher \in Phases
    /\ step \in Steps
    /\ spent \in 0..MaxFaults
-----------------------------------------------------------------------------
\* RunAssetScan goes through these in order ...
RunOrder ==
    IF cloud = "gcp" THEN <<"snapshot", "disk", "machine">>
    ELSE IF away THEN <<"snapshot", "blob", "disk", "interface", "machine">>
    ELSE <<"snapshot", "disk", "interface", "machine">>

\* Faulty variant: the disk first.
RemoveOrder_DiskFirst ==
    IF cloud = "gcp" THEN <<"disk", "machine", "snapshot">>
    ELSE <<"disk", "machine", "interface", "blob", "snapshot">>

\* ... and RemoveAssetScan through these.
RemoveOrder ==
    IF cloud = "gcp" THEN <<"machine", "disk", "snapshot">>
    ELSE <<"machine", "interface", "disk", "blob", "snapshot">>

Order == IF watcher = "run" THEN RunOrder ELSE RemoveOrder
Kind == Order[step.n]
Exists == resource[Kind] # "none"

Spend == spent < MaxFaults /\ spent' = spent + 1

Proceeds(op) == step' = Call(op, step.n) /\ UNCHANGED watcher
NextResource == step' = Call("Get", step.n + 1) /\ UNCHANGED watcher
Finishes(errors) ==
    /\ step' = [op |-> "idle", n |-> 0, listed |-> "no", errs |-> errors]
    /\ watcher' = AfterCall(watcher, errors)

Starts ==
    /\ cloud # "other"
    /\ watcher \in {"run", "remove"}
    /\ step.op = "idle"
    /\ step' = Call("Get", 1)
    /\ UNCHANGED <<outside, resource, attachment, watcher>>
-----------------------------------------------------------------------------
(* RunAssetScan.                                                           *)

\* ensureSnapshot..., ensureDisk..., ensureBlobFromSnapshot, ensureNetworkInterface
\* and ensureScannerVirtualMachine begin alike.  A resource that went wrong is
\* waited for like one that is being made.
EnsureGets ==
    /\ watcher = "run"
    /\ step.op = "Get"
    /\ IF ~Exists THEN Proceeds("Create")
       ELSE IF resource[Kind] # "ready" THEN Finishes({"retryable"})
       ELSE IF Kind = "blob" THEN Proceeds("Revoke")
       ELSE IF step.n < Len(RunOrder) THEN NextResource
       ELSE /\ step' = [op |-> "Attach", n |-> step.n, errs |-> {},
                         listed |-> IF attachment = "attached" THEN "attached" ELSE "no"]
            /\ UNCHANGED watcher
    /\ UNCHANGED <<outside, resource, attachment>>

\* Azure creates or updates; GCP, and the copy of a blob, refuse what exists.
EnsureCreates ==
    /\ step.op = "Create"
    /\ IF Exists /\ (cloud = "gcp" \/ Kind = "blob")
       THEN Finishes({"fatal"}) /\ UNCHANGED resource
       ELSE Finishes({"retryable"}) /\ resource' = [resource EXCEPT ![Kind] = "creating"]
    /\ UNCHANGED <<outside, attachment>>

\* The blob is there: the access to the snapshot is revoked, in every call anew.
EnsureRevokes ==
    /\ step.op = "Revoke"
    /\ NextResource
    /\ UNCHANGED <<outside, resource, attachment>>

\* ensureDiskAttachedToScannerVM.  On Azure two pointers to the id of the disk are
\* compared, which differ: the machine is updated in every call.
EnsureAttaches ==
    /\ step.op = "Attach"
    /\ \/ /\ cloud = "azure"
          /\ attachment' = IF attachment = "no" THEN "attaching" ELSE attachment
          /\ resource' = [resource EXCEPT !["machine"] = "creating"]
          /\ Proceeds("Check")
       \/ /\ cloud = "gcp" /\ step.listed = "attached"
          /\ Proceeds("Check")
          /\ UNCHANGED <<resource, attachment>>
       \/ /\ cloud = "gcp" /\ step.listed = "no" /\ attachment = "no"
          /\ attachment' = "attaching"
          /\ Proceeds("Check")
          /\ UNCHANGED resource
       \/ /\ cloud = "gcp" /\ step.listed = "no" /\ attachment # "no"
          /\ Finishes({"fatal"})
          /\ UNCHANGED <<resource, attachment>>
    /\ UNCHANGED outside

\* Faulty variant: the machine has to be up to date, too.
EnsureChecks_Machine ==
    /\ step.op = "Check"
    /\ IF attachment = "attached" /\ resource["machine"] = "ready"
       THEN Finishes({}) ELSE Finishes({"retryable"})
    /\ UNCHANGED <<outside, resource, attachment>>

\* Azure tells from the state of the disk whether it is attached; the state of a
\* disk on GCP does not say that, a disk is READY once it is made.
EnsureChecks ==
    /\ step.op = "Check"
    /\ IF IF cloud = "azure" THEN attachment = "attached" ELSE resource["disk"] = "ready"
       THEN Finishes({}) ELSE Finishes({"retryable"})
    /\ UNCHANGED <<outside, resource, attachment>>
-----------------------------------------------------------------------------
(* RemoveAssetScan.                                                        *)

\* The resource is looked for, and the next one's turn comes when it is gone.
DeleteGets ==
    /\ watcher = "remove"
    /\ step.op = "Get"
    /\ IF Exists
       THEN Proceeds(IF Kind = "blob" /\ resource["blob"] = "creating"
                     THEN "Abort" ELSE "Delete")
       ELSE IF step.n < Len(RemoveOrder) THEN NextResource ELSE Finishes({})
    /\ UNCHANGED <<outside, resource, attachment>>

\* ensureBlobDeleted aborts a copy, which is refused when it has ended meanwhile.
DeleteAborts ==
    /\ step.op = "Abort"
    /\ IF resource["blob"] = "creating"
       THEN Finishes({"retryable"}) /\ resource' = [resource EXCEPT !["blob"] = "failed"]
       ELSE Finishes({"fatal"}) /\ UNCHANGED resource
    /\ UNCHANGED <<outside, attachment>>

\* ensureDeleted.  What is gone by now is not found: Azure accepts that, GCP says
\* 404, which is an error like any other here.  A disk at a machine is refused.
DeleteDeletes ==
    /\ step.op = "Delete"
    /\ IF (~Exists /\ cloud = "gcp") \/ (Kind = "disk" /\ attachment # "no")
       THEN Finishes({"fatal"}) /\ UNCHANGED resource
       ELSE /\ Finishes({"retryable"})
            /\ resource' = [resource EXCEPT
                  ![Kind] = IF ~Exists \/ Kind = "blob" THEN "none" ELSE "deleting"]
    /\ UNCHANGED <<outside, attachment>>
-----------------------------------------------------------------------------
\* handleAzureRequestError, handleGcpRequestError: what the cloud refuses, and
\* what does not reach it, is fatal.
RequestFails ==
    /\ step.op # "idle"
    /\ Spend
    /\ Finishes({"fatal"})
    /\ UNCHANGED <<cloud, away, sent, overdue, resource, attachment>>

\* ... its own errors (5xx) are of no kind.
ServerFails ==
    /\ step.op # "idle"
    /\ Spend
    /\ Finishes({"other"})
    /\ UNCHANGED <<cloud, away, sent, overdue, resource, attachment>>

\* The answer is not waited for any longer; the request may be acted on later.
CreateIsLost ==
    /\ step.op = "Create"
    /\ Spend
    /\ sent' = sent \cup {Kind}
    /\ Finishes({"fatal"})
    /\ UNCHANGED <<cloud, away, overdue, resource, attachment>>

\* The orchestrator stops in the middle of a call, or what the call returns is not
\* recorded; a request that is on its way may be acted on later.
Stops ==
    /\ step.op # "idle"
    /\ Spend
    /\ UNCHANGED sent \/ (step.op = "Create" /\ sent' = sent \cup {Kind})
    /\ step' = Call("idle", 0)
    /\ UNCHANGED <<cloud, away, overdue, resource, attachment, watcher>>

\* A user aborts the AssetScan, or the scanner is done.
IsOver ==
    /\ cloud # "other"
    /\ watcher \in {"run", "scan"}
    /\ step.op = "idle"
    /\ watcher' = "remove"
    /\ UNCHANGED <<outside, resource, attachment, step>>
-----------------------------------------------------------------------------
(* The clouds, external.                                                   *)

SentLands(k) ==
    /\ k \in sent
    /\ sent' = sent \ {k}
    /\ IF resource[k] = "none"
       THEN resource' = [resource EXCEPT ![k] = "creating"] /\ overdue' = overdue \cup {k}
       ELSE UNCHANGED <<resource, overdue>>
    /\ UNCHANGED <<cloud, away, attachment, watcher, step, spent>>

CreationEnds(k) ==
    /\ resource[k] = "creating"
    /\ resource' = [resource EXCEPT ![k] = "ready"]
    /\ UNCHANGED <<outside, attachment, watcher, step>>

CreationFails(k) ==
    /\ resource[k] = "creating"
    /\ Spend
    /\ resource' = [resource EXCEPT ![k] = "failed"]
    /\ UNCHANGED <<cloud, away, sent, overdue, attachment, watcher, step>>

AttachmentEnds ==
    /\ attachment = "attaching"
    /\ attachment' = "attached"
    /\ UNCHANGED <<outside, resource, watcher, step>>

AttachmentFails ==
    /\ attachment = "attaching"
    /\ Spend
    /\ attachment' = "no"
    /\ UNCHANGED <<cloud, away, sent, overdue, resource, watcher, step>>

\* ... and with a machine its disks are free.
DeletionEnds(k) ==
    /\ resource[k] = "deleting"
    /\ resource' = [resource EXCEPT ![k] = "none"]
    /\ attachment' = IF k = "machine" THEN "no" ELSE attachment
    /\ UNCHANGED <<outside, watcher, step>>
-----------------------------------------------------------------------------
CloudInit ==
    /\ cloud \in {"azure", "gcp", "other"}
    /\ away \in BOOLEAN
    /\ away => cloud = "azure"
    /\ resource = [k \in Kinds |-> "none"]
    /\ attachment = "no"
    /\ sent = {}
    /\ overdue = {}
    /\ watcher = "run"
    /\ step = Call("idle", 0)
    /\ spent = 0

Ensures == EnsureGets \/ EnsureCreates \/ EnsureRevokes \/ EnsureAttaches \/ EnsureChecks
Deletes == DeleteGets \/ DeleteAborts \/ DeleteDeletes

CloudNext ==
    \/ Starts \/ Ensures \/ Deletes
    \/ RequestFails \/ ServerFails \/ CreateIsLost \/ Stops \/ IsOver
    \/ AttachmentEnds \/ AttachmentFails
    \/ \E k \in Kinds :
         SentLands(k) \/ CreationEnds(k) \/ CreationFails(k) \/ DeletionEnds(k)

CloudSpec == CloudInit /\ [][CloudNext]_cloudvars

\* The watcher calls again, calls go on, and what a cloud has begun ends.
CloudFairness ==
    /\ WF_cloudvars(Starts \/ Ensures \/ Deletes)
    /\ WF_cloudvars(AttachmentEnds)
    /\ \A k \in Kinds : WF_cloudvars(CreationEnds(k)) /\ WF_cloudvars(DeletionEnds(k))
-----------------------------------------------------------------------------
(* Properties.                                                             *)

\* nil means what the interface promises (provider/types.go:53, 59).  After
\* RunAssetScan every resource is there and the disk at the machine, on GCP only
\* on its way; after RemoveAssetScan none is left, but what the cloud made of a
\* request after it was given up.
CloudResultIsTrue ==
    /\ watcher = "scan" =>
          /\ \A i \in 1..Len(RunOrder) : resource[RunOrder[i]] # "none"
          /\ attachment = "attached" \/ cloud = "gcp"
          /\ attachment = "no" => spent > 0
    /\ watcher = "removed" => \A k \in Kinds : resource[k] = "none" \/ k \in overdue

\* A clean-up is given up for good only after a fault, whenever the scan was
\* aborted and in whatever state that found the resources.  Two races can spoil
\* it: a GCP resource, or the copy of a blob, that is gone or complete by the time
\* it is deleted or aborted (gcp/common.go:67-69, azure/blob.go:129-133).
CloudCleanupIsNotSpoilt == watcher = "failed" /\ spent = 0 => cloud = "gcp" \/ away

\* The calls are repeated until they succeed or fail for good, and that comes,
\* unless a resource goes wrong while it is made: that is waited for until the
\* AssetScan is aborted (azure/snapshot.go:41-44 and the like).
CloudCallsEnd ==
    cloud # "other" =>
    []<>(\/ watcher \in {"scan", "removed", "failed"}
         \/ watcher = "run" /\ \E k \in Kinds : resource[k] = "failed")

\* "Everything else is a normal error which can be logged as a failure and then
\* the reconciler will try again on the next loop" (azure/common.go:47-49,
\* gcp/common.go:45-47): after an error of the server the watcher calls again.
ServerErrorIsRetried == [][step'.errs = {"other"} => watcher' = watcher]_cloudvars
=============================================================================
