------------------------------ MODULE Providers ------------------------------
(***************************************************************************)
(* The provider the orchestrator is configured with (NewProvider in        *)
(* orchestrator/provider.go): AWS, Azure, GCP, Docker or Kubernetes.  The  *)
(* AssetScan watcher drives whichever it is in the same way; the state of  *)
(* the others does not move.                                               *)
(*                                                                         *)
(* A provider of another process is not modelled (provider/external), it   *)
(* does what the plugin does.                                              *)
(***************************************************************************)
EXTENDS AwsProvider, CloudProviders, ContainerProviders

UsesAws == cloud = "other" /\ runtime = "other"

ProviderInit ==
    /\ Init
    /\ CloudInit
    /\ ContainerInit
    /\ cloud = "other" \/ runtime = "other"
    /\ remote => UsesAws

ProviderNext ==
    \/ UsesAws /\ Next /\ UNCHANGED <<cloudvars, containervars>>
    \/ CloudNext /\ UNCHANGED <<vars, containervars>>
    \/ ContainerNext /\ UNCHANGED <<vars, cloudvars>>

providervars == <<vars, cloudvars, containervars>>

ProviderSpec == ProviderInit /\ [][ProviderNext]_providervars

\* Fairness: that of the provider in use.
ProviderFairSpec ==
    /\ ProviderSpec
    /\ WF_vars(UsesAws /\ Works)
    /\ WF_vars(UsesAws /\ \E i \in Ids : Progresses(i))
    /\ CloudFairness
    /\ ContainerFairness
-----------------------------------------------------------------------------
(* The contract of the providers, as each of them keeps it.  The pods of a *)
(* Kubernetes job are no resource of the AssetScan's: RemoveAssetScan      *)
(* leaves them to the cluster.                                             *)

AwsExists ==
    Listed(instance) \cup Listed(snapshot) \cup Listed(copy) \cup Listed(VolumeState) # {}
AwsLost == \E i \in Ids : "sent" \in {instance[i], snapshot[i], copy[i], volume[i].st}
CloudExists == \E k \in Kinds : resource[k] # "none"
ContainerExists == there \ {"pods"} # {}

AwsContract == INSTANCE ProviderContract WITH
    stage <- phase, exists <- AwsExists, lost <- AwsLost, late <- landed # {}
CloudContract == INSTANCE ProviderContract WITH
    stage <- watcher, exists <- CloudExists, lost <- sent # {}, late <- overdue # {}
ContainerContract == INSTANCE ProviderContract WITH
    stage <- stage, exists <- ContainerExists, lost <- FALSE, late <- FALSE

\* The watcher's view of the provider in use.
UsesCloud == cloud # "other"
Stage == IF UsesAws THEN phase ELSE IF UsesCloud THEN watcher ELSE stage
Left == IF UsesAws THEN AwsExists ELSE IF UsesCloud THEN CloudExists ELSE ContainerExists
Lost == IF UsesAws THEN AwsLost ELSE UsesCloud /\ sent # {}
Late == IF UsesAws THEN landed # {} ELSE UsesCloud /\ overdue # {}

Contract == INSTANCE ProviderContract WITH
    stage <- Stage, exists <- Left, lost <- Lost, late <- Late
-----------------------------------------------------------------------------
(* Properties.                                                             *)

\* Every provider does what the AssetScan watcher takes for granted: it makes
\* nothing once the watcher removes, and nil means ready, or all gone
\* (provider/types.go:49-62).
KeepsContract == Contract!Spec

\* What RemoveAssetScan has made an end of does not come back, no matter how often
\* the watcher calls and which calls fail, once no request is on its way any more.
NothingComesBack ==
    [][Left' /\ Stage \in {"remove", "removed", "failed"} => Left \/ Lost]_providervars

\* nil means what the interface promises, exactly as far as each provider keeps
\* to it: AwsResultIsTrue, CloudResultIsTrue and ContainerResultIsTrue say how
\* far that is (provider/types.go:50-60).
ResultIsTrue == AwsResultIsTrue /\ CloudResultIsTrue /\ ContainerResultIsTrue

\* Whatever the provider and wherever the AssetScan is aborted, a clean-up that no
\* fault disturbs is not given up, but for the races of GCP and of the blob of
\* Azure, and Docker's clean-up of nothing.
CleanupIsNotSpoilt == CloudCleanupIsNotSpoilt /\ ContainerCleanupIsNotSpoilt

\* The calls are repeated until they succeed or fail for good, and that comes
\* (watcher/assetscan/watcher.go:272-298, 377-405).
CallsEnd == (UsesAws => AwsCallsEnd) /\ CloudCallsEnd /\ ContainerCallsEnd
=============================================================================
