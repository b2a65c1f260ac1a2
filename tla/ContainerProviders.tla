------------------------- MODULE ContainerProviders -------------------------
(***************************************************************************)
(* The providers for Docker and Kubernetes (provider/docker,               *)
(* provider/kubernetes).  Their requests are done when they are answered,  *)
(* so that no call is repeated because something is not ready: whatever    *)
(* goes wrong is fatal, and only a crash makes the watcher call again.     *)
(*                                                                         *)
(* Left out: images, the network the scanners share, the discoverers that  *)
(* export images and containers, and the formats of the configurations.    *)
(***************************************************************************)
EXTENDS ProviderCalls

VARIABLES runtime,  \* what NewProvider made: "docker", "kubernetes", or another
          there,    \* external: what there is of the AssetScan
          stage,    \* where the watcher is with the AssetScan
          request,  \* the next request of the call
          costs     \* faults so far

containervars == <<runtime, there, stage, request, costs>>

Things == {"volume", "contents", "helper", "container", "configuration", "scanner",
           "config map", "job", "pods"}

ContainerTypeOK ==
    /\ runtime \in {"docker", "kubernetes", "other"}
    /\ there \in SUBSET Things
    /\ stage \in Phases
    /\ request \in {"none", "VolumeList", "VolumeCreate", "HelperCreate", "CopyContents",
                    "HelperRemove", "HelperRemoveAfterError", "NetworkCreate",
                    "ContainerList", "ContainerCreate", "CopyConfiguration",
                    "ContainerStart", "ContainerRemove", "VolumeRemove",
                    "DiscovererList", "ConfigMapCreate", "JobCreate", "JobDelete",
                    "ConfigMapDelete"}
    /\ costs \in 0..MaxFaults
-----------------------------------------------------------------------------
Pays == costs < MaxFaults /\ costs' = costs + 1

Asks(next) == request' = next /\ UNCHANGED stage
Answers(errors) == request' = "none" /\ stage' = AfterCall(stage, errors)

\* What a request makes of the AssetScan's resources: what exists already, or
\* does not, is left as it is, and a volume that a container has is kept.
Effect ==
    CASE request = "VolumeCreate" -> there \cup {"volume"}
      [] request = "HelperCreate" -> there \cup {"helper"}
      [] request = "CopyContents" -> there \cup {"contents"}
      [] request \in {"HelperRemove", "HelperRemoveAfterError"} -> there \ {"helper"}
      [] request = "ContainerCreate" -> there \cup {"container"}
      [] request = "CopyConfiguration" -> there \cup {"configuration"}
      [] request = "ContainerStart" -> there \cup {"scanner"}
      [] request = "ContainerRemove" -> there \ {"container", "configuration", "scanner"}
      [] request = "VolumeRemove" /\ "helper" \notin there -> there \ {"volume", "contents"}
      [] request = "ConfigMapCreate" -> there \cup {"config map"}
      [] request = "JobCreate" /\ "job" \notin there -> there \cup {"job", "pods"}
      [] request = "JobDelete" -> there \ {"job"}
      [] request = "ConfigMapDelete" -> there \ {"config map"}
      [] OTHER -> there

CallBegins ==
    /\ request = "none"
    /\ \/ runtime = "docker" /\ stage = "run" /\ Asks("VolumeList")
       \/ runtime = "docker" /\ stage = "remove" /\ Asks("ContainerList")
       \/ runtime = "kubernetes" /\ stage = "run" /\ Asks("DiscovererList")
       \/ runtime = "kubernetes" /\ stage = "remove" /\ Asks("JobDelete")
    /\ UNCHANGED <<runtime, there, costs>>
-----------------------------------------------------------------------------
(* RunAssetScan of Docker.                                                 *)

\* prepareScanAssetVolume: a volume with the contents of the asset.  They are
\* copied by a container without a name, which is removed in any case.
PreparesVolume ==
    /\ \/ /\ request = "VolumeList"
          /\ Asks(IF "volume" \in there THEN "HelperCreate" ELSE "VolumeCreate")
       \/ request = "VolumeCreate" /\ Asks("HelperCreate")
       \/ request = "HelperCreate" /\ Asks("CopyContents")
       \/ request = "CopyContents" /\ Asks("HelperRemove")
       \/ request = "HelperRemove" /\ Asks("NetworkCreate")
       \/ request = "HelperRemoveAfterError" /\ Answers({"fatal"})
       \/ request = "NetworkCreate" /\ Asks("ContainerList")
    /\ there' = Effect
    /\ UNCHANGED <<runtime, costs>>

\* createScanContainer and the start.  A container that exists is taken as it is,
\* with its configuration or without.
CreatesContainer ==
    /\ \/ /\ stage = "run" /\ request = "ContainerList"
          /\ Asks(IF "container" \in there THEN "ContainerStart" ELSE "ContainerCreate")
       \/ /\ request = "ContainerCreate"
          /\ IF "container" \in there THEN Answers({"fatal"}) ELSE Asks("CopyConfiguration")
       \/ request = "CopyConfiguration" /\ Asks("ContainerStart")
       \/ request = "ContainerStart" /\ Answers({})
    /\ there' = Effect
    /\ UNCHANGED <<runtime, costs>>

\* RemoveAssetScan of Docker.  A container that is not there is an error.
RemovesContainer ==
    /\ \/ /\ stage = "remove" /\ request = "ContainerList"
          /\ IF "container" \in there THEN Asks("ContainerRemove") ELSE Answers({"fatal"})
       \/ request = "ContainerRemove" /\ Asks("VolumeRemove")
       \/ /\ request = "VolumeRemove"
          /\ Answers(IF "helper" \in there THEN {"fatal"} ELSE {})
    /\ there' = Effect
    /\ UNCHANGED <<runtime, costs>>
-----------------------------------------------------------------------------
(* Kubernetes.                                                             *)

\* runScannerJob, which is not idempotent, as its TODO says.
RunsJob ==
    /\ \/ request = "DiscovererList" /\ Asks("ConfigMapCreate")
       \/ /\ request = "ConfigMapCreate"
          /\ IF "config map" \in there THEN Answers({"fatal"}) ELSE Asks("JobCreate")
       \/ request = "JobCreate" /\ Answers(IF "job" \in there THEN {"fatal"} ELSE {})
    /\ there' = Effect
    /\ UNCHANGED <<runtime, costs>>

\* RemoveAssetScan: the pods of a job are deleted in the background, and what is
\* not found is no error.
DeletesJob ==
    /\ \/ request = "JobDelete" /\ Asks("ConfigMapDelete")
       \/ request = "ConfigMapDelete" /\ Answers({})
    /\ there' = Effect
    /\ UNCHANGED <<runtime, costs>>

\* External: the garbage collector.
PodsEnd ==
    /\ "pods" \in there
    /\ "job" \notin there
    /\ there' = there \ {"pods"}
    /\ UNCHANGED <<runtime, stage, request, costs>>
-----------------------------------------------------------------------------
FatalRequests ==
    {"VolumeList", "VolumeCreate", "HelperCreate", "HelperRemoveAfterError",
     "NetworkCreate", "ContainerList", "ContainerCreate", "CopyConfiguration",
     "ContainerStart", "ContainerRemove", "VolumeRemove", "ConfigMapCreate", "JobCreate"}

\* A request fails, acted on or not.  Some failures are only logged; while a helper
\* is there it is removed first; errors of Kubernetes are of no kind but in
\* runScannerJob.
RequestIsRefused ==
    /\ request # "none"
    /\ Pays
    /\ UNCHANGED there \/ there' = Effect
    /\ \/ request = "CopyContents" /\ Asks("HelperRemoveAfterError")
       \/ request = "HelperRemove" /\ Asks("NetworkCreate")
       \/ request = "ContainerList" /\ stage = "run" /\ Asks("ContainerCreate")
       \/ /\ request \in {"DiscovererList", "JobDelete", "ConfigMapDelete"}
          /\ Answers({"other"})
       \/ /\ request \in FatalRequests
          /\ request = "ContainerList" => stage = "remove"
          /\ Answers({"fatal"})
    /\ UNCHANGED runtime

\* The orchestrator stops in the middle of a call, its request acted on or not, or
\* what the call returns is not recorded.
CallIsCut ==
    /\ request # "none"
    /\ Pays
    /\ UNCHANGED there \/ there' = Effect
    /\ request' = "none"
    /\ UNCHANGED <<runtime, stage>>

\* A user aborts the AssetScan, or the scanner is done.
ScanIsOver ==
    /\ runtime # "other"
    /\ request = "none"
    /\ stage \in {"run", "scan"}
    /\ stage' = "remove"
    /\ UNCHANGED <<runtime, there, request, costs>>
-----------------------------------------------------------------------------
ContainerInit ==
    /\ runtime \in {"docker", "kubernetes", "other"}
    /\ there = {}
    /\ stage = "run"
    /\ request = "none"
    /\ costs = 0

ContainerNext ==
    \/ CallBegins \/ PreparesVolume \/ CreatesContainer \/ RemovesContainer
    \/ RunsJob \/ DeletesJob \/ PodsEnd
    \/ RequestIsRefused \/ CallIsCut \/ ScanIsOver

ContainerSpec == ContainerInit /\ [][ContainerNext]_containervars

\* The watcher calls, and the calls go on.
ContainerFairness ==
    WF_containervars(CallBegins \/ PreparesVolume \/ CreatesContainer \/ RemovesContainer
                     \/ RunsJob \/ DeletesJob)
-----------------------------------------------------------------------------
(* Properties.                                                             *)

\* nil means what the interface promises (provider/types.go:53, 59), with these
\* exceptions: after a crash between its creation and the copy of its
\* configuration a Docker container is started without one, and the pods of a
\* Kubernetes job are still being deleted.
ContainerResultIsTrue ==
    /\ stage = "scan" /\ runtime = "docker" =>
          /\ {"volume", "contents", "container", "scanner"} \subseteq there
          /\ "configuration" \in there \/ costs > 0
    /\ stage = "scan" /\ runtime = "kubernetes" => {"config map", "job"} \subseteq there
    /\ stage = "removed" => there \subseteq {"pods"}

\* A clean-up that no fault disturbs fails only in one case: Docker takes it for an
\* error that there is no container, although nothing is left to remove and the
\* interface asks for nil then (docker/provider.go:136-139, provider/types.go:59-60).
ContainerCleanupIsNotSpoilt ==
    stage = "failed" /\ costs = 0 => runtime = "docker" /\ there = {}

\* The calls end.
ContainerCallsEnd == runtime # "other" => []<>(stage \in {"scan", "removed", "failed"})
=============================================================================
