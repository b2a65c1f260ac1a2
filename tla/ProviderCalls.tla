---------------------------- MODULE ProviderCalls ----------------------------
(***************************************************************************)
(* What the providers share: the AssetScan watcher calls RunAssetScan of   *)
(* the provider until it succeeds or fails, and RemoveAssetScan likewise,  *)
(* and goes by the kind of the error (provider/errors.go).                 *)
(***************************************************************************)
EXTENDS Naturals

CONSTANT MaxFaults   \* bound on failing calls, interruptions and crashes

ASSUME ProviderAssumption == MaxFaults \in Nat

Phases == {"run", "scan", "remove", "removed", "failed"}
Errors == {"fatal", "retryable", "other"}

\* What the watcher makes of the errors a call returned: of several the worst
\* counts, and an error of no kind counts as one that will not pass.
AfterCall(now, errors) ==
    IF now = "run" THEN
        IF errors = {} THEN "scan"
        ELSE IF errors \subseteq {"retryable"} THEN "run" ELSE "remove"
    ELSE
        IF errors = {} THEN "removed"
        ELSE IF "fatal" \in errors THEN "failed"
        ELSE IF "retryable" \in errors THEN "remove" ELSE "failed"
=============================================================================
