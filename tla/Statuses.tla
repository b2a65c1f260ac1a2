------------------------------- MODULE Statuses -------------------------------
(***************************************************************************)
(* The status state machines of api/types: which state may follow which in *)
(* a PATCH or PUT the API server accepts.  A Go map from a state to a list *)
(* is a set of pairs here.  A patch that repeats the stored status         *)
(* (Equals) is always accepted.                                            *)
(***************************************************************************)

ScanStates == {"Pending", "Discovered", "InProgress", "Aborted", "Failed", "Done"}

scanStatusStateTransitions ==
    {<<"Pending", "Discovered">>, <<"Pending", "Aborted">>,
     <<"Pending", "Failed">>, <<"Pending", "Done">>,
     <<"Discovered", "InProgress">>, <<"Discovered", "Aborted">>,
     <<"InProgress", "Aborted">>, <<"InProgress", "Failed">>, <<"InProgress", "Done">>,
     <<"Aborted", "Failed">>}

scanStatusReasonMapping ==
    {<<"Pending", "Created">>,
     <<"Discovered", "AssetsDiscovered">>,
     <<"InProgress", "AssetScansRunning">>,
     <<"Aborted", "Cancellation">>,
     <<"Failed", "Cancellation">>, <<"Failed", "Error">>, <<"Failed", "Timeout">>,
     <<"Done", "NothingToScan">>, <<"Done", "Success">>}

ScanStatuses == {[state |-> p[1], reason |-> p[2]] : p \in scanStatusReasonMapping}

\* ScanStatus.IsValidTransition; a status is [state, reason].
IsValidScanTransition(a, b) ==
    \/ a = b
    \/ /\ <<b.state, b.reason>> \in scanStatusReasonMapping
       /\ <<a.state, b.state>> \in scanStatusStateTransitions

AssetScanStates ==
    {"Pending", "Scheduled", "ReadyToScan", "InProgress", "Aborted", "Failed", "Done"}

assetScanStatusStateTransitions ==
    {<<"Pending", "Scheduled">>,
     <<"Scheduled", "ReadyToScan">>, <<"Scheduled", "Failed">>,
     <<"ReadyToScan", "InProgress">>, <<"ReadyToScan", "Failed">>,
     <<"ReadyToScan", "Aborted">>,
     <<"InProgress", "Done">>, <<"InProgress", "Failed">>, <<"InProgress", "Aborted">>,
     <<"Aborted", "Failed">>}

\* AssetScanStatus.IsValidTransition.  Two Failed statuses differ in reason or
\* message, so Failed over Failed is refused; every other state has one reason
\* and no message in the patches the system sends.
IsValidAssetScanTransition(a, b) ==
    \/ a = b /\ b # "Failed"
    \/ <<a, b>> \in assetScanStatusStateTransitions

CleanupStates == {"Pending", "Skipped", "Failed", "Done"}

resourceCleanupStatusStateTransitions ==
    {<<"Pending", "Skipped">>, <<"Pending", "Failed">>, <<"Pending", "Done">>}

IsValidCleanupTransition(a, b) ==
    a = b \/ <<a, b>> \in resourceCleanupStatusStateTransitions
=============================================================================
