---------------------------- MODULE AssetFindings ----------------------------
(***************************************************************************)
(* The AssetScan processor (orchestrator/processor/assetscan), which turns *)
(* the results of the AssetScans of one Asset into Findings of one type,   *)
(* beside the Discoverer, which writes the same Asset.  The eight types of *)
(* Findings are processed the same way, one after the other.               *)
(*                                                                         *)
(* AssetScans are numbered in the order in which they ended; a time is the *)
(* number of the AssetScan that ended then, 0 when there is none.          *)
(***************************************************************************)
EXTENDS AssetDiscovery, Integers, FiniteSetsExt

CONSTANTS Target,     \* the Asset that is scanned
          NScans,     \* number of AssetScans, all of which have ended
          Sec,        \* the second in which each of them did
          Keys,       \* what a scanner can find
          SubSecond   \* the database compares fractions of a second (Postgres)

Scans == 1..NScans

ASSUME FindingsAssumption ==
    /\ Target \in Assets
    /\ NScans \in Nat
    /\ Sec \in [Scans -> Nat]
    /\ \A s, t \in Scans : s < t => Sec[s] <= Sec[t]
    /\ SubSecond \in BOOLEAN

VARIABLES result,     \* what each AssetScan found; NoResult when the family failed
          findings,   \* the Findings the API server stores
          processed,  \* AssetScans marked findingsProcessed
          begun,      \* AssetScans whose Findings were ever worked on
          p,          \* the Reconcile in progress
          late,       \* POSTs of a Finding the processor no longer waits for
          landed      \* AssetScans such a POST arrived for

fvars == <<result, findings, processed, begun, p, late, landed>>
vars == <<dvars, faults, fvars>>

NoResult == {"none"}
Findings == [by : Scans, key : Keys, nth : 1..(MaxFaults + 1), invalidatedOn : 0..NScans]
Posts == [by : Scans, key : Keys, invalidatedOn : 0..NScans]

PIdle == [phase |-> "idle", scan |-> 0, stale |-> FALSE, newer |-> 0, existing |-> {},
          todo |-> {}, older |-> {}, seen |-> FALSE, count |-> 0]

TypeOK ==
    /\ DTypeOK
    /\ result \in [Scans -> (SUBSET Keys) \cup {NoResult}]
    /\ findings \subseteq Findings
    /\ processed \subseteq Scans
    /\ begun \subseteq Scans
    /\ p.phase \in {"idle", "newer", "existing", "write", "older", "invalidate",
                    "patch", "mark"}
    /\ p.scan \in Scans \cup {0}
    /\ p.newer \in {0} \cup Scans
    /\ p.older \subseteq Findings
    /\ late \subseteq Posts
    /\ landed \subseteq Scans
-----------------------------------------------------------------------------
\* The literal of a filter has no fraction of a second: Postgres compares it
\* with times that have one, SQLite drops it from both sides.
Newer(t, s) == IF SubSecond THEN Sec[t] >= Sec[s] ELSE Sec[t] > Sec[s]

\* Faulty variant: a Finding of the same second is older.
Older_SameSecond(t, s) == Sec[t] <= Sec[s]

Older(t, s) == Sec[t] < Sec[s]

Active == {f \in findings : f.invalidatedOn = 0}

\* GetAssetScan: what the Reconcile writes back at its end is read here.
PPicks(s) ==
    /\ p.phase = "idle"
    /\ s \notin processed
    /\ p' = [PIdle EXCEPT !.phase = IF result[s] = NoResult THEN "mark" ELSE "newer",
                          !.scan = s,
                          !.todo = IF result[s] = NoResult THEN {} ELSE result[s]]
    /\ begun' = IF result[s] = NoResult THEN begun ELSE begun \cup {s}
    /\ UNCHANGED <<dvars, faults, result, findings, processed, late, landed>>

\* Faulty variant: the newest Finding's time is taken.
PAsksNewer_Newest ==
    /\ p.phase = "newer"
    /\ LET newer == {f.by : f \in {g \in findings : Newer(g.by, p.scan)}} IN
       p' = [p EXCEPT !.phase = "existing", !.newer = Max(newer \cup {0})]
    /\ UNCHANGED <<dvars, faults, result, findings, processed, begun, late, landed>>

\* newerExistingFindingTime.
PAsksNewer ==
    /\ p.phase = "newer"
    /\ LET newer == {f.by : f \in {g \in findings : Newer(g.by, p.scan)}} IN
       p' = [p EXCEPT !.phase = "existing",
                      !.newer = IF newer = {} THEN 0 ELSE Min(newer)]
    /\ UNCHANGED <<dvars, faults, result, findings, processed, begun, late, landed>>

Own == {f \in findings : f.by = p.scan}

\* Faulty variant: an earlier attempt is an error.
PAsksExisting_Once ==
    /\ p.phase = "existing"
    /\ p' = IF Own # {} THEN PIdle ELSE [p EXCEPT !.phase = "write"]
    /\ UNCHANGED <<dvars, faults, result, findings, processed, begun, late, landed>>

\* Two Findings with one key are an error, on this attempt and on every other.
PAsksExisting ==
    /\ p.phase = "existing"
    /\ p' = IF \E f, g \in Own : f # g /\ f.key = g.key THEN PIdle
            ELSE [p EXCEPT !.phase = "write", !.existing = {f.key : f \in Own}]
    /\ UNCHANGED <<dvars, faults, result, findings, processed, begun, late, landed>>

\* POST of a Finding: the server checks nothing.
WithPosted(f) ==
    findings \cup {[by |-> f.by, key |-> f.key, invalidatedOn |-> f.invalidatedOn,
                    nth |-> 1 + Cardinality({g \in findings : g.by = f.by /\ g.key = f.key})]}

Posted(k) == [by |-> p.scan, key |-> k, invalidatedOn |-> p.newer]

\* PATCH of the Finding an earlier attempt created: a merge, so invalidatedOn
\* stays when the new value has none.
WithPatched(k) ==
    {IF f.by = p.scan /\ f.key = k /\ f.nth = 1 /\ p.newer # 0
     THEN [f EXCEPT !.invalidatedOn = p.newer] ELSE f : f \in findings}

\* Faulty variant: the Findings of an earlier attempt are created again.
PWrites_Again(k) ==
    /\ p.phase = "write"
    /\ k \in p.todo
    /\ findings' = WithPosted(Posted(k))
    /\ p' = [p EXCEPT !.todo = @ \ {k}]
    /\ UNCHANGED <<dvars, faults, result, processed, begun, late, landed>>

PWrites(k) ==
    /\ p.phase = "write"
    /\ k \in p.todo
    /\ findings' = IF k \in p.existing THEN WithPatched(k) ELSE WithPosted(Posted(k))
    /\ p' = [p EXCEPT !.todo = @ \ {k}]
    /\ UNCHANGED <<dvars, faults, result, processed, begun, late, landed>>

\* invalidateOlderFindingsByType: the query.
PAsksOlder ==
    /\ p.phase = "write"
    /\ p.todo = {}
    /\ p' = [p EXCEPT !.phase = "invalidate",
                      !.older = {f \in findings :
                                   /\ Older(f.by, p.scan)
                                   /\ \/ f.invalidatedOn = 0
                                      \/ Newer(f.invalidatedOn, p.scan)}]
    /\ UNCHANGED <<dvars, faults, result, findings, processed, begun, late, landed>>

\* ... and one PATCH for each.
PInvalidates(f) ==
    /\ p.phase = "invalidate"
    /\ f \in p.older
    /\ findings' = (findings \ {f}) \cup {[f EXCEPT !.invalidatedOn = p.scan]}
    /\ p' = [p EXCEPT !.older = @ \ {f}]
    /\ UNCHANGED <<dvars, faults, result, processed, begun, late, landed>>

\* Faulty variant: invalidated Findings are counted too.
PReadsAsset_CountsAll ==
    /\ p.phase = "invalidate"
    /\ p.older = {}
    /\ p' = [p EXCEPT !.phase = "patch", !.seen = asset[Target].seen,
                      !.count = Cardinality(findings)]
    /\ UNCHANGED <<dvars, faults, result, findings, processed, begun, late, landed>>

\* GetAsset, and the count of the active Findings.
PReadsAsset ==
    /\ p.phase = "invalidate"
    /\ p.older = {}
    /\ p' = [p EXCEPT !.phase = "patch", !.seen = asset[Target].seen,
                      !.count = Cardinality(Active)]
    /\ UNCHANGED <<dvars, faults, result, findings, processed, begun, late, landed>>

\* PATCH of the whole Asset that was read: lastSeen goes back with it.
PPatchesAsset ==
    /\ p.phase = "patch"
    /\ asset' = [asset EXCEPT ![Target].summary = p.count, ![Target].seen = p.seen]
    /\ d' = [d EXCEPT !.unsure = IF asset[Target].seen /\ ~p.seen
                                 THEN @ \cup {Target} ELSE @]
    /\ p' = [p EXCEPT !.phase = "mark"]
    /\ UNCHANGED <<present, faults, result, findings, processed, begun, late, landed>>

\* PATCH of the whole AssetScan that was read: refused when its cleanup has
\* moved on since.
PMarks ==
    /\ p.phase = "mark"
    /\ processed' = IF p.stale THEN processed ELSE processed \cup {p.scan}
    /\ p' = PIdle
    /\ UNCHANGED <<dvars, faults, result, findings, begun, late, landed>>

\* A call fails, Reconcile runs into its timeout, or the orchestrator restarts.
\* A POST that was sent may arrive all the same.
PGivesUp ==
    /\ p.phase # "idle"
    /\ Fault
    /\ late' \in {late} \cup
         {late \cup {Posted(k)} : k \in IF p.phase = "write" THEN p.todo \ p.existing
                                        ELSE {}}
    /\ p' = PIdle
    /\ UNCHANGED <<dvars, result, findings, processed, begun, landed>>

LatePostArrives ==
    /\ \E r \in late :
         /\ findings' = WithPosted(r)
         /\ late' = late \ {r}
         /\ landed' = landed \cup {r.by}
    /\ UNCHANGED <<dvars, faults, result, processed, begun, p>>

\* AssetScanLifecycle!Deprovision: the cleanup ends in the middle of a Reconcile.
CleanupEnds ==
    /\ p.phase # "idle"
    /\ Fault
    /\ p' = [p EXCEPT !.stale = TRUE]
    /\ UNCHANGED <<dvars, result, findings, processed, begun, late, landed>>

PStep ==
    \/ PAsksNewer \/ PAsksExisting \/ PAsksOlder \/ PReadsAsset \/ PPatchesAsset \/ PMarks
    \/ \E k \in Keys : PWrites(k)
    \/ \E f \in p.older : PInvalidates(f)

\* DStarts moves discoveryTime on: what was seen before it is not seen since,
\* in the copy the processor holds too.
Beside(DAction) ==
    /\ DAction
    /\ p' = IF d.phase = "idle" /\ d'.phase # "idle" THEN [p EXCEPT !.seen = FALSE] ELSE p
    /\ UNCHANGED <<result, findings, processed, begun, late, landed>>

\* The Target was scanned, so it was found.
Init ==
    /\ DiscoveryInit
    /\ asset[Target].exists
    /\ result \in [Scans -> (SUBSET Keys) \cup {NoResult}]
    /\ findings = {}
    /\ processed = {}
    /\ begun = {}
    /\ p = PIdle
    /\ late = {}
    /\ landed = {}

Processing ==
    \/ PStep \/ PGivesUp \/ LatePostArrives \/ CleanupEnds
    \/ \E s \in Scans : PPicks(s)

Next == Beside(DiscoveryNext) \/ Processing

Spec == Init /\ [][Next]_vars

\* The processor's steps only, with nothing else writing the Asset.
ProcessorSpec == Init /\ [][Processing]_vars

\* Fairness: the Discoverer and the processor's reconciler keep running, and its
\* queue, which is a FIFO the poller fills, does not pass over an AssetScan.
ProcessorFairness == WF_vars(PStep) /\ \A s \in Scans : SF_vars(PPicks(s))
FairProcessorSpec == ProcessorSpec /\ ProcessorFairness
FairSpec == Spec /\ ProcessorFairness /\ WF_vars(Beside(DStep))
-----------------------------------------------------------------------------
(* Properties.                                                             *)

\* No Reconcile is under way, or to be taken up again, and no POST arrived late.
Settled == p.phase = "idle" /\ begun \subseteq processed /\ landed = {}

EndedBefore(s, t) == Sec[s] < Sec[t]

\* The AssetScans whose Findings count for those of s: newer ones, and, when they
\* found anything, whichever was processed first.
Supersedes(t, s) == t \in processed /\ result[t] # NoResult /\ EndedBefore(s, t)

\* Every processed AssetScan has one Finding for each thing it found, however
\* often its Reconcile was interrupted and taken up again
\* (vulnerabilities.go:42-60, 103-117).
OneFindingPerResult ==
    \A s \in processed \ landed :
        result[s] # NoResult =>
            /\ {f.key : f \in {g \in findings : g.by = s}} = result[s]
            /\ \A f, g \in findings : f.by = s /\ g.by = s /\ f.key = g.key => f = g

\* AssetScans are processed in any order.  A Finding is invalidated at the time of
\* a newer AssetScan, none that found anything lies in between, and it is
\* invalidated once such a one is processed.  A newer AssetScan that found nothing
\* leaves no Finding to be seen by, and an older one processed after it stays
\* active, which the comment in newerExistingFindingTime does not expect
\* (common.go:31-86).
InvalidatedByTheNext ==
    Settled =>
        \A f \in findings :
            /\ f.invalidatedOn # 0 => EndedBefore(f.by, f.invalidatedOn)
            /\ \A t \in Scans : Supersedes(t, f.by) /\ result[t] # {} =>
                  /\ f.invalidatedOn # 0
                  /\ ~EndedBefore(t, f.invalidatedOn)

\* The Findings of an AssetScan stay active until a newer one is processed, the
\* retries of its own Reconcile included (common.go:64-66).
NewestStaysActive ==
    Settled =>
        \A f \in findings :
            f.invalidatedOn # 0 => \E t \in Scans : Supersedes(t, f.by)

\* The summary of the Asset counts the active Findings
\* (vulnerabilities.go:126-166).
SummaryIsRight ==
    Settled /\ begun # {} => asset[Target].summary = Cardinality(Active)

\* An asset is not terminated by a discovery that found it: neither when its
\* patch failed, nor when the processor wrote the Asset in between.  A POST or a
\* merge that fails, and a write of the processor that takes lastSeen back, do
\* terminate it (discoverer.go:116-183, vulnerabilities.go:128-166).
FoundIsNotTerminated ==
    [][\A a \in d.found \ d.unsure :
          asset'[a].terminated => asset[a].terminated]_vars

\* Every AssetScan is processed in the end, whatever fails on the way, unless a
\* late POST gave it two Findings with one key (processor.go:50-127, common.go:31-37).
EveryScanIsProcessed == \A s \in Scans : <>(s \in processed \cup landed)

\* An asset that is gone for good is terminated in the end
\* (discoverer.go:156-190).
GoneIsTerminated ==
    \A a \in Assets :
        <>[](a \notin present) => <>[](asset[a].exists => asset[a].terminated)
=============================================================================
