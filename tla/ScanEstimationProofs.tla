------------------------- MODULE ScanEstimationProofs -------------------------
(***************************************************************************)
(* What the last state of a ScanEstimation says is true, for any number of *)
(* assets and faults.  The watcher's Reconcile takes several steps, and    *)
(* meanwhile a ScanEstimation can only be aborted, or fail in Reconcile's  *)
(* own timeout: Follows says which states it may be in at each step, and   *)
(* what Posted, Summed and Aborting say of the AssetScanEstimations is     *)
(* conditional on it.                                                      *)
(***************************************************************************)
EXTENDS ScanEstimation, TLAPS

SwRecords == [phase : {"idle", "timeout", "create", "sum", "abort"} \cup (States \ {"Gone"}),
              held : Estimations, todo : SUBSET Assets, failed : BOOLEAN, to : States]
AwRecords == [phase : {"idle", "Pending", "Aborted", "Failed", "Done", "patch"},
              asset : {{}} \cup {{a} : a \in Assets},
              to : JobStates]
JobRecords == [state : JobStates, kept : BOOLEAN, expired : BOOLEAN]

\* Nothing is Gone while Reconcile works on it, and a sum is patched for one of
\* three states.
SwTypes ==
    /\ sw \in SwRecords
    /\ sw.held.state # "Gone"
    /\ sw.phase = "sum" => sw.to \in {"InProgress", "Done", "Failed"}

AwTypes ==
    /\ aw \in AwRecords
    /\ aw.phase = "patch" => aw.to \in Finished

Types ==
    /\ se \in Estimations
    /\ job \in [Assets -> JobRecords]
    /\ SwTypes
    /\ AwTypes
    /\ missed \in SUBSET Assets
    /\ faults \in 0..MaxFaults

\* What the ScanEstimation may be by now, at each step of a Reconcile.
StatesAt(phase) ==
    CASE phase = "Pending" -> {"Pending", "Aborted", "Failed"}
      [] phase \in {"Discovered", "create"} -> {"Discovered", "Aborted", "Failed"}
      [] phase \in {"InProgress", "sum"} -> {"InProgress", "Aborted", "Failed"}
      [] phase \in {"Aborted", "abort"} -> {"Aborted", "Failed"}
      [] phase \in Finished -> Finished
      [] phase = "timeout" -> States \ {"Gone"}
      [] OTHER -> States

Follows ==
    /\ se.state \in StatesAt(sw.phase)
    /\ sw.phase # "idle" => sw.held.assets = se.assets

\* An AssetScanEstimation that is aborted tells that its ScanEstimation was.
OnlyAborted ==
    \A a \in Assets : job[a].state = "Aborted" => se.state \in {"Aborted", "Failed", "Gone"}

\* An asset has its AssetScanEstimation when Reconcile has posted it.
Posted ==
    /\ sw.phase = "create" /\ ~sw.failed =>
         \A a \in sw.held.assets \ sw.todo : job[a].state # "None"
    /\ se.state = "InProgress" => \A a \in se.assets : job[a].state # "None"

\* A sum that is all Done stays so until it is patched.
Summed ==
    sw.phase = "sum" /\ sw.to = "Done" /\ se.state = "InProgress" =>
        \A a \in se.assets : job[a].state \in {"Done", "Gone"}

\* What is left to estimate while an abort goes on; when it is over the watcher
\* has nothing to create.
Aborting ==
    /\ sw.phase = "abort" /\ ~sw.failed => JobsIn({"Pending"}) \subseteq missed \cup sw.todo
    /\ se.state = "Failed" /\ se.reason = "Aborted" =>
         sw.phase \in {"idle", "timeout"} \cup Finished

Inv ==
    /\ Types /\ Follows /\ OnlyAborted /\ Posted /\ Summed /\ Aborting
    /\ SuccessMeansAllEstimated /\ AbortReachesAll
-----------------------------------------------------------------------------
(* Types.                                                                  *)

LEMMA IdleTypes ==
    /\ SwIdle \in SwRecords /\ SwIdle.phase = "idle" /\ SwIdle.held.state = "Pending"
    /\ AwIdle \in AwRecords /\ AwIdle.phase = "idle"
    /\ \A p \in BOOLEAN : Created(p) \in Estimations
BY DEF SwIdle, AwIdle, Created, SwRecords, AwRecords, Estimations, States, Reasons, JobStates

LEMMA InitInv == Init => Inv
<1> SUFFICES ASSUME Init
             PROVE  Inv
  OBVIOUS
<1>1. se \in Estimations /\ se.state = "Pending"
  BY IdleTypes DEF Init, Created
<1>2. job \in [Assets -> JobRecords] /\ \A a \in Assets : job[a].state = "None"
  BY DEF Init, JobRecords, JobStates
<1>3. Types
  BY <1>1, <1>2, IdleTypes, EstimationAssumption DEF Init, Types, SwTypes, AwTypes
<1>4. sw.phase = "idle"
  BY IdleTypes DEF Init
<1> QED BY <1>1, <1>2, <1>3, <1>4
        DEF Inv, Follows, StatesAt, States, Finished, OnlyAborted, Posted, Summed, Aborting,
            SuccessMeansAllEstimated, AbortReachesAll

\* What the server lets a ScanEstimation become.
LEMMA Moves ==
    ASSUME NEW state, NEW reason, Accepts(state, reason)
    PROVE  /\ se.state = "Aborted" => state \in {"Aborted", "Failed"}
           /\ se.state \in Finished \cup {"Gone"} => state = se.state /\ reason = se.reason
           /\ state = "Pending" => se.state = "Pending"
           /\ state = "Discovered" => se.state \in {"Pending", "Discovered"}
           /\ state = "InProgress" => se.state \in {"Discovered", "InProgress"}
           /\ state = "Done" => se.state \in {"Pending", "InProgress", "Done"}
BY DEF Accepts, scanEstimationStatusStateTransitions, Finished

LEMMA JobMoves ==
    ASSUME NEW a, NEW state, AcceptsJob(a, state)
    PROVE  /\ job[a].state \in {"None", "Gone", "Done"} => state = job[a].state
           /\ state \in Finished => job[a].state \in {"Pending", state}
           /\ state = "Aborted" => job[a].state \in {"Pending", "Failed", "Aborted"}
BY DEF AcceptsJob, assetScanEstimationStatusStateTransitions, Finished

\* Reconcile ends with a patch.
LEMMA PatchTypes ==
    ASSUME Types, NEW new \in Estimations, SPatches(new)
    PROVE  se' \in Estimations /\ SwTypes'
BY IdleTypes DEF SPatches, Types, SwTypes

LEMMA FaultType ==
    ASSUME faults \in 0..MaxFaults, Fault
    PROVE  faults' \in 0..MaxFaults
BY EstimationAssumption DEF Fault

LEMMA SStepTypes ==
    ASSUME Types, SStep \/ SGivesUp \/ \E a \in Assets : SCallFails(a) \/ SMisses(a)
    PROVE  Types'
<1> USE DEF Types
<1>0. se \in Estimations /\ se.state \in States /\ se.assets \in SUBSET Assets
  BY DEF Estimations
<1>i. SwIdle \in SwRecords /\ SwIdle.phase = "idle" /\ SwIdle.held.state # "Gone"
  BY IdleTypes
<1>1. CASE SGet
  <2>1. sw' \in SwRecords /\ sw'.held = se /\ sw'.phase \in {"timeout", se.state}
    BY <1>1, <1>0, <1>i DEF SGet, SwRecords
  <2> QED BY <1>1, <1>0, <2>1 DEF SGet, SwTypes, States, AwTypes
<1>2. CASE STimesOut
  <2>1. se' \in Estimations
    <3>1. "Failed" \in States /\ "Timeout" \in Reasons
      BY DEF States, Reasons
    <3>2. [se EXCEPT !.state = "Failed", !.reason = "Timeout"] \in Estimations
      BY <1>0, <3>1 DEF Estimations
    <3> QED BY <1>2, <1>0, <3>2 DEF STimesOut
  <2>2. SwTypes'
    <3>1. sw.held.state \in States \ {"Gone"}
      BY DEF SwTypes, SwRecords, Estimations
    <3>2. CASE sw' = SwIdle
      BY <1>i, <3>2 DEF SwTypes
    <3>3. CASE sw' = [sw EXCEPT !.phase = sw.held.state]
      <4>1. sw' \in SwRecords
        BY <3>1, <3>3 DEF SwTypes, SwRecords
      <4>2. sw'.phase # "sum" /\ sw'.held = sw.held
        BY <3>1, <3>3 DEF SwTypes, SwRecords, States
      <4> QED BY <4>1, <4>2 DEF SwTypes
    <3> QED BY <1>2, <3>2, <3>3 DEF STimesOut
  <2> QED BY <1>2, <2>1, <2>2 DEF STimesOut, AwTypes
<1>3. CASE SDiscovers
  <2>1. PICK assets \in SUBSET Assets :
           SPatches([se EXCEPT
                     !.state = IF assets = {} THEN "Done" ELSE "Discovered",
                     !.reason = IF assets = {} THEN "NothingToEstimate"
                                ELSE "SuccessfulDiscovery",
                     !.assets = assets, !.started = TRUE])
    BY <1>3 DEF SDiscovers
  <2> DEFINE new == [se EXCEPT
                     !.state = IF assets = {} THEN "Done" ELSE "Discovered",
                     !.reason = IF assets = {} THEN "NothingToEstimate"
                                ELSE "SuccessfulDiscovery",
                     !.assets = assets, !.started = TRUE]
  <2>2. new \in Estimations
    BY <1>0 DEF Estimations, States, Reasons
  <2> HIDE DEF new
  <2>3. se' \in Estimations /\ SwTypes'
    BY <2>1, <2>2, PatchTypes DEF new
  <2> QED BY <1>3, <2>3 DEF SDiscovers, AwTypes
<1>4. CASE SCreates
  BY <1>4, <1>0 DEF SCreates, SwTypes, SwRecords, Estimations, AwTypes
<1>5. CASE \E a \in Assets : SPosts(a)
  <2>1. PICK a \in Assets : SPosts(a)
    BY <1>5
  <2>2. SwTypes'
    BY <2>1 DEF SPosts, SwTypes, SwRecords
  <2>3. job' \in [Assets -> JobRecords]
    BY <2>1 DEF SPosts, WithJob, JobRecords, JobStates
  <2> QED BY <2>1, <2>2, <2>3 DEF SPosts, AwTypes
<1>6. CASE \E a \in Assets : SCallFails(a)
  <2>1. SwTypes' /\ AwTypes'
    BY <1>6 DEF SCallFails, SwTypes, SwRecords, AwTypes
  <2>2. faults' \in 0..MaxFaults
    BY <1>6, FaultType DEF SCallFails
  <2>3. PICK a \in Assets : SCallFails(a)
    BY <1>6
  <2>4. job' \in [Assets -> JobRecords]
    <3>1. CASE UNCHANGED job
      BY <3>1
    <3>2. CASE job' = WithJob(a)
      BY <3>2 DEF WithJob, JobRecords, JobStates
    <3>3. CASE job' = [job EXCEPT ![a].state = "Aborted"]
      BY <3>3 DEF JobRecords, JobStates
    <3> QED BY <2>3, <3>1, <3>2, <3>3 DEF SCallFails
  <2> QED BY <2>1, <2>2, <2>3, <2>4 DEF SCallFails
<1>7. CASE SRuns
  <2>1. [se EXCEPT !.state = "InProgress", !.reason = "Running"] \in Estimations
    BY <1>0 DEF Estimations, States, Reasons
  <2>2. se' \in Estimations /\ SwTypes'
    BY <1>7, <1>i, <2>1, PatchTypes DEF SRuns, SwTypes
  <2> QED BY <1>7, <2>2 DEF SRuns, AwTypes
<1>8. CASE SSums
  <2>1. SwTypes'
    BY <1>8, <1>i DEF SSums, SumsUp, SwTypes, SwRecords, States
  <2>2. AwTypes'
    BY <1>8, IdleTypes DEF SSums, AwTypes
  <2> QED BY <1>8, <2>1, <2>2 DEF SSums
<1>9. CASE SPatchesSum
  <2> DEFINE new == IF sw.to = "InProgress"
                    THEN [se EXCEPT !.state = "InProgress", !.reason = "Running"]
                    ELSE [se EXCEPT !.state = sw.to, !.ended = TRUE, !.kept = TRUE,
                                    !.reason = IF sw.to = "Done" THEN "Success" ELSE "Error"]
  <2>1. sw.to \in States
    BY DEF SwTypes, SwRecords
  <2>2. new \in Estimations
    BY <1>0, <2>1 DEF Estimations, States, Reasons
  <2>3. SPatches(new)
    BY <1>9 DEF SPatchesSum
  <2> HIDE DEF new
  <2>4. se' \in Estimations /\ SwTypes'
    BY <2>2, <2>3, PatchTypes
  <2> QED BY <1>9, <2>4 DEF SPatchesSum, AwTypes
<1>10. CASE SListsActive
  BY <1>10 DEF SListsActive, JobsIn, SwTypes, SwRecords, AwTypes
<1>11. CASE \E a \in Assets : SAborts(a)
  <2>1. PICK a \in Assets : SAborts(a)
    BY <1>11
  <2>2. SwTypes'
    BY <2>1 DEF SAborts, SwTypes, SwRecords
  <2>3. job' \in [Assets -> JobRecords]
    BY <2>1 DEF SAborts, JobRecords, JobStates
  <2>4. missed' \in SUBSET Assets
    BY <2>1 DEF SAborts
  <2> QED BY <2>1, <2>2, <2>3, <2>4 DEF SAborts, AwTypes
<1>12. CASE \E a \in Assets : SMisses(a)
  <2>1. SwTypes' /\ AwTypes'
    BY <1>12 DEF SMisses, SwTypes, SwRecords, AwTypes
  <2>2. faults' \in 0..MaxFaults
    BY <1>12, FaultType DEF SMisses
  <2> QED BY <1>12, <2>1, <2>2 DEF SMisses
<1>13. CASE SFails
  <2>1. [se EXCEPT !.state = "Failed", !.reason = "Aborted", !.ended = TRUE] \in Estimations
    BY <1>0 DEF Estimations, States, Reasons
  <2>2. se' \in Estimations /\ SwTypes'
    BY <1>13, <1>i, <2>1, PatchTypes DEF SFails, SwTypes
  <2> QED BY <1>13, <2>2 DEF SFails, AwTypes
<1>14. CASE SDeletes
  <2>1. se' \in Estimations
    BY <1>14, <1>0 DEF SDeletes, Estimations, States
  <2> QED BY <1>14, <1>i, <2>1 DEF SDeletes, SwTypes, AwTypes
<1>15. CASE SGivesUp
  BY <1>15, <1>i, FaultType DEF SGivesUp, SwTypes, AwTypes
<1> QED BY <1>1, <1>2, <1>3, <1>4, <1>5, <1>6, <1>7, <1>8, <1>9, <1>10, <1>11, <1>12, <1>13,
           <1>14, <1>15 DEF SStep

LEMMA OtherStepTypes ==
    ASSUME Types, \/ AEstimates \/ AGivesUp
                  \/ UserAborts \/ TimeoutPasses \/ TimeToLivePasses
                  \/ \E a \in Assets : AGet(a) \/ AGoesOn(a) \/ JobTimeToLivePasses(a)
    PROVE  Types'
<1> USE DEF Types
<1>i. AwIdle \in AwRecords /\ AwIdle.phase = "idle"
  BY IdleTypes
<1>1. CASE AEstimates
  BY <1>1 DEF AEstimates, AwTypes, AwRecords, Finished, JobStates, SwTypes
<1>2. CASE AGivesUp
  <2>1. faults' \in 0..MaxFaults
    BY <1>2, FaultType DEF AGivesUp
  <2> QED BY <1>2, <1>i, <2>1 DEF AGivesUp, AwTypes, SwTypes
<1>3. CASE UserAborts \/ TimeoutPasses \/ TimeToLivePasses
  <2>1. se' \in Estimations
    <3>1. CASE UserAborts
      BY <3>1 DEF UserAborts, Estimations, States, Reasons
    <3>2. CASE TimeoutPasses
      BY <3>2 DEF TimeoutPasses, Estimations
    <3>3. CASE TimeToLivePasses
      BY <3>3 DEF TimeToLivePasses, Estimations
    <3> QED BY <1>3, <3>1, <3>2, <3>3
  <2> QED BY <1>3, <2>1 DEF UserAborts, TimeoutPasses, TimeToLivePasses, SwTypes, AwTypes
<1>4. ASSUME NEW a \in Assets, AGet(a)
      PROVE  Types'
  <2>1. job[a].state \in {"Pending", "Aborted", "Failed", "Done"}
    BY <1>4 DEF AGet, Exists, JobRecords, JobStates
  <2>2. AwTypes'
    BY <1>4, <2>1, <1>i DEF AGet, AwTypes, AwRecords
  <2> QED BY <1>4, <2>2 DEF AGet, SwTypes
<1>5. ASSUME NEW a \in Assets, AGoesOn(a) \/ JobTimeToLivePasses(a)
      PROVE  Types'
  <2>1. AwTypes'
    BY <1>5, <1>i DEF AGoesOn, APatches, AAborted, ADeletes, JobTimeToLivePasses, AwTypes
  <2>2. aw.to \in JobStates
    BY DEF AwTypes, AwRecords
  <2>3. job' \in [Assets -> JobRecords]
    <3>1. CASE APatches(a)
      <4>1. [job[a] EXCEPT !.state = aw.to, !.kept = TRUE] \in JobRecords
        BY <2>2 DEF JobRecords
      <4> QED BY <3>1, <4>1 DEF APatches
    <3>2. CASE AAborted(a)
      BY <3>2 DEF AAborted, JobRecords, JobStates
    <3>3. CASE ADeletes(a)
      BY <3>3 DEF ADeletes, JobRecords, JobStates
    <3>4. CASE JobTimeToLivePasses(a)
      <4>1. [job[a] EXCEPT !.expired = TRUE] \in JobRecords
        BY DEF JobRecords
      <4> QED BY <3>4, <4>1 DEF JobTimeToLivePasses
    <3> QED BY <1>5, <3>1, <3>2, <3>3, <3>4 DEF AGoesOn
  <2>4. UNCHANGED <<se, sw, missed>> /\ faults' = faults
    BY <1>5 DEF AGoesOn, APatches, AAborted, ADeletes, JobTimeToLivePasses
  <2> QED BY <2>1, <2>3, <2>4 DEF SwTypes
<1> QED BY <1>1, <1>2, <1>3, <1>4, <1>5

LEMMA NextTypes == Types /\ [Next]_vars => Types'
<1>1. ASSUME Types, UNCHANGED vars
      PROVE  Types'
  BY <1>1 DEF vars, Types, SwTypes, AwTypes
<1> QED BY <1>1, SStepTypes, OtherStepTypes DEF Next
-----------------------------------------------------------------------------
(* What a step does to the AssetScanEstimations and the ScanEstimation.    *)

\* None is created but in the phase for it, none is aborted but in its, and what
\* is over is over.
LEMMA JobSteps ==
    ASSUME Types, [Next]_vars, NEW a \in Assets
    PROVE  /\ job[a].state # "None" => job'[a].state # "None"
           /\ job'[a].state = "Pending" => job[a].state = "Pending" \/ sw.phase = "create"
           /\ job[a].state \in {"Done", "Gone"} =>
                job'[a].state \in {"Done", "Gone"} \/ sw.phase = "create"
           /\ job'[a].state = "Aborted" => job[a].state = "Aborted" \/ sw.phase = "abort"
<1> USE DEF Types
<1>1. CASE \E b \in Assets : SPosts(b)
  <2>1. PICK b \in Assets : SPosts(b)
    BY <1>1
  <2> QED BY <2>1 DEF SPosts, WithJob, Exists, JobRecords
<1>2. CASE \E b \in Assets : SAborts(b)
  <2>1. PICK b \in Assets : SAborts(b)
    BY <1>2
  <2> QED BY <2>1, JobMoves DEF SAborts, JobRecords
<1>3. CASE \E b \in Assets : APatches(b)
  <2>1. PICK b \in Assets : APatches(b)
    BY <1>3
  <2>2. aw.to \in Finished
    BY <2>1 DEF APatches, AwTypes
  <2> QED BY <2>1, <2>2, JobMoves DEF APatches, JobRecords, Finished
<1>4. CASE \E b \in Assets : AAborted(b) \/ ADeletes(b) \/ JobTimeToLivePasses(b)
  <2>1. PICK b \in Assets : AAborted(b) \/ ADeletes(b) \/ JobTimeToLivePasses(b)
    BY <1>4
  <2> QED BY <2>1, JobMoves DEF AAborted, ADeletes, JobTimeToLivePasses, JobRecords, Finished
<1>5. CASE UNCHANGED job
  BY <1>5
<1>6. CASE \E b \in Assets : SCallFails(b)
  <2>1. PICK b \in Assets : SCallFails(b)
    BY <1>6
  <2>2. CASE sw.phase = "create" /\ job' = WithJob(b)
    BY <2>2 DEF WithJob, Exists, JobRecords
  <2>3. CASE /\ sw.phase = "abort"
             /\ AcceptsJob(b, "Aborted")
             /\ job' = [job EXCEPT ![b].state = "Aborted"]
    BY <2>3, JobMoves DEF JobRecords
  <2> QED BY <1>5, <2>1, <2>2, <2>3 DEF SCallFails
<1> QED BY <1>1, <1>2, <1>3, <1>4, <1>5, <1>6
    DEF Next, vars, SStep, SGet, STimesOut, SDiscovers, SCreates, SRuns, SSums, SPatchesSum,
        SListsActive, SFails, SDeletes, SGivesUp, AEstimates, AGivesUp, UserAborts,
        TimeoutPasses, TimeToLivePasses, SMisses, AGet, AGoesOn

\* The steps that write the ScanEstimation, by what they make of it.
LEMMA EstimationSteps ==
    ASSUME Types, Follows, [Next]_vars
    PROVE  /\ se.state = "Aborted" => se'.state \in {"Aborted", "Failed"}
           /\ se.state \in Finished => se'.state \in {se.state, "Gone"}
           /\ se.state = "Gone" => se'.state = "Gone"
           /\ se'.state = "Gone" => se.state \in Finished \cup {"Gone"}
           /\ se'.state = "Done" /\ se'.reason = "Success" =>
                \/ se.state = "Done" /\ se.reason = "Success"
                \/ se.state = "InProgress" /\ SPatchesSum /\ sw.to = "Done"
           /\ se'.state = "Failed" /\ se'.reason = "Aborted" =>
                \/ se.state = "Failed" /\ se.reason = "Aborted"
                \/ SFails /\ ~sw.failed
           /\ se'.state = "InProgress" =>
                \/ se.state = "InProgress"
                \/ SRuns /\ ~sw.failed
           /\ se'.assets = se.assets \/ (SDiscovers /\ se'.state \in {"Done", "Discovered"}
                                        /\ se'.reason # "Success")
<1> USE DEF Types
<1>t. se \in Estimations /\ se.state \in States
  BY DEF Estimations
<1>1. CASE SDiscovers
  <2>1. se.state \in {"Pending", "Aborted", "Failed"}
    BY <1>1 DEF SDiscovers, Follows, StatesAt, Finished
  <2>2. \/ se' = se
        \/ /\ Accepts(se'.state, se'.reason)
           /\ se'.state \in {"Done", "Discovered"}
           /\ se'.reason \in {"NothingToEstimate", "SuccessfulDiscovery"}
    BY <1>1, <1>t DEF SDiscovers, SPatches, Estimations
  <2>3. CASE Accepts(se'.state, se'.reason) /\ se' # se
    <3>1. se.state = "Pending"
      BY <2>1, <2>2, <2>3, Moves DEF Finished
    <3> QED BY <1>1, <2>2, <2>3, <3>1 DEF Finished
  <2> QED BY <2>2, <2>3
<1>2. CASE SRuns
  <2>1. se.state \in {"Discovered", "Aborted", "Failed"}
    BY <1>2 DEF SRuns, Follows, StatesAt, Finished
  <2> QED BY <1>2, <1>t, <2>1, Moves DEF SRuns, SPatches, Finished, Estimations
<1>3. CASE SPatchesSum
  <2>1. se.state \in {"InProgress", "Aborted", "Failed"}
    BY <1>3 DEF SPatchesSum, Follows, StatesAt, Finished
  <2>2. sw.to \in {"InProgress", "Done", "Failed"}
    BY <1>3 DEF SPatchesSum, SwTypes
  <2>3. \/ se' = se
        \/ /\ Accepts(se'.state, se'.reason)
           /\ se'.state = sw.to
           /\ se'.reason \in {"Running", "Success", "Error"}
           /\ se'.assets = se.assets
    BY <1>3, <1>t, <2>2 DEF SPatchesSum, SPatches, Estimations
  <2>4. CASE Accepts(se'.state, se'.reason) /\ se' # se
    <3>1. \/ se.state = "InProgress"
          \/ se.state = "Aborted" /\ se'.state = "Failed"
          \/ se.state = "Failed" /\ se'.state = "Failed" /\ se'.reason = se.reason
      BY <2>1, <2>2, <2>3, <2>4, Moves DEF Finished
    <3> QED BY <1>3, <2>2, <2>3, <2>4, <3>1 DEF Finished
  <2> QED BY <2>3, <2>4
<1>4. CASE SFails
  <2>1. se.state \in {"Aborted", "Failed"}
    BY <1>4 DEF SFails, Follows, StatesAt, Finished
  <2>2. \/ se' = se
        \/ /\ Accepts(se'.state, se'.reason)
           /\ se'.state = "Failed"
           /\ se'.assets = se.assets
    BY <1>4, <1>t DEF SFails, SPatches, Estimations
  <2>3. se'.reason = "Aborted" => se' = se \/ ~sw.failed
    BY <1>4, <1>t DEF SFails, SPatches, Estimations
  <2>4. CASE Accepts(se'.state, se'.reason) /\ se' # se
    <3>1. se.state = "Failed" => se'.reason = se.reason
      BY <2>4, Moves DEF Finished
    <3> QED BY <1>4, <2>1, <2>2, <2>3, <2>4, <3>1 DEF Finished
  <2> QED BY <2>2, <2>4
<1>5. CASE SDeletes
  <2>1. se.state \in Finished
    BY <1>5 DEF SDeletes, Follows, StatesAt, Finished
  <2> QED BY <1>5, <1>t, <2>1 DEF SDeletes, Finished, Estimations
<1>6. CASE STimesOut
  <2>1. \/ se' = se
        \/ /\ Accepts("Failed", "Timeout")
           /\ se'.state = "Failed" /\ se'.reason = "Timeout" /\ se'.assets = se.assets
    BY <1>6, <1>t DEF STimesOut, Estimations
  <2>2. CASE Accepts("Failed", "Timeout") /\ se' # se
    <3>1. se.state \notin {"Done", "Gone"}
      BY <2>2, Moves DEF Finished
    <3> QED BY <2>1, <2>2, <3>1 DEF Finished
  <2> QED BY <2>1, <2>2
<1>7. CASE UserAborts
  BY <1>7, <1>t, Moves DEF UserAborts, Finished, Estimations
<1>8. CASE TimeoutPasses \/ TimeToLivePasses
  BY <1>8, <1>t DEF TimeoutPasses, TimeToLivePasses, Estimations
<1>9. CASE UNCHANGED se
  BY <1>9
<1> QED BY <1>1, <1>2, <1>3, <1>4, <1>5, <1>6, <1>7, <1>8, <1>9
    DEF Next, vars, SStep, SGet, SCreates, SSums, SListsActive, SGivesUp, SPosts, SAborts,
        AEstimates, AGivesUp, SCallFails, SMisses, AGet, AGoesOn, APatches, AAborted,
        ADeletes, JobTimeToLivePasses
-----------------------------------------------------------------------------
(* The invariant.                                                          *)

LEMMA FollowsKept ==
    ASSUME Types, Follows, [Next]_vars
    PROVE  Follows'
<1> USE DEF Types, Follows
<1>t. se.state \in States /\ sw.phase \in {"idle", "timeout", "create", "sum", "abort"} \cup States
  BY DEF Estimations, SwTypes, SwRecords
<1>i. SwIdle.phase = "idle"
  BY IdleTypes
<1>e. se'.state \in States
  BY NextTypes DEF Estimations
<1>1. CASE sw'.phase = "idle"
  BY <1>1, <1>e DEF StatesAt, States, Finished
<1>2. CASE SGet
  <2>1. /\ se' = se /\ sw'.held = se /\ sw'.phase \in {"timeout", se.state} /\ se.state # "Gone"
    BY <1>2 DEF SGet, SwIdle
  <2> QED BY <1>t, <2>1 DEF StatesAt, States, Finished
<1>3. CASE STimesOut /\ sw'.phase # "idle"
  <2>1. /\ se'.state = "Failed" /\ se'.assets = se.assets
        /\ sw'.phase = sw.held.state /\ sw'.held = sw.held /\ sw.phase = "timeout"
    BY <1>3, <1>i DEF STimesOut, Estimations, SwTypes, SwRecords
  <2>2. sw.held.state \in States \ {"Gone"}
    BY DEF SwTypes, SwRecords, Estimations
  <2> QED BY <2>1, <2>2 DEF StatesAt, States, Finished
<1>4. CASE SCreates \/ SListsActive \/ (SSums /\ sw'.phase # "idle")
  <2>1. /\ se' = se /\ sw'.held = sw.held /\ sw.phase # "idle"
        /\ \/ sw.phase = "Discovered" /\ sw'.phase = "create"
           \/ sw.phase = "Aborted" /\ sw'.phase = "abort"
           \/ sw.phase = "InProgress" /\ sw'.phase = "sum"
    BY <1>4, <1>i DEF SCreates, SListsActive, SSums, SwTypes, SwRecords
  <2> QED BY <2>1 DEF StatesAt, States, Finished
<1>5. CASE \E a \in Assets : SPosts(a) \/ SAborts(a) \/ SCallFails(a) \/ SMisses(a)
  <2>1. se' = se /\ sw'.held = sw.held /\ sw'.phase = sw.phase
    BY <1>5 DEF SPosts, SAborts, SCallFails, SMisses, SwTypes, SwRecords
  <2> QED BY <2>1
<1>6. CASE UserAborts
  <2>1. /\ sw' = sw /\ se'.state = "Aborted" /\ se'.assets = se.assets
        /\ se.state \notin Finished \cup {"Gone"}
    BY <1>6, Moves DEF UserAborts, Estimations, Finished
  <2> QED BY <1>t, <2>1 DEF StatesAt, States, Finished
<1>7. CASE TimeoutPasses \/ TimeToLivePasses
  <2>1. sw' = sw /\ se'.state = se.state /\ se'.assets = se.assets
    BY <1>7 DEF TimeoutPasses, TimeToLivePasses, Estimations
  <2> QED BY <2>1
<1>8. CASE UNCHANGED <<se, sw>>
  BY <1>8
<1> QED BY <1>i, <1>1, <1>2, <1>3, <1>4, <1>5, <1>6, <1>7, <1>8
    DEF Next, vars, SStep, SPatches, SDiscovers, SRuns, SSums, SPatchesSum, SFails, SDeletes,
        STimesOut, SGivesUp, AEstimates, AGivesUp, AGet, AGoesOn, APatches, AAborted, ADeletes,
        JobTimeToLivePasses

LEMMA OnlyAbortedKept ==
    ASSUME Types, Follows, OnlyAborted, [Next]_vars
    PROVE  OnlyAborted'
<1> SUFFICES ASSUME NEW a \in Assets, job'[a].state = "Aborted"
             PROVE  se'.state \in {"Aborted", "Failed", "Gone"}
  BY DEF OnlyAborted
<1>1. job[a].state = "Aborted" \/ sw.phase = "abort"
  BY JobSteps
<1>2. se.state \in {"Aborted", "Failed", "Gone"}
  BY <1>1 DEF OnlyAborted, Follows, StatesAt, Finished
<1> QED BY <1>2, EstimationSteps DEF Finished

\* A step leaves a Reconcile that goes on in its phase, but for these.
LEMMA PhaseSteps ==
    ASSUME Types, [Next]_vars
    PROVE  /\ sw'.phase = "create" =>
                \/ SCreates
                \/ sw.phase = "create" /\ sw'.held = sw.held
           /\ sw'.phase = "sum" => SSums \/ (sw.phase = "sum" /\ sw' = sw)
           /\ sw'.phase = "abort" => SListsActive \/ sw.phase = "abort"
<1> USE DEF Types, SwTypes
<1>i. SwIdle.phase = "idle"
  BY IdleTypes
<1>1. CASE SGet \/ STimesOut
  <2>1. sw'.phase \in {"idle", "timeout"} \cup States
    <3>1. CASE SGet
      BY <3>1 DEF SGet, SwIdle, Estimations
    <3>2. CASE STimesOut
      BY <3>2, <1>i DEF STimesOut, Estimations, SwRecords
    <3> QED BY <1>1, <3>1, <3>2
  <2> QED BY <2>1 DEF States
<1>2. CASE SDiscovers \/ SRuns \/ SPatchesSum \/ SFails \/ SDeletes \/ SGivesUp
  <2>1. sw'.phase = "idle"
    BY <1>2, <1>i DEF SDiscovers, SRuns, SPatchesSum, SFails, SDeletes, SGivesUp, SPatches
  <2> QED BY <2>1
<1>3. CASE SCreates \/ SListsActive \/ SSums
  <2>1. /\ SCreates => sw'.phase = "create"
        /\ SListsActive => sw'.phase = "abort"
        /\ SSums => sw'.phase \in {"idle", "sum"}
    BY <1>3, <1>i DEF SCreates, SListsActive, SSums, SwRecords
  <2> QED BY <1>3, <2>1
<1>4. CASE \E a \in Assets : SPosts(a) \/ SAborts(a) \/ SCallFails(a) \/ SMisses(a)
  <2>1. sw'.phase = sw.phase /\ sw'.held = sw.held /\ sw.phase \in {"create", "abort"}
    BY <1>4 DEF SPosts, SAborts, SCallFails, SMisses, SwRecords
  <2> QED BY <2>1
<1>5. CASE UNCHANGED sw
  BY <1>5
<1> QED BY <1>1, <1>2, <1>3, <1>4, <1>5
    DEF Next, vars, SStep, AEstimates, AGivesUp, UserAborts, TimeoutPasses, TimeToLivePasses,
        AGet, AGoesOn, APatches, AAborted, ADeletes, JobTimeToLivePasses

LEMMA PostedKept ==
    ASSUME Types, Follows, Posted, [Next]_vars
    PROVE  Posted'
<1> USE DEF Types, SwTypes
<1>1. ASSUME sw'.phase = "create", ~sw'.failed, NEW a \in sw'.held.assets \ sw'.todo
      PROVE  job'[a].state # "None"
  <2>a. a \in Assets
    BY <1>1, NextTypes DEF SwRecords, Estimations
  <2>1. CASE SCreates
    BY <1>1, <2>1 DEF SCreates, SwRecords
  <2>2. CASE sw.phase = "create" /\ sw'.held = sw.held
    <3>1. CASE \E b \in Assets : SPosts(b)
      <4>1. PICK b \in Assets : SPosts(b)
        BY <3>1
      <4>2. ~sw.failed /\ sw'.todo = sw.todo \ {b}
        BY <1>1, <4>1 DEF SPosts, SwRecords
      <4>3. CASE a = b
        BY <4>1, <4>3 DEF SPosts, WithJob, Exists, JobRecords
      <4>4. CASE a # b
        BY <1>1, <2>2, <2>a, <4>2, <4>4, JobSteps DEF Posted
      <4> QED BY <4>3, <4>4
    <3>2. CASE \E b \in Assets : SCallFails(b)
      BY <1>1, <3>2 DEF SCallFails, SwRecords
    <3>3. CASE sw' = sw
      BY <1>1, <2>2, <2>a, <3>3, JobSteps DEF Posted
    <3>4. \/ \E b \in Assets : SPosts(b) \/ SCallFails(b)
          \/ sw' = sw
      <4>1. SwIdle.phase = "idle"
        BY IdleTypes
      <4> QED BY <1>1, <2>2, <4>1
          DEF Next, vars, SStep, SGet, STimesOut, SDiscovers, SRuns, SPatchesSum, SFails,
              SDeletes, SGivesUp, SPatches, SCreates, SListsActive, SSums, SAborts, SMisses,
              AEstimates, AGivesUp, UserAborts, TimeoutPasses, TimeToLivePasses, AGet, AGoesOn,
              APatches, AAborted, ADeletes, JobTimeToLivePasses
    <3> QED BY <3>1, <3>2, <3>3, <3>4
  <2> QED BY <1>1, <2>1, <2>2, PhaseSteps
<1>2. ASSUME se'.state = "InProgress", NEW a \in se'.assets
      PROVE  job'[a].state # "None"
  <2>1. se'.assets = se.assets
    BY <1>2, EstimationSteps
  <2>2. a \in Assets
    BY <1>2, <2>1 DEF Estimations
  <2>3. CASE se.state = "InProgress"
    BY <1>2, <2>1, <2>2, <2>3, JobSteps DEF Posted
  <2>4. CASE SRuns /\ ~sw.failed
    <3>1. sw.phase = "create" /\ sw.todo = {}
      BY <2>4 DEF SRuns
    <3>2. sw.held.assets = se.assets
      BY <3>1 DEF Follows
    <3> QED BY <1>2, <2>1, <2>2, <2>4, <3>1, <3>2, JobSteps DEF Posted
  <2> QED BY <1>2, <2>3, <2>4, EstimationSteps
<1> QED BY <1>1, <1>2 DEF Posted

LEMMA SummedKept ==
    ASSUME Types, Follows, OnlyAborted, Posted, Summed, [Next]_vars
    PROVE  Summed'
<1> USE DEF Types
<1> SUFFICES ASSUME sw'.phase = "sum", sw'.to = "Done", se'.state = "InProgress",
                    NEW a \in se'.assets
             PROVE  job'[a].state \in {"Done", "Gone"}
  BY DEF Summed
<1>1. se'.assets = se.assets
  BY EstimationSteps
<1>2. a \in Assets
  BY <1>1 DEF Estimations
<1>3. CASE SSums
  <2>1. se' = se /\ job' = job /\ SumsUp = "Done"
    <3>1. SwIdle.phase = "idle"
      BY IdleTypes
    <3> QED BY <1>3, <3>1 DEF SSums, SwTypes, SwRecords
  <2>2. JobsIn({"Pending"}) = {} /\ JobsIn({"Failed"}) = {}
    BY <2>1 DEF SumsUp
  <2>3. job[a].state # "Pending" /\ job[a].state # "Failed"
    BY <1>2, <2>2 DEF JobsIn
  <2>4. job[a].state # "Aborted"
    BY <1>2, <2>1 DEF OnlyAborted
  <2>5. job[a].state # "None"
    BY <1>1, <2>1 DEF Posted
  <2>6. job[a].state \in JobStates
    BY <1>2 DEF JobRecords
  <2> QED BY <2>1, <2>3, <2>4, <2>5, <2>6 DEF JobStates
<1>4. CASE sw.phase = "sum" /\ sw' = sw
  <2>1. se.state = "InProgress"
    <3>1. ~SRuns
      BY <1>4 DEF SRuns
    <3> QED BY <3>1, EstimationSteps
  <2> QED BY <1>1, <1>2, <1>4, <2>1, JobSteps DEF Summed
<1> QED BY <1>3, <1>4, PhaseSteps

LEMMA SuccessKept ==
    ASSUME Types, Follows, Summed, SuccessMeansAllEstimated, [Next]_vars
    PROVE  SuccessMeansAllEstimated'
<1> USE DEF Types
<1> SUFFICES ASSUME se'.state = "Done", se'.reason = "Success", NEW a \in se'.assets
             PROVE  job'[a].state \in {"Done", "Gone"}
  BY DEF SuccessMeansAllEstimated
<1>1. se'.assets = se.assets
  BY EstimationSteps
<1>2. a \in Assets
  BY <1>1 DEF Estimations
<1>3. CASE se.state = "Done" /\ se.reason = "Success"
  <2>1. sw.phase # "create"
    BY <1>3 DEF Follows, StatesAt, Finished
  <2> QED BY <1>1, <1>2, <1>3, <2>1, JobSteps DEF SuccessMeansAllEstimated
<1>4. CASE se.state = "InProgress" /\ SPatchesSum /\ sw.to = "Done"
  <2>1. sw.phase = "sum" /\ job' = job
    BY <1>4 DEF SPatchesSum
  <2> QED BY <1>1, <1>4, <2>1 DEF Summed
<1> QED BY <1>3, <1>4, EstimationSteps

LEMMA AbortKept ==
    ASSUME Types, Follows, Aborting, AbortReachesAll, [Next]_vars
    PROVE  Aborting' /\ AbortReachesAll'
<1> USE DEF Types
<1>j. sw.phase # "create" => JobsIn({"Pending"})' \subseteq JobsIn({"Pending"})
  BY JobSteps DEF JobsIn
<1>1. ASSUME sw'.phase = "abort", ~sw'.failed
      PROVE  JobsIn({"Pending"})' \subseteq missed' \cup sw'.todo
  <2>1. CASE SListsActive
    BY <2>1 DEF SListsActive, JobsIn, SwTypes, SwRecords
  <2>2. CASE sw.phase = "abort" /\ \E b \in Assets : SAborts(b)
    <3>1. PICK b \in Assets : SAborts(b)
      BY <2>2
    <3>2. ~sw.failed /\ sw'.todo = sw.todo \ {b}
      BY <1>1, <3>1 DEF SAborts, SwTypes, SwRecords
    <3>3. \/ missed' = missed /\ b \notin JobsIn({"Pending"})'
          \/ missed' = missed \cup {b}
      <4>1. \/ missed' = missed /\ job' = [job EXCEPT ![b].state = "Aborted"]
            \/ missed' = missed \cup {b}
        BY <1>1, <3>1 DEF SAborts, SwTypes, SwRecords
      <4>2. job' = [job EXCEPT ![b].state = "Aborted"] => job'[b].state = "Aborted"
        BY DEF JobRecords
      <4> QED BY <4>1, <4>2 DEF JobsIn
    <3> QED BY <1>j, <2>2, <3>2, <3>3 DEF Aborting
  <2>3. CASE sw.phase = "abort" /\ \E b \in Assets : SMisses(b)
    <3>1. PICK b \in Assets : SMisses(b)
      BY <2>3
    <3>2. ~sw.failed /\ sw'.todo = sw.todo \ {b} /\ missed' = missed \cup {b}
      BY <1>1, <3>1 DEF SMisses, SwTypes, SwRecords
    <3> QED BY <1>j, <2>3, <3>2 DEF Aborting
  <2>4. CASE \E b \in Assets : SCallFails(b)
    BY <1>1, <2>4 DEF SCallFails, SwTypes, SwRecords
  <2>5. CASE sw.phase = "abort" /\ UNCHANGED <<sw, missed>>
    BY <1>1, <1>j, <2>5 DEF Aborting
  <2>6. sw.phase = "abort" =>
          \/ \E b \in Assets : SAborts(b) \/ SMisses(b) \/ SCallFails(b)
          \/ UNCHANGED <<sw, missed>>
    <3>1. SwIdle.phase = "idle"
      BY IdleTypes
    <3> QED BY <1>1, <3>1
        DEF Next, vars, SStep, SGet, STimesOut, SDiscovers, SRuns, SPatchesSum, SFails,
            SDeletes, SGivesUp, SPatches, SCreates, SListsActive, SSums, SPosts,
            AEstimates, AGivesUp, UserAborts, TimeoutPasses, TimeToLivePasses, AGet, AGoesOn,
            APatches, AAborted, ADeletes, JobTimeToLivePasses
  <2> QED BY <1>1, <2>1, <2>2, <2>3, <2>4, <2>5, <2>6, PhaseSteps
<1>2. ASSUME se'.state = "Failed", se'.reason = "Aborted"
      PROVE  /\ sw'.phase \in {"idle", "timeout"} \cup Finished
             /\ JobsIn({"Pending"})' \subseteq missed'
  <2>m. missed \subseteq missed'
    BY DEF Next, vars, SStep, SGet, STimesOut, SDiscovers, SRuns, SPatchesSum, SFails,
            SDeletes, SGivesUp, SPatches, SCreates, SListsActive, SSums, SPosts, SAborts,
            SMisses, SCallFails, AEstimates, AGivesUp, UserAborts, TimeoutPasses,
            TimeToLivePasses, AGet, AGoesOn, APatches, AAborted, ADeletes, JobTimeToLivePasses
  <2>1. CASE SFails /\ ~sw.failed
    <3>1. /\ sw.phase = "abort" /\ sw.todo = {} /\ sw' = SwIdle /\ job' = job
          /\ missed' = missed
      BY <2>1 DEF SFails, SPatches
    <3>2. JobsIn({"Pending"}) \subseteq missed
      BY <2>1, <3>1 DEF Aborting
    <3> QED BY <3>1, <3>2, IdleTypes DEF JobsIn
  <2>2. CASE se.state = "Failed" /\ se.reason = "Aborted"
    <3>1. sw.phase \in {"idle", "timeout"} \cup Finished
      BY <2>2 DEF Aborting
    <3>2. JobsIn({"Pending"}) \subseteq missed
      BY <2>2 DEF AbortReachesAll
    <3>3. sw.phase # "create"
      BY <3>1 DEF Finished
    <3>4. sw'.phase \in {"idle", "timeout"} \cup Finished
      <4>1. SwIdle.phase = "idle"
        BY IdleTypes
      <4>2. CASE STimesOut
        <5>1. ~Accepts("Failed", "Timeout")
          BY <2>2 DEF Accepts, scanEstimationStatusStateTransitions
        <5> QED BY <4>1, <4>2, <5>1 DEF STimesOut
      <4>3. CASE SGet
        BY <2>2, <4>3 DEF SGet, SwIdle, Finished
      <4> QED BY <3>1, <4>1, <4>2, <4>3
          DEF Finished, Next, vars, SStep, SDiscovers, SRuns, SPatchesSum, SFails,
              SDeletes, SGivesUp, SPatches, SCreates, SListsActive, SSums, SPosts, SAborts,
              SMisses, SCallFails, AEstimates, AGivesUp, UserAborts, TimeoutPasses,
              TimeToLivePasses, AGet, AGoesOn, APatches, AAborted, ADeletes,
              JobTimeToLivePasses
    <3> QED BY <1>j, <2>m, <3>2, <3>3, <3>4
  <2> QED BY <1>2, <2>1, <2>2, EstimationSteps
<1> QED BY <1>1, <1>2 DEF Aborting, AbortReachesAll

LEMMA NextInv == Inv /\ [Next]_vars => Inv'
BY NextTypes, FollowsKept, OnlyAbortedKept, PostedKept, SummedKept, SuccessKept, AbortKept
   DEF Inv

THEOREM EstimationInvariant == Spec => []Inv
BY InitInv, NextInv, PTL DEF Spec

\* Every record the two watchers and the server exchange is one of the API's.
THEOREM EstimationTyped == Spec => []TypeOK
<1>1. Inv => TypeOK
  BY DEF Inv, Types, SwTypes, AwTypes, SwRecords, AwRecords, JobRecords, TypeOK
<1> QED BY <1>1, EstimationInvariant, PTL

\* A ScanEstimation that succeeded was estimated for each of its assets
\* (watcher.go:488-575).
THEOREM SuccessIsComplete == Spec => []SuccessMeansAllEstimated
<1>1. Inv => SuccessMeansAllEstimated
  BY DEF Inv
<1> QED BY <1>1, EstimationInvariant, PTL

\* An abort leaves nothing to estimate, but for what the race on err hides
\* (watcher.go:620-715).
THEOREM AbortIsComplete == Spec => []AbortReachesAll
<1>1. Inv => AbortReachesAll
  BY DEF Inv
<1> QED BY <1>1, EstimationInvariant, PTL

\* No write of the watcher takes an abort back, whatever it had read
\* (scan_estimation_controller.go:121-131).
THEOREM AbortIsKept == Spec => AbortIsNotLost
<1>1. Inv /\ [Next]_vars => [se.state = "Aborted" => se'.state \in {"Aborted", "Failed"}]_vars
  BY EstimationSteps DEF Inv
<1> QED BY <1>1, EstimationInvariant, PTL DEF Spec, AbortIsNotLost
-----------------------------------------------------------------------------
(* What is deleted.  Two reconcilers write an AssetScanEstimation, and a   *)
(* user's abort reaches one that is being deleted.                         *)

Over == {"Done", "Failed", "Aborted"}

\* The AssetScanEstimation watcher deletes what it has read some steps ago: until
\* then the ScanEstimation watcher may have aborted what failed, and no more.
ReadOver ==
    \A a \in Assets : aw.asset = {a} /\ aw.phase \in Finished => job[a].state \in Over

\* An estimation that ended stays as it ended until it is deleted, and it is
\* deleted for good, and none is deleted that has not ended, nor an
\* AssetScanEstimation of it (watcher.go:186-231,
\* assetscanestimation/watcher.go:168-215).
DeletedOnlyWhenOver ==
    [][/\ se.state \in Finished => se'.state \in {se.state, "Gone"}
       /\ se'.state = "Gone" => se.state \in Finished \cup {"Gone"}
       /\ se.state = "Gone" => se'.state = "Gone"
       /\ \A a \in Assets : job'[a].state = "Gone" => job[a].state \in Over \cup {"Gone"}]_vars

\* What is over stays so for as long as it exists: it is aborted at most.
LEMMA OverSteps ==
    ASSUME Types, Follows, ReadOver, [Next]_vars, NEW a \in Assets
    PROVE  /\ job[a].state \in Over => job'[a].state \in Over \cup {"Gone"}
           /\ job'[a].state = "Gone" => job[a].state \in Over \cup {"Gone"}
           /\ job'[a].state = "Gone" => job[a].state = "Gone" \/ ADeletes(a)
<1> USE DEF Types
<1>1. CASE \E b \in Assets : SPosts(b) \/ SCallFails(b)
  <2>1. PICK b \in Assets : SPosts(b) \/ SCallFails(b)
    BY <1>1
  <2>2. \/ job' = job \/ job' = WithJob(b)
        \/ AcceptsJob(b, "Aborted") /\ job' = [job EXCEPT ![b].state = "Aborted"]
    BY <2>1 DEF SPosts, SCallFails
  <2>3. CASE job' = WithJob(b)
    BY <2>3 DEF WithJob, Exists, JobRecords, Over
  <2>4. CASE AcceptsJob(b, "Aborted") /\ job' = [job EXCEPT ![b].state = "Aborted"]
    BY <2>4 DEF JobRecords, Over
  <2> QED BY <2>2, <2>3, <2>4
<1>2. CASE \E b \in Assets : SAborts(b)
  <2>1. PICK b \in Assets : SAborts(b)
    BY <1>2
  <2> QED BY <2>1 DEF SAborts, JobRecords, Over
<1>3. CASE \E b \in Assets : APatches(b)
  <2>1. PICK b \in Assets : APatches(b)
    BY <1>3
  <2>2. aw.to \in Finished
    BY <2>1 DEF APatches, AwTypes
  <2> QED BY <2>1, <2>2 DEF APatches, JobRecords, Finished, Over
<1>4. CASE \E b \in Assets : AAborted(b) \/ JobTimeToLivePasses(b)
  <2>1. PICK b \in Assets : AAborted(b) \/ JobTimeToLivePasses(b)
    BY <1>4
  <2> QED BY <2>1 DEF AAborted, JobTimeToLivePasses, JobRecords, Over
<1>5. CASE \E b \in Assets : ADeletes(b)
  <2>1. PICK b \in Assets : ADeletes(b)
    BY <1>5
  <2>2. job[b].state \in Over
    BY <2>1 DEF ADeletes, ReadOver
  <2> QED BY <2>1, <2>2 DEF ADeletes, JobRecords
<1>6. CASE UNCHANGED job
  BY <1>6
<1> QED BY <1>1, <1>2, <1>3, <1>4, <1>5, <1>6
    DEF Next, vars, SStep, SGet, STimesOut, SDiscovers, SCreates, SRuns, SSums, SPatchesSum,
        SListsActive, SFails, SDeletes, SGivesUp, AEstimates, AGivesUp, UserAborts,
        TimeoutPasses, TimeToLivePasses, SMisses, AGet, AGoesOn

LEMMA ReadOverKept ==
    ASSUME Types, Follows, ReadOver, [Next]_vars
    PROVE  ReadOver'
<1> USE DEF Types
<1> SUFFICES ASSUME NEW a \in Assets, aw'.asset = {a}, aw'.phase \in Finished
             PROVE  job'[a].state \in Over
  BY DEF ReadOver
<1>i. AwIdle.phase \notin Finished
  BY IdleTypes DEF Finished
<1>1. CASE \E b \in Assets : AGet(b)
  <2>1. PICK b \in Assets : AGet(b)
    BY <1>1
  <2>2. aw'.phase = job[b].state /\ aw'.asset = {b} /\ job' = job
    BY <2>1 DEF AGet, AwIdle
  <2> QED BY <2>2 DEF Finished, Over
<1>2. CASE aw' = aw
  <2>1. job[a].state \in Over
    BY <1>2 DEF ReadOver
  <2>2. ~ADeletes(a)
    BY <1>2, <1>i DEF ADeletes
  <2>3. job[a].state # "Gone"
    BY <2>1 DEF Over
  <2> QED BY <2>1, <2>2, <2>3, OverSteps
<1>3. aw' = aw \/ \E b \in Assets : AGet(b)
  <2>1. ~AEstimates
    BY DEF AEstimates, AwTypes, AwRecords, Finished
  <2> QED BY <1>i, <2>1
      DEF Next, vars, SStep, SGet, STimesOut, SDiscovers, SCreates, SRuns, SSums, SPatchesSum,
          SListsActive, SFails, SDeletes, SGivesUp, SPosts, SAborts, SCallFails, SMisses,
          AGivesUp, UserAborts, TimeoutPasses, TimeToLivePasses, AGoesOn, APatches, AAborted,
          ADeletes, JobTimeToLivePasses
<1> QED BY <1>1, <1>2, <1>3

LEMMA InitReadOver == Init => ReadOver
BY IdleTypes DEF Init, ReadOver, Finished

\* What a watcher is about to delete is as it was read: over
\* (watcher.go:186-231, assetscanestimation/watcher.go:168-215).
THEOREM ReadOverHolds == Spec => []ReadOver
<1>1. Inv /\ ReadOver /\ [Next]_vars => ReadOver'
  BY ReadOverKept DEF Inv
<1> QED BY <1>1, InitReadOver, EstimationInvariant, PTL DEF Spec

\* Nothing is deleted before it is over, and what is over stays so
\* (watcher.go:186-231, assetscanestimation/watcher.go:168-215).
THEOREM DeletedOnlyWhenOverHolds == Spec => DeletedOnlyWhenOver
<1>1. Inv /\ ReadOver /\ [Next]_vars =>
        [/\ se.state \in Finished => se'.state \in {se.state, "Gone"}
         /\ se'.state = "Gone" => se.state \in Finished \cup {"Gone"}
         /\ se.state = "Gone" => se'.state = "Gone"
         /\ \A a \in Assets : job'[a].state = "Gone" => job[a].state \in Over \cup {"Gone"}]_vars
  BY EstimationSteps, OverSteps DEF Inv
<1> QED BY <1>1, EstimationInvariant, ReadOverHolds, PTL DEF Spec, DeletedOnlyWhenOver
=============================================================================
