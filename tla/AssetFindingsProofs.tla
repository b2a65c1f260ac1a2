-------------------------- MODULE AssetFindingsProofs --------------------------
(***************************************************************************)
(* For any Assets, AssetScans, results and faults, with the Discoverer and *)
(* the processor interleaved: an asset that a discovery found is not       *)
(* terminated by it, and one that is gone is not overlooked; a processed   *)
(* AssetScan has one Finding for each thing it found, the next AssetScan   *)
(* that found something invalidates them, and no other before it; the      *)
(* Asset's summary counts those left.                                      *)
(***************************************************************************)
EXTENDS AssetFindings, TLAPS, FiniteSetTheorems, WellFoundedInduction

FindingRecords == [by : Scans, key : Keys, nth : Nat, invalidatedOn : 0..NScans]

PPhases == {"idle", "newer", "existing", "write", "older", "invalidate", "patch", "mark"}

PRecords == [phase : PPhases, scan : 0..NScans, stale : BOOLEAN, newer : 0..NScans,
             existing : SUBSET Keys, todo : SUBSET Keys, older : SUBSET FindingRecords,
             seen : BOOLEAN, count : Nat]

DiscoveryTypes ==
    /\ present \in SUBSET Assets
    /\ asset \in [Assets -> AssetRecords]
    /\ d \in Discoveries

\* A Reconcile is about an AssetScan, and writes Findings only of one with a
\* result.
ProcessorTypes ==
    /\ result \in [Scans -> (SUBSET Keys) \cup {NoResult}]
    /\ findings \in SUBSET FindingRecords /\ IsFiniteSet(findings)
    /\ late \in SUBSET Posts
    /\ p \in PRecords
    /\ p.phase # "idle" => p.scan \in Scans
    /\ p.phase \notin {"idle", "mark"} => result[p.scan] # NoResult

Types == DiscoveryTypes /\ ProcessorTypes
-----------------------------------------------------------------------------
(* Types of the Discoverer.                                                *)

LEMMA ConstantTypes ==
    /\ NScans \in Nat /\ Scans \subseteq Nat /\ Scans = 1..NScans
    /\ Target \in Assets /\ IsFiniteSet(Assets)
BY FindingsAssumption, DiscoveryAssumption DEF Scans

LEMMA DIdleType == DIdle \in Discoveries /\ DIdle.phase = "idle" /\ DIdle.found = {}
BY DEF DIdle, Discoveries

LEMMA DiscoveryStepTypes ==
    ASSUME DiscoveryTypes, DiscoveryNext
    PROVE  DiscoveryTypes'
<1> USE DEF DiscoveryTypes
<1>1. CASE DStarts
  <2>1. d' \in Discoveries
    BY <1>1, DIdleType DEF DStarts, Discoveries
  <2>2. asset' \in [Assets -> AssetRecords]
    BY <1>1 DEF DStarts, AssetRecords
  <2> QED BY <1>1, <2>1, <2>2 DEF DStarts
<1>2. CASE DSkipsRegion
  BY <1>2, ZenonT(40) DEF DSkipsRegion, Discoveries
<1>3. CASE DWalkEnds \/ DEnds \/ DGivesUp
  <2>1. d' \in Discoveries
    BY <1>3, DIdleType DEF DWalkEnds, DEnds, DGivesUp, Discoveries
  <2> QED BY <1>3, <2>1 DEF DWalkEnds, DEnds, DGivesUp
<1>4. CASE DQueries
  BY <1>4 DEF DQueries, Stale, Discoveries
<1>5. ASSUME NEW a \in Assets, DPerAsset(a)
      PROVE  DiscoveryTypes'
  <2>1. asset' \in [Assets -> AssetRecords]
    <3>1. CASE asset' = [asset EXCEPT ![a].exists = TRUE, ![a].seen = TRUE]
      BY <3>1 DEF AssetRecords
    <3>2. CASE asset' = [asset EXCEPT ![a].seen = TRUE]
      BY <3>2 DEF AssetRecords
    <3>3. CASE asset' = [asset EXCEPT ![a].terminated = TRUE]
      BY <3>3 DEF AssetRecords
    <3>4. CASE asset' = asset
      BY <3>4
    <3> QED BY <1>5, <3>1, <3>2, <3>3, <3>4
        DEF DPerAsset, DPosts, DPostFails, DPatches, DMergeFails, DPatchFails, DTerminates,
            DTerminateFails
  <2>2. d' \in Discoveries
    <3>1. CASE DPosts(a)
      BY <3>1 DEF DPosts, Discoveries
    <3>2. CASE DPostFails(a)
      BY <3>2 DEF DPostFails, Discoveries
    <3>3. CASE DPatches(a)
      BY <3>3 DEF DPatches, Discoveries
    <3>4. CASE DPatchFails(a)
      BY <3>4 DEF DPatchFails, Discoveries
    <3>6. CASE DMergeFails(a)
      BY <3>6 DEF DMergeFails, Discoveries
    <3>5. CASE DTerminates(a) \/ DTerminateFails(a)
      BY <3>5 DEF DTerminates, DTerminateFails, Discoveries
    <3> QED BY <1>5, <3>1, <3>2, <3>3, <3>4, <3>5, <3>6 DEF DPerAsset
  <2>3. present' = present
    BY <1>5 DEF DPerAsset, DPosts, DPostFails, DPatches, DMergeFails, DPatchFails, DTerminates,
            DTerminateFails
  <2> QED BY <2>1, <2>2, <2>3
<1>6. CASE AssetAppears \/ AssetDisappears
  BY <1>6 DEF AssetAppears, AssetDisappears
<1> QED BY <1>1, <1>2, <1>3, <1>4, <1>5, <1>6 DEF DiscoveryNext
-----------------------------------------------------------------------------
(* Types of the processor.                                                 *)

LEMMA PIdleType == PIdle \in PRecords /\ PIdle.phase = "idle" /\ PIdle.seen = FALSE
BY ConstantTypes DEF PIdle, PRecords, PPhases

\* The earliest of some AssetScans is one of them.
LEMMA MinType ==
    ASSUME NEW T, T \subseteq Scans, T # {}
    PROVE  Min(T) \in T /\ Min(T) \in Scans /\ \A y \in T : Min(T) <= y
<1> DEFINE R == {ss \in Nat \X Nat : ss[1] < ss[2]}
<1>1. IsWellFoundedOn(R, Nat)
  BY NatLessThanWellFounded DEF OpToRel
<1>2. PICK x \in T : \A y \in T : <<y, x>> \notin R
  <2>1. T \subseteq Nat
    BY ConstantTypes
  <2> HIDE DEF R
  <2> QED BY <1>1, <2>1, WFMin
<1>3. ASSUME NEW y \in T
      PROVE  x <= y
  <2>1. x \in Nat /\ y \in Nat
    BY ConstantTypes
  <2>2. ~(y < x)
    BY <1>2, <2>1
  <2> QED BY <2>1, <2>2
<1>4. Min(T) \in T /\ \A y \in T : Min(T) <= y
  BY <1>3 DEF Min
<1> QED BY <1>4

\* A POST adds a well typed Finding.
LEMMA WithPostedType ==
    ASSUME ProcessorTypes, NEW f \in Posts
    PROVE  WithPosted(f) \in SUBSET FindingRecords /\ IsFiniteSet(WithPosted(f))
<1> DEFINE same == {g \in findings : g.by = f.by /\ g.key = f.key}
           new == [by |-> f.by, key |-> f.key, invalidatedOn |-> f.invalidatedOn,
                   nth |-> 1 + Cardinality(same)]
<1>1. same \in SUBSET findings
  OBVIOUS
<1>2. IsFiniteSet(same)
  <2> HIDE DEF same
  <2> QED BY <1>1, FS_Subset DEF ProcessorTypes
<1>3. Cardinality(same) \in Nat
  <2> HIDE DEF same
  <2> QED BY <1>2, FS_CardinalityType
<1>4. new \in FindingRecords
  <2> HIDE DEF same
  <2> QED BY <1>3 DEF FindingRecords, Posts
<1>5. WithPosted(f) = findings \cup {new}
  BY DEF WithPosted
<1> HIDE DEF new
<1> QED BY <1>4, <1>5, FS_AddElement DEF ProcessorTypes

LEMMA WithPatchedType ==
    ASSUME ProcessorTypes, NEW k \in Keys
    PROVE  WithPatched(k) \in SUBSET FindingRecords /\ IsFiniteSet(WithPatched(k))
<1> DEFINE Op(f) == IF f.by = p.scan /\ f.key = k /\ f.nth = 1 /\ p.newer # 0
                    THEN [f EXCEPT !.invalidatedOn = p.newer] ELSE f
           F == [f \in findings |-> Op(f)]
<1>1. WithPatched(k) = {Op(f) : f \in findings}
  BY DEF WithPatched
<1>2. p.newer \in 0..NScans
  BY DEF ProcessorTypes, PRecords
<1>3. ASSUME NEW f \in findings
      PROVE  Op(f) \in FindingRecords
  BY <1>2 DEF ProcessorTypes, FindingRecords
<1>4. F \in Surjection(findings, WithPatched(k))
  BY <1>1 DEF Surjection
<1> HIDE DEF Op, F
<1>5. IsFiniteSet(WithPatched(k))
  BY <1>4, FS_Surjection DEF ProcessorTypes
<1> QED BY <1>1, <1>3, <1>5

LEMMA ProcessingTypes ==
    ASSUME Types, Processing
    PROVE  Types'
<1> USE DEF Types
<1>i. PIdle \in PRecords /\ PIdle.phase = "idle"
  BY PIdleType
<1>p. /\ p \in PRecords /\ p.scan \in 0..NScans
      /\ p.phase # "idle" => p.scan \in Scans
      /\ p.phase \notin {"idle", "mark"} => result[p.scan] # NoResult
  BY DEF ProcessorTypes, PRecords
<1>1. ASSUME NEW s \in Scans, PPicks(s)
      PROVE  Types'
  <2>1. result[s] = NoResult \/ result[s] \in SUBSET Keys
    BY DEF ProcessorTypes
  <2>2. /\ p' \in PRecords /\ p'.scan = s
        /\ p'.phase \in {"mark", "newer"} /\ (p'.phase = "newer" => result[s] # NoResult)
    <3>1. PICK phase \in {"mark", "newer"}, todo \in SUBSET Keys :
               /\ p' = [PIdle EXCEPT !.phase = phase, !.scan = s, !.todo = todo]
               /\ phase = "newer" => result[s] # NoResult
      <4>1. CASE result[s] = NoResult
        <5>1. p' = [PIdle EXCEPT !.phase = "mark", !.scan = s, !.todo = {}]
          BY <1>1, <4>1 DEF PPicks
        <5>2. {} \in SUBSET Keys
          OBVIOUS
        <5> QED BY <5>1, <5>2
      <4>2. CASE result[s] # NoResult
        BY <1>1, <2>1, <4>2 DEF PPicks
      <4> QED BY <4>1, <4>2
    <3>2. s \in 0..NScans
      BY ConstantTypes
    <3>3. p' = [phase |-> phase, scan |-> s, stale |-> FALSE, newer |-> 0,
                existing |-> {}, todo |-> todo, older |-> {}, seen |-> FALSE, count |-> 0]
      BY <3>1 DEF PIdle
    <3>4. phase \in PPhases
      BY DEF PPhases
    <3>5. p' \in PRecords
      BY <3>2, <3>3, <3>4, ConstantTypes DEF PRecords
    <3> QED BY <3>1, <3>3, <3>5
  <2> QED BY <1>1, <2>2 DEF PPicks, ProcessorTypes, DiscoveryTypes, dvars
<1>2. CASE PAsksNewer
  <2> DEFINE T == {f.by : f \in {g \in findings : Newer(g.by, p.scan)}}
  <2>1. T \subseteq Scans
    BY DEF ProcessorTypes, FindingRecords
  <2>2. T # {} => Min(T) \in Scans
    <3> HIDE DEF T
    <3> QED BY <2>1, MinType
  <2>3. p' = [p EXCEPT !.phase = "existing", !.newer = IF T = {} THEN 0 ELSE Min(T)]
    BY <1>2 DEF PAsksNewer
  <2> HIDE DEF T
  <2>4. (IF T = {} THEN 0 ELSE Min(T)) \in 0..NScans
    BY <2>2, ConstantTypes
  <2>5. p' \in PRecords /\ p'.scan = p.scan /\ p'.phase = "existing"
    BY <1>p, <2>3, <2>4 DEF PRecords, PPhases
  <2> QED BY <1>2, <1>p, <2>5 DEF PAsksNewer, ProcessorTypes, DiscoveryTypes, dvars
<1>3. CASE PAsksExisting
  <2>1. {f.key : f \in Own} \in SUBSET Keys
    BY DEF Own, ProcessorTypes, FindingRecords
  <2>2. /\ p' \in PRecords
        /\ p'.phase = "idle" \/ (p'.phase = "write" /\ p'.scan = p.scan)
    BY <1>3, <1>p, <1>i, <2>1 DEF PAsksExisting, PRecords, PPhases
  <2>3. p.phase = "existing"
    BY <1>3 DEF PAsksExisting
  <2> QED BY <1>3, <1>p, <2>2, <2>3 DEF PAsksExisting, ProcessorTypes, DiscoveryTypes, dvars
<1>4. ASSUME NEW k \in Keys, PWrites(k)
      PROVE  Types'
  <2>1. Posted(k) \in Posts
    BY <1>4, <1>p DEF Posted, Posts, PWrites, PRecords
  <2>2. findings' \in SUBSET FindingRecords /\ IsFiniteSet(findings')
    BY <1>4, <2>1, WithPostedType, WithPatchedType DEF PWrites
  <2>3. p' \in PRecords /\ p'.scan = p.scan /\ p'.phase = p.phase
    BY <1>4, <1>p DEF PWrites, PRecords
  <2> QED BY <1>4, <1>p, <2>2, <2>3 DEF PWrites, ProcessorTypes, DiscoveryTypes, dvars
<1>5. CASE PAsksOlder
  <2>1. p' \in PRecords /\ p'.scan = p.scan /\ p'.phase = "invalidate" /\ p.phase = "write"
    BY <1>5, <1>p DEF PAsksOlder, PRecords, PPhases, ProcessorTypes
  <2> QED BY <1>5, <1>p, <2>1 DEF PAsksOlder, ProcessorTypes, DiscoveryTypes, dvars
<1>6. ASSUME NEW f \in p.older, PInvalidates(f)
      PROVE  Types'
  <2>1. f \in FindingRecords
    BY <1>p DEF PRecords
  <2>2. [f EXCEPT !.invalidatedOn = p.scan] \in FindingRecords
    BY <1>p, <2>1 DEF FindingRecords
  <2>3. IsFiniteSet(findings \ {f})
    BY FS_RemoveElement DEF ProcessorTypes
  <2>4. findings' \in SUBSET FindingRecords /\ IsFiniteSet(findings')
    BY <1>6, <2>2, <2>3, FS_AddElement DEF PInvalidates, ProcessorTypes
  <2>5. p' \in PRecords /\ p'.scan = p.scan /\ p'.phase = p.phase
    BY <1>6, <1>p DEF PInvalidates, PRecords
  <2> QED BY <1>6, <1>p, <2>4, <2>5 DEF PInvalidates, ProcessorTypes, DiscoveryTypes, dvars
<1>7. CASE PReadsAsset
  <2>1. Active \in SUBSET findings
    BY DEF Active
  <2>2. IsFiniteSet(Active)
    BY <2>1, FS_Subset DEF ProcessorTypes
  <2>3. Cardinality(Active) \in Nat
    BY <2>2, FS_CardinalityType
  <2>4. asset[Target].seen \in BOOLEAN
    BY ConstantTypes DEF DiscoveryTypes, AssetRecords
  <2>5. p' \in PRecords /\ p'.scan = p.scan /\ p'.phase = "patch" /\ p.phase = "invalidate"
    BY <1>7, <1>p, <2>3, <2>4 DEF PReadsAsset, PRecords, PPhases
  <2> QED BY <1>7, <1>p, <2>5 DEF PReadsAsset, ProcessorTypes, DiscoveryTypes, dvars
<1>8. CASE PPatchesAsset
  <2>1. p.count \in Nat /\ p.seen \in BOOLEAN
    BY <1>p DEF PRecords
  <2>2. asset' \in [Assets -> AssetRecords]
    BY <1>8, <2>1 DEF PPatchesAsset, DiscoveryTypes, AssetRecords
  <2>3. d' \in Discoveries
    BY <1>8, ConstantTypes DEF PPatchesAsset, DiscoveryTypes, Discoveries
  <2>4. p' \in PRecords /\ p'.scan = p.scan /\ p'.phase = "mark" /\ p.phase = "patch"
    BY <1>8, <1>p DEF PPatchesAsset, PRecords, PPhases
  <2> QED BY <1>8, <1>p, <2>2, <2>3, <2>4 DEF PPatchesAsset, ProcessorTypes, DiscoveryTypes
<1>9. CASE PMarks
  BY <1>9, <1>i DEF PMarks, ProcessorTypes, DiscoveryTypes, dvars
<1>10. CASE PGivesUp
  <2>1. p.phase = "write" => \A k \in p.todo : Posted(k) \in Posts
    BY <1>p DEF Posted, Posts, PRecords
  <2>2. late' \in SUBSET Posts
    BY <1>10, <2>1 DEF PGivesUp, ProcessorTypes
  <2> QED BY <1>10, <1>i, <2>2 DEF PGivesUp, ProcessorTypes, DiscoveryTypes, dvars
<1>11. CASE LatePostArrives
  <2>1. PICK r \in late : findings' = WithPosted(r) /\ late' = late \ {r}
    BY <1>11 DEF LatePostArrives
  <2>2. findings' \in SUBSET FindingRecords /\ IsFiniteSet(findings')
    BY <2>1, WithPostedType DEF ProcessorTypes
  <2> QED BY <1>11, <2>1, <2>2 DEF LatePostArrives, ProcessorTypes, DiscoveryTypes, dvars
<1>12. CASE CleanupEnds
  <2>1. p' \in PRecords /\ p'.scan = p.scan /\ p'.phase = p.phase
    BY <1>12, <1>p DEF CleanupEnds, PRecords
  <2> QED BY <1>12, <1>p, <2>1 DEF CleanupEnds, ProcessorTypes, DiscoveryTypes, dvars
<1> QED BY <1>1, <1>2, <1>3, <1>4, <1>5, <1>6, <1>7, <1>8, <1>9, <1>10, <1>11, <1>12
        DEF Processing, PStep

LEMMA InitTypes == Init => Types
<1> SUFFICES ASSUME Init
             PROVE  Types
  OBVIOUS
<1>1. asset \in [Assets -> AssetRecords]
  <2>1. [exists : BOOLEAN, seen : {FALSE}, terminated : {FALSE}, summary : {0}]
          \subseteq AssetRecords
    <3>1. {FALSE} \subseteq BOOLEAN /\ {0} \subseteq Nat
      OBVIOUS
    <3> DEFINE no == {FALSE}  zero == {0}
    <3> HIDE DEF no, zero
    <3>2. [exists : BOOLEAN, seen : no, terminated : no, summary : zero] \subseteq AssetRecords
      BY <3>1 DEF AssetRecords, no, zero
    <3> QED BY <3>2 DEF no, zero
  <2>2. asset \in [Assets -> [exists : BOOLEAN, seen : {FALSE}, terminated : {FALSE},
                             summary : {0}]]
    BY DEF Init, DiscoveryInit
  <2> QED BY <2>1, <2>2
<1>2. DiscoveryTypes
  BY <1>1, DIdleType DEF Init, DiscoveryInit, DiscoveryTypes
<1>3. ProcessorTypes
  BY PIdleType, FS_EmptySet DEF Init, ProcessorTypes
<1> QED BY <1>2, <1>3 DEF Types

LEMMA BesideTypes ==
    ASSUME Types, Beside(DiscoveryNext)
    PROVE  Types'
<1>1. DiscoveryTypes'
  BY DiscoveryStepTypes DEF Beside, Types
<1>2. p' \in PRecords /\ p'.phase = p.phase /\ p'.scan = p.scan
  BY DEF Beside, Types, ProcessorTypes, PRecords
<1>3. ProcessorTypes'
  BY <1>2 DEF Beside, Types, ProcessorTypes
<1> QED BY <1>1, <1>3 DEF Types

LEMMA NextTypes == Types /\ [Next]_vars => Types'
<1>1. ASSUME Types, UNCHANGED vars
      PROVE  Types'
  BY <1>1 DEF vars, dvars, fvars, Types, DiscoveryTypes, ProcessorTypes
<1> QED BY <1>1, ProcessingTypes, BesideTypes DEF Next
-----------------------------------------------------------------------------
(* The Discoverer.                                                         *)

\* What was reported has been seen since the discovery began, or the server was
\* not told; what is to be terminated was not reported.
FoundInv ==
    /\ d.conflict \subseteq d.todo
    /\ d.phase # "walk" => d.conflict = {}
    /\ d.phase = "query" => d.todo = {}
    /\ d.phase \in {"walk", "query"} =>
         \A a \in d.found \ (d.unsure \cup d.unpatched \cup d.todo) : asset[a].seen
    /\ d.phase = "terminate" => d.todo \cap (d.found \ d.unsure) = {}

LEMMA DiscoveryKeepsFound ==
    ASSUME DiscoveryTypes, FoundInv, DiscoveryNext
    PROVE  FoundInv'
<1> USE DEF DiscoveryTypes, FoundInv, Discoveries
<1>1. CASE DStarts
  <2>1. /\ d'.phase = "walk" /\ d'.conflict = {} /\ d'.found = present /\ d'.todo = present
    BY <1>1 DEF DStarts, DIdle
  <2> QED BY <2>1
<1>2. CASE DSkipsRegion
  <2>1. PICK region \in (SUBSET (d.todo \ d.conflict)) \ {{}} :
             d' = [d EXCEPT !.todo = @ \ region, !.found = @ \ region]
    BY <1>2 DEF DSkipsRegion
  <2>2. d.phase = "walk" /\ asset' = asset
    BY <1>2 DEF DSkipsRegion
  <2>3. /\ d'.phase = "walk" /\ d'.todo = d.todo \ region /\ d'.found = d.found \ region
        /\ d'.conflict = d.conflict /\ d'.unsure = d.unsure /\ d'.unpatched = d.unpatched
    BY <2>1, <2>2
  <2> QED BY <2>1, <2>2, <2>3
<1>3. CASE DWalkEnds
  <2>1. /\ d'.phase = "query" /\ d.phase = "walk" /\ d.todo = {} /\ asset' = asset
        /\ UNCHANGED <<d.todo, d.found, d.conflict, d.unsure, d.unpatched>>
    BY <1>3 DEF DWalkEnds
  <2> QED BY <2>1
<1>4. CASE DQueries
  <2>1. /\ d'.phase = "terminate" /\ d.phase = "query" /\ d'.todo = Stale \ d.unpatched
        /\ UNCHANGED <<d.found, d.conflict, d.unsure, d.unpatched>>
    BY <1>4 DEF DQueries
  <2> QED BY <2>1 DEF Stale
<1>5. CASE DEnds \/ DGivesUp
  <2>1. d'.phase = "idle" /\ d'.conflict = {}
    BY <1>5 DEF DEnds, DGivesUp, DIdle
  <2> QED BY <2>1
<1>6. ASSUME NEW a \in Assets, DPosts(a)
      PROVE  FoundInv'
  <2>0. d.phase = "walk" /\ a \in d.todo /\ d.conflict = {}
    BY <1>6 DEF DPosts
  <2>1. CASE /\ asset' = [asset EXCEPT ![a].exists = TRUE, ![a].seen = TRUE]
             /\ d' = [d EXCEPT !.todo = @ \ {a}]
    <3>1. asset'[a].seen /\ \A b \in Assets \ {a} : asset'[b] = asset[b]
      BY <2>1 DEF AssetRecords
    <3>2. /\ d'.todo = d.todo \ {a}
          /\ UNCHANGED <<d.phase, d.found, d.conflict, d.unsure, d.unpatched>>
      BY <2>1
    <3>3. d.found \subseteq Assets
      OBVIOUS
    <3> QED BY <2>0, <3>1, <3>2, <3>3
  <2>2. CASE asset' = asset /\ d' = [d EXCEPT !.conflict = {a}]
    BY <2>0, <2>2
  <2> QED BY <1>6, <2>1, <2>2 DEF DPosts
<1>7. ASSUME NEW a \in Assets, DPostFails(a) \/ DMergeFails(a)
      PROVE  FoundInv'
  <2>1. \A b \in Assets : asset[b].seen => asset'[b].seen
    BY <1>7 DEF DPostFails, DMergeFails, AssetRecords
  <2>2. /\ d'.todo = d.todo \ {a} /\ d'.conflict \subseteq d.conflict \ {a}
        /\ d'.unsure = d.unsure \cup {a} /\ d.phase = "walk"
        /\ UNCHANGED <<d.phase, d.found, d.unpatched>>
    BY <1>7 DEF DPostFails, DMergeFails
  <2>3. d.found \subseteq Assets
    OBVIOUS
  <2> QED BY <2>1, <2>2, <2>3
<1>8. ASSUME NEW a \in Assets, DPatches(a)
      PROVE  FoundInv'
  <2>0. d.phase = "walk" /\ a \in d.todo
    BY <1>8 DEF DPatches
  <2>1. asset'[a].seen /\ \A b \in Assets \ {a} : asset'[b] = asset[b]
    BY <1>8 DEF DPatches, AssetRecords
  <2>2. /\ d'.todo = d.todo \ {a} /\ d'.conflict = {} /\ d'.unsure = d.unsure \ {a}
        /\ UNCHANGED <<d.phase, d.found, d.unpatched>>
    BY <1>8 DEF DPatches
  <2>3. d.found \subseteq Assets
    OBVIOUS
  <2> QED BY <2>0, <2>1, <2>2, <2>3
<1>9. ASSUME NEW a \in Assets, DPatchFails(a)
      PROVE  FoundInv'
  <2>1. /\ d'.todo = d.todo \ {a} /\ d'.conflict = {} /\ d'.unpatched = d.unpatched \cup {a}
        /\ UNCHANGED <<d.phase, d.found, d.unsure>> /\ d.phase = "walk"
    BY <1>9 DEF DPatchFails
  <2>2. \A b \in Assets : asset[b].seen => asset'[b].seen
    BY <1>9 DEF DPatchFails, AssetRecords
  <2>3. d.found \subseteq Assets
    OBVIOUS
  <2> QED BY <2>1, <2>2, <2>3
<1>10. ASSUME NEW a \in Assets, DTerminates(a) \/ DTerminateFails(a)
       PROVE  FoundInv'
  <2>1. /\ d'.todo = d.todo \ {a} /\ d.phase = "terminate"
        /\ UNCHANGED <<d.phase, d.found, d.conflict, d.unsure, d.unpatched>>
    BY <1>10 DEF DTerminates, DTerminateFails
  <2> QED BY <2>1
<1>11. CASE AssetAppears \/ AssetDisappears
  BY <1>11 DEF AssetAppears, AssetDisappears
<1> QED BY <1>1, <1>2, <1>3, <1>4, <1>5, <1>6, <1>7, <1>8, <1>9, <1>10, <1>11
        DEF DiscoveryNext, DPerAsset

\* The processor takes lastSeen back only in a way that is accounted for.
LEMMA ProcessingKeepsFound ==
    ASSUME Types, FoundInv, Processing
    PROVE  FoundInv'
<1>1. CASE PPatchesAsset
  <2> USE DEF Types, DiscoveryTypes, Discoveries
  <2>1. /\ UNCHANGED <<d.phase, d.found, d.conflict, d.unpatched, d.todo>>
        /\ d'.unsure = IF asset[Target].seen /\ ~p.seen THEN d.unsure \cup {Target}
                       ELSE d.unsure
    BY <1>1 DEF PPatchesAsset
  <2>2. /\ \A b \in Assets \ {Target} : asset'[b] = asset[b]
        /\ asset[Target].seen => asset'[Target].seen \/ d'.unsure = d.unsure \cup {Target}
    BY <1>1, <2>1, ConstantTypes DEF PPatchesAsset, AssetRecords
  <2>3. d.found \subseteq Assets /\ d.unsure \subseteq d'.unsure
    BY <2>1
  <2> QED BY <2>1, <2>2, <2>3 DEF FoundInv
<1>2. CASE UNCHANGED <<asset, d>>
  BY <1>2 DEF FoundInv
<1> QED BY <1>1, <1>2
        DEF Processing, PStep, PAsksNewer, PAsksExisting, PAsksOlder, PReadsAsset, PMarks,
            PWrites, PInvalidates, PGivesUp, LatePostArrives, CleanupEnds, PPicks, dvars

\* A step terminates an asset only when it is among those to be terminated.
LEMMA Terminating ==
    ASSUME Types, [Next]_vars, NEW a \in Assets, asset'[a].terminated
    PROVE  asset[a].terminated \/ (d.phase = "terminate" /\ a \in d.todo)
<1> USE DEF Types, DiscoveryTypes
<1>1. CASE DStarts
  BY <1>1 DEF DStarts, AssetRecords
<1>2. ASSUME NEW b \in Assets, DPosts(b) \/ DPatches(b) \/ DPostFails(b) \/ DPatchFails(b)
      PROVE  asset[a].terminated
  BY <1>2 DEF DPosts, DPatches, DPostFails, DPatchFails, AssetRecords
<1>3. ASSUME NEW b \in Assets, DTerminates(b) \/ DTerminateFails(b)
      PROVE  asset[a].terminated \/ (d.phase = "terminate" /\ a \in d.todo)
  BY <1>3 DEF DTerminates, DTerminateFails, AssetRecords
<1>4. CASE PPatchesAsset
  BY <1>4 DEF PPatchesAsset, AssetRecords
<1>5. CASE UNCHANGED asset
  BY <1>5
<1>6. CASE Processing
  BY <1>4, <1>5, <1>6
  DEF Processing, PStep, PAsksNewer, PAsksExisting, PAsksOlder, PReadsAsset, PMarks,
      PWrites, PInvalidates, PGivesUp, LatePostArrives, CleanupEnds, PPicks, dvars
<1>7. CASE DiscoveryNext
  BY <1>1, <1>2, <1>3, <1>5, <1>7
  DEF DiscoveryNext, DSkipsRegion, DWalkEnds, DQueries, DEnds, DGivesUp, DPerAsset,
      DMergeFails, AssetAppears, AssetDisappears
<1> QED BY <1>5, <1>6, <1>7 DEF Next, Beside, vars, dvars

LEMMA InitFound == Init => FoundInv
BY DIdleType DEF Init, DiscoveryInit, FoundInv, DIdle

LEMMA NextFound == Types /\ FoundInv /\ [Next]_vars => FoundInv'
<1>1. ASSUME FoundInv, UNCHANGED vars
      PROVE  FoundInv'
  BY <1>1 DEF vars, dvars, FoundInv
<1> QED BY <1>1, ProcessingKeepsFound, DiscoveryKeepsFound DEF Next, Beside, Types

THEOREM FindingsTyped == Spec => []Types
BY InitTypes, NextTypes, PTL DEF Spec

\* A discovery never terminates an asset it found, whatever calls of it fail and
\* whatever the processor writes meanwhile, unless the server was not told of it
\* or the processor took that back (discoverer.go:116-183).
THEOREM FoundIsKept == Spec => FoundIsNotTerminated
<1>1. ASSUME Types, FoundInv, [Next]_vars,
             NEW a \in d.found \ d.unsure, asset'[a].terminated
      PROVE  asset[a].terminated
  <2>1. a \in Assets
    BY <1>1 DEF Types, DiscoveryTypes, Discoveries
  <2>2. ~(d.phase = "terminate" /\ a \in d.todo)
    BY <1>1 DEF FoundInv
  <2> QED BY <1>1, <2>1, <2>2, Terminating
<1>2. Types /\ FoundInv /\ [Next]_vars =>
        [\A a \in d.found \ d.unsure : asset'[a].terminated => asset[a].terminated]_vars
  BY <1>1
<1> QED BY <1>2, InitFound, NextFound, FindingsTyped, PTL DEF Spec, FoundIsNotTerminated
-----------------------------------------------------------------------------
(* One Finding for each result.  What a Reconcile knows of the Findings of *)
(* its AssetScan stays true, because no other Reconcile writes them: a     *)
(* POST of an earlier attempt that arrives late is the exception, and      *)
(* landed tells of it.                                                     *)

Has(s, k) == \E f \in findings : f.by = s /\ f.key = k

Single(s) == \A f, g \in findings : f.by = s /\ g.by = s /\ f.key = g.key => f = g

Reported(s) == \A k \in result[s] : Has(s, k)

\* What the Reconcile of s knows.
Known(s) ==
    /\ p.phase \in {"newer", "existing"} => p.todo = result[s]
    /\ p.phase = "write" =>
         /\ p.todo \subseteq result[s]
         /\ \A k \in result[s] \ p.todo : Has(s, k)
         /\ \A k \in p.todo : k \in p.existing <=> Has(s, k)
    /\ p.phase \in {"invalidate", "patch", "mark"} => Reported(s)

ResultInv ==
    /\ p.phase = "invalidate" => p.older \subseteq findings
    /\ \A s \in Scans \ landed :
         result[s] # NoResult =>
           /\ Single(s)
           /\ \A f \in findings : f.by = s => f.key \in result[s]
           /\ p.phase # "idle" /\ p.scan = s => Known(s)
           /\ s \in processed => Reported(s)

\* Rewriting Findings one by one.
LEMMA Rewritten ==
    ASSUME NEW s,
           \A f \in findings : \E g \in findings' : g.by = f.by /\ g.key = f.key,
           \A g \in findings' : \E f \in findings : g.by = f.by /\ g.key = f.key
    PROVE  /\ \A k : Has(s, k)' <=> Has(s, k)
           /\ (\A f \in findings : f.by = s => f.key \in result[s]) =>
                \A f \in findings' : f.by = s => f.key \in result[s]
BY DEF Has

\* A POST for an AssetScan.
LEMMA PostedHas ==
    ASSUME NEW r \in Posts, findings' = WithPosted(r), NEW s
    PROVE  /\ \A k : Has(s, k)' <=> Has(s, k) \/ (s = r.by /\ k = r.key)
           /\ Single(s) /\ (s # r.by \/ ~Has(s, r.key)) => Single(s)'
           /\ \A g \in findings' : g \in findings \/ (g.by = r.by /\ g.key = r.key)
<1> DEFINE new == [by |-> r.by, key |-> r.key, invalidatedOn |-> r.invalidatedOn,
                   nth |-> 1 + Cardinality({g \in findings : g.by = r.by /\ g.key = r.key})]
<1>1. findings' = findings \cup {new}
  BY DEF WithPosted
<1>2. new.by = r.by /\ new.key = r.key
  OBVIOUS
<1> HIDE DEF new
<1> QED BY <1>1, <1>2 DEF Has, Single

LEMMA WriteKeepsResults ==
    ASSUME Types, ResultInv, NEW k \in Keys, PWrites(k)
    PROVE  ResultInv'
<1> USE DEF Types
<1>1. /\ p.phase = "write" /\ k \in p.todo /\ p'.phase = "write" /\ p'.scan = p.scan
      /\ p'.todo = p.todo \ {k} /\ p'.existing = p.existing /\ p.scan \in Scans
      /\ UNCHANGED <<result, processed, landed>>
  BY DEF PWrites, ProcessorTypes, PRecords
<1>2. SUFFICES ASSUME NEW s \in Scans \ landed, result[s] # NoResult
               PROVE  /\ Single(s)'
                      /\ \A f \in findings' : f.by = s => f.key \in result[s]
                      /\ p.scan = s => Known(s)'
                      /\ s \in processed => Reported(s)'
  BY <1>1 DEF ResultInv, Known, Reported
<1>3. /\ Single(s)
      /\ \A f \in findings : f.by = s => f.key \in result[s]
      /\ p.scan = s => Known(s)
      /\ s \in processed => Reported(s)
  BY <1>1, <1>2 DEF ResultInv
<1>4. CASE k \in p.existing
  <2> DEFINE Op(f) == IF f.by = p.scan /\ f.key = k /\ f.nth = 1 /\ p.newer # 0
                      THEN [f EXCEPT !.invalidatedOn = p.newer] ELSE f
  <2>1. findings' = {Op(f) : f \in findings}
    BY <1>4 DEF PWrites, WithPatched
  <2>2. \A f \in findings : Op(f).by = f.by /\ Op(f).key = f.key
    BY DEF ProcessorTypes, FindingRecords
  <2> HIDE DEF Op
  <2>3. /\ \A c : Has(s, c)' <=> Has(s, c)
        /\ \A f \in findings' : f.by = s => f.key \in result[s]
    BY <1>3, <2>1, <2>2, Rewritten
  <2>4. Single(s)'
    BY <1>3, <2>1, <2>2 DEF Single
  <2>5. p.scan = s => Known(s)'
    BY <1>1, <1>3, <1>4, <2>3 DEF Known
  <2> QED BY <1>1, <1>3, <2>3, <2>4, <2>5 DEF Reported
<1>5. CASE k \notin p.existing
  <2>1. findings' = WithPosted(Posted(k))
    BY <1>5 DEF PWrites
  <2>2. Posted(k) \in Posts /\ Posted(k).by = p.scan /\ Posted(k).key = k
    BY <1>1 DEF Posted, Posts, ProcessorTypes, PRecords
  <2>3. /\ \A c : Has(s, c)' <=> Has(s, c) \/ (s = p.scan /\ c = k)
        /\ Single(s) /\ (s # p.scan \/ ~Has(s, k)) => Single(s)'
        /\ \A g \in findings' : g \in findings \/ (g.by = p.scan /\ g.key = k)
    BY <2>1, <2>2, PostedHas
  <2>4. p.scan = s => ~Has(s, k) /\ k \in result[s]
    BY <1>1, <1>3, <1>5 DEF Known
  <2>5. p.scan = s => Known(s)'
    BY <1>1, <1>3, <2>3 DEF Known
  <2> QED BY <1>1, <1>3, <2>3, <2>4, <2>5 DEF Reported
<1> QED BY <1>4, <1>5

LEMMA InvalidateKeepsResults ==
    ASSUME Types, ResultInv, NEW f \in p.older, PInvalidates(f)
    PROVE  ResultInv'
<1> USE DEF Types
<1>1. /\ p.phase = "invalidate" /\ p'.phase = "invalidate" /\ p'.scan = p.scan
      /\ p'.older = p.older \ {f} /\ p.older \subseteq findings
      /\ UNCHANGED <<result, processed, landed>>
  BY DEF PInvalidates, ProcessorTypes, PRecords, ResultInv
<1> DEFINE new == [f EXCEPT !.invalidatedOn = p.scan]
<1>2. f \in findings /\ findings' = (findings \ {f}) \cup {new}
  BY <1>1 DEF PInvalidates
<1>3. new.by = f.by /\ new.key = f.key
  BY <1>2 DEF ProcessorTypes, FindingRecords
<1> HIDE DEF new
<1>4. p'.older \subseteq findings'
  BY <1>1, <1>2
<1>5. ASSUME NEW s \in Scans \ landed, result[s] # NoResult
      PROVE  /\ Single(s)'
             /\ \A g \in findings' : g.by = s => g.key \in result[s]
             /\ p.scan = s => Known(s)'
             /\ s \in processed => Reported(s)'
  <2>1. /\ Single(s)
        /\ \A g \in findings : g.by = s => g.key \in result[s]
        /\ p.scan = s => Reported(s)
        /\ s \in processed => Reported(s)
    BY <1>1, <1>5 DEF ResultInv, Known
  <2>2. \A c : Has(s, c)' <=> Has(s, c)
    BY <1>2, <1>3 DEF Has
  <2>3. Single(s)'
    BY <1>2, <1>3, <2>1 DEF Single
  <2>4. Reported(s) => Reported(s)'
    BY <1>1, <2>2 DEF Reported
  <2> QED BY <1>1, <1>2, <1>3, <2>1, <2>3, <2>4 DEF Known
<1> QED BY <1>1, <1>4, <1>5 DEF ResultInv

LEMMA LatePostKeepsResults ==
    ASSUME Types, ResultInv, LatePostArrives
    PROVE  ResultInv'
<1> USE DEF Types
<1>1. PICK r \in late : findings' = WithPosted(r) /\ landed' = landed \cup {r.by}
  BY DEF LatePostArrives
<1>2. r \in Posts /\ UNCHANGED <<result, processed, p>>
  BY <1>1 DEF ProcessorTypes, LatePostArrives
<1>3. findings \subseteq findings'
  BY <1>1 DEF WithPosted
<1>4. ASSUME NEW s \in Scans \ landed', result[s] # NoResult
      PROVE  /\ Single(s)'
             /\ \A g \in findings' : g.by = s => g.key \in result[s]
             /\ p.phase # "idle" /\ p.scan = s => Known(s)'
             /\ s \in processed => Reported(s)'
  <2>1. s \in Scans \ landed /\ s # r.by
    BY <1>1, <1>4
  <2>2. /\ \A c : Has(s, c)' <=> Has(s, c)
        /\ Single(s) => Single(s)'
        /\ \A g \in findings' : g.by = s => g \in findings
    BY <1>1, <1>2, <2>1, PostedHas
  <2>3. p.phase # "idle" /\ p.scan = s => Known(s)'
    BY <1>2, <1>4, <2>1, <2>2 DEF ResultInv, Known, Reported
  <2> QED BY <1>2, <1>4, <2>1, <2>2, <2>3 DEF ResultInv, Reported
<1> QED BY <1>2, <1>3, <1>4 DEF ResultInv

\* A step that leaves the Findings alone need only be looked at for what the
\* Reconcile knows.
LEMMA KnowingKeepsResults ==
    ASSUME Types, ResultInv, UNCHANGED <<result, findings, landed>>,
           p'.phase = "invalidate" => p'.older \subseteq findings,
           \A s \in Scans \ landed :
              result[s] # NoResult /\ (p.phase # "idle" /\ p.scan = s => Known(s)) =>
                /\ p'.phase # "idle" /\ p'.scan = s => Known(s)'
                /\ s \in processed' => s \in processed \/ Reported(s)
    PROVE  ResultInv'
BY DEF ResultInv, Single, Reported, Has

LEMMA ReconcileKeepsResults ==
    ASSUME Types, ResultInv,
           \/ \E s \in Scans : PPicks(s)
           \/ PAsksNewer \/ PAsksExisting \/ PAsksOlder \/ PReadsAsset \/ PPatchesAsset
           \/ PMarks \/ PGivesUp \/ CleanupEnds
    PROVE  ResultInv'
<1> USE DEF Types
<1>i. PIdle.phase = "idle"
  BY PIdleType
<1>p. p \in PRecords
  BY DEF ProcessorTypes
<1>1. ASSUME NEW s \in Scans, PPicks(s)
      PROVE  ResultInv'
  <2>1. /\ UNCHANGED <<result, findings, landed, processed>>
        /\ p'.phase # "invalidate"
        /\ result[s] # NoResult => p'.phase = "newer" /\ p'.scan = s /\ p'.todo = result[s]
        /\ p'.scan = s
    BY <1>1 DEF PPicks, PIdle
  <2>2. \A t \in Scans \ landed :
           result[t] # NoResult /\ p'.scan = t => Known(t)'
    BY <2>1 DEF Known
  <2> QED BY <2>1, <2>2, KnowingKeepsResults
<1>2. CASE PAsksNewer
  <2>1. /\ UNCHANGED <<result, findings, landed, processed>>
        /\ p.phase = "newer" /\ p'.phase = "existing" /\ p'.scan = p.scan /\ p'.todo = p.todo
    BY <1>2, <1>p DEF PAsksNewer, PRecords
  <2>2. \A s : Known(s) => Known(s)'
    BY <2>1 DEF Known
  <2> QED BY <2>1, <2>2, KnowingKeepsResults
<1>3. CASE PAsksExisting
  <2>1. /\ UNCHANGED <<result, findings, landed, processed>> /\ p.phase = "existing"
        /\ \/ p'.phase = "idle"
           \/ /\ p'.phase = "write" /\ p'.scan = p.scan /\ p'.todo = p.todo
              /\ p'.existing = {f.key : f \in Own}
    BY <1>3, <1>p, <1>i DEF PAsksExisting, PRecords
  <2>2. ASSUME NEW s \in Scans, p.scan = s, Known(s), p'.phase # "idle"
        PROVE  Known(s)'
    <3>1. p'.todo = result[s] /\ p'.existing = {f.key : f \in Own} /\ p'.phase = "write"
      BY <2>1, <2>2 DEF Known
    <3>2. \A k : k \in p'.existing <=> Has(s, k)
      BY <2>2, <3>1 DEF Own, Has
    <3>3. \A k : Has(s, k)' <=> Has(s, k)
      BY <2>1 DEF Has
    <3> QED BY <2>1, <3>1, <3>2, <3>3 DEF Known
  <2> QED BY <2>1, <2>2, KnowingKeepsResults
<1>4. CASE PAsksOlder
  <2>1. /\ UNCHANGED <<result, findings, landed, processed>>
        /\ p.phase = "write" /\ p.todo = {} /\ p'.phase = "invalidate" /\ p'.scan = p.scan
        /\ p'.older \subseteq findings
    BY <1>4, <1>p DEF PAsksOlder, PRecords
  <2>2. \A s : Known(s) => Known(s)'
    BY <2>1 DEF Known, Reported, Has
  <2> QED BY <2>1, <2>2, KnowingKeepsResults
<1>5. CASE PReadsAsset \/ PPatchesAsset
  <2>1. /\ UNCHANGED <<result, findings, landed, processed>>
        /\ p.phase \in {"invalidate", "patch"} /\ p'.phase \in {"patch", "mark"}
        /\ p'.scan = p.scan
    BY <1>5, <1>p DEF PReadsAsset, PPatchesAsset, PRecords
  <2>2. \A s : Known(s) => Known(s)'
    BY <2>1 DEF Known, Reported, Has
  <2> QED BY <2>1, <2>2, KnowingKeepsResults
<1>6. CASE PMarks
  <2>1. /\ UNCHANGED <<result, findings, landed>> /\ p.phase = "mark" /\ p'.phase = "idle"
        /\ processed' \subseteq processed \cup {p.scan}
    BY <1>6, <1>i DEF PMarks
  <2>2. \A s \in processed' : s \in processed \/ (p.scan = s /\ (Known(s) => Reported(s)))
    BY <2>1 DEF Known
  <2> QED BY <2>1, <2>2, KnowingKeepsResults
<1>7. CASE PGivesUp
  <2>1. UNCHANGED <<result, findings, landed, processed>> /\ p'.phase = "idle"
    BY <1>7, <1>i DEF PGivesUp
  <2> QED BY <2>1, KnowingKeepsResults
<1>8. CASE CleanupEnds
  <2>1. /\ UNCHANGED <<result, findings, landed, processed>>
        /\ UNCHANGED <<p.phase, p.scan, p.todo, p.existing, p.older>>
    BY <1>8, <1>p DEF CleanupEnds, PRecords
  <2>2. \A s : Known(s) => Known(s)'
    BY <2>1 DEF Known, Reported, Has
  <2>3. p'.phase = "invalidate" => p'.older \subseteq findings
    BY <2>1 DEF ResultInv
  <2> QED BY <2>1, <2>2, <2>3, KnowingKeepsResults
<1> QED BY <1>1, <1>2, <1>3, <1>4, <1>5, <1>6, <1>7, <1>8

LEMMA InitResults == Init => ResultInv
BY PIdleType DEF Init, ResultInv, Single

LEMMA NextResults == Types /\ ResultInv /\ [Next]_vars => ResultInv'
<1> SUFFICES ASSUME Types, ResultInv, [Next]_vars
             PROVE  ResultInv'
  OBVIOUS
<1>1. CASE Beside(DiscoveryNext) \/ UNCHANGED vars
  <2>1. /\ UNCHANGED <<result, findings, landed, processed>>
        /\ UNCHANGED <<p.phase, p.scan, p.todo, p.existing, p.older>>
    BY <1>1 DEF Beside, vars, fvars, Types, ProcessorTypes, PRecords
  <2>2. \A s : Known(s) => Known(s)'
    BY <2>1 DEF Known, Reported, Has
  <2>3. p'.phase = "invalidate" => p'.older \subseteq findings
    BY <2>1 DEF ResultInv
  <2> QED BY <2>1, <2>2, <2>3, KnowingKeepsResults
<1>2. CASE Processing
  BY <1>2, WriteKeepsResults, InvalidateKeepsResults, LatePostKeepsResults,
     ReconcileKeepsResults DEF Processing, PStep
<1> QED BY <1>1, <1>2 DEF Next

\* Every AssetScan that is processed has one Finding for each thing it found,
\* however often its Reconcile was interrupted: what an earlier attempt created
\* is looked up before anything is created (vulnerabilities.go:42-60, 103-117).
THEOREM OneFindingHolds == Spec => []OneFindingPerResult
<1>1. ASSUME Types, ResultInv, NEW s \in processed \ landed, s \in Scans,
             result[s] # NoResult
      PROVE  /\ {f.key : f \in {g \in findings : g.by = s}} = result[s]
             /\ \A f, g \in findings : f.by = s /\ g.by = s /\ f.key = g.key => f = g
  <2>1. /\ Single(s) /\ Reported(s)
        /\ \A f \in findings : f.by = s => f.key \in result[s]
    BY <1>1 DEF ResultInv
  <2> QED BY <2>1 DEF Single, Reported, Has
<1>2. Types /\ ResultInv /\ processed \subseteq Scans => OneFindingPerResult
  BY <1>1 DEF OneFindingPerResult
<1>3. Init => processed \subseteq Scans
  BY DEF Init
<1>4. Types /\ processed \subseteq Scans /\ [Next]_vars => (processed \subseteq Scans)'
  <2> SUFFICES ASSUME Types, processed \subseteq Scans, [Next]_vars
               PROVE  processed' \subseteq Scans
    OBVIOUS
  <2>1. CASE PMarks
    BY <2>1 DEF PMarks, Types, ProcessorTypes
  <2>2. CASE processed' = processed
    BY <2>2
  <2> QED BY <2>1, <2>2
      DEF Next, Beside, vars, fvars, Processing, PStep, PAsksNewer, PAsksExisting, PAsksOlder,
          PReadsAsset, PPatchesAsset, PWrites, PInvalidates, PGivesUp, LatePostArrives,
          CleanupEnds, PPicks
<1> QED BY <1>2, <1>3, <1>4, InitResults, NextResults, FindingsTyped, PTL DEF Spec
-----------------------------------------------------------------------------
(* When a Finding is invalidated.                                          *)

\* A time of invalidation is the end of a newer AssetScan that found something
\* out, as far as the database can tell (Newer).
Justified(f) ==
    f.invalidatedOn # 0 => f.invalidatedOn \in begun /\ Newer(f.invalidatedOn, f.by)

JustifiedInv ==
    /\ processed \in SUBSET Scans
    /\ begun \in SUBSET Scans /\ \A s \in begun : result[s] # NoResult
    /\ \A f \in findings \cup late : f.by \in begun /\ Justified(f)
    /\ p.phase \notin {"idle", "mark"} => p.scan \in begun
    /\ p.newer # 0 => p.newer \in begun /\ Newer(p.newer, p.scan)
    /\ p.phase = "invalidate" => \A f \in p.older : EndedBefore(f.by, p.scan)

LEMMA SecTypes ==
    /\ \A s \in Scans : Sec[s] \in Nat
    /\ \A s, t \in Scans : s <= t => Sec[s] <= Sec[t]
<1>1. ASSUME NEW s \in Scans, NEW t \in Scans, s <= t
      PROVE  Sec[s] <= Sec[t]
  <2>1. s \in Nat /\ t \in Nat /\ Sec[s] \in Nat
    BY FindingsAssumption, ConstantTypes
  <2>2. CASE s = t
    BY <2>1, <2>2
  <2>3. CASE s < t
    BY <2>3, FindingsAssumption
  <2> QED BY <1>1, <2>1, <2>2, <2>3
<1> QED BY <1>1, FindingsAssumption

\* What a POST stores.
LEMMA PostedIs ==
    ASSUME NEW r, NEW g \in WithPosted(r), g \notin findings
    PROVE  g.by = r.by /\ g.key = r.key /\ g.invalidatedOn = r.invalidatedOn
BY DEF WithPosted

\* What a PATCH by the Reconcile stores.
LEMMA PatchedIs ==
    ASSUME Types, NEW k, NEW g \in WithPatched(k), g \notin findings
    PROVE  \E f \in findings : /\ f.by = p.scan /\ g.by = p.scan /\ p.newer # 0
                               /\ g.invalidatedOn = p.newer
<1>1. PICK f \in findings :
           g = IF f.by = p.scan /\ f.key = k /\ f.nth = 1 /\ p.newer # 0
               THEN [f EXCEPT !.invalidatedOn = p.newer] ELSE f
  BY DEF WithPatched
<1> QED BY <1>1 DEF Types, ProcessorTypes, FindingRecords

\* A step that leaves the Findings alone need only be looked at for the Reconcile.
LEMMA LookingKeepsJustified ==
    ASSUME JustifiedInv, UNCHANGED <<result, findings, late>>,
           begun \subseteq begun', processed' \in SUBSET Scans,
           begun' \in SUBSET Scans, \A s \in begun' : result[s] # NoResult,
           p'.phase \notin {"idle", "mark"} => p'.scan \in begun',
           p'.newer # 0 => p'.newer \in begun' /\ Newer(p'.newer, p'.scan),
           p'.phase = "invalidate" => \A f \in p'.older : EndedBefore(f.by, p'.scan)
    PROVE  JustifiedInv'
BY DEF JustifiedInv, Justified, Newer, EndedBefore

\* A step that writes Findings, or gives up writing one.
LEMMA WritingKeepsJustified ==
    ASSUME JustifiedInv, UNCHANGED <<result, begun, processed>>,
           \A f \in (findings' \cup late') \ (findings \cup late) :
              f.by \in begun /\ Justified(f),
           \/ p'.phase = "idle" /\ p'.newer = 0
           \/ /\ p'.phase = p.phase /\ p'.scan = p.scan /\ p'.newer = p.newer
              /\ p'.older \subseteq p.older
    PROVE  JustifiedInv'
BY DEF JustifiedInv, Justified, Newer, EndedBefore

LEMMA ProcessingKeepsJustified ==
    ASSUME Types, ResultInv, JustifiedInv, Processing
    PROVE  JustifiedInv'
<1> USE DEF Types
<1>i. PIdle.phase = "idle" /\ PIdle.newer = 0
  BY DEF PIdle
<1>p. p \in PRecords
  BY DEF ProcessorTypes
<1>s. p.phase # "idle" => p.scan \in Scans
  BY DEF ProcessorTypes
<1>j. /\ processed \in SUBSET Scans /\ begun \in SUBSET Scans
      /\ \A s \in begun : result[s] # NoResult
      /\ \A f \in findings \cup late : f.by \in begun /\ Justified(f)
      /\ p.phase \notin {"idle", "mark"} => p.scan \in begun
      /\ p.newer # 0 => p.newer \in begun /\ Newer(p.newer, p.scan)
      /\ p.phase = "invalidate" => \A f \in p.older : EndedBefore(f.by, p.scan)
  BY DEF JustifiedInv
<1>1. ASSUME NEW s \in Scans, PPicks(s)
      PROVE  JustifiedInv'
  <2>1. /\ UNCHANGED <<result, findings, late, processed>>
        /\ p'.newer = 0 /\ p'.scan = s /\ p'.phase \in {"mark", "newer"}
        /\ result[s] = NoResult => p'.phase = "mark" /\ begun' = begun
        /\ result[s] # NoResult => begun' = begun \cup {s}
    BY <1>1 DEF PPicks, PIdle
  <2>2. p'.phase = "newer" => result[s] # NoResult
    BY <2>1
  <2> QED BY <1>j, <2>1, <2>2, LookingKeepsJustified
<1>2. CASE PAsksNewer
  <2> DEFINE T == {f.by : f \in {g \in findings : Newer(g.by, p.scan)}}
  <2>1. T \subseteq Scans
    BY DEF ProcessorTypes, FindingRecords
  <2>2. \A t \in T : t \in begun /\ Newer(t, p.scan)
    BY <1>j
  <2>3. p' = [p EXCEPT !.phase = "existing", !.newer = IF T = {} THEN 0 ELSE Min(T)]
    BY <1>2 DEF PAsksNewer
  <2> HIDE DEF T
  <2>4. p'.newer = 0 \/ p'.newer \in T
    BY <1>p, <2>1, <2>3, MinType DEF PRecords
  <2>5. p'.scan = p.scan /\ p'.phase = "existing" /\ p.phase = "newer"
    BY <1>2, <1>p, <2>3 DEF PAsksNewer, PRecords
  <2>6. UNCHANGED <<result, findings, late, processed, begun>>
    BY <1>2 DEF PAsksNewer
  <2> QED BY <1>j, <2>2, <2>4, <2>5, <2>6, LookingKeepsJustified
<1>3. CASE PAsksExisting
  <2>1. /\ UNCHANGED <<result, findings, late, processed, begun>>
        /\ \/ p'.phase = "idle" /\ p'.newer = 0
           \/ /\ p.phase = "existing" /\ p'.phase = "write"
              /\ p'.scan = p.scan /\ p'.newer = p.newer
    BY <1>3, <1>i, <1>p DEF PAsksExisting, PRecords
  <2> QED BY <1>j, <2>1, LookingKeepsJustified
<1>4. ASSUME NEW k \in Keys, PWrites(k)
      PROVE  JustifiedInv'
  <2>1. /\ UNCHANGED <<result, begun, processed, late>> /\ p.phase = "write"
        /\ p'.phase = p.phase /\ p'.scan = p.scan /\ p'.newer = p.newer
        /\ p'.older = p.older
    BY <1>4, <1>p DEF PWrites, PRecords
  <2>2. ASSUME NEW g \in findings', g \notin findings
        PROVE  g.by \in begun /\ Justified(g)
    <3>1. CASE findings' = WithPatched(k)
      <4>1. g.by = p.scan /\ g.invalidatedOn = p.newer
        BY <2>2, <3>1, PatchedIs
      <4> QED BY <1>j, <2>1, <4>1 DEF Justified
    <3>2. CASE findings' = WithPosted(Posted(k))
      <4>1. g.by = p.scan /\ g.invalidatedOn = p.newer
        BY <2>2, <3>2, PostedIs DEF Posted
      <4> QED BY <1>j, <2>1, <4>1 DEF Justified
    <3> QED BY <1>4, <3>1, <3>2 DEF PWrites
  <2> QED BY <2>1, <2>2, WritingKeepsJustified
<1>5. CASE PAsksOlder
  <2>1. /\ UNCHANGED <<result, findings, late, processed, begun>>
        /\ p.phase = "write" /\ p'.phase = "invalidate"
        /\ p'.scan = p.scan /\ p'.newer = p.newer
        /\ \A f \in p'.older : Older(f.by, p.scan)
    BY <1>5, <1>p DEF PAsksOlder, PRecords
  <2>2. \A f \in p'.older : EndedBefore(f.by, p'.scan)
    BY <2>1 DEF Older, EndedBefore
  <2> QED BY <1>j, <2>1, <2>2, LookingKeepsJustified
<1>6. ASSUME NEW f \in p.older, PInvalidates(f)
      PROVE  JustifiedInv'
  <2>1. /\ UNCHANGED <<result, begun, processed, late>> /\ p.phase = "invalidate"
        /\ p'.phase = p.phase /\ p'.scan = p.scan /\ p'.newer = p.newer
        /\ p'.older \subseteq p.older
    BY <1>6, <1>p DEF PInvalidates, PRecords
  <2>2. f \in FindingRecords /\ f.by \in Scans
    BY <1>p DEF PRecords, FindingRecords
  <2>3. EndedBefore(f.by, p.scan) /\ p.scan \in begun
    BY <1>j, <2>1
  <2>4. Newer(p.scan, f.by)
    BY <1>s, <2>1, <2>2, <2>3, SecTypes DEF Newer, EndedBefore
  <2>5. ASSUME NEW g \in findings', g \notin findings
        PROVE  g.by \in begun /\ Justified(g)
    <3>1. g.by = f.by /\ g.invalidatedOn = p.scan
      BY <1>6, <2>2, <2>5 DEF PInvalidates, FindingRecords
    <3>2. f \in findings
      BY <2>1 DEF ResultInv
    <3> QED BY <1>j, <2>3, <2>4, <3>1, <3>2 DEF Justified
  <2> QED BY <2>1, <2>5, WritingKeepsJustified
<1>7. CASE PReadsAsset \/ PPatchesAsset \/ CleanupEnds
  <2>1. /\ UNCHANGED <<result, findings, late, processed, begun>>
        /\ p'.scan = p.scan /\ p'.newer = p.newer /\ p'.older = p.older
        /\ \/ p'.phase = p.phase
           \/ p.phase = "invalidate" /\ p'.phase = "patch"
           \/ p'.phase = "mark"
    BY <1>7, <1>p DEF PReadsAsset, PPatchesAsset, CleanupEnds, PRecords
  <2> QED BY <1>j, <2>1, LookingKeepsJustified
<1>8. CASE PMarks
  <2>1. /\ UNCHANGED <<result, findings, late, begun>> /\ p.phase = "mark"
        /\ p'.phase = "idle" /\ p'.newer = 0
        /\ processed' \subseteq processed \cup {p.scan}
    BY <1>8, <1>i DEF PMarks
  <2> QED BY <1>j, <1>s, <2>1, LookingKeepsJustified
<1>9. CASE PGivesUp
  <2>1. /\ UNCHANGED <<result, begun, processed, findings>> /\ p'.phase = "idle"
        /\ p'.newer = 0
    BY <1>9, <1>i DEF PGivesUp
  <2>2. ASSUME NEW g \in late', g \notin late
        PROVE  g.by \in begun /\ Justified(g)
    <3>1. PICK k : p.phase = "write" /\ g = Posted(k)
      BY <1>9, <2>2 DEF PGivesUp
    <3>2. g.by = p.scan /\ g.invalidatedOn = p.newer
      BY <3>1 DEF Posted
    <3> QED BY <1>j, <3>1, <3>2 DEF Justified
  <2> QED BY <2>1, <2>2, WritingKeepsJustified
<1>10. CASE LatePostArrives
  <2>1. PICK r \in late : findings' = WithPosted(r) /\ late' = late \ {r}
    BY <1>10 DEF LatePostArrives
  <2>2. UNCHANGED <<result, begun, processed, p>>
    BY <1>10 DEF LatePostArrives
  <2>3. ASSUME NEW g \in findings', g \notin findings
        PROVE  g.by \in begun /\ Justified(g)
    <3>1. g.by = r.by /\ g.invalidatedOn = r.invalidatedOn
      BY <2>1, <2>3, PostedIs
    <3> QED BY <1>j, <3>1 DEF Justified
  <2> QED BY <2>1, <2>2, <2>3, WritingKeepsJustified
<1> QED BY <1>1, <1>2, <1>3, <1>4, <1>5, <1>6, <1>7, <1>8, <1>9, <1>10
        DEF Processing, PStep

LEMMA InitJustified == Init => JustifiedInv
BY DEF Init, JustifiedInv, PIdle

LEMMA NextJustified == Types /\ ResultInv /\ JustifiedInv /\ [Next]_vars => JustifiedInv'
<1> SUFFICES ASSUME Types, ResultInv, JustifiedInv, [Next]_vars
             PROVE  JustifiedInv'
  OBVIOUS
<1>1. CASE Beside(DiscoveryNext) \/ UNCHANGED vars
  <2>1. /\ UNCHANGED <<result, findings, late, processed, begun>>
        /\ UNCHANGED <<p.phase, p.scan, p.newer, p.older>>
    BY <1>1 DEF Beside, vars, fvars, Types, ProcessorTypes, PRecords
  <2> QED BY <2>1, LookingKeepsJustified DEF JustifiedInv
<1> QED BY <1>1, ProcessingKeepsJustified DEF Next

\* f was invalidated by t, or at an earlier time, if t is newer.
Bounded(f, t) ==
    EndedBefore(f.by, t) => f.invalidatedOn # 0 /\ Sec[f.invalidatedOn] <= Sec[t]

FoundSome(t) == result[t] # NoResult /\ result[t] # {}

\* What the Reconcile has read of the Findings holds until it is marked: nobody
\* else has changed them.
BoundInv ==
    landed = {} =>
        /\ \A t \in processed : FoundSome(t) => \A f \in findings : Bounded(f, t)
        /\ p.phase \in {"existing", "write"} =>
             \A t \in processed : FoundSome(t) /\ EndedBefore(p.scan, t) =>
                p.newer # 0 /\ Sec[p.newer] <= Sec[t]
        /\ p.phase = "invalidate" =>
             /\ \A f \in findings \ p.older : Bounded(f, p.scan)
             /\ \A f \in p.older : f.invalidatedOn = 0 \/ Newer(f.invalidatedOn, p.scan)
        /\ p.phase \in {"patch", "mark"} /\ result[p.scan] # NoResult =>
             \A f \in findings : Bounded(f, p.scan)

\* Which clauses of BoundInv speak of the Reconcile depends on its phase only.
LEMMA LookingKeepsBound ==
    ASSUME BoundInv, UNCHANGED <<result, findings, landed, processed>>,
           p'.phase \in {"idle", "newer"} \/ (p'.phase = "mark" /\ result[p'.scan] = NoResult)
    PROVE  BoundInv'
BY DEF BoundInv, FoundSome, Bounded, EndedBefore

LEMMA WriteKeepsBound ==
    ASSUME Types, JustifiedInv, BoundInv, NEW k \in Keys, PWrites(k)
    PROVE  BoundInv'
<1> USE DEF Types
<1>1. /\ UNCHANGED <<result, landed, processed>> /\ p.phase = "write"
      /\ p'.phase = p.phase /\ p'.scan = p.scan /\ p'.newer = p.newer
  BY DEF PWrites, ProcessorTypes, PRecords
<1>2. ASSUME landed = {}, NEW t \in processed, FoundSome(t), NEW g \in findings'
      PROVE  Bounded(g, t)
  <2>1. CASE g \in findings
    BY <1>2, <2>1 DEF BoundInv
  <2>2. CASE g \notin findings
    <3>1. g.by = p.scan /\ g.invalidatedOn = p.newer
      BY <1>2, <2>2, PatchedIs, PostedIs DEF PWrites, Posted
    <3> QED BY <1>1, <1>2, <3>1 DEF BoundInv, Bounded
  <2> QED BY <2>1, <2>2
<1>3. \A t : FoundSome(t)' <=> FoundSome(t)
  BY <1>1 DEF FoundSome
<1>4. \A g, t : Bounded(g, t)' <=> Bounded(g, t)
  BY DEF Bounded, EndedBefore
<1>5. \A t : EndedBefore(p.scan, t)' <=> EndedBefore(p.scan, t)
  BY <1>1 DEF EndedBefore
<1> QED BY <1>1, <1>2, <1>3, <1>4, <1>5 DEF BoundInv

LEMMA InvalidateKeepsBound ==
    ASSUME Types, ResultInv, JustifiedInv, BoundInv, NEW f \in p.older, PInvalidates(f)
    PROVE  BoundInv'
<1> USE DEF Types
<1>1. /\ UNCHANGED <<result, landed, processed>> /\ p.phase = "invalidate"
      /\ p'.phase = "invalidate" /\ p'.scan = p.scan /\ p'.older = p.older \ {f}
      /\ p.scan \in Scans
  BY DEF PInvalidates, ProcessorTypes, PRecords
<1> DEFINE new == [f EXCEPT !.invalidatedOn = p.scan]
<1>2. f \in findings /\ f \in FindingRecords /\ p.older \subseteq findings
  BY <1>1 DEF ResultInv, ProcessorTypes
<1>3. findings' = (findings \ {f}) \cup {new} /\ new.by = f.by /\ new.invalidatedOn = p.scan
  BY <1>2 DEF PInvalidates, FindingRecords
<1> HIDE DEF new
<1>4. /\ f.invalidatedOn \in 0..NScans /\ p.scan # 0
      /\ f.invalidatedOn # 0 => f.invalidatedOn \in Scans
  BY <1>1, <1>2, ConstantTypes DEF FindingRecords
<1>5. ASSUME landed = {}, NEW t \in processed, FoundSome(t)
      PROVE  Bounded(new, t)
  <2>1. Bounded(f, t) /\ (f.invalidatedOn = 0 \/ Newer(f.invalidatedOn, p.scan))
    BY <1>1, <1>2, <1>5 DEF BoundInv
  <2>2. ASSUME EndedBefore(f.by, t)
        PROVE  Sec[p.scan] <= Sec[t]
    <3>1. f.invalidatedOn \in Scans /\ Sec[f.invalidatedOn] <= Sec[t]
      BY <1>4, <2>1, <2>2 DEF Bounded
    <3>2. Newer(f.invalidatedOn, p.scan)
      BY <1>4, <2>1, <2>2 DEF Bounded
    <3>3. t \in Scans
      BY <1>5 DEF JustifiedInv
    <3>4. Sec[p.scan] <= Sec[f.invalidatedOn]
      BY <1>1, <3>1, <3>2, SecTypes DEF Newer
    <3> QED BY <1>1, <3>1, <3>3, <3>4, SecTypes
  <2> QED BY <1>3, <1>4, <2>2 DEF Bounded, EndedBefore
<1>6. Bounded(new, p.scan)
  BY <1>1, <1>3, <1>4, SecTypes DEF Bounded
<1>7. \A t : FoundSome(t)' <=> FoundSome(t)
  BY <1>1 DEF FoundSome
<1>8. ASSUME landed' = {}
       PROVE  /\ \A t \in processed' : FoundSome(t)' => \A g \in findings' : Bounded(g, t)
              /\ \A g \in findings' \ p'.older : Bounded(g, p'.scan)
              /\ \A g \in p'.older : g.invalidatedOn = 0 \/ Newer(g.invalidatedOn, p'.scan)
  <2>1. /\ \A t \in processed : FoundSome(t) => \A g \in findings : Bounded(g, t)
        /\ \A g \in findings \ p.older : Bounded(g, p.scan)
        /\ \A g \in p.older : g.invalidatedOn = 0 \/ Newer(g.invalidatedOn, p.scan)
    BY <1>1, <1>8 DEF BoundInv
  <2>2. \A t \in processed : FoundSome(t) => \A g \in findings' : Bounded(g, t)
    BY <1>1, <1>3, <1>5, <1>8, <2>1
  <2>3. \A g \in findings' \ p'.older : Bounded(g, p.scan)
    BY <1>1, <1>3, <1>6, <2>1
  <2>4. \A g \in p'.older : g.invalidatedOn = 0 \/ Newer(g.invalidatedOn, p.scan)
    BY <1>1, <2>1
  <2>5. \A t \in processed' : FoundSome(t)' => \A g \in findings' : Bounded(g, t)
    BY <1>1, <1>7, <2>2 DEF Bounded, EndedBefore
  <2>6. \A g \in findings' \ p'.older : Bounded(g, p'.scan)
    BY <1>1, <2>3
  <2>7. \A g \in p'.older : g.invalidatedOn = 0 \/ Newer(g.invalidatedOn, p'.scan)
    BY <1>1, <2>4
  <2> QED BY <2>5, <2>6, <2>7
<1>9. p'.phase \notin {"existing", "write", "patch", "mark"}
  BY <1>1
<1> QED BY <1>8, <1>9 DEF BoundInv

LEMMA AskingKeepsBound ==
    ASSUME Types, ResultInv, JustifiedInv, BoundInv, PAsksNewer
    PROVE  BoundInv'
<1> USE DEF Types
<1> DEFINE T == {f.by : f \in {g \in findings : Newer(g.by, p.scan)}}
<1>1. T \subseteq Scans
  BY DEF ProcessorTypes, FindingRecords
<1>2. p' = [p EXCEPT !.phase = "existing", !.newer = IF T = {} THEN 0 ELSE Min(T)]
  BY DEF PAsksNewer
<1>3. ASSUME landed = {}, NEW t \in processed, FoundSome(t), EndedBefore(p.scan, t)
      PROVE  t \in T
  <2>1. t \in Scans \ landed /\ result[t] # NoResult /\ result[t] # {} /\ p.scan \in Scans
    BY <1>3 DEF JustifiedInv, FoundSome, ProcessorTypes, PAsksNewer
  <2>2. PICK k : k \in result[t]
    BY <2>1
  <2>3. Has(t, k)
    BY <1>3, <2>1, <2>2 DEF ResultInv, Reported
  <2>4. Newer(t, p.scan)
    BY <1>3, <2>1, SecTypes DEF Newer, EndedBefore
  <2> QED BY <2>3, <2>4 DEF Has
<1> HIDE DEF T
<1>4. /\ p'.phase = "existing" /\ p'.scan = p.scan
      /\ T # {} => p'.newer = Min(T)
  BY <1>2 DEF ProcessorTypes, PRecords
<1>5. ASSUME landed = {}, NEW t \in processed, FoundSome(t), EndedBefore(p.scan, t)
      PROVE  p'.newer # 0 /\ Sec[p'.newer] <= Sec[t]
  <2>1. t \in T /\ T # {}
    BY <1>3, <1>5
  <2>2. p'.newer \in Scans /\ p'.newer <= t /\ t \in Scans
    BY <1>1, <1>4, <2>1, MinType
  <2> QED BY <2>2, SecTypes, ConstantTypes
<1>6. UNCHANGED <<result, findings, landed, processed>>
  BY DEF PAsksNewer
<1> QED BY <1>4, <1>5, <1>6 DEF BoundInv, FoundSome, Bounded, EndedBefore

LEMMA OlderKeepsBound ==
    ASSUME Types, BoundInv, PAsksOlder
    PROVE  BoundInv'
<1> USE DEF Types
<1>1. /\ UNCHANGED <<result, findings, landed, processed>>
      /\ p'.phase = "invalidate" /\ p'.scan = p.scan /\ p.scan \in Scans
      /\ p'.older = {f \in findings :
                        /\ Older(f.by, p.scan)
                        /\ \/ f.invalidatedOn = 0
                           \/ Newer(f.invalidatedOn, p.scan)}
  BY DEF PAsksOlder, ProcessorTypes, PRecords
<1>2. ASSUME NEW f \in findings \ p'.older
      PROVE  Bounded(f, p.scan)
  <2>1. SUFFICES ASSUME EndedBefore(f.by, p.scan)
                 PROVE  f.invalidatedOn # 0 /\ Sec[f.invalidatedOn] <= Sec[p.scan]
    BY DEF Bounded
  <2>2. f.invalidatedOn # 0 /\ ~Newer(f.invalidatedOn, p.scan)
    BY <1>1, <1>2, <2>1 DEF Older, EndedBefore
  <2>3. f.invalidatedOn \in Scans
    BY <2>2, ConstantTypes DEF ProcessorTypes, FindingRecords
  <2> QED BY <1>1, <2>2, <2>3, SecTypes DEF Newer
<1>3. \A f \in p'.older : f.invalidatedOn = 0 \/ Newer(f.invalidatedOn, p.scan)
  BY <1>1
<1>4. landed' = {} => \A t \in processed : FoundSome(t) => \A f \in findings : Bounded(f, t)
  BY <1>1 DEF BoundInv
<1> QED BY <1>1, <1>2, <1>3, <1>4 DEF BoundInv, FoundSome, Bounded, EndedBefore, Newer

LEMMA ReconcileKeepsBound ==
    ASSUME Types, ResultInv, BoundInv,
           \/ \E s \in Scans : PPicks(s)
           \/ PAsksExisting \/ PReadsAsset \/ PPatchesAsset \/ PMarks \/ PGivesUp
           \/ LatePostArrives \/ CleanupEnds
    PROVE  BoundInv'
<1> USE DEF Types
<1>i. PIdle.phase = "idle"
  BY DEF PIdle
<1>p. p \in PRecords
  BY DEF ProcessorTypes
<1>1. ASSUME NEW s \in Scans, PPicks(s)
      PROVE  BoundInv'
  <2>1. /\ UNCHANGED <<result, findings, landed, processed>> /\ p'.scan = s
        /\ p'.phase = IF result[s] = NoResult THEN "mark" ELSE "newer"
    BY <1>1 DEF PPicks, PIdle
  <2> QED BY <2>1, LookingKeepsBound
<1>2. CASE PAsksExisting
  <2>1. /\ UNCHANGED <<result, findings, landed, processed>>
        /\ \/ p'.phase = "idle"
           \/ /\ p.phase = "existing" /\ p'.phase = "write"
              /\ p'.scan = p.scan /\ p'.newer = p.newer
    BY <1>2, <1>i, <1>p DEF PAsksExisting, PRecords
  <2> QED BY <2>1, LookingKeepsBound DEF BoundInv, FoundSome, Bounded, EndedBefore
<1>3. CASE PReadsAsset
  <2>1. /\ UNCHANGED <<result, findings, landed, processed>> /\ p.phase = "invalidate"
        /\ p.older = {} /\ p'.phase = "patch" /\ p'.scan = p.scan
    BY <1>3, <1>p DEF PReadsAsset, PRecords
  <2> QED BY <2>1 DEF BoundInv, FoundSome, Bounded, EndedBefore
<1>4. CASE PPatchesAsset
  <2>1. /\ UNCHANGED <<result, findings, landed, processed>> /\ p.phase = "patch"
        /\ p'.phase = "mark" /\ p'.scan = p.scan
    BY <1>4, <1>p DEF PPatchesAsset, PRecords
  <2> QED BY <2>1 DEF BoundInv, FoundSome, Bounded, EndedBefore
<1>5. CASE PMarks
  <2>1. /\ UNCHANGED <<result, findings, landed>> /\ p.phase = "mark" /\ p'.phase = "idle"
        /\ processed' \subseteq processed \cup {p.scan}
    BY <1>5, <1>i DEF PMarks
  <2> QED BY <2>1 DEF BoundInv, FoundSome, Bounded, EndedBefore
<1>6. CASE PGivesUp
  <2>1. UNCHANGED <<result, findings, landed, processed>> /\ p'.phase = "idle"
    BY <1>6, <1>i DEF PGivesUp
  <2> QED BY <2>1, LookingKeepsBound
<1>7. CASE LatePostArrives
  BY <1>7 DEF LatePostArrives, BoundInv
<1>8. CASE CleanupEnds
  <2>1. /\ UNCHANGED <<result, findings, landed, processed>>
        /\ UNCHANGED <<p.phase, p.scan, p.newer, p.older>>
    BY <1>8, <1>p DEF CleanupEnds, PRecords
  <2> QED BY <2>1 DEF BoundInv, FoundSome, Bounded, EndedBefore, Newer
<1> QED BY <1>1, <1>2, <1>3, <1>4, <1>5, <1>6, <1>7, <1>8

LEMMA InitBound == Init => BoundInv
BY DEF Init, BoundInv, PIdle

LEMMA NextBound ==
    Types /\ ResultInv /\ JustifiedInv /\ BoundInv /\ [Next]_vars => BoundInv'
<1> SUFFICES ASSUME Types, ResultInv, JustifiedInv, BoundInv, [Next]_vars
             PROVE  BoundInv'
  OBVIOUS
<1>1. CASE Beside(DiscoveryNext) \/ UNCHANGED vars
  <2>1. /\ UNCHANGED <<result, findings, landed, processed>>
        /\ UNCHANGED <<p.phase, p.scan, p.newer, p.older>>
    BY <1>1 DEF Beside, vars, fvars, Types, ProcessorTypes, PRecords
  <2> QED BY <2>1 DEF BoundInv, FoundSome, Bounded, EndedBefore, Newer
<1>2. CASE Processing
  BY <1>2, WriteKeepsBound, InvalidateKeepsBound, AskingKeepsBound, OlderKeepsBound,
     ReconcileKeepsBound DEF Processing, PStep
<1> QED BY <1>1, <1>2 DEF Next

\* What is known of the times of invalidation, whatever the database.
Times == Types /\ ResultInv /\ JustifiedInv /\ BoundInv

LEMMA TimesHold == Spec => []Times
<1>1. Init => Times
  BY InitTypes, InitResults, InitJustified, InitBound DEF Times
<1>2. Times /\ [Next]_vars => Times'
  BY NextTypes, NextResults, NextJustified, NextBound DEF Times
<1> QED BY <1>1, <1>2, PTL DEF Spec

\* A Finding stays active until a newer AssetScan that has a result is processed,
\* however often its own Reconcile is taken up again.  SQLite is assumed, which
\* compares whole seconds; with Postgres it is not so (common.go:64-66).
THEOREM NewestHolds == ~SubSecond => (Spec => []NewestStaysActive)
<1> SUFFICES ASSUME ~SubSecond
             PROVE  Spec => []NewestStaysActive
  OBVIOUS
<1>1. Times => NewestStaysActive
  <2>1. ASSUME Times, Settled, NEW f \in findings, f.invalidatedOn # 0
        PROVE  Supersedes(f.invalidatedOn, f.by) /\ f.invalidatedOn \in Scans
    <3>1. f.invalidatedOn \in begun /\ Newer(f.invalidatedOn, f.by)
      BY <2>1 DEF Times, JustifiedInv, Justified
    <3>2. f.invalidatedOn \in processed /\ f.invalidatedOn \in Scans /\ f.by \in Scans
      BY <2>1, <3>1 DEF Times, JustifiedInv, Settled
    <3>3. EndedBefore(f.by, f.invalidatedOn)
      BY <3>1, <3>2, SecTypes DEF Newer, EndedBefore
    <3> QED BY <2>1, <3>1, <3>2, <3>3 DEF Times, JustifiedInv, Supersedes
  <2> QED BY <2>1 DEF NewestStaysActive
<1> QED BY <1>1, TimesHold, PTL

\* With AssetScans processed in any order, a Finding is invalidated at the time of
\* the next AssetScan that found something, not later.  SQLite is assumed
\* (common.go:31-86).
THEOREM InvalidatedByTheNextHolds == ~SubSecond => (Spec => []InvalidatedByTheNext)
<1> SUFFICES ASSUME ~SubSecond
             PROVE  Spec => []InvalidatedByTheNext
  OBVIOUS
<1>1. Times => InvalidatedByTheNext
  <2>1. ASSUME Times, Settled, NEW f \in findings, f.invalidatedOn # 0
        PROVE  EndedBefore(f.by, f.invalidatedOn)
    <3>1. f.invalidatedOn \in begun /\ Newer(f.invalidatedOn, f.by) /\ f.by \in begun
      BY <2>1 DEF Times, JustifiedInv, Justified
    <3> QED BY <3>1, <2>1, SecTypes DEF Newer, EndedBefore, Times, JustifiedInv
  <2>2. ASSUME Times, Settled, NEW f \in findings, NEW t \in Scans,
               Supersedes(t, f.by), result[t] # {}
        PROVE  f.invalidatedOn # 0 /\ ~EndedBefore(t, f.invalidatedOn)
    <3>1. f.invalidatedOn # 0 /\ Sec[f.invalidatedOn] <= Sec[t]
      BY <2>2 DEF Times, BoundInv, Settled, Supersedes, FoundSome, Bounded
    <3>2. f.invalidatedOn \in Scans
      BY <2>2, <3>1 DEF Times, JustifiedInv, Justified
    <3> QED BY <2>2, <3>1, <3>2, SecTypes DEF EndedBefore
  <2> QED BY <2>1, <2>2 DEF InvalidatedByTheNext
<1> QED BY <1>1, TimesHold, PTL

\* What is left of both with Postgres: the time of invalidation is that of a
\* processed AssetScan which ended in the same second or later, and not later than
\* the next that found something.
InvalidatedInTime ==
    Settled =>
        \A f \in findings :
            /\ f.invalidatedOn # 0 =>
                 /\ f.invalidatedOn \in processed
                 /\ ~EndedBefore(f.invalidatedOn, f.by)
            /\ \A t \in Scans : Supersedes(t, f.by) /\ result[t] # {} =>
                 f.invalidatedOn # 0 /\ ~EndedBefore(t, f.invalidatedOn)

\* Whatever the database, no Finding is invalidated before its own time, and none
\* outlives the next AssetScan that found something (common.go:31-86).
THEOREM InvalidatedInTimeHolds == Spec => []InvalidatedInTime
<1>1. ASSUME Times, Settled, NEW f \in findings, f.invalidatedOn # 0
      PROVE  f.invalidatedOn \in processed /\ ~EndedBefore(f.invalidatedOn, f.by)
  <2>1. /\ f.invalidatedOn \in begun /\ Newer(f.invalidatedOn, f.by) /\ f.by \in begun
        /\ begun \subseteq processed /\ begun \subseteq Scans
    BY <1>1 DEF Times, JustifiedInv, Justified, Settled
  <2> QED BY <2>1, SecTypes DEF Newer, EndedBefore
<1>2. ASSUME Times, Settled, NEW f \in findings, NEW t \in Scans,
             Supersedes(t, f.by), result[t] # {}
      PROVE  f.invalidatedOn # 0 /\ ~EndedBefore(t, f.invalidatedOn)
  <2>1. f.invalidatedOn # 0 /\ Sec[f.invalidatedOn] <= Sec[t]
    BY <1>2 DEF Times, BoundInv, Settled, Supersedes, FoundSome, Bounded
  <2>2. f.invalidatedOn \in Scans
    BY <1>2, <2>1 DEF Times, JustifiedInv, Justified
  <2> QED BY <1>2, <2>1, <2>2, SecTypes DEF EndedBefore
<1>3. Times => InvalidatedInTime
  BY <1>1, <1>2 DEF InvalidatedInTime
<1> QED BY <1>3, TimesHold, PTL
-----------------------------------------------------------------------------
(* The summary of the Asset.  Its number of active Findings is counted and *)
(* written by the Reconcile that changed them, and nobody changes a        *)
(* Finding in between; the Discoverer leaves the summary alone.  A         *)
(* Reconcile that gave up may leave a wrong number, but then its AssetScan *)
(* is still to be processed.                                               *)

SummaryNow == asset[Target].summary = Cardinality(Active)

SummaryInv ==
    landed = {} =>
        /\ p.phase = "idle" \/ (p.phase = "mark" /\ result[p.scan] = NoResult) =>
             (begun \subseteq processed /\ begun # {} => SummaryNow)
        /\ p.phase \notin {"idle", "mark"} => p.scan \notin processed
        /\ p.phase = "patch" => p.count = Cardinality(Active)
        /\ p.phase = "mark" /\ result[p.scan] # NoResult => SummaryNow

\* The Discoverer writes other fields of the Asset.
LEMMA DiscoveryKeepsSummary ==
    ASSUME DiscoveryTypes, DiscoveryNext
    PROVE  \A a \in Assets : asset'[a].summary = asset[a].summary
<1>1. CASE DSkipsRegion \/ DWalkEnds \/ DEnds \/ DGivesUp \/ DQueries
           \/ AssetAppears \/ AssetDisappears
  <2>1. DSkipsRegion => asset' = asset
    BY DEF DSkipsRegion
  <2>2. DQueries => asset' = asset
    BY DEF DQueries
  <2>3. DWalkEnds \/ DEnds \/ DGivesUp \/ AssetAppears \/ AssetDisappears => asset' = asset
    BY DEF DWalkEnds, DEnds, DGivesUp, AssetAppears, AssetDisappears
  <2> QED BY <1>1, <2>1, <2>2, <2>3
<1> USE DEF DiscoveryTypes, AssetRecords
<1>2. CASE DStarts
  BY <1>2 DEF DStarts
<1>3. ASSUME NEW b \in Assets, DPerAsset(b)
      PROVE  \A a \in Assets : asset'[a].summary = asset[a].summary
  <2>1. CASE asset' = [asset EXCEPT ![b].exists = TRUE, ![b].seen = TRUE]
    BY <2>1
  <2>2. CASE asset' = [asset EXCEPT ![b].seen = TRUE]
    BY <2>2
  <2>3. CASE asset' = [asset EXCEPT ![b].terminated = TRUE]
    BY <2>3
  <2>4. CASE asset' = asset
    BY <2>4
  <2> QED BY <1>3, <2>1, <2>2, <2>3, <2>4
      DEF DPerAsset, DPosts, DPostFails, DPatches, DMergeFails, DPatchFails, DTerminates,
          DTerminateFails
<1> QED BY <1>1, <1>2, <1>3 DEF DiscoveryNext

\* What neither Findings nor summary show: the Reconcile goes on, or gives up an
\* AssetScan that is still to be processed.
LEMMA QuietKeepsSummary ==
    ASSUME Types, JustifiedInv, SummaryInv, UNCHANGED <<result, processed, begun, landed>>,
           findings' = findings \/ p'.phase \in {"write", "invalidate"},
           asset'[Target].summary = asset[Target].summary,
           \/ /\ p.phase \notin {"idle", "mark"}
              /\ p'.phase \in {"existing", "write", "invalidate"} /\ p'.scan = p.scan
           \/ p'.phase = "idle"
    PROVE  SummaryInv'
<1>0. CASE landed # {}
  BY <1>0 DEF SummaryInv
<1>1. findings' = findings => Active' = Active /\ (SummaryNow' <=> SummaryNow)
  BY DEF Active, SummaryNow
<1>2. CASE landed = {} /\ p'.phase # "idle"
  BY <1>2 DEF SummaryInv
<1>3. CASE landed = {} /\ p'.phase = "idle"
  <2>1. begun \subseteq processed /\ begun # {} => SummaryNow
    <3>1. p.phase \notin {"idle", "mark"} => p.scan \in begun \ processed
      BY <1>3 DEF JustifiedInv, SummaryInv
    <3> QED BY <1>3, <3>1 DEF SummaryInv
  <2> QED BY <1>1, <1>3, <2>1 DEF SummaryInv
<1> QED BY <1>0, <1>2, <1>3

LEMMA ProcessingKeepsSummary ==
    ASSUME Types, JustifiedInv, SummaryInv, Processing
    PROVE  SummaryInv'
<1>i. PIdle.phase = "idle"
  BY DEF PIdle
<1>p. p \in PRecords
  BY DEF Types, ProcessorTypes
<1>1. ASSUME NEW s \in Scans, PPicks(s)
      PROVE  SummaryInv'
  <2>1. /\ UNCHANGED <<asset, result, findings, processed, landed>> /\ p.phase = "idle"
        /\ s \notin processed /\ p'.scan = s
        /\ p'.phase = IF result[s] = NoResult THEN "mark" ELSE "newer"
        /\ result[s] = NoResult => begun' = begun
    BY <1>1 DEF PPicks, PIdle, dvars
  <2>2. SummaryNow' <=> SummaryNow
    BY <2>1 DEF SummaryNow, Active
  <2> QED BY <2>1, <2>2 DEF SummaryInv
<1>2. CASE PAsksNewer \/ PAsksExisting \/ PAsksOlder \/ PGivesUp
  <2>1. /\ UNCHANGED <<asset, result, findings, processed, begun, landed>>
        /\ \/ /\ p.phase \notin {"idle", "mark"}
              /\ p'.phase \in {"existing", "write", "invalidate"} /\ p'.scan = p.scan
           \/ p'.phase = "idle"
    BY <1>2, <1>i, <1>p DEF PAsksNewer, PAsksExisting, PAsksOlder, PGivesUp, PRecords, dvars
  <2> QED BY <2>1, QuietKeepsSummary
<1>3. ASSUME NEW k, PWrites(k) \/ (k \in p.older /\ PInvalidates(k))
      PROVE  SummaryInv'
  <2>1. /\ UNCHANGED <<asset, result, processed, begun, landed>>
        /\ p.phase \in {"write", "invalidate"} /\ p'.phase = p.phase /\ p'.scan = p.scan
    BY <1>3, <1>p DEF PWrites, PInvalidates, PRecords, dvars
  <2> QED BY <2>1, QuietKeepsSummary
<1>4. CASE PReadsAsset
  <2>1. /\ UNCHANGED <<asset, result, findings, processed, begun, landed>>
        /\ p.phase = "invalidate" /\ p'.phase = "patch" /\ p'.scan = p.scan
        /\ p'.count = Cardinality(Active)
    BY <1>4, <1>p DEF PReadsAsset, PRecords, dvars
  <2>2. Active' = Active
    BY <2>1 DEF Active
  <2> QED BY <2>1, <2>2 DEF SummaryInv
<1>5. CASE PPatchesAsset
  <2>1. /\ UNCHANGED <<result, findings, processed, begun, landed>>
        /\ p.phase = "patch" /\ p'.phase = "mark" /\ p'.scan = p.scan
        /\ asset'[Target].summary = p.count /\ result[p.scan] # NoResult
    BY <1>5, <1>p, ConstantTypes
       DEF PPatchesAsset, PRecords, Types, ProcessorTypes, DiscoveryTypes, AssetRecords
  <2>2. Active' = Active
    BY <2>1 DEF Active
  <2> QED BY <2>1, <2>2 DEF SummaryInv, SummaryNow
<1>6. CASE PMarks
  <2>1. /\ UNCHANGED <<asset, result, findings, begun, landed>>
        /\ p.phase = "mark" /\ p'.phase = "idle"
        /\ processed' \subseteq processed \cup {p.scan}
    BY <1>6, <1>i DEF PMarks, dvars
  <2>2. SummaryNow' <=> SummaryNow
    BY <2>1 DEF SummaryNow, Active
  <2>3. result[p.scan] = NoResult => p.scan \notin begun
    BY DEF JustifiedInv
  <2> QED BY <2>1, <2>2, <2>3 DEF SummaryInv
<1>7. CASE LatePostArrives
  BY <1>7 DEF LatePostArrives, SummaryInv
<1>8. CASE CleanupEnds
  <2>1. /\ UNCHANGED <<asset, result, findings, processed, begun, landed>>
        /\ p'.phase = p.phase /\ p'.scan = p.scan /\ p'.count = p.count
    BY <1>8, <1>p DEF CleanupEnds, PRecords, dvars
  <2> QED BY <2>1 DEF SummaryInv, SummaryNow, Active
<1> QED BY <1>1, <1>2, <1>3, <1>4, <1>5, <1>6, <1>7, <1>8 DEF Processing, PStep

LEMMA InitSummary == Init => SummaryInv
BY DEF Init, SummaryInv, PIdle

LEMMA NextSummary == Types /\ JustifiedInv /\ SummaryInv /\ [Next]_vars => SummaryInv'
<1> SUFFICES ASSUME Types, JustifiedInv, SummaryInv, [Next]_vars
             PROVE  SummaryInv'
  OBVIOUS
<1>1. CASE Beside(DiscoveryNext) \/ UNCHANGED vars
  <2>1. /\ UNCHANGED <<result, findings, processed, begun, landed>>
        /\ p'.phase = p.phase /\ p'.scan = p.scan /\ p'.count = p.count
    BY <1>1 DEF Beside, vars, fvars, Types, ProcessorTypes, PRecords
  <2>2. asset'[Target].summary = asset[Target].summary
    BY <1>1, DiscoveryKeepsSummary, ConstantTypes DEF Beside, vars, dvars, Types
  <2> QED BY <2>1, <2>2 DEF SummaryInv, SummaryNow, Active
<1>2. CASE Processing
  BY <1>2, ProcessingKeepsSummary
<1> QED BY <1>1, <1>2 DEF Next

\* When no Reconcile is under way or due again, and no POST came late, the summary
\* of the Asset counts its active Findings, with the Discoverer writing the same
\* Asset (vulnerabilities.go:126-166).
THEOREM SummaryHolds == Spec => []SummaryIsRight
<1>1. JustifiedInv /\ SummaryInv => SummaryIsRight
  BY DEF SummaryInv, SummaryIsRight, SummaryNow, Settled
<1>2. Times => Types /\ JustifiedInv
  BY DEF Times
<1> QED BY <1>1, <1>2, InitSummary, NextSummary, TimesHold, PTL DEF Spec

\* A Reconcile of an AssetScan is refused for two Findings with one key only when
\* a late POST has come for it: every other attempt goes on (common.go:31-37).
RefusedOnlyWhenLate ==
    p.phase = "existing" /\ p.scan \notin landed =>
        ~\E f, g \in Own : f # g /\ f.key = g.key

\* However often a Reconcile gives up, taking it up again is never refused, unless
\* a POST it no longer waits for arrived (common.go:31-37, vulnerabilities.go:42-60).
THEOREM RefusedOnlyWhenLateHolds == Spec => []RefusedOnlyWhenLate
<1>1. Types /\ ResultInv => RefusedOnlyWhenLate
  BY DEF Types, ProcessorTypes, ResultInv, Single, Own, RefusedOnlyWhenLate
<1>2. Times => Types /\ ResultInv
  BY DEF Times
<1> QED BY <1>1, <1>2, TimesHold, PTL
-----------------------------------------------------------------------------
(* Nothing is overlooked.  An asset that a discovery has not reported is   *)
(* not seen: its lastSeen is older than the discovery, in the server and   *)
(* in the copy that the processor is about to write back.                  *)

UnseenInv ==
    /\ p.seen => asset[Target].seen
    /\ d.unpatched \subseteq d.found
    /\ d.phase = "walk" => d.todo \subseteq d.found \ d.unpatched
    /\ d.phase \in {"walk", "query"} =>
         \A a \in Assets : a \notin d.found \/ a \in d.todo => ~asset[a].seen

\* A discovery that gets to its query sets out to terminate every asset it has not
\* found, whatever failed on the way and whatever the processor wrote meanwhile.
NothingMissed ==
    [][d.phase = "query" /\ d'.phase = "terminate" =>
          \A a \in Assets \ d.found :
             asset[a].exists => asset[a].terminated \/ a \in d'.todo]_vars

\* Reporting an asset is what makes it seen.
LEMMA ReportingKeepsUnseen ==
    ASSUME Types, FoundInv, UnseenInv, NEW a \in Assets, d.phase = "walk", a \in d.todo,
           \A b \in Assets \ {a} : asset'[b].seen = asset[b].seen,
           asset[a].seen => asset'[a].seen, d' \in Discoveries,
           UNCHANGED <<d.phase, d.found>>, p'.seen = p.seen,
           d'.todo = d.todo \ {a}, d'.unpatched \subseteq d.unpatched \cup {a}
    PROVE  UnseenInv'
<1>1. a \in d.found /\ d.found \subseteq Assets
  BY DEF UnseenInv, Types, DiscoveryTypes, Discoveries
<1>2. p'.seen => asset'[Target].seen
  BY ConstantTypes DEF UnseenInv
<1>3. \A b \in Assets : b \notin d.found \/ b \in d'.todo => ~asset'[b].seen
  BY <1>1 DEF UnseenInv
<1> QED BY <1>1, <1>2, <1>3 DEF UnseenInv

LEMMA RegionSkipped ==
    ASSUME DiscoveryTypes, DSkipsRegion
    PROVE  \E region \in SUBSET d.todo :
              /\ d'.todo = d.todo \ region /\ d'.found = d.found \ region
              /\ UNCHANGED <<d.phase, d.unpatched>>
<1>1. PICK region \in (SUBSET (d.todo \ d.conflict)) \ {{}} :
           d' = [d EXCEPT !.todo = @ \ region, !.found = @ \ region]
  BY Zenon DEF DSkipsRegion
<1>2. /\ d'.todo = d.todo \ region /\ d'.found = d.found \ region
      /\ UNCHANGED <<d.phase, d.unpatched>>
  BY <1>1 DEF DiscoveryTypes, Discoveries
<1> QED BY <1>2

LEMMA DiscoveryKeepsUnseen ==
    ASSUME Types, FoundInv, UnseenInv, Beside(DiscoveryNext)
    PROVE  UnseenInv'
<1> USE DEF Types, DiscoveryTypes, Discoveries
<1>d. DiscoveryNext /\ d' \in Discoveries
  BY DiscoveryStepTypes DEF Beside
<1>p. p'.seen = p.seen \/ p'.seen = FALSE
  BY DEF Beside, ProcessorTypes, PRecords
<1>q. d.phase # "idle" => p' = p
  BY DEF Beside
<1>1. CASE DStarts
  <2>1. /\ d.phase = "idle" /\ d'.phase = "walk" /\ d'.found = present /\ d'.todo = present
        /\ d'.unpatched = {}
    BY <1>1 DEF DStarts, DIdle
  <2>2. \A a \in Assets : ~asset'[a].seen
    BY <1>1 DEF DStarts, AssetRecords
  <2>3. p'.seen = FALSE
    BY <2>1 DEF Beside, ProcessorTypes, PRecords
  <2> QED BY <2>1, <2>2, <2>3 DEF UnseenInv
<1>2. CASE DSkipsRegion
  <2>1. PICK region \in SUBSET d.todo :
             /\ d'.todo = d.todo \ region /\ d'.found = d.found \ region
             /\ UNCHANGED <<d.phase, d.unpatched>>
    BY <1>2, RegionSkipped
  <2>2. d.phase = "walk" /\ asset' = asset
    BY <1>2 DEF DSkipsRegion
  <2>4. p' = p
    BY <1>q, <2>2
  <2>5. \A a \in Assets : a \notin d'.found \/ a \in d'.todo => a \notin d.found \/ a \in d.todo
    BY <2>1
  <2>6. d'.unpatched \subseteq d'.found /\ d'.todo \subseteq d'.found \ d'.unpatched
    BY <2>1, <2>2 DEF UnseenInv
  <2> QED BY <2>1, <2>2, <2>4, <2>5, <2>6 DEF UnseenInv
<1>3. CASE DWalkEnds
  <2>1. /\ d.phase = "walk" /\ d.todo = {} /\ asset' = asset /\ d'.phase = "query"
        /\ UNCHANGED <<d.todo, d.found, d.unpatched>>
    BY <1>3 DEF DWalkEnds
  <2> QED BY <1>q, <2>1 DEF UnseenInv
<1>4. CASE DQueries
  <2>1. /\ d.phase = "query" /\ d'.phase = "terminate" /\ asset' = asset
        /\ UNCHANGED <<d.found, d.unpatched>>
    BY <1>4 DEF DQueries
  <2> QED BY <1>q, <2>1 DEF UnseenInv
<1>5. CASE DEnds \/ DGivesUp
  <2>1. /\ d.phase # "idle" /\ d'.phase = "idle" /\ d'.unpatched = {} /\ asset' = asset
    BY <1>5 DEF DEnds, DGivesUp, DIdle
  <2> QED BY <1>q, <2>1 DEF UnseenInv
<1>6. ASSUME NEW a \in Assets, DPosts(a)
      PROVE  UnseenInv'
  <2>0. d.phase = "walk" /\ a \in d.todo
    BY <1>6 DEF DPosts
  <2>1. CASE /\ asset' = [asset EXCEPT ![a].exists = TRUE, ![a].seen = TRUE]
             /\ d' = [d EXCEPT !.todo = @ \ {a}]
    <3>1. asset'[a].seen /\ \A b \in Assets \ {a} : asset'[b] = asset[b]
      BY <2>1 DEF AssetRecords
    <3>2. d'.todo = d.todo \ {a} /\ UNCHANGED <<d.phase, d.found, d.unpatched>>
      BY <2>1
    <3> QED BY <1>d, <1>q, <2>0, <3>1, <3>2, ReportingKeepsUnseen
  <2>2. CASE asset' = asset /\ d' = [d EXCEPT !.conflict = {a}]
    <3>1. UNCHANGED <<d.phase, d.found, d.unpatched, d.todo>>
      BY <2>2
    <3> QED BY <1>q, <2>0, <2>2, <3>1 DEF UnseenInv
  <2> QED BY <1>6, <2>1, <2>2 DEF DPosts
<1>7. ASSUME NEW a \in Assets, \/ DPostFails(a) \/ DMergeFails(a) \/ DPatches(a)
                               \/ DPatchFails(a)
      PROVE  UnseenInv'
  <2>0. a \in d.todo /\ d.phase = "walk"
    BY <1>7 DEF DPostFails, DMergeFails, DPatches, DPatchFails, FoundInv
  <2>1. /\ \A b \in Assets \ {a} : asset'[b].seen = asset[b].seen
        /\ asset[a].seen => asset'[a].seen
    BY <1>7 DEF DPostFails, DMergeFails, DPatches, DPatchFails, AssetRecords
  <2>2. /\ d'.todo = d.todo \ {a} /\ d'.unpatched \subseteq d.unpatched \cup {a}
        /\ UNCHANGED <<d.phase, d.found>>
    BY <1>7 DEF DPostFails, DMergeFails, DPatches, DPatchFails
  <2> QED BY <1>d, <1>q, <2>0, <2>1, <2>2, ReportingKeepsUnseen
<1>8. ASSUME NEW a \in Assets, DTerminates(a) \/ DTerminateFails(a)
      PROVE  UnseenInv'
  <2>1. d.phase = "terminate" /\ UNCHANGED <<d.phase, d.found, d.unpatched>>
    BY <1>8 DEF DTerminates, DTerminateFails
  <2>2. \A b \in Assets : asset'[b].seen = asset[b].seen
    BY <1>8 DEF DTerminates, DTerminateFails, AssetRecords
  <2> QED BY <1>q, <2>1, <2>2, ConstantTypes DEF UnseenInv
<1>9. CASE AssetAppears \/ AssetDisappears
  BY <1>9, <1>p DEF AssetAppears, AssetDisappears, UnseenInv
<1> QED BY <1>d, <1>1, <1>2, <1>3, <1>4, <1>5, <1>6, <1>7, <1>8, <1>9
        DEF DiscoveryNext, DPerAsset

\* The processor never makes an asset seen.
LEMMA ProcessingKeepsUnseen ==
    ASSUME Types, UnseenInv, Processing
    PROVE  UnseenInv'
<1>1. CASE PPatchesAsset
  <2> USE DEF Types, DiscoveryTypes, Discoveries
  <2>1. UNCHANGED <<d.phase, d.found, d.unpatched, d.todo>>
    BY <1>1 DEF PPatchesAsset
  <2>2. /\ \A b \in Assets \ {Target} : asset'[b] = asset[b]
        /\ asset'[Target].seen = p.seen
    BY <1>1, ConstantTypes DEF PPatchesAsset, AssetRecords
  <2>3. p'.seen = p.seen
    BY <1>1 DEF PPatchesAsset, ProcessorTypes, PRecords
  <2> QED BY <2>1, <2>2, <2>3 DEF UnseenInv
<1>2. CASE UNCHANGED <<asset, d>> /\ (p'.seen => p.seen \/ asset[Target].seen)
  BY <1>2 DEF UnseenInv
<1>3. PIdle.seen = FALSE /\ p \in PRecords
  BY PIdleType DEF Types, ProcessorTypes
<1>4. ASSUME NEW s, PPicks(s)
      PROVE  UNCHANGED <<asset, d>> /\ p'.seen = FALSE
  BY <1>4 DEF PPicks, PIdle, dvars
<1>5. CASE PAsksNewer \/ PAsksExisting \/ PAsksOlder \/ PReadsAsset \/ PMarks
  <2>1. UNCHANGED <<asset, d>> /\ (p'.seen => p.seen \/ asset[Target].seen)
    BY <1>3, <1>5 DEF PAsksNewer, PAsksExisting, PAsksOlder, PReadsAsset, PMarks, PRecords,
                      dvars
  <2> QED BY <1>2, <2>1
<1>6. ASSUME NEW k, PWrites(k) \/ PInvalidates(k)
      PROVE  UNCHANGED <<asset, d>> /\ p'.seen = p.seen
  BY <1>3, <1>6 DEF PWrites, PInvalidates, PRecords, dvars
<1>7. CASE PGivesUp \/ LatePostArrives \/ CleanupEnds
  <2>1. UNCHANGED <<asset, d>> /\ (p'.seen => p.seen)
    BY <1>3, <1>7 DEF PGivesUp, LatePostArrives, CleanupEnds, PRecords, dvars
  <2> QED BY <1>2, <2>1
<1> QED BY <1>1, <1>2, <1>4, <1>5, <1>6, <1>7 DEF Processing, PStep

\* An instance that is gone is not overlooked by the discovery that no longer finds
\* it: its query returns it, or it has been terminated already
\* (discoverer.go:156-190, vulnerabilities.go:128-166).
THEOREM NothingMissedHolds == Spec => NothingMissed
<1>1. Init => UnseenInv
  BY ConstantTypes, PIdleType DEF Init, DiscoveryInit, UnseenInv, DIdle
<1>2. Types /\ FoundInv /\ UnseenInv /\ [Next]_vars => UnseenInv'
  <2>1. ASSUME UnseenInv, UNCHANGED vars
        PROVE  UnseenInv'
    BY <2>1 DEF UnseenInv, vars, dvars, fvars
  <2> QED BY <2>1, DiscoveryKeepsUnseen, ProcessingKeepsUnseen DEF Next
<1>3. ASSUME Types, UnseenInv, Next, d.phase = "query", d'.phase = "terminate",
             NEW a \in Assets \ d.found, asset[a].exists
      PROVE  asset[a].terminated \/ a \in d'.todo
  <2>1. ASSUME DQueries
        PROVE  d'.todo = Stale \ d.unpatched
    BY <1>3, <2>1 DEF DQueries, Types, DiscoveryTypes, Discoveries
  <2>2. ~asset[a].seen /\ a \notin d.unpatched
    BY <1>3 DEF UnseenInv
  <2>3. DQueries
    <3>1. CASE Processing
      <4>1. CASE PPatchesAsset
        BY <1>3, <4>1 DEF PPatchesAsset, Types, DiscoveryTypes, Discoveries
      <4>2. CASE PAsksNewer \/ PAsksExisting \/ PAsksOlder \/ PReadsAsset \/ PMarks
                 \/ PGivesUp \/ LatePostArrives \/ CleanupEnds
        BY <1>3, <4>2 DEF PAsksNewer, PAsksExisting, PAsksOlder, PReadsAsset, PMarks, PGivesUp,
                          LatePostArrives, CleanupEnds, dvars
      <4>3. ASSUME NEW s, PPicks(s) \/ PWrites(s) \/ PInvalidates(s)
            PROVE  d' = d
        BY <4>3 DEF PPicks, PWrites, PInvalidates, dvars
      <4> QED BY <1>3, <3>1, <4>1, <4>2, <4>3 DEF Processing, PStep
    <3>2. CASE DiscoveryNext
      <4>1. CASE DEnds \/ DGivesUp
        BY <1>3, <4>1, DIdleType DEF DEnds, DGivesUp
      <4>2. ASSUME NEW b, DMergeFails(b) \/ DPatches(b) \/ DPatchFails(b)
            PROVE  d'.phase = d.phase
        BY <1>3, <4>2 DEF DMergeFails, DPatches, DPatchFails, Types, DiscoveryTypes,
                          Discoveries
      <4> QED BY <1>3, <3>2, <4>1, <4>2
          DEF DiscoveryNext, DPerAsset, DStarts, DSkipsRegion, DWalkEnds, DPosts, DPostFails,
              DTerminates, DTerminateFails, AssetAppears, AssetDisappears
    <3> QED BY <1>3, <3>1, <3>2 DEF Next, Beside
  <2> QED BY <1>3, <2>1, <2>2, <2>3 DEF Stale
<1>4. Types /\ UnseenInv /\ [Next]_vars =>
        [d.phase = "query" /\ d'.phase = "terminate" =>
           \A a \in Assets \ d.found :
              asset[a].exists => asset[a].terminated \/ a \in d'.todo]_vars
  BY <1>3
<1> QED BY <1>1, <1>2, <1>4, InitFound, NextFound, FindingsTyped, PTL DEF Spec, NothingMissed
=============================================================================
