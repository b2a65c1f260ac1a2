--------------------------- MODULE ScanConfigProofs ---------------------------
(***************************************************************************)
(* For any cron lines, users and delays: the ScanConfig stays well typed,  *)
(* which is that the schedule's searches find a time, two of its Scans     *)
(* never run at a time, and none is created before its time.  While        *)
(* nothing fails, is late or crosses a user's update, no time is missed,   *)
(* a recurring time gets one Scan, and the watcher moves the schedule      *)
(* forward only and disables it at its end.                                *)
(***************************************************************************)
EXTENDS ScanConfig, TLAPS, FiniteSetTheorems, WellFoundedInduction

\* A set of natural numbers has a least element.
LEMMA LeastExists ==
    ASSUME NEW T, T \subseteq Nat, T # {}
    PROVE  Earliest(T) \in T /\ \A u \in T : Earliest(T) <= u
<1> DEFINE R == {ss \in Nat \X Nat : ss[1] < ss[2]}
<1>1. IsWellFoundedOn(R, Nat)
  BY NatLessThanWellFounded DEF OpToRel
<1>2. PICK x \in T : \A y \in T : <<y, x>> \notin R
  <2> HIDE DEF R
  <2> QED BY <1>1, WFMin
<1>3. ASSUME NEW y \in T
      PROVE  x <= y
  <2>1. ~(x \in Nat /\ y \in Nat /\ y < x)
    BY <1>2
  <2> QED BY <2>1
<1> QED BY <1>3 DEF Earliest

\* A cron line that has a time has a last one.
LEMMA LatestExists ==
    ASSUME NEW c \in Crons, c # {}
    PROVE  Latest(c) \in c /\ \A u \in c : u <= Latest(c)
<1>1. \E last \in c : \A u \in c : u <= last
  BY ScanConfigAssumption
<1> QED BY <1>1 DEF Latest
-----------------------------------------------------------------------------
(* Types.                                                                  *)

LEMMA CronTimes ==
    /\ UNION Crons \subseteq Nat
    /\ OpTimes \subseteq Nat
    /\ \A c \in Crons : c \subseteq OpTimes
    /\ 0..MaxTime \subseteq OpTimes
BY ScanConfigAssumption DEF OpTimes

LEMMA OperationTimeType ==
    ASSUME NEW cfg \in Configs
    PROVE  OperationTime(cfg) \in OpTimes
<1>1. cfg.op \in OpTimes /\ cfg.cron \in Crons
  BY DEF Configs
<1>2. CASE Cardinality(cfg.cron) = 1
  <2>1. cfg.cron # {}
    BY <1>2, FS_EmptySet
  <2>2. Earliest(cfg.cron) \in cfg.cron
    BY <1>1, <2>1, LeastExists, ScanConfigAssumption
  <2> QED BY <1>1, <1>2, <2>2, CronTimes DEF OperationTime
<1> QED BY <1>1, <1>2 DEF OperationTime

\* The search for the next operation time finds one of the cron line's.
LEMMA NextAfterType ==
    ASSUME NEW c \in Crons \cup {{}}, NEW o \in OpTimes, NEW t \in Nat
    PROVE  NextAfter(c, o, t) \in OpTimes
<1>1. CASE o >= t \/ ~IsRecurring(c, o)
  BY <1>1 DEF NextAfter
<1>2. CASE ~(o >= t \/ ~IsRecurring(c, o))
  <2>1. c # {} /\ c \in Crons /\ c \subseteq Nat /\ c \subseteq OpTimes
    BY <1>2, CronTimes, ScanConfigAssumption DEF IsRecurring
  <2>2. CASE IsRecurring(c, t - 1)
    <3> DEFINE T == {u \in c : u >= t}
    <3>1. T \subseteq Nat /\ T \subseteq OpTimes
      BY <2>1
    <3>3. T # {}
      <4>1. PICK u \in c : u > t - 1
        BY <2>2 DEF IsRecurring
      <4>2. u >= t
        BY <2>1, <4>1
      <4> QED BY <4>2
    <3>2. NextAfter(c, o, t) = Earliest(T)
      BY <1>2, <2>2 DEF NextAfter
    <3> HIDE DEF T
    <3> QED BY <3>1, <3>2, <3>3, LeastExists
  <2>3. CASE ~IsRecurring(c, t - 1)
    BY <1>2, <2>1, <2>3, LatestExists DEF NextAfter
  <2> QED BY <2>2, <2>3
<1> QED BY <1>1, <1>2

ScanRecords == [req : Requests, finished : BOOLEAN, endTime : BOOLEAN]

\* A POST to the server.
LEMMA PostScanType ==
    ASSUME scans \in Seq(ScanRecords),
           NEW req \in Requests, PostScan(req)
    PROVE  scans' \in Seq(ScanRecords)
<1>1. [req |-> req, finished |-> FALSE, endTime |-> FALSE] \in ScanRecords
  BY DEF ScanRecords
<1> QED BY <1>1 DEF PostScan

\* A user's ScanConfig.
LEMMA NewConfigsType ==
    ASSUME NEW t \in 0..MaxTime
    PROVE  NewConfigs(t) \subseteq Configs
<1> SUFFICES ASSUME NEW cfg \in NewConfigs(t)
             PROVE  cfg \in Configs
  OBVIOUS
<1>1. 0..MaxTime \subseteq OpTimes
  BY CronTimes
<1>2. CASE cfg \in [disabled : BOOLEAN, cron : Crons \cap {{}}, op : 0..MaxTime]
  BY <1>1, <1>2 DEF Configs
<1>3. CASE \E c \in Crons \ {{}} :
             cfg \in [disabled : BOOLEAN, cron : {c},
                     op : {0, t} \cup (IF IsRecurring(c, t)
                                       THEN {Earliest({u \in c : u > t})} ELSE {})]
  <2>1. PICK c \in Crons \ {{}} :
             cfg \in [disabled : BOOLEAN, cron : {c},
                     op : {0, t} \cup (IF IsRecurring(c, t)
                                       THEN {Earliest({u \in c : u > t})} ELSE {})]
    BY <1>3
  <2> DEFINE T == {u \in c : u > t}
  <2>2. T \subseteq Nat /\ T \subseteq OpTimes
    BY CronTimes, ScanConfigAssumption
  <2>3. IsRecurring(c, t) => Earliest(T) \in OpTimes
    <3>1. IsRecurring(c, t) => T # {}
      BY DEF IsRecurring
    <3> HIDE DEF T
    <3> QED BY <2>2, <3>1, LeastExists
  <2>4. {0, t} \subseteq OpTimes
    BY <1>1 DEF OpTimes
  <2> HIDE DEF T
  <2> QED BY <2>1, <2>3, <2>4 DEF Configs, T
<1> QED BY <1>2, <1>3 DEF NewConfigs
-----------------------------------------------------------------------------
(* The invariant.                                                          *)

\* What one Scan at a time rests on: a Scan with an EndTime is over, and there
\* is at most one without; the last Scan of an instance is the one without.
OneInTheWay ==
    /\ \A i \in DOMAIN scans : scans[i].endTime => scans[i].finished
    /\ \A i, j \in DOMAIN scans : ~scans[i].endTime /\ ~scans[j].endTime => i = j
    /\ Len(scans) = MaxScans => ~scans[MaxScans].endTime

Inv == TypeOK /\ OneInTheWay

\* A POST creates a Scan only when none is in the way.
LEMMA PostScanKeeps ==
    ASSUME Inv, NEW req \in Requests, PostScan(req)
    PROVE  /\ scans' \in Seq(ScanRecords) /\ Len(scans') <= MaxScans
           /\ OneInTheWay'
<1> USE ScanConfigAssumption DEF Inv
<1>t. scans \in Seq(ScanRecords) /\ Len(scans) <= MaxScans
  BY DEF TypeOK, ScanRecords
<1>0. scans' \in Seq(ScanRecords)
  BY <1>t, PostScanType
<1>1. CASE InTheWay # {}
  BY <1>1, <1>t, <1>0 DEF PostScan, OneInTheWay
<1>2. CASE InTheWay = {}
  <2> DEFINE new == [req |-> req, finished |-> FALSE, endTime |-> FALSE]
  <2>1. scans' = Append(scans, new)
    BY <1>2 DEF PostScan
  <2>2. \A i \in DOMAIN scans : scans[i].endTime
    BY <1>2 DEF InTheWay
  <2>3. Len(scans) # MaxScans
    <3>1. MaxScans \in DOMAIN scans \/ Len(scans) # MaxScans
      BY <1>t
    <3> QED BY <2>2, <3>1 DEF OneInTheWay
  <2>4. /\ Len(scans') = Len(scans) + 1
        /\ DOMAIN scans' = DOMAIN scans \cup {Len(scans) + 1}
        /\ \A i \in DOMAIN scans : scans'[i] = scans[i]
        /\ scans'[Len(scans) + 1] = new
    BY <1>t, <2>1
  <2>5. ~new.endTime
    OBVIOUS
  <2> HIDE DEF new
  <2>6. OneInTheWay'
    BY <1>t, <2>2, <2>3, <2>4, <2>5 DEF OneInTheWay
  <2> QED BY <1>t, <1>0, <2>3, <2>4, <2>6
<1> QED BY <1>1, <1>2

LEMMA ScanEndsKeeps ==
    ASSUME Inv, ScanEnds
    PROVE  scans' \in Seq(ScanRecords) /\ Len(scans') <= MaxScans /\ OneInTheWay'
<1> USE ScanConfigAssumption DEF Inv
<1>t. scans \in Seq(ScanRecords) /\ Len(scans) <= MaxScans
  BY DEF TypeOK, ScanRecords
<1>1. PICK i \in Running, t \in BOOLEAN :
           scans' = [scans EXCEPT ![i].finished = TRUE, ![i].endTime = t]
  BY DEF ScanEnds
<1>2. /\ i \in DOMAIN scans /\ ~scans[i].endTime
      /\ Len(scans) < MaxScans
  BY DEF Running, ScanEnds, OneInTheWay
<1>3. /\ DOMAIN scans' = DOMAIN scans /\ Len(scans') = Len(scans)
      /\ \A j \in DOMAIN scans : j # i => scans'[j] = scans[j]
      /\ scans'[i] = [scans[i] EXCEPT !.finished = TRUE, !.endTime = t]
  BY <1>t, <1>1, <1>2
<1>4. scans[i] \in ScanRecords
  BY <1>t, <1>2
<1>5. scans'[i] \in ScanRecords /\ scans'[i].finished
  BY <1>3, <1>4 DEF ScanRecords
<1>6. scans' \in Seq(ScanRecords)
  <2>1. \A j \in 1..Len(scans) : scans'[j] \in ScanRecords
    BY <1>t, <1>3, <1>5
  <2>2. scans = [j \in 1..Len(scans) |-> scans[j]]
    BY <1>t
  <2>3. scans' = [j \in 1..Len(scans) |-> scans'[j]]
    BY <1>1, <2>2
  <2>4. scans' \in [1..Len(scans) -> ScanRecords]
    BY <2>1, <2>3
  <2> QED BY <1>t, <2>4
<1>7. OneInTheWay'
  <2>1. \A j \in DOMAIN scans : scans'[j].endTime => scans'[j].finished
    BY <1>3, <1>5 DEF OneInTheWay
  <2>2. \A j \in DOMAIN scans : ~scans'[j].endTime => ~scans[j].endTime
    BY <1>2, <1>3
  <2>3. Len(scans') # MaxScans
    BY <1>t, <1>2, <1>3
  <2> QED BY <1>3, <2>1, <2>2, <2>3 DEF OneInTheWay
<1> QED BY <1>t, <1>3, <1>6, <1>7

LEMMA InitInv == Init => Inv
<1> SUFFICES ASSUME Init
             PROVE  Inv
  OBVIOUS
<1> USE ScanConfigAssumption DEF Init
<1>1. NoRequest \in Requests
  BY DEF NoRequest, Requests, OpTimes
<1>2. config \in Configs
  BY NewConfigsType
<1>3. NotAskedFor(config, 0) \subseteq Int
  BY DEF NotAskedFor
<1>4. scans \in Seq([req : Requests, finished : BOOLEAN, endTime : BOOLEAN])
  OBVIOUS
<1>5. Len(scans) <= MaxScans /\ Len(scans) # MaxScans
  OBVIOUS
<1>6. w \in [phase : {"idle", "disable", "list", "post", "reschedule"}, req : Requests]
  BY <1>1 DEF WIdle
<1>7. late \subseteq [req : Requests, nth : 1..MaxFaults]
  OBVIOUS
<1>8. TypeOK
  <2>1. /\ now \in 0..MaxTime /\ readAt \in 0..MaxTime /\ edits \in 0..MaxEdits
        /\ faults \in 0..MaxFaults
    OBVIOUS
  <2> QED BY <2>1, <1>2, <1>3, <1>4, <1>5, <1>6, <1>7 DEF TypeOK
<1> QED BY <1>5, <1>8 DEF Inv, OneInTheWay

\* The request of a Reconcile in progress.
LEMMA WIdleType ==
    WIdle \in [phase : {"idle", "disable", "list", "post", "reschedule"}, req : Requests]
BY ScanConfigAssumption DEF WIdle, NoRequest, Requests, OpTimes

LEMMA NextInv == Inv /\ [Next]_vars => Inv'
<1> SUFFICES ASSUME Inv, [Next]_vars
             PROVE  Inv'
  OBVIOUS
<1> USE ScanConfigAssumption
<1>t. TypeOK /\ OneInTheWay
  BY DEF Inv
<1>s. ASSUME UNCHANGED scans
      PROVE  OneInTheWay'
  BY <1>t, <1>s DEF OneInTheWay
<1>1. CASE WGet
  <2>1. OperationTime(config) \in OpTimes /\ config.cron \in Crons
    BY <1>t, OperationTimeType DEF TypeOK, Configs
  <2>2. [op |-> OperationTime(config), cron |-> config.cron, edit |-> edits,
         edge |-> OperationTime(config) = now + PollPeriod] \in Requests
    BY <1>t, <2>1 DEF TypeOK, Requests
  <2>3. w' \in [phase : {"idle", "disable", "list", "post", "reschedule"}, req : Requests]
    BY <1>1, <2>2, WIdleType DEF WGet
  <2>4. settled' \subseteq Int
    BY <1>1, <1>t DEF WGet, Window, TypeOK
  <2>5. TypeOK'
    BY <1>1, <1>t, <2>3, <2>4 DEF WGet, TypeOK
  <2> QED BY <1>1, <1>s, <2>5 DEF WGet, Inv
<1>2. CASE WDisables
  <2>1. config' \in Configs
    BY <1>2, <1>t DEF WDisables, TypeOK, Configs
  <2>2. TypeOK'
    BY <1>2, <1>t, <2>1, WIdleType DEF WDisables, TypeOK, ghosts
  <2> QED BY <1>2, <1>s, <2>2 DEF WDisables, Inv
<1>3. CASE WLists
  <2>1. TypeOK'
    BY <1>3, <1>t DEF WLists, TypeOK, ghosts
  <2> QED BY <1>3, <1>s, <2>1 DEF WLists, Inv
<1>4. CASE WPosts
  <2>1. w.req \in Requests
    BY <1>t DEF TypeOK
  <2>2. /\ scans' \in Seq(ScanRecords) /\ Len(scans') <= MaxScans
        /\ OneInTheWay'
    BY <1>4, <2>1, PostScanKeeps DEF WPosts
  <2>3. TypeOK'
    BY <1>4, <1>t, <2>2 DEF WPosts, TypeOK, ghosts, ScanRecords
  <2> QED BY <2>2, <2>3 DEF Inv
<1>5. CASE WReschedules
  <2>1. w.req \in Requests
    BY <1>t DEF TypeOK
  <2>2. NextAfter(w.req.cron, w.req.op, readAt + PollPeriod) \in OpTimes
    BY <1>t, <2>1, NextAfterType DEF TypeOK, Requests
  <2>3. config' \in Configs
    BY <1>5, <1>t, <2>1, <2>2 DEF WReschedules, PatchSchedule, TypeOK, Configs, Requests
  <2>4. TypeOK'
    BY <1>5, <1>t, <2>3, WIdleType DEF WReschedules, TypeOK, ghosts
  <2> QED BY <1>5, <1>s, <2>4 DEF WReschedules, Inv
<1>6. CASE WGivesUp
  <2>1. late' \subseteq [req : Requests, nth : 1..MaxFaults] /\ faults' \in 0..MaxFaults
    BY <1>6, <1>t DEF WGivesUp, TypeOK, Fault
  <2>2. TypeOK'
    BY <1>6, <1>t, <2>1, WIdleType DEF WGivesUp, TypeOK, ghosts
  <2> QED BY <1>6, <1>s, <2>2 DEF WGivesUp, Inv
<1>7. CASE LatePostArrives
  <2>1. PICK r \in late : PostScan(r.req) /\ late' = late \ {r}
    BY <1>7 DEF LatePostArrives
  <2>2. r.req \in Requests
    BY <1>t, <2>1 DEF TypeOK
  <2>3. /\ scans' \in Seq(ScanRecords) /\ Len(scans') <= MaxScans
        /\ OneInTheWay'
    BY <2>1, <2>2, PostScanKeeps, <1>t DEF Inv
  <2>4. TypeOK'
    BY <1>7, <1>t, <2>1, <2>3 DEF LatePostArrives, TypeOK, ghosts, ScanRecords
  <2> QED BY <2>3, <2>4 DEF Inv
<1>8. CASE ScanEnds
  <2>1. scans' \in Seq(ScanRecords) /\ Len(scans') <= MaxScans /\ OneInTheWay'
    BY <1>8, ScanEndsKeeps
  <2>2. TypeOK'
    BY <1>8, <1>t, <2>1 DEF ScanEnds, TypeOK, ghosts, ScanRecords
  <2> QED BY <2>1, <2>2 DEF Inv
<1>9. CASE UserUpdates
  <2>1. config' \in Configs
    BY <1>9, <1>t, NewConfigsType DEF UserUpdates, TypeOK
  <2>2. settled' \subseteq Int
    BY <1>9 DEF UserUpdates, NotAskedFor
  <2>3. TypeOK'
    BY <1>9, <1>t, <2>1, <2>2 DEF UserUpdates, TypeOK
  <2> QED BY <1>9, <1>s, <2>3 DEF UserUpdates, Inv
<1>10. CASE Tick
  <2>1. TypeOK'
    BY <1>10, <1>t DEF Tick, TypeOK, Fault, ghosts
  <2> QED BY <1>10, <1>s, <2>1 DEF Tick, Inv
<1>11. CASE UNCHANGED vars
  BY <1>11, <1>t DEF vars, ghosts, Inv, TypeOK, OneInTheWay
<1> QED BY <1>1, <1>2, <1>3, <1>4, <1>5, <1>6, <1>7, <1>8, <1>9, <1>10, <1>11 DEF Next, WStep

THEOREM ScanConfigInvariant == Spec => []Inv
BY InitInv, NextInv, PTL DEF Spec

\* The schedule is always one the searches of schedule.go can go on from.
THEOREM ScanConfigTyped == Spec => []TypeOK
<1>1. Inv => TypeOK
  BY DEF Inv
<1> QED BY <1>1, ScanConfigInvariant, PTL

\* Two Scans of one ScanConfig never run at a time, whatever POST comes late: a
\* running Scan has no EndTime, and one without is in the way of every other
\* (scan.go:279-302).
THEOREM OneScanAtATime == Spec => []OneRunningScan
<1>1. ASSUME Inv
      PROVE  OneRunningScan
  <2>1. \A i, j \in Running : i = j
    BY <1>1 DEF Inv, OneInTheWay, Running
  <2>2. CASE Running = {}
    BY <2>2, FS_EmptySet DEF OneRunningScan
  <2>3. CASE Running # {}
    <3>1. PICK i \in Running : TRUE
      BY <2>3
    <3>2. Running = {i}
      BY <2>1, <3>1
    <3>3. Cardinality({i}) = 1
      BY FS_Singleton
    <3> QED BY <3>2, <3>3 DEF OneRunningScan
  <2> QED BY <2>2, <2>3
<1> QED BY <1>1, ScanConfigInvariant, PTL
-----------------------------------------------------------------------------
(* No time of the schedule is missed.  The times before the operation time *)
(* are settled; after a read, so are those of the window it fell in.  What *)
(* a user asks for in the past is settled to the end of the window that    *)
(* will find it overdue.                                                   *)

Settled(cron, done, x) == \A t \in cron : t < x => t \in done

ScheduleInv ==
    Undisturbed =>
        LET c == config.cron  o == OperationTime(config) IN
        /\ readAt <= now /\ now <= readAt + PollPeriod
        /\ Settled(c, settled, o)
        /\ w.phase = "idle" /\ ~config.disabled /\ o < readAt =>
             \/ ~IsRecurring(c, o) /\ Settled(c, settled, o + 1)
             \/ Settled(c, settled, readAt + 2 * PollPeriod)
        /\ w.phase # "idle" =>
             /\ w.req.cron = c /\ w.req.op = o
             /\ Settled(c, settled, readAt + PollPeriod)
             /\ ~IsRecurring(c, o) => Settled(c, settled, o + 1)

\* What NextAfter skips is what the window covered; short of the window's end
\* it is the schedule's last time.
LEMMA NextAfterSkips ==
    ASSUME NEW c \in Crons \cup {{}}, NEW o \in OpTimes, NEW t \in Nat, NEW done,
           Settled(c, done, o), Settled(c, done, t),
           ~IsRecurring(c, o) => Settled(c, done, o + 1)
    PROVE  LET n == NextAfter(c, o, t) IN
           /\ Settled(c, done, n)
           /\ n < t => ~IsRecurring(c, n) /\ Settled(c, done, n + 1)
<1> DEFINE n == NextAfter(c, o, t)
<1>t. n \in Nat /\ o \in Nat /\ c \subseteq Nat
  BY NextAfterType, CronTimes, ScanConfigAssumption
<1>1. CASE o >= t \/ ~IsRecurring(c, o)
  <2>1. n = o
    BY <1>1 DEF NextAfter
  <2> QED BY <1>t, <1>1, <2>1
<1>2. CASE ~(o >= t \/ ~IsRecurring(c, o)) /\ IsRecurring(c, t - 1)
  <2> DEFINE T == {u \in c : u >= t}
  <2>1. n = Earliest(T)
    BY <1>2 DEF NextAfter
  <2>2. T \subseteq Nat /\ T # {}
    <3>1. PICK u \in c : u > t - 1
      BY <1>2 DEF IsRecurring
    <3>2. u >= t
      BY <1>t, <3>1
    <3> QED BY <1>t, <3>2
  <2>3. n \in T /\ \A u \in T : n <= u
    <3> HIDE DEF T, n
    <3> QED BY <2>1, <2>2, LeastExists
  <2>4. n >= t
    BY <2>3
  <2>5. \A u \in c : u < n => u < t
    BY <1>t, <2>3
  <2> QED BY <1>t, <2>4, <2>5 DEF Settled
<1>3. CASE ~(o >= t \/ ~IsRecurring(c, o)) /\ ~IsRecurring(c, t - 1)
  <2>1. c # {} /\ c \in Crons
    BY <1>3 DEF IsRecurring
  <2>2. n = Latest(c)
    BY <1>3 DEF NextAfter
  <2>3. n \in c /\ \A u \in c : u <= n
    BY <2>1, <2>2, LatestExists
  <2>4. \A u \in c : u < t
    BY <1>3, <1>t DEF IsRecurring
  <2>5. ~IsRecurring(c, n)
    BY <1>t, <2>3 DEF IsRecurring
  <2> QED BY <2>4, <2>5 DEF Settled
<1> QED BY <1>1, <1>2, <1>3

\* After a patch the schedule's operation time is the one that was sent, and a
\* cron line that matches once has its only time all along.
LEMMA Rescheduled ==
    ASSUME NEW t \in Nat, config \in Configs,
           PatchSchedule(config.cron, NextAfter(config.cron, OperationTime(config), t))
    PROVE  /\ config'.cron = config.cron /\ config'.disabled = config.disabled
           /\ OperationTime(config') = NextAfter(config.cron, OperationTime(config), t)
<1> DEFINE c == config.cron
<1>1. /\ config'.cron = c /\ config'.disabled = config.disabled
      /\ config'.op = NextAfter(c, OperationTime(config), t)
      /\ c \in Crons
  BY DEF PatchSchedule, Configs
<1>2. CASE Cardinality(c) = 1
  <2>1. IsFiniteSet(c)
    <3>1. PICK last \in Nat : \A u \in c : u <= last
      BY <1>1, ScanConfigAssumption
    <3>2. c \in SUBSET Nat
      BY <1>1, ScanConfigAssumption
    <3> QED BY <3>1, <3>2, FS_BoundedSetOfNaturals
  <2>2. PICK x : c = {x}
    BY <1>2, <2>1, FS_Singleton
  <2>3. x \in Nat
    BY <1>1, <2>2, ScanConfigAssumption
  <2>4. Earliest(c) = x
    BY <2>2, <2>3 DEF Earliest
  <2>5. OperationTime(config) = x /\ OperationTime(config') = x
    BY <1>1, <1>2, <2>4 DEF OperationTime
  <2>6. ~IsRecurring(c, x)
    BY <2>2, <2>3 DEF IsRecurring
  <2> QED BY <1>1, <2>5, <2>6 DEF NextAfter
<1>3. CASE Cardinality(c) # 1
  BY <1>1, <1>3 DEF OperationTime
<1> QED BY <1>1, <1>2, <1>3

LEMMA InitScheduleInv == Init => ScheduleInv
<1> SUFFICES ASSUME Init
             PROVE  ScheduleInv
  OBVIOUS
<1> DEFINE o == OperationTime(config)
<1>1. config \in Configs
  BY NewConfigsType, ScanConfigAssumption DEF Init
<1>2. o \in Nat /\ config.cron \in Crons /\ config.cron \subseteq Nat
  BY <1>1, OperationTimeType, CronTimes, ScanConfigAssumption DEF Configs
<1>3. settled = -PollPeriod..(o - 1)
  BY <1>2 DEF Init, NotAskedFor
<1>4. Settled(config.cron, settled, o)
  <2> HIDE DEF o
  <2> QED BY <1>2, <1>3, ScanConfigAssumption DEF Settled
<1>5. /\ readAt <= now /\ now <= readAt + PollPeriod /\ readAt = 0
      /\ w.phase = "idle"
  BY ScanConfigAssumption DEF Init, WIdle
<1> HIDE DEF o
<1>6. ~(o < readAt)
  BY <1>2, <1>5
<1> QED BY <1>4, <1>5, <1>6 DEF ScheduleInv, o

\* Reconcile reads a ScanConfig: what the state it finds says of the times up to
\* the end of the window.
LEMMA ReadKeeps ==
    ASSUME Inv, ScheduleInv, WGet
    PROVE  ScheduleInv'
<1> SUFFICES ASSUME Undisturbed
             PROVE  ScheduleInv'
  BY DEF ScheduleInv, Undisturbed, WGet
<1> DEFINE c == config.cron
           o == OperationTime(config)
           s == ScheduleState(config, now)
<1>t. /\ o \in Nat /\ c \in Crons /\ c \subseteq Nat /\ now \in Nat /\ readAt \in Nat
      /\ PollPeriod \in Nat /\ config.disabled \in BOOLEAN
  BY OperationTimeType, CronTimes, ScanConfigAssumption DEF Configs, Inv, TypeOK
<1>1. /\ config' = config /\ now' = now /\ readAt' = now /\ w.phase = "idle"
      /\ settled' = IF s = "Due" THEN settled \cup Window(now) ELSE settled
  BY DEF WGet
<1>2. /\ readAt <= now /\ now <= readAt + PollPeriod
      /\ Settled(c, settled, o)
      /\ ~config.disabled /\ o < readAt =>
             \/ ~IsRecurring(c, o) /\ Settled(c, settled, o + 1)
             \/ Settled(c, settled, readAt + 2 * PollPeriod)
  BY <1>1 DEF ScheduleInv
<1>3. Settled(c, settled', o)
  BY <1>1, <1>2 DEF Settled
<1>4. CASE s \in {"Disabled", "NotDue"}
  <2>1. w'.phase = "idle"
    BY <1>4 DEF WGet, WIdle
  <2>2. config.disabled \/ ~(o < now)
    <3> HIDE DEF o
    <3> QED BY <1>4, <1>t DEF ScheduleState, Window, o
  <2> QED BY <1>1, <1>2, <1>3, <1>t, <2>1, <2>2 DEF ScheduleInv
<1>5. CASE s = "Due"
  <2>1. o \in Window(now)
    BY <1>5, <1>t DEF ScheduleState
  <2>2. Settled(c, settled', now + PollPeriod) /\ Settled(c, settled', o + 1)
    <3> HIDE DEF o
    <3> QED BY <1>1, <1>2, <1>5, <1>t, <2>1 DEF Settled, Window
  <2>3. w'.phase = "list" /\ w'.req.cron = c /\ w'.req.op = o
    BY <1>5 DEF WGet
  <2> QED BY <1>1, <1>2, <1>3, <1>t, <2>2, <2>3 DEF ScheduleInv
<1>6. CASE s \in {"Unscheduled", "Overdue"}
  <2>1. ~config.disabled /\ o < now - PollPeriod
    BY <1>6, <1>t DEF ScheduleState
  <2>2. o < readAt
    BY <1>2, <1>t, <2>1
  <2>3. w'.phase # "idle" /\ w'.req.cron = c /\ w'.req.op = o
    BY <1>6 DEF WGet
  <2>4. settled' = settled
    BY <1>1, <1>6
  <2>5. Settled(c, settled, now + PollPeriod) /\ (~IsRecurring(c, o) => Settled(c, settled, o + 1))
    <3>1. CASE ~IsRecurring(c, o) /\ Settled(c, settled, o + 1)
      <4> HIDE DEF o
      <4> QED BY <3>1, <1>t DEF Settled, IsRecurring
    <3>2. CASE Settled(c, settled, readAt + 2 * PollPeriod)
      <4> HIDE DEF o
      <4> QED BY <3>2, <1>2, <1>t, <2>2 DEF Settled
    <3> QED BY <1>2, <2>1, <2>2, <3>1, <3>2
  <2>6. /\ Settled(c, settled', now + PollPeriod)
        /\ ~IsRecurring(c, o) => Settled(c, settled', o + 1)
    BY <2>4, <2>5
  <2> QED BY <1>1, <1>2, <1>3, <1>t, <2>3, <2>6 DEF ScheduleInv
<1>7. s \in {"Disabled", "NotDue", "Due", "Unscheduled", "Overdue"}
  BY DEF ScheduleState
<1> QED BY <1>4, <1>5, <1>6, <1>7

LEMMA RescheduleKeeps ==
    ASSUME Inv, ScheduleInv, WReschedules
    PROVE  ScheduleInv'
<1> SUFFICES ASSUME Undisturbed
             PROVE  ScheduleInv'
  BY DEF ScheduleInv, Undisturbed, WReschedules, ghosts
<1> DEFINE c == config.cron
           o == OperationTime(config)
           t == readAt + PollPeriod
           n == NextAfter(c, o, t)
<1>t. /\ o \in OpTimes /\ c \in Crons /\ readAt \in Nat /\ t \in Nat
      /\ PollPeriod \in Nat /\ config \in Configs
  BY OperationTimeType, ScanConfigAssumption DEF Configs, Inv, TypeOK
<1>1. /\ now' = now /\ readAt' = readAt /\ settled' = settled
      /\ w.phase # "idle" /\ w'.phase = "idle"
  BY DEF WReschedules, ghosts, WIdle
<1>2. /\ readAt <= now /\ now <= readAt + PollPeriod
      /\ Settled(c, settled, o)
      /\ w.req.cron = c /\ w.req.op = o
      /\ Settled(c, settled, t)
      /\ ~IsRecurring(c, o) => Settled(c, settled, o + 1)
  BY <1>1 DEF ScheduleInv
<1>3. config'.cron = c /\ OperationTime(config') = n
  BY <1>2, <1>t, Rescheduled DEF WReschedules
<1>4. /\ Settled(c, settled, n)
      /\ n < t => ~IsRecurring(c, n) /\ Settled(c, settled, n + 1)
  <2> HIDE DEF o, t
  <2> QED BY <1>2, <1>t, NextAfterSkips
<1>5. n < readAt => n < t
  <2>1. n \in Nat
    BY <1>t, NextAfterType, CronTimes
  <2> HIDE DEF n
  <2> QED BY <1>t, <2>1
<1> HIDE DEF n
<1> QED BY <1>1, <1>2, <1>3, <1>4, <1>5 DEF ScheduleInv

\* A user's new schedule settles the past it does not ask for.
LEMMA UpdateKeeps ==
    ASSUME Inv, ScheduleInv, UserUpdates
    PROVE  ScheduleInv'
<1> SUFFICES ASSUME Undisturbed'
             PROVE  ScheduleInv'
  BY DEF ScheduleInv
<1>1. Undisturbed /\ w.phase = "idle"
  BY DEF Undisturbed, UserUpdates, Inv, TypeOK
<1> DEFINE c == config'.cron
           o == OperationTime(config')
<1>2. config' \in Configs /\ now \in Nat /\ readAt \in Nat /\ PollPeriod \in Nat \ {0}
  BY NewConfigsType, ScanConfigAssumption DEF UserUpdates, Inv, TypeOK
<1>3. o \in Nat /\ c \subseteq Nat
  BY <1>2, OperationTimeType, CronTimes, ScanConfigAssumption DEF Configs
<1>4. readAt <= now /\ now <= readAt + PollPeriod
  BY <1>1 DEF ScheduleInv
<1>5. settled' = -PollPeriod..((IF o >= now THEN o ELSE now + 2 * PollPeriod) - 1)
  BY DEF UserUpdates, NotAskedFor
<1>6. /\ Settled(c, settled', o)
      /\ o < readAt => Settled(c, settled', readAt + 2 * PollPeriod)
  <2> HIDE DEF o
  <2> QED BY <1>2, <1>3, <1>4, <1>5 DEF Settled
<1>7. UNCHANGED <<now, readAt, w>>
  BY DEF UserUpdates
<1> QED BY <1>1, <1>4, <1>6, <1>7 DEF ScheduleInv

LEMMA NextScheduleInv == Inv /\ ScheduleInv /\ [Next]_vars => ScheduleInv'
<1> SUFFICES ASSUME Inv, ScheduleInv, [Next]_vars
             PROVE  ScheduleInv'
  OBVIOUS
<1> USE DEF ghosts
<1>1. CASE WDisables
  <2>1. /\ config'.disabled /\ config'.cron = config.cron
        /\ OperationTime(config') = OperationTime(config)
    BY <1>1 DEF WDisables, OperationTime, Inv, TypeOK, Configs
  <2> QED BY <1>1, <2>1 DEF WDisables, ScheduleInv, WIdle, Undisturbed
<1>2. CASE WLists
  BY <1>2 DEF WLists, ScheduleInv, Undisturbed, Inv, TypeOK
<1>3. CASE WPosts
  BY <1>3 DEF WPosts, ScheduleInv, Undisturbed, Inv, TypeOK
<1>4. CASE WGivesUp \/ (Tick /\ Fault)
  <2>1. ~Undisturbed'
    BY <1>4 DEF WGivesUp, Tick, Fault, Undisturbed, Inv, TypeOK
  <2> QED BY <2>1 DEF ScheduleInv
<1>5. CASE Tick /\ ~Fault
  BY <1>5 DEF Tick, ScheduleInv, Undisturbed, Inv, TypeOK
<1>6. CASE LatePostArrives \/ ScanEnds \/ UNCHANGED vars
  BY <1>6 DEF LatePostArrives, ScanEnds, vars, ScheduleInv, Undisturbed
<1> QED BY <1>1, <1>2, <1>3, <1>4, <1>5, <1>6, ReadKeeps, RescheduleKeeps, UpdateKeeps
        DEF Next, WStep

\* No time a schedule matches is passed over while polls come in time: the
\* windows of successive polls overlap, and the next operation time is searched
\* from the end of the window (schedule.go:43-76, 121-139).
THEOREM SchedulesAreKept == Spec => []NoTimeIsMissed
<1>1. ASSUME Inv, ScheduleInv, Undisturbed, ~config.disabled,
             NEW t \in config.cron, t < now - PollPeriod
      PROVE  t \in settled
  <2> DEFINE o == OperationTime(config)
  <2>1. /\ o \in Nat /\ t \in Nat /\ now \in Nat /\ readAt \in Nat
        /\ PollPeriod \in Nat
    BY <1>1, OperationTimeType, CronTimes, ScanConfigAssumption DEF Configs, Inv, TypeOK
  <2>2. t < readAt
    BY <1>1, <2>1 DEF ScheduleInv
  <2>3. CASE w.phase # "idle"
    BY <1>1, <2>1, <2>2, <2>3 DEF ScheduleInv, Settled
  <2>4. CASE w.phase = "idle" /\ o >= readAt
    <3>1. t < o
      BY <2>1, <2>2, <2>4
    <3> QED BY <1>1, <3>1 DEF ScheduleInv, Settled
  <2>5. CASE w.phase = "idle" /\ o < readAt
    <3>1. CASE ~IsRecurring(config.cron, o) /\ Settled(config.cron, settled, o + 1)
      <4>1. ~(t > o)
        BY <1>1, <3>1 DEF IsRecurring
      <4>2. t < o + 1
        <5> HIDE DEF o
        <5> QED BY <2>1, <4>1
      <4> QED BY <1>1, <3>1, <4>2 DEF Settled
    <3>2. CASE Settled(config.cron, settled, readAt + 2 * PollPeriod)
      BY <1>1, <2>1, <2>2, <3>2 DEF Settled
    <3> QED BY <1>1, <2>5, <3>1, <3>2 DEF ScheduleInv
  <2> QED BY <2>1, <2>3, <2>4, <2>5
<1>2. Inv /\ ScheduleInv => NoTimeIsMissed
  BY <1>1 DEF NoTimeIsMissed
<1> QED BY <1>2, InitScheduleInv, NextScheduleInv, ScanConfigInvariant, PTL DEF Spec
-----------------------------------------------------------------------------
(* One Scan for one operation time.  Of the Scans created for the schedule *)
(* the user asked for last, all have an operation time before the stored   *)
(* one, but the one that was posted for it and is not yet rescheduled.     *)

OneShotOrEdge(r) == ~IsRecurring(r.cron, r.op) \/ r.edge

PostedInv ==
    Undisturbed =>
        LET o == OperationTime(config) IN
        /\ late = {}
        /\ w.phase # "idle" =>
             w.req.cron = config.cron /\ w.req.op = o /\ w.req.edit = edits
        /\ w.phase \in {"list", "post"} =>
             o <= readAt + PollPeriod /\ (o < readAt + PollPeriod \/ w.req.edge)
        /\ \A i \in DOMAIN scans :
             LET r == scans[i].req IN
             /\ r.edit <= edits
             /\ r.edit = edits /\ ~OneShotOrEdge(r) =>
                  /\ r.cron = config.cron
                  /\ \/ r.op < o
                     \/ r.op = o /\ w.phase = "reschedule" /\ o < readAt + PollPeriod

\* The step from an operation time to the next.
LEMMA NextAfterGrows ==
    ASSUME NEW c \in Crons, NEW o \in OpTimes, NEW t \in Nat
    PROVE  /\ NextAfter(c, o, t) >= o
           /\ o < t /\ IsRecurring(c, o) => NextAfter(c, o, t) > o
<1> DEFINE n == NextAfter(c, o, t)
<1>t. n \in Nat /\ o \in Nat /\ c \subseteq Nat
  BY NextAfterType, CronTimes, ScanConfigAssumption
<1>1. CASE o >= t \/ ~IsRecurring(c, o)
  BY <1>t, <1>1 DEF NextAfter
<1>2. CASE ~(o >= t \/ ~IsRecurring(c, o)) /\ IsRecurring(c, t - 1)
  <2> DEFINE T == {u \in c : u >= t}
  <2>1. n = Earliest(T)
    BY <1>2 DEF NextAfter
  <2>2. T \subseteq Nat /\ T # {}
    <3>1. PICK u \in c : u > t - 1
      BY <1>2 DEF IsRecurring
    <3>2. u >= t
      BY <1>t, <3>1
    <3> QED BY <1>t, <3>2
  <2>3. n \in T
    <3> HIDE DEF T, n
    <3> QED BY <2>1, <2>2, LeastExists
  <2>4. n >= t
    BY <2>3
  <2> HIDE DEF T
  <2> QED BY <1>t, <1>2, <2>4
<1>3. CASE ~(o >= t \/ ~IsRecurring(c, o)) /\ ~IsRecurring(c, t - 1)
  <2>1. PICK u \in c : u > o
    BY <1>3 DEF IsRecurring
  <2>2. n = Latest(c)
    BY <1>3 DEF NextAfter
  <2>3. u <= n
    BY <2>1, <2>2, LatestExists
  <2> QED BY <1>t, <2>1, <2>3
<1> QED BY <1>1, <1>2, <1>3

LEMMA RequestType ==
    ASSUME NEW r \in Requests
    PROVE  r.op \in OpTimes /\ r.edit \in 0..MaxEdits
BY DEF Requests

\* What the steps below use of the types.
LEMMA InvTypes ==
    ASSUME Inv
    PROVE  /\ scans \in Seq(ScanRecords) /\ w.req \in Requests /\ edits \in Nat
           /\ OperationTime(config) \in OpTimes /\ OperationTime(config) \in Nat
           /\ \A i \in DOMAIN scans : scans[i].req.op \in Nat /\ scans[i].req.edit \in Nat
<1>1. scans \in Seq(ScanRecords) /\ w.req \in Requests /\ edits \in Nat
      /\ config \in Configs
  BY ScanConfigAssumption DEF Inv, TypeOK, ScanRecords
<1>2. OperationTime(config) \in OpTimes /\ OperationTime(config) \in Nat
  BY <1>1, OperationTimeType, CronTimes
<1>3. ASSUME NEW i \in DOMAIN scans
      PROVE  scans[i].req.op \in Nat /\ scans[i].req.edit \in Nat
  <2>1. scans[i] \in ScanRecords
    BY <1>1
  <2>2. scans[i].req \in Requests
    BY <2>1 DEF ScanRecords
  <2>3. scans[i].req.op \in OpTimes /\ scans[i].req.edit \in 0..MaxEdits
    BY <2>2, RequestType
  <2>4. MaxEdits \in Nat
    BY ScanConfigAssumption
  <2>5. scans[i].req.edit \in Nat
    BY <2>3, <2>4
  <2>6. scans[i].req.op \in Nat
    BY <2>3, CronTimes
  <2> QED BY <2>5, <2>6
<1> QED BY <1>1, <1>2, <1>3

LEMMA InitPosted == Init => PostedInv /\ OneScanPerTime
BY DEF Init, PostedInv, OneScanPerTime, WIdle

\* A POST for the operation time of now.
LEMMA PostKeepsPosted ==
    ASSUME Inv, PostedInv, OneScanPerTime, WPosts
    PROVE  PostedInv' /\ OneScanPerTime'
<1> SUFFICES ASSUME Undisturbed
             PROVE  PostedInv' /\ OneScanPerTime'
  BY DEF PostedInv, OneScanPerTime, Undisturbed, WPosts, ghosts
<1> DEFINE o == OperationTime(config)
<1>1. /\ UNCHANGED <<now, config, late, readAt, edits>>
      /\ w.phase = "post" /\ w'.phase = "reschedule" /\ w'.req = w.req
  BY DEF WPosts, ghosts, Inv, TypeOK
<1>2. /\ late = {} /\ w.req.cron = config.cron /\ w.req.op = o /\ w.req.edit = edits
      /\ o < readAt + PollPeriod \/ w.req.edge
      /\ \A i \in DOMAIN scans :
           /\ scans[i].req.edit <= edits
           /\ scans[i].req.edit = edits /\ ~OneShotOrEdge(scans[i].req) =>
                scans[i].req.cron = config.cron /\ scans[i].req.op < o
  BY <1>1 DEF PostedInv
<1>t. /\ scans \in Seq(ScanRecords) /\ edits \in Nat /\ o \in Nat
      /\ w.req \in Requests
  BY InvTypes
<1>3. CASE scans' = scans
  <2>1. OneScanPerTime'
    BY <1>3 DEF OneScanPerTime, Undisturbed
  <2> HIDE DEF o
  <2> QED BY <1>1, <1>2, <1>3, <2>1 DEF PostedInv, o
<1>4. CASE scans' # scans
  <2> DEFINE n == Len(scans) + 1
  <2>1. scans' = Append(scans, [req |-> w.req, finished |-> FALSE, endTime |-> FALSE])
    BY <1>4 DEF WPosts, PostScan
  <2>2. /\ DOMAIN scans' = DOMAIN scans \cup {n} /\ Len(scans') = n
        /\ \A i \in DOMAIN scans : scans'[i] = scans[i]
        /\ scans'[n].req = w.req
    BY <1>t, <2>1
  <2>3. PostedInv'
    <3>1. w.req.edit <= edits
      BY <1>2, <1>t
    <3>2. ~OneShotOrEdge(w.req) => o < readAt + PollPeriod
      BY <1>2 DEF OneShotOrEdge
    <3> HIDE DEF o, n
    <3> QED BY <1>1, <1>2, <2>2, <3>1, <3>2 DEF PostedInv, o
  <2>4. \A i \in DOMAIN scans :
           IsRecurring(scans[i].req.cron, scans[i].req.op) /\ ~scans[i].req.edge =>
              <<scans[i].req.op, scans[i].req.cron, scans[i].req.edit>>
                # <<w.req.op, w.req.cron, w.req.edit>>
    <3> SUFFICES ASSUME NEW i \in DOMAIN scans, ~OneShotOrEdge(scans[i].req),
                        scans[i].req.op = w.req.op, scans[i].req.edit = w.req.edit
                 PROVE  FALSE
      BY DEF OneShotOrEdge
    <3>1. scans[i].req.op < o /\ scans[i].req.op = o
      BY <1>2
    <3> HIDE DEF o
    <3> QED BY <1>t, <3>1
  <2>5. \A j \in DOMAIN scans', i \in 1..n :
           i < j => i \in DOMAIN scans /\ (j \in DOMAIN scans \/ j = n)
    BY <1>t, <2>2
  <2>6. DOMAIN scans = 1..Len(scans)
    BY <1>t
  <2> HIDE DEF n
  <2>7. \A j \in DOMAIN scans', i \in 1..n :
          LET first == scans'[i].req  second == scans'[j].req IN
            i < j /\ IsRecurring(first.cron, first.op) /\ ~first.edge =>
                <<first.op, first.cron, first.edit>> # <<second.op, second.cron, second.edit>>
    BY <2>2, <2>4, <2>5, <2>6 DEF OneScanPerTime
  <2> QED BY <2>2, <2>3, <2>7 DEF OneScanPerTime
<1> QED BY <1>3, <1>4

LEMMA ReadKeepsPosted ==
    ASSUME Inv, PostedInv, WGet
    PROVE  PostedInv'
<1> SUFFICES ASSUME Undisturbed
             PROVE  PostedInv'
  BY DEF PostedInv, Undisturbed, WGet
<1> DEFINE o == OperationTime(config)
<1>t. now \in Nat /\ PollPeriod \in Nat /\ o \in Nat
  BY OperationTimeType, CronTimes, ScanConfigAssumption DEF Inv, TypeOK
<1>1. /\ UNCHANGED <<config, scans, late, edits>> /\ readAt' = now /\ w.phase = "idle"
  BY DEF WGet
<1>2. w'.phase # "idle" =>
        /\ w'.req.cron = config.cron /\ w'.req.op = o /\ w'.req.edit = edits
        /\ o = now + PollPeriod => w'.req.edge
  BY DEF WGet, WIdle
<1>3. w'.phase \in {"list", "post"} => o <= now + PollPeriod
  <2>1. w'.phase \in {"list", "post"} => ScheduleState(config, now) = "Due"
    BY DEF WGet, WIdle
  <2>2. ScheduleState(config, now) = "Due" => o \in Window(now)
    BY DEF ScheduleState
  <2> QED BY <1>t, <2>1, <2>2 DEF Window
<1> HIDE DEF o
<1>4. w'.phase \in {"list", "post"} => (o < now + PollPeriod \/ w'.req.edge)
  BY <1>2, <1>3, <1>t
<1> QED BY <1>1, <1>2, <1>3, <1>4 DEF PostedInv, o

LEMMA RescheduleKeepsPosted ==
    ASSUME Inv, PostedInv, WReschedules
    PROVE  PostedInv'
<1> SUFFICES ASSUME Undisturbed
             PROVE  PostedInv'
  BY DEF PostedInv, Undisturbed, WReschedules, ghosts
<1> DEFINE c == config.cron
           o == OperationTime(config)
           t == readAt + PollPeriod
           n == NextAfter(c, o, t)
<1>t. /\ o \in OpTimes /\ o \in Nat /\ n \in Nat /\ c \in Crons /\ t \in Nat
      /\ config \in Configs
  <2>1. c \in Crons /\ t \in Nat /\ config \in Configs
    BY ScanConfigAssumption DEF Configs, Inv, TypeOK
  <2>2. o \in OpTimes /\ o \in Nat
    BY InvTypes
  <2> HIDE DEF o, t, c
  <2> QED BY <2>1, <2>2, NextAfterType, CronTimes
<1>1. /\ UNCHANGED <<scans, late, readAt, edits>>
      /\ w.phase = "reschedule" /\ w'.phase = "idle"
      /\ w.req.cron = c /\ w.req.op = o
  BY DEF WReschedules, ghosts, WIdle, PostedInv
<1>2. config'.cron = c /\ OperationTime(config') = n
  BY <1>1, <1>t, Rescheduled DEF WReschedules
<1>3. n >= o /\ (o < t /\ IsRecurring(c, o) => n > o)
  BY <1>t, NextAfterGrows
<1>4. ASSUME NEW i \in DOMAIN scans, scans[i].req.edit = edits, ~OneShotOrEdge(scans[i].req)
      PROVE  scans[i].req.cron = c /\ scans[i].req.op < n
  <2>1. /\ scans[i].req.cron = c
        /\ scans[i].req.op < o \/ (scans[i].req.op = o /\ o < t)
    BY <1>4 DEF PostedInv
  <2>2. scans[i].req.op = o => IsRecurring(c, o)
    BY <1>4, <2>1 DEF OneShotOrEdge
  <2>3. scans[i].req.op \in Nat
    BY InvTypes
  <2> HIDE DEF o, n, t
  <2> QED BY <1>3, <1>t, <2>1, <2>2, <2>3
<1>5. late = {} /\ \A i \in DOMAIN scans : scans[i].req.edit <= edits
  BY DEF PostedInv
<1> HIDE DEF o, n
<1> QED BY <1>1, <1>2, <1>4, <1>5 DEF PostedInv

LEMMA UpdateKeepsPosted ==
    ASSUME Inv, PostedInv, UserUpdates
    PROVE  PostedInv'
<1> SUFFICES ASSUME Undisturbed'
             PROVE  PostedInv'
  BY DEF PostedInv
<1>1. Undisturbed /\ w.phase = "idle" /\ UNCHANGED <<scans, w, late>> /\ edits' = edits + 1
  BY DEF Undisturbed, UserUpdates, Inv, TypeOK
<1>2. late = {} /\ \A i \in DOMAIN scans : scans[i].req.edit <= edits
  BY <1>1 DEF PostedInv
<1>3. \A i \in DOMAIN scans : scans[i].req.edit \in Nat
  BY InvTypes
<1>4. edits \in Nat
  BY DEF Inv, TypeOK
<1>5. \A i \in DOMAIN scans : scans[i].req.edit <= edits' /\ scans[i].req.edit # edits'
  BY <1>1, <1>2, <1>3, <1>4
<1> QED BY <1>1, <1>2, <1>5 DEF PostedInv

LEMMA NextPosted ==
    Inv /\ PostedInv /\ OneScanPerTime /\ [Next]_vars => PostedInv' /\ OneScanPerTime'
<1> SUFFICES ASSUME Inv, PostedInv, OneScanPerTime, [Next]_vars
             PROVE  PostedInv' /\ OneScanPerTime'
  OBVIOUS
<1> USE DEF ghosts
<1>0. ASSUME UNCHANGED scans, Undisturbed' => Undisturbed
      PROVE  OneScanPerTime'
  BY <1>0 DEF OneScanPerTime
<1>1. CASE WGet
  BY <1>0, <1>1, ReadKeepsPosted DEF WGet, Undisturbed
<1>2. CASE WDisables
  <2>1. /\ config'.cron = config.cron /\ OperationTime(config') = OperationTime(config)
    BY <1>2 DEF WDisables, OperationTime, Inv, TypeOK, Configs
  <2>2. PostedInv'
    BY <1>2, <2>1 DEF WDisables, PostedInv, WIdle, Undisturbed
  <2> QED BY <1>0, <1>2, <2>2 DEF WDisables, Undisturbed
<1>3. CASE WLists
  <2>1. /\ w.phase = "list" /\ w'.phase \in {"reschedule", "post"} /\ w'.req = w.req
    BY <1>3 DEF WLists, Inv, TypeOK
  <2>2. PostedInv'
    BY <1>3, <2>1 DEF WLists, PostedInv, Undisturbed
  <2> QED BY <1>0, <1>3, <2>2 DEF WLists, Undisturbed
<1>4. CASE WReschedules
  BY <1>0, <1>4, RescheduleKeepsPosted DEF WReschedules, Undisturbed
<1>5. CASE WGivesUp \/ (Tick /\ Fault)
  <2>1. ~Undisturbed'
    BY <1>5 DEF WGivesUp, Tick, Fault, Undisturbed, Inv, TypeOK
  <2> QED BY <2>1 DEF PostedInv, OneScanPerTime
<1>6. CASE Tick /\ ~Fault
  BY <1>0, <1>6 DEF Tick, PostedInv, Undisturbed
<1>7. CASE LatePostArrives
  <2>1. ~Undisturbed /\ ~Undisturbed'
    BY <1>7 DEF LatePostArrives, PostedInv, Undisturbed
  <2> QED BY <2>1 DEF PostedInv, OneScanPerTime
<1>8. CASE ScanEnds
  <2>1. /\ DOMAIN scans' = DOMAIN scans /\ Len(scans') = Len(scans)
        /\ \A i \in DOMAIN scans : scans'[i].req = scans[i].req
    BY <1>8 DEF ScanEnds, Running, Inv, TypeOK
  <2>2. UNCHANGED <<config, w, late, readAt, edits>> /\ (Undisturbed' <=> Undisturbed)
    BY <1>8 DEF ScanEnds, Undisturbed
  <2>3. PostedInv'
    BY <2>1, <2>2 DEF PostedInv
  <2>4. \A i \in 1..Len(scans) : i \in DOMAIN scans
    BY DEF Inv, TypeOK
  <2>5. OneScanPerTime'
    BY <2>1, <2>2, <2>4 DEF OneScanPerTime
  <2> QED BY <2>3, <2>5
<1>9. CASE UserUpdates
  BY <1>0, <1>9, UpdateKeepsPosted DEF UserUpdates, Undisturbed
<1>10. CASE UNCHANGED vars
  BY <1>0, <1>10 DEF vars, PostedInv, Undisturbed
<1> QED BY <1>1, <1>2, <1>3, <1>4, <1>5, <1>6, <1>7, <1>8, <1>9, <1>10, PostKeepsPosted
        DEF Next, WStep

\* A recurring schedule gets one Scan for one operation time: the patch that
\* follows the POST moves the operation time on, past the end of the window that
\* found it due (watcher.go:170-188).
THEOREM OneScanForOneTime == Spec => []OneScanPerTime
BY InitPosted, NextPosted, ScanConfigInvariant, PTL DEF Spec
-----------------------------------------------------------------------------
(* What the watcher may do, and when.  The first result holds whatever     *)
(* fails, is late or crosses a user's update: a request keeps the          *)
(* operation time it was decided for, and the clock does not go back.      *)

\* No Scan is created before the window that ends with its operation time, a POST
\* that arrives late included (watcher.go:143-189, schedule.go:43-76).
NoScanIsEarly == \A i \in DOMAIN scans : scans[i].req.op <= now + PollPeriod

\* The same of what will be posted, and a ScanConfig that is about to be disabled
\* was over when it was read.
DecidedInTime ==
    /\ w.phase \in {"list", "post"} => w.req.op <= now + PollPeriod
    /\ \A r \in late : r.req.op <= now + PollPeriod
    /\ w.phase = "disable" =>
         ~IsRecurring(w.req.cron, w.req.op) /\ w.req.op < now - PollPeriod

\* The watcher moves the operation time forward only, leaves the cron line and a
\* disabled ScanConfig alone, and disables one only when its operation time is
\* past and no later one is to come.  A patch that crosses a user's update may do
\* otherwise (watcher.go:138-142, 170-207, schedule.go:284-294).
ScheduleGoesOn ==
    [][edits' = edits /\ Undisturbed' =>
         /\ OperationTime(config') >= OperationTime(config)
         /\ config'.cron = config.cron
         /\ config.disabled => config'.disabled
         /\ config'.disabled /\ ~config.disabled =>
              /\ OperationTime(config) < now - PollPeriod
              /\ ~IsRecurring(config.cron, OperationTime(config))]_vars

LEMMA ClockTypes ==
    ASSUME Inv
    PROVE  /\ now \in Nat /\ PollPeriod \in Nat /\ OperationTime(config) \in Nat
           /\ w.req.op \in Nat /\ w.req \in Requests
           /\ \A r \in late : r.req.op \in Nat /\ r.req \in Requests
           /\ \A i \in DOMAIN scans : scans[i].req.op \in Nat
<1>1. now \in Nat /\ PollPeriod \in Nat /\ w.req \in Requests
  BY ScanConfigAssumption DEF Inv, TypeOK
<1>2. \A r \in late : r.req \in Requests
  BY DEF Inv, TypeOK
<1>3. \A r \in Requests : r.op \in Nat
  BY RequestType, CronTimes
<1> QED BY <1>1, <1>2, <1>3, InvTypes

LEMMA PostIsInTime ==
    ASSUME Inv, NoScanIsEarly, NEW req \in Requests, PostScan(req),
           req.op <= now + PollPeriod, now' = now
    PROVE  NoScanIsEarly'
<1>t. scans \in Seq(ScanRecords)
  BY DEF Inv, TypeOK, ScanRecords
<1> DEFINE new == [req |-> req, finished |-> FALSE, endTime |-> FALSE]
<1>1. CASE scans' = scans
  BY <1>1 DEF NoScanIsEarly
<1>2. CASE scans' = Append(scans, new)
  <2>1. /\ DOMAIN scans' = DOMAIN scans \cup {Len(scans) + 1}
        /\ \A i \in DOMAIN scans : scans'[i] = scans[i]
        /\ scans'[Len(scans) + 1] = new
    BY <1>t, <1>2
  <2>2. new.req = req
    OBVIOUS
  <2> HIDE DEF new
  <2> QED BY <2>1, <2>2 DEF NoScanIsEarly
<1> QED BY <1>1, <1>2 DEF PostScan

LEMMA ReadInTime ==
    ASSUME Inv, WGet
    PROVE  /\ w'.phase \in {"list", "post"} => w'.req.op <= now + PollPeriod
           /\ w'.phase = "disable" =>
                ~IsRecurring(w'.req.cron, w'.req.op) /\ w'.req.op < now - PollPeriod
<1> DEFINE o == OperationTime(config)
<1>t. now \in Nat /\ PollPeriod \in Nat /\ o \in Nat
  BY ClockTypes
<1>1. w'.phase # "idle" => w'.req.op = o /\ w'.req.cron = config.cron
  BY DEF WGet, WIdle
<1>2. /\ w'.phase \in {"list", "post"} => ScheduleState(config, now) = "Due"
      /\ w'.phase = "disable" => ScheduleState(config, now) = "Unscheduled"
  BY DEF WGet, WIdle
<1>3. /\ ScheduleState(config, now) = "Due" => o \in Window(now)
      /\ ScheduleState(config, now) = "Unscheduled" =>
           o < now - PollPeriod /\ ~IsRecurring(config.cron, o)
  BY DEF ScheduleState
<1> HIDE DEF o
<1> QED BY <1>t, <1>1, <1>2, <1>3 DEF Window

LEMMA NextInTime ==
    ASSUME Inv, NoScanIsEarly, DecidedInTime, [Next]_vars
    PROVE  NoScanIsEarly' /\ DecidedInTime'
<1> USE DEF ghosts
<1>t. /\ now \in Nat /\ PollPeriod \in Nat /\ w.req.op \in Nat /\ w.req \in Requests
      /\ \A r \in late : r.req.op \in Nat /\ r.req \in Requests
      /\ \A i \in DOMAIN scans : scans[i].req.op \in Nat
  BY ClockTypes
<1>1. CASE WGet
  <2>1. UNCHANGED <<now, scans, late>>
    BY <1>1 DEF WGet
  <2> QED BY <1>1, <2>1, ReadInTime DEF NoScanIsEarly, DecidedInTime
<1>2. CASE WDisables \/ WReschedules
  BY <1>2 DEF WDisables, WReschedules, WIdle, NoScanIsEarly, DecidedInTime
<1>3. CASE WLists
  <2>1. w'.phase \in {"reschedule", "post"} /\ w'.req = w.req /\ w.phase = "list"
    BY <1>3 DEF WLists, Inv, TypeOK
  <2> QED BY <1>3, <2>1 DEF WLists, NoScanIsEarly, DecidedInTime
<1>4. CASE WPosts
  <2>1. w'.phase = "reschedule" /\ w.phase = "post" /\ UNCHANGED <<now, late>>
    BY <1>4 DEF WPosts, Inv, TypeOK
  <2>2. NoScanIsEarly'
    BY <1>t, <1>4, <2>1, PostIsInTime DEF WPosts, DecidedInTime
  <2> QED BY <2>1, <2>2 DEF DecidedInTime
<1>5. CASE WGivesUp
  <2>1. /\ UNCHANGED <<now, scans>> /\ w'.phase = "idle"
        /\ \A r \in late' : r \in late \/ (w.phase = "post" /\ r.req = w.req)
    BY <1>5 DEF WGivesUp, WIdle
  <2> QED BY <2>1 DEF NoScanIsEarly, DecidedInTime
<1>6. CASE LatePostArrives
  <2>1. PICK r \in late : PostScan(r.req) /\ late' = late \ {r}
    BY <1>6 DEF LatePostArrives
  <2>2. UNCHANGED <<now, w>>
    BY <1>6 DEF LatePostArrives
  <2>3. NoScanIsEarly'
    BY <1>t, <2>1, <2>2, PostIsInTime DEF DecidedInTime
  <2> QED BY <2>1, <2>2, <2>3 DEF DecidedInTime
<1>7. CASE ScanEnds
  <2>1. /\ DOMAIN scans' = DOMAIN scans
        /\ \A i \in DOMAIN scans : scans'[i].req = scans[i].req
    BY <1>7 DEF ScanEnds, Running, Inv, TypeOK
  <2> QED BY <1>7, <2>1 DEF ScanEnds, NoScanIsEarly, DecidedInTime
<1>8. CASE Tick
  <2>1. now' = now + 1 /\ UNCHANGED <<scans, w, late>>
    BY <1>8 DEF Tick
  <2> QED BY <1>t, <2>1 DEF NoScanIsEarly, DecidedInTime
<1>9. CASE UserUpdates \/ UNCHANGED vars
  BY <1>9 DEF UserUpdates, vars, NoScanIsEarly, DecidedInTime
<1> QED BY <1>1, <1>2, <1>3, <1>4, <1>5, <1>6, <1>7, <1>8, <1>9 DEF Next, WStep

LEMMA InTimeInvariant == Spec => [](NoScanIsEarly /\ DecidedInTime)
<1>1. Init => NoScanIsEarly /\ DecidedInTime
  BY DEF Init, WIdle, NoScanIsEarly, DecidedInTime
<1>2. Inv /\ NoScanIsEarly /\ DecidedInTime /\ [Next]_vars => NoScanIsEarly' /\ DecidedInTime'
  BY NextInTime
<1> QED BY <1>1, <1>2, ScanConfigInvariant, PTL DEF Spec

\* No Scan is created before its time, whatever fails or is late
\* (watcher.go:143-189).
THEOREM NoScanIsEarlyHolds == Spec => []NoScanIsEarly
BY InTimeInvariant, PTL

\* The watcher's own patches take a schedule forward and disable it at its end
\* (watcher.go:138-142, 170-207).
THEOREM ScheduleGoesOnHolds == Spec => ScheduleGoesOn
<1> DEFINE Forward ==
      /\ OperationTime(config') >= OperationTime(config)
      /\ config'.cron = config.cron
      /\ config.disabled => config'.disabled
      /\ config'.disabled /\ ~config.disabled =>
           /\ OperationTime(config) < now - PollPeriod
           /\ ~IsRecurring(config.cron, OperationTime(config))
<1>1. ASSUME Inv, PostedInv, DecidedInTime, Next, edits' = edits, Undisturbed'
      PROVE  Forward
  <2> USE DEF ghosts
  <2>t. /\ OperationTime(config) \in Nat /\ config \in Configs
        /\ readAt \in Nat /\ PollPeriod \in Nat
    BY <1>1, ClockTypes, ScanConfigAssumption DEF Inv, TypeOK
  <2>1. CASE UNCHANGED config
    BY <2>t, <2>1
  <2>2. CASE WDisables
    <3>1. /\ config'.cron = config.cron /\ config'.op = config.op /\ config'.disabled
          /\ w.phase = "disable" /\ Undisturbed
      BY <1>1, <2>t, <2>2 DEF WDisables, Configs, Undisturbed
    <3>2. OperationTime(config') = OperationTime(config)
      BY <3>1 DEF OperationTime
    <3>3. w.req.cron = config.cron /\ w.req.op = OperationTime(config)
      BY <1>1, <3>1 DEF PostedInv
    <3>4. /\ OperationTime(config) < now - PollPeriod
          /\ ~IsRecurring(config.cron, OperationTime(config))
      BY <1>1, <3>1, <3>3 DEF DecidedInTime
    <3> QED BY <2>t, <3>1, <3>2, <3>4
  <2>3. CASE WReschedules
    <3>1. Undisturbed /\ w.phase = "reschedule"
      BY <1>1, <2>3 DEF WReschedules, Undisturbed
    <3>2. w.req.cron = config.cron /\ w.req.op = OperationTime(config)
      BY <1>1, <3>1 DEF PostedInv
    <3>3. readAt + PollPeriod \in Nat
      BY <2>t
    <3>4. PatchSchedule(config.cron,
                        NextAfter(config.cron, OperationTime(config), readAt + PollPeriod))
      BY <2>3, <3>2 DEF WReschedules
    <3>5. /\ config'.cron = config.cron /\ config'.disabled = config.disabled
          /\ OperationTime(config') =
               NextAfter(config.cron, OperationTime(config), readAt + PollPeriod)
      BY <2>t, <3>3, <3>4, Rescheduled
    <3>6. config.cron \in Crons /\ OperationTime(config) \in OpTimes
      BY <2>t, OperationTimeType DEF Configs
    <3>7. OperationTime(config') >= OperationTime(config)
      BY <3>3, <3>5, <3>6, NextAfterGrows
    <3> QED BY <3>5, <3>7
  <2>4. ~UserUpdates
    BY <1>1 DEF UserUpdates, Inv, TypeOK
  <2> QED BY <1>1, <2>1, <2>2, <2>3, <2>4
      DEF Next, WStep, WGet, WLists, WPosts, WGivesUp, LatePostArrives, ScanEnds, Tick
<1>2. Inv /\ PostedInv /\ DecidedInTime /\ [Next]_vars =>
        [edits' = edits /\ Undisturbed' => Forward]_vars
  BY <1>1
<1>3. Spec => []PostedInv
  <2>1. Inv /\ PostedInv /\ OneScanPerTime /\ [Next]_vars => PostedInv' /\ OneScanPerTime'
    BY NextPosted
  <2> QED BY <2>1, InitPosted, ScanConfigInvariant, PTL DEF Spec
<1> QED BY <1>2, <1>3, ScanConfigInvariant, InTimeInvariant, PTL DEF Spec, ScheduleGoesOn
=============================================================================
