------------------------------ MODULE ScanConfig ------------------------------
(***************************************************************************)
(* One ScanConfig: the object a user schedules Scans with, the ScanConfig  *)
(* watcher (orchestrator/watcher/scanconfig) that creates a Scan when the  *)
(* operation time comes, and the API server's uniqueness check on Scans.   *)
(* A Scan is what ScanLife says of it, which ScanLifecycle implements.     *)
(*                                                                         *)
(* A cron line is the set of times it matches, {} when there is none.      *)
(***************************************************************************)
EXTENDS Integers, FiniteSets, Sequences

CONSTANTS PollPeriod,   \* of the watcher; half of a schedule window
          Crons,        \* the cron lines a user may write, {} among them; the
                        \* parser's years end
          MaxTime,      \* bound on the clock
          MaxScans,     \* bound on the Scans: the last one does not end
          MaxEdits,     \* bound on the user's updates
          MaxFaults     \* bound on failing calls, crashes and delays

ASSUME ScanConfigAssumption ==
    /\ PollPeriod \in Nat \ {0}
    /\ Crons \subseteq SUBSET Nat
    /\ \A c \in Crons \ {{}} : \E last \in c : \A t \in c : t <= last
    /\ MaxTime \in Nat
    /\ MaxScans \in Nat \ {0}
    /\ MaxEdits \in Nat
    /\ MaxFaults \in Nat

VARIABLES now,       \* the clock
          config,    \* the ScanConfig the API server stores
          scans,     \* its Scans, in the order of their creation
          w,         \* the watcher's Reconcile in progress
          late,      \* POSTs the watcher no longer waits for
          readAt,    \* when the watcher last read the ScanConfig
          settled,   \* the times a due Reconcile's window covered, and
                     \* those before the schedule the user asked for
          crossed,   \* the user updated it in the middle of a Reconcile
          edits, faults

ghosts == <<settled, crossed>>
vars == <<now, config, scans, w, late, readAt, edits, faults, ghosts>>

OpTimes == {0} \cup (UNION Crons) \cup 0..MaxTime
Configs == [disabled : BOOLEAN, cron : Crons, op : OpTimes]

\* A Scan is created for an operation time of a cron line, which is {} for a
\* ScanConfig without one, as it was after so many updates; edge: the window
\* that contains the operation time ends with it.
Requests == [op : OpTimes, cron : Crons \cup {{}}, edit : 0..MaxEdits, edge : BOOLEAN]
NoRequest == [op |-> 0, cron |-> {}, edit |-> 0, edge |-> FALSE]

WIdle == [phase |-> "idle", req |-> NoRequest]

TypeOK ==
    /\ now \in 0..MaxTime
    /\ config \in Configs
    /\ scans \in Seq([req : Requests, finished : BOOLEAN, endTime : BOOLEAN])
    /\ Len(scans) <= MaxScans
    /\ w \in [phase : {"idle", "disable", "list", "post", "reschedule"},
              req : Requests]
    /\ late \subseteq [req : Requests, nth : 1..MaxFaults]
    /\ readAt \in 0..MaxTime
    /\ settled \subseteq Int
    /\ crossed \in BOOLEAN
    /\ edits \in 0..MaxEdits
    /\ faults \in 0..MaxFaults

Fault == faults < MaxFaults /\ faults' = faults + 1
-----------------------------------------------------------------------------
(* schedule.go.                                                            *)

Earliest(times) == CHOOSE t \in times : \A u \in times : t <= u
Latest(times) == CHOOSE t \in times : \A u \in times : u <= t

\* NewOperationTime: a cron line that matches once overrides the stored time.
OperationTime(cfg) ==
    IF Cardinality(cfg.cron) = 1 THEN Earliest(cfg.cron) ELSE cfg.op

IsRecurring(cron, o) == \E t \in cron : t > o

\* The loop of OperationTime.NextAfter: the first time from t on, the last one
\* when the cron line ends before t, o itself when there is no later one.
NextAfter(cron, o, t) ==
    IF o >= t \/ ~IsRecurring(cron, o) THEN o
    ELSE IF IsRecurring(cron, t - 1) THEN Earliest({u \in cron : u >= t})
    ELSE Latest(cron)

\* Faulty variant: the window looks ahead only.
Window_Ahead(t) == (t + 1)..(t + PollPeriod)

\* ScheduleWindow: both ends belong to it.
Window(t) == (t - PollPeriod)..(t + PollPeriod)

\* Faulty variant: a time that is past is overdue only with a cron line, and
\* not due without one.
ScheduleState_NeverUnscheduled(cfg, t) ==
    LET o == OperationTime(cfg) IN
    CASE cfg.disabled -> "Disabled"
      [] ~cfg.disabled /\ o \in Window(t) -> "Due"
      [] ~cfg.disabled /\ o \notin Window(t) /\ IsRecurring(cfg.cron, o)
            /\ o < t -> "Overdue"
      [] OTHER -> "NotDue"

\* NewScanConfigSchedule.
ScheduleState(cfg, t) ==
    LET o == OperationTime(cfg) IN
    CASE cfg.disabled -> "Disabled"
      [] ~cfg.disabled /\ o \in Window(t) -> "Due"
      [] ~cfg.disabled /\ o < t - PollPeriod /\ IsRecurring(cfg.cron, o) -> "Overdue"
      [] ~cfg.disabled /\ o < t - PollPeriod /\ ~IsRecurring(cfg.cron, o) -> "Unscheduled"
      [] OTHER -> "NotDue"
-----------------------------------------------------------------------------
(* The API server.                                                         *)

Running == {i \in DOMAIN scans : ~scans[i].finished}

\* Faulty variant: the watcher's own count is thought to be enough.
InTheWay_Unchecked == {}

\* What checkUniqueness finds: Scans of the ScanConfig with no EndTime.
InTheWay == {i \in DOMAIN scans : ~scans[i].endTime}

\* POST of a Scan.
PostScan(req) ==
    scans' = IF InTheWay # {} THEN scans
             ELSE Append(scans, [req |-> req, finished |-> FALSE, endTime |-> FALSE])

\* PATCH of the schedule: a merge, so a cron line that is left out stays.
PatchSchedule(cron, o) ==
    config' = [config EXCEPT !.cron = IF cron = {} THEN @ ELSE cron, !.op = o]
-----------------------------------------------------------------------------
(* The watcher.                                                            *)

\* Reconcile reads the ScanConfig and the clock, and decides.  The event may be
\* an old one: the ScanConfig may be disabled by now.
WGet ==
    /\ w.phase = "idle"
    /\ LET state == ScheduleState(config, now) IN
       /\ w' = IF state \in {"Disabled", "NotDue"} THEN WIdle
               ELSE [phase |-> CASE state = "Unscheduled" -> "disable"
                                 [] state = "Due" -> "list"
                                 [] OTHER -> "reschedule",
                     req |-> [op |-> OperationTime(config), cron |-> config.cron,
                              edit |-> edits,
                              edge |-> OperationTime(config) = now + PollPeriod]]
       /\ settled' = IF state = "Due" THEN settled \cup Window(now) ELSE settled
    /\ readAt' = now
    /\ UNCHANGED <<now, config, scans, late, crossed, edits, faults>>

\* reconcileUnscheduled.
WDisables ==
    /\ w.phase = "disable"
    /\ config' = [config EXCEPT !.disabled = TRUE]
    /\ w' = WIdle
    /\ UNCHANGED <<now, scans, late, readAt, ghosts, edits, faults>>

\* createScan: nothing is created while a Scan is in progress.
WLists ==
    /\ w.phase = "list"
    /\ w' = [w EXCEPT !.phase = IF Running # {} THEN "reschedule" ELSE "post"]
    /\ UNCHANGED <<now, config, scans, late, readAt, ghosts, edits, faults>>

\* A conflict is taken for success.
WPosts ==
    /\ w.phase = "post"
    /\ PostScan(w.req)
    /\ w' = [w EXCEPT !.phase = "reschedule"]
    /\ UNCHANGED <<now, config, late, readAt, ghosts, edits, faults>>

\* Faulty variant: the next time is counted from the clock.
WReschedules_FromNow ==
    /\ w.phase = "reschedule"
    /\ PatchSchedule(w.req.cron, NextAfter(w.req.cron, w.req.op, readAt))
    /\ w' = WIdle
    /\ UNCHANGED <<now, scans, late, readAt, ghosts, edits, faults>>

\* The end of reconcileDue, and reconcileOverdue.
WReschedules ==
    /\ w.phase = "reschedule"
    /\ PatchSchedule(w.req.cron,
                     NextAfter(w.req.cron, w.req.op, readAt + PollPeriod))
    /\ w' = WIdle
    /\ UNCHANGED <<now, scans, late, readAt, ghosts, edits, faults>>

\* A call fails, Reconcile runs into its timeout, or the orchestrator restarts.
\* A POST that was sent may arrive all the same.
WGivesUp ==
    /\ w.phase # "idle"
    /\ Fault
    /\ late' \in {late} \cup (IF w.phase = "post"
                              THEN {late \cup {[req |-> w.req, nth |-> faults + 1]}}
                              ELSE {})
    /\ w' = WIdle
    /\ UNCHANGED <<now, config, scans, readAt, ghosts, edits>>

LatePostArrives ==
    /\ \E r \in late : PostScan(r.req) /\ late' = late \ {r}
    /\ UNCHANGED <<now, config, w, readAt, ghosts, edits, faults>>

WStep == WGet \/ WDisables \/ WLists \/ WPosts \/ WReschedules
-----------------------------------------------------------------------------
(* The Scans, the user and the clock.                                      *)

\* ScanLife!End.  A Scan that timed out or had nothing to scan gets no EndTime.
ScanEnds ==
    /\ Len(scans) < MaxScans
    /\ \E i \in Running, t \in BOOLEAN :
         scans' = [scans EXCEPT ![i].finished = TRUE, ![i].endTime = t]
    /\ UNCHANGED <<now, config, w, late, readAt, ghosts, edits, faults>>

\* What a user may write at time t: any time without a cron line; with one, the
\* beginning of time, now, or none, which the server then sets to the next.
NewConfigs(t) ==
    [disabled : BOOLEAN, cron : Crons \cap {{}}, op : 0..MaxTime]
      \cup UNION {[disabled : BOOLEAN, cron : {c},
                    op : {0, t} \cup (IF IsRecurring(c, t)
                                      THEN {Earliest({u \in c : u > t})} ELSE {})] :
                    c \in Crons \ {{}}}

\* The times a schedule that is set at time t does not ask for: those before
\* its operation time, or, when that is past, before the window that finds it
\* overdue ends.
NotAskedFor(cfg, t) ==
    -PollPeriod..((IF OperationTime(cfg) >= t THEN OperationTime(cfg)
                   ELSE t + 2 * PollPeriod) - 1)

\* External: a user updates the ScanConfig (PUT).
UserUpdates ==
    /\ edits < MaxEdits
    /\ config' \in NewConfigs(now)
    /\ edits' = edits + 1
    /\ settled' = NotAskedFor(config', now)
    /\ crossed' = (crossed \/ w.phase # "idle")
    /\ UNCHANGED <<now, scans, w, late, readAt, faults>>

\* Time passes.  The watcher reads the ScanConfig once in a poll period, unless
\* something holds it up.
Tick ==
    /\ now < MaxTime
    /\ now' = now + 1
    /\ \/ now + 1 <= readAt + PollPeriod /\ UNCHANGED faults
       \/ now + 1 > readAt + PollPeriod /\ Fault
    /\ UNCHANGED <<config, scans, w, late, readAt, ghosts, edits>>

Init ==
    /\ now = 0
    /\ config \in {c \in NewConfigs(0) : ~c.disabled}
    /\ scans = <<>>
    /\ w = WIdle
    /\ late = {}
    /\ readAt = 0
    /\ settled = NotAskedFor(config, 0)
    /\ crossed = FALSE
    /\ edits = 0
    /\ faults = 0

Next == WStep \/ WGivesUp \/ LatePostArrives \/ ScanEnds \/ UserUpdates \/ Tick

Spec == Init /\ [][Next]_vars

\* Fairness: the poller and the reconciler keep running and the clock advances.
FairSpec == Spec /\ WF_vars(WStep) /\ WF_vars(Tick)
-----------------------------------------------------------------------------
(* Properties.                                                             *)

\* No call failed, nothing was late, and no update of the user fell between a
\* Reconcile's read and its patch, which carries the schedule that was read.
Undisturbed == faults = 0 /\ ~crossed

\* Every time the cron line matches from the operation time on is covered by the
\* window of a Reconcile that then creates a Scan or finds one in progress: the
\* windows leave no gap, and moving the operation time on skips only what its
\* own window covered.  A patch that crosses a user's update may skip more
\* (watcher.go:124-189, schedule.go:43-76, 121-139).
NoTimeIsMissed ==
    Undisturbed /\ ~config.disabled =>
        \A t \in config.cron : t < now - PollPeriod => t \in settled

\* One Scan for one operation time of a recurring schedule, although polls are
\* more frequent than the window is long and the Scan may be over by the next
\* one.  It is not so for a one-shot ScanConfig, as the FIXME in reconcileDue
\* says, nor when the patch that follows the POST fails, nor when the operation
\* time is the very end of the window: NextAfter returns a time that is not
\* after it, but equal (watcher.go:170-188, schedule.go:119-139).
OneScanPerTime ==
    Undisturbed =>
        \A j \in DOMAIN scans, i \in 1..Len(scans) :
            LET first == scans[i].req  second == scans[j].req IN
            i < j /\ IsRecurring(first.cron, first.op) /\ ~first.edge =>
                <<first.op, first.cron, first.edit>> # <<second.op, second.cron, second.edit>>

\* Two Scans of one ScanConfig never run at a time, even when a POST reaches the
\* server after the watcher gave it up and counted again (scan.go:279-302).
OneRunningScan == Cardinality(Running) <= 1

\* A one-shot ScanConfig, or one whose cron line has ended, is disabled once its
\* time is past, whoever writes its schedule meanwhile (watcher.go:138-142,
\* schedule.go:284-294).
OneShot ==
    /\ ~config.disabled
    /\ ~IsRecurring(config.cron, OperationTime(config))
    /\ OperationTime(config) < MaxTime - PollPeriod
OneShotIsRetired == OneShot ~> ~OneShot
=============================================================================
