------------------------------ MODULE WorkQueue ------------------------------
(***************************************************************************)
(* The orchestrator's work queue, orchestrator/common/queue.go: a FIFO of  *)
(* items that are unique by key, shared by one poller, one or more         *)
(* reconcilers that call Dequeue, and a timer goroutine per delayed item.  *)
(*                                                                         *)
(* Everything done under the mutex q.l is one step.  Dequeue is the one    *)
(* method that gives the mutex up in the middle: it unlocks on an empty    *)
(* queue, then blocks in a select on itemAdded, then locks again, and each *)
(* of those is a step of its own.  itemAdded is unbuffered and Enqueue's   *)
(* send on it never blocks, so a send is delivered only to a goroutine     *)
(* that is already in the select; it is never pending, and the drain in    *)
(* the non-empty branch of Dequeue never receives anything.                *)
(***************************************************************************)
EXTENDS Integers, Sequences

CONSTANTS Items,        \* the keys (Hash) of the items
          Reconcilers,  \* the goroutines that call Dequeue
          None          \* not an item

ASSUME NoneAssumption == None \notin Items

VARIABLES queue,              \* q.queue, head first
          inqueue,            \* q.inqueue
          processing,         \* q.processing
          waitingForEnqueue,  \* q.waitingForEnqueue
          timers,             \* timers[i]: sleeping enqueueAfter goroutines of i
          pc,                 \* where each reconciler is
          item,               \* the item a reconciler works on
          cancelled           \* the context given to Dequeue is done

qvars == <<queue, inqueue, processing, waitingForEnqueue, timers>>
wqvars == <<qvars, pc, item, cancelled>>

Phases == {"idle",        \* about to call Dequeue
           "unlocked",    \* saw an empty queue, unlocked, not yet in select
           "parked",      \* blocked in select
           "woken",       \* received from itemAdded, waiting for the mutex
           "working",     \* holds an item
           "stopped",     \* returned because the context is done
           "panicked"}    \* indexed an empty slice

TypeOK ==
    /\ queue \in Seq(Items)
    /\ inqueue \in SUBSET Items
    /\ processing \in SUBSET Items
    /\ waitingForEnqueue \in SUBSET Items
    /\ timers \in [Items -> Nat]
    /\ pc \in [Reconcilers -> Phases]
    /\ item \in [Reconcilers -> Items \cup {None}]
    /\ cancelled \in BOOLEAN

Init ==
    /\ queue = <<>>
    /\ inqueue = {}
    /\ processing = {}
    /\ waitingForEnqueue = {}
    /\ timers = [i \in Items |-> 0]
    /\ pc = [r \in Reconcilers |-> "idle"]
    /\ item = [r \in Reconcilers |-> None]
    /\ cancelled = FALSE
-----------------------------------------------------------------------------
(* The internal helpers, called with the mutex held.                       *)

\* `select { case q.itemAdded <- struct{}{}: default: }`
Notify ==
    \/ /\ \A r \in Reconcilers : pc[r] # "parked"
       /\ UNCHANGED pc
    \/ \E r \in Reconcilers :
         /\ pc[r] = "parked"
         /\ pc' = [pc EXCEPT ![r] = "woken"]

\* Faulty variant: an item that is being processed is not known.
AddUnlessKnown_IgnoresProcessing(i, waiting) ==
    \/ i \in inqueue \cup waiting /\ UNCHANGED <<queue, inqueue, pc>>
    \/ /\ i \notin inqueue \cup waiting
       /\ queue' = Append(queue, i)
       /\ inqueue' = inqueue \cup {i}
       /\ Notify

\* Faulty variant: the notification is sent before the item is looked up.
AddUnlessKnown_NotifiesAlways(i, waiting) ==
    /\ Notify
    /\ IF i \in inqueue \cup processing \cup waiting
       THEN UNCHANGED <<queue, inqueue>>
       ELSE queue' = Append(queue, i) /\ inqueue' = inqueue \cup {i}

\* Faulty variant: the newest item goes to the front.
AddUnlessKnown_Stack(i, waiting) ==
    \/ /\ i \in inqueue \cup processing \cup waiting
       /\ UNCHANGED <<queue, inqueue, pc>>
    \/ /\ i \notin inqueue \cup processing \cup waiting
       /\ queue' = <<i>> \o queue
       /\ inqueue' = inqueue \cup {i}
       /\ Notify

\* enqueue, given the waiting set its caller leaves behind.
AddUnlessKnown(i, waiting) ==
    \/ /\ i \in inqueue \cup processing \cup waiting
       /\ UNCHANGED <<queue, inqueue, pc>>
    \/ /\ i \notin inqueue \cup processing \cup waiting
       /\ queue' = Append(queue, i)
       /\ inqueue' = inqueue \cup {i}
       /\ Notify

\* enqueueAfter, given the processing set its caller leaves behind.
DelayUnlessKnown(i, busy) ==
    \/ /\ i \in inqueue \cup busy \cup waitingForEnqueue
       /\ UNCHANGED <<waitingForEnqueue, timers>>
    \/ /\ i \notin inqueue \cup busy \cup waitingForEnqueue
       /\ waitingForEnqueue' = waitingForEnqueue \cup {i}
       /\ timers' = [timers EXCEPT ![i] = @ + 1]

\* Faulty variant: the item stays in inqueue.
TakeHead_KeepsInqueue(r) ==
    /\ queue' = Tail(queue)
    /\ processing' = processing \cup {Head(queue)}
    /\ pc' = [pc EXCEPT ![r] = "working"]
    /\ item' = [item EXCEPT ![r] = Head(queue)]
    /\ UNCHANGED <<inqueue, waitingForEnqueue, timers, cancelled>>

\* Faulty variant: the item is not tracked as processing.
TakeHead_Untracked(r) ==
    /\ queue' = Tail(queue)
    /\ inqueue' = inqueue \ {Head(queue)}
    /\ pc' = [pc EXCEPT ![r] = "working"]
    /\ item' = [item EXCEPT ![r] = Head(queue)]
    /\ UNCHANGED <<processing, waitingForEnqueue, timers, cancelled>>

\* What Dequeue does once it holds the mutex on a queue with an item.
TakeHead(r) ==
    /\ queue' = Tail(queue)
    /\ inqueue' = inqueue \ {Head(queue)}
    /\ processing' = processing \cup {Head(queue)}
    /\ pc' = [pc EXCEPT ![r] = "working"]
    /\ item' = [item EXCEPT ![r] = Head(queue)]
    /\ UNCHANGED <<waitingForEnqueue, timers, cancelled>>

\* Faulty variant: the loop does not look at its context.
NextIteration_NeverEnds(r) == pc' = [pc EXCEPT ![r] = "idle"]

\* Where the reconciler goes after an iteration of its loop.
NextIteration(r) ==
    pc' = [pc EXCEPT ![r] = IF cancelled THEN "stopped" ELSE "idle"]
-----------------------------------------------------------------------------
(* The methods.                                                            *)

Enqueue(i) ==
    /\ AddUnlessKnown(i, waitingForEnqueue)
    /\ UNCHANGED <<processing, waitingForEnqueue, timers, item, cancelled>>

EnqueueAfter(i) ==
    /\ DelayUnlessKnown(i, processing)
    /\ UNCHANGED <<queue, inqueue, processing, pc, item, cancelled>>

\* Faulty variant: enqueued before it is deleted from waitingForEnqueue.
TimerFires_EnqueuesFirst(i) ==
    /\ timers[i] > 0
    /\ timers' = [timers EXCEPT ![i] = @ - 1]
    /\ waitingForEnqueue' = waitingForEnqueue \ {i}
    /\ AddUnlessKnown(i, waitingForEnqueue)
    /\ UNCHANGED <<processing, item, cancelled>>

\* The goroutine started by enqueueAfter, when its delay is over.
TimerFires(i) ==
    /\ timers[i] > 0
    /\ timers' = [timers EXCEPT ![i] = @ - 1]
    /\ waitingForEnqueue' = waitingForEnqueue \ {i}
    /\ AddUnlessKnown(i, waitingForEnqueue \ {i})
    /\ UNCHANGED <<processing, item, cancelled>>

DequeueNow(r) ==
    /\ pc[r] = "idle"
    /\ queue # <<>>
    /\ TakeHead(r)

DequeueEmpty(r) ==
    /\ pc[r] = "idle"
    /\ queue = <<>>
    /\ pc' = [pc EXCEPT ![r] = "unlocked"]
    /\ UNCHANGED <<qvars, item, cancelled>>

DequeuePark(r) ==
    /\ pc[r] = "unlocked"
    /\ pc' = [pc EXCEPT ![r] = "parked"]
    /\ UNCHANGED <<qvars, item, cancelled>>

\* The select's other case; the reconciler then finds its context done.
DequeueCancelled(r) ==
    /\ pc[r] = "parked"
    /\ cancelled
    /\ NextIteration(r)
    /\ UNCHANGED <<qvars, item, cancelled>>

DequeueAfterWakeup(r) ==
    /\ pc[r] = "woken"
    /\ queue # <<>>
    /\ TakeHead(r)

\* `item := q.queue[0]` on an empty slice.
DequeuePanics(r) ==
    /\ pc[r] = "woken"
    /\ queue = <<>>
    /\ pc' = [pc EXCEPT ![r] = "panicked"]
    /\ UNCHANGED <<qvars, item, cancelled>>

Done(r) ==
    /\ pc[r] = "working"
    /\ processing' = processing \ {item[r]}
    /\ item' = [item EXCEPT ![r] = None]
    /\ NextIteration(r)
    /\ UNCHANGED <<queue, inqueue, waitingForEnqueue, timers, cancelled>>

\* Faulty variant: the item is put back at once.
RequeueAfter_AtOnce(r) ==
    /\ pc[r] = "working"
    /\ processing' = processing \ {item[r]}
    /\ queue' = Append(queue, item[r])
    /\ inqueue' = inqueue \cup {item[r]}
    /\ item' = [item EXCEPT ![r] = None]
    /\ NextIteration(r)
    /\ UNCHANGED <<waitingForEnqueue, timers, cancelled>>

RequeueAfter(r) ==
    /\ pc[r] = "working"
    /\ processing' = processing \ {item[r]}
    /\ DelayUnlessKnown(item[r], processing')
    /\ item' = [item EXCEPT ![r] = None]
    /\ NextIteration(r)
    /\ UNCHANGED <<queue, inqueue, cancelled>>

Cancel ==
    /\ cancelled' = TRUE
    /\ UNCHANGED <<qvars, pc, item>>

\* A panic in a goroutine ends the whole process.
Alive == \A r \in Reconcilers : pc[r] # "panicked"

Next ==
    /\ Alive
    /\ \/ \E i \in Items : Enqueue(i) \/ EnqueueAfter(i) \/ TimerFires(i)
       \/ \E r \in Reconcilers :
            \/ DequeueNow(r) \/ DequeueEmpty(r) \/ DequeuePark(r)
            \/ DequeueCancelled(r) \/ DequeueAfterWakeup(r) \/ DequeuePanics(r)
            \/ Done(r) \/ RequeueAfter(r)
       \/ Cancel

Spec == Init /\ [][Next]_wqvars
-----------------------------------------------------------------------------
(* Properties.                                                             *)

Contents(q) == {q[k] : k \in 1..Len(q)}
Distinct(q) == \A j, k \in 1..Len(q) : q[j] = q[k] => j = k

\* The slice and its set never drift apart: what inqueue calls queued is what
\* Dequeue will hand out, each item once (queue.go:41-48, 112-116, 170-172).
QueueMatchesSet == Contents(queue) = inqueue /\ Distinct(queue)

\* An item is queued, being processed or waiting for its timer, never two of
\* these at once, whatever the order of Enqueue, EnqueueAfter, Done,
\* RequeueAfter and the timers (queue.go:50-63).
KnownOnce ==
    /\ inqueue \cap processing = {}
    /\ inqueue \cap waitingForEnqueue = {}
    /\ processing \cap waitingForEnqueue = {}

\* Every waiting item has one sleeping goroutine that will enqueue it, and no
\* goroutine sleeps for an item that is not waiting: no delayed item is
\* forgotten, none is enqueued twice (queue.go:143-161).
OneTimerPerWaitingItem ==
    \A i \in Items : timers[i] = IF i \in waitingForEnqueue THEN 1 ELSE 0

\* Two reconcilers never work on the same item, and what the queue tracks as
\* processing is exactly what the reconcilers hold (queue.go:50-58).
ExclusiveProcessing ==
    /\ \A r, s \in Reconcilers :
         pc[r] = "working" /\ pc[s] = "working" /\ item[r] = item[s] => r = s
    /\ processing = {item[r] : r \in {s \in Reconcilers : pc[s] = "working"}}

\* Dequeue never indexes an empty slice: a reconciler that was notified finds an
\* item when it gets the mutex (queue.go:93-112).  True of the one reconciler
\* the orchestrator starts per queue, false of two.
NoPanic == \A r \in Reconcilers : pc[r] # "panicked"

\* What a client sees of one item, for the refinement of WorkSet.
ItemStatus(i) ==
    CASE i \in processing -> "processing"
      [] i \notin processing /\ i \in inqueue -> "queued"
      [] i \notin processing /\ i \notin inqueue /\ i \in waitingForEnqueue -> "waiting"
      [] OTHER -> "unknown"

WS == INSTANCE WorkSet WITH status <- [i \in Items |-> ItemStatus(i)]

\* The queue keeps the promise of WorkSet (queue.go:80-83, 121, 129-132,
\* 205-216): every step moves one item along its life cycle, or none.
ImplementsWorkSet == WS!Spec
=============================================================================
