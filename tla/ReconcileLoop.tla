---------------------------- MODULE ReconcileLoop ----------------------------
(***************************************************************************)
(* One controller of the orchestrator: a Poller (common/poller.go) and the *)
(* Reconcilers (common/reconciler.go) around one WorkQueue.  Every watcher *)
(* and the asset scan processor is an instance of this loop; what an item  *)
(* needs is abstracted to the set `due` of the items the API would return  *)
(* to the watcher's GetItems.                                              *)
(***************************************************************************)
EXTENDS WorkQueue

VARIABLES due,      \* the items GetItems would return now
          fetched   \* what the poller fetched and has not enqueued yet

vars == <<wqvars, due, fetched>>

LoopTypeOK == TypeOK /\ due \in SUBSET Items /\ fetched \in SUBSET Items

LoopInit == Init /\ due = {} /\ fetched = {}

\* External: a user, another controller or the passing of time.
BecomesDue(i) == due' = due \cup {i} /\ UNCHANGED <<wqvars, fetched>>

\* pollThenWait: fetch, then Enqueue one by one.  A poll that fails fetches
\* nothing and is a stuttering step.  After cancellation no poll succeeds.
Poll ==
    /\ fetched = {}
    /\ ~cancelled
    /\ fetched' = due
    /\ UNCHANGED <<wqvars, due>>

PollerEnqueues(i) ==
    /\ i \in fetched
    /\ fetched' = fetched \ {i}
    /\ Enqueue(i)
    /\ UNCHANGED due

\* Reconcile returned nil and the item needs no more work.
Reconciled(r) == Done(r) /\ due' = due \ {item[r]} /\ UNCHANGED fetched

\* Reconcile returned an error, or nil with more to do at a later poll.
LeftForNextPoll(r) == Done(r) /\ UNCHANGED <<due, fetched>>

\* Reconcile returned a RequeueAfterError.
Requeued(r) == RequeueAfter(r) /\ UNCHANGED <<due, fetched>>

DelayElapses(i) == TimerFires(i) /\ UNCHANGED <<due, fetched>>

\* Dequeue, step by step.
Dequeue(r) ==
    /\ \/ DequeueNow(r) \/ DequeueEmpty(r) \/ DequeuePark(r)
       \/ DequeueCancelled(r) \/ DequeueAfterWakeup(r) \/ DequeuePanics(r)
    /\ UNCHANGED <<due, fetched>>

Shutdown == ~cancelled /\ Cancel /\ UNCHANGED <<due, fetched>>

PollerStep == Poll \/ \E i \in Items : PollerEnqueues(i)

\* The reconcile function returns within ReconcileTimeout.
ReconcileReturns(r) == Reconciled(r) \/ LeftForNextPoll(r) \/ Requeued(r)

LoopNext ==
    /\ Alive
    /\ \/ \E i \in Items : BecomesDue(i) \/ DelayElapses(i)
       \/ PollerStep
       \/ \E r \in Reconcilers : Dequeue(r) \/ ReconcileReturns(r)
       \/ Shutdown

LoopSpec == LoopInit /\ [][LoopNext]_vars

\* The goroutines keep running, the mutex and the Go scheduler are fair, delays
\* end, and Reconcile returns: its context has a deadline (reconciler.go:69).
Fairness ==
    /\ WF_vars(Alive /\ PollerStep)
    /\ \A r \in Reconcilers : WF_vars(Alive /\ Dequeue(r))
    /\ \A r \in Reconcilers : WF_vars(Alive /\ ReconcileReturns(r))
    /\ \A i \in Items : WF_vars(Alive /\ DelayElapses(i))

FairSpec == LoopSpec /\ Fairness
-----------------------------------------------------------------------------
\* Nothing but a new, distinct item can wake the reconcilers any more: they are
\* all in the select and the queue is not empty.
AllParked == \A r \in Reconcilers : pc[r] = "parked"

\* A queued item is handed to a reconciler, first come first served, unless
\* the reconcilers all went to sleep on the queue it is in, or are shut down.
QueuedIsServed ==
    \A i \in Items :
        i \in inqueue ~> (i \in processing \/ AllParked \/ cancelled)

\* What queue.go says of Dequeue: it blocks only while the queue is empty, and a
\* new item notifies it (queue.go:37-39, 88-97).
EveryQueuedItemIsServed ==
    \A i \in Items : i \in inqueue ~> (i \in processing \/ cancelled)

\* An item whose Reconcile asked to be requeued comes back to the queue, also
\* during shutdown (queue.go:153-160).
RequeuedComesBack == \A i \in Items : i \in waitingForEnqueue ~> i \in inqueue

\* Cancelling the context ends every reconciler: one that is parked, one that
\* is about to park, one that was woken and one in the middle of an item
\* (reconciler.go:93-100).
ShutdownEnds == cancelled ~> \A r \in Reconcilers : pc[r] = "stopped"
=============================================================================
