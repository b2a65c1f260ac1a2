------------------------------- MODULE WorkSet -------------------------------
(***************************************************************************)
(* What orchestrator/common/queue.go promises its callers of each item, as *)
(* its comments put it: Enqueue adds an item the queue does not know,      *)
(* Dequeue moves a queued item to processing and keeps it from being       *)
(* enqueued until Done, RequeueAfter holds it back until its delay is over *)
(* with no instant in between at which somebody could enqueue it.          *)
(***************************************************************************)
CONSTANT Items

VARIABLE status  \* status[i]: unknown, queued, processing or waiting

Init == status = [i \in Items |-> "unknown"]

Move(i, from, to) == status[i] = from /\ status' = [status EXCEPT ![i] = to]

Next == \E i \in Items :
    \/ Move(i, "unknown", "queued")      \* Enqueue
    \/ Move(i, "unknown", "waiting")     \* EnqueueAfter
    \/ Move(i, "waiting", "queued")      \* the delay is over
    \/ Move(i, "queued", "processing")   \* Dequeue
    \/ Move(i, "processing", "unknown")  \* Done
    \/ Move(i, "processing", "waiting")  \* RequeueAfter

Spec == Init /\ [][Next]_status
=============================================================================
