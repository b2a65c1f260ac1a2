--------------------------- MODULE WorkQueueProofs ---------------------------
(***************************************************************************)
(* The safety of the work queue for any items and any number of            *)
(* reconcilers: its bookkeeping never drifts apart, it implements WorkSet, *)
(* with one reconciler Dequeue never panics, and items are handed out in   *)
(* the order they were queued in.  The same holds of it inside a           *)
(* controller, for any GetItems: a controller uses the queue through its   *)
(* methods only.                                                           *)
(***************************************************************************)
EXTENDS ReconcileLoop, TLAPS

(***************************************************************************)
(* Two lemmas on sequences without repetitions, for `q.queue = append(...)`*)
(* and `q.queue = q.queue[1:]`.                                            *)
(***************************************************************************)

LEMMA AppendNew ==
    ASSUME NEW q \in Seq(Items), NEW i \in Items \ Contents(q), Distinct(q)
    PROVE  /\ Append(q, i) \in Seq(Items)
           /\ Append(q, i) # <<>>
           /\ Contents(Append(q, i)) = Contents(q) \cup {i}
           /\ Distinct(Append(q, i))
<1> DEFINE p == Append(q, i)
<1>1. p \in Seq(Items) /\ Len(p) = Len(q) + 1 /\ Len(q) \in Nat
  OBVIOUS
<1>2. p[Len(q) + 1] = i /\ \A k \in 1..Len(q) : p[k] = q[k]
  OBVIOUS
<1>3. Contents(p) = Contents(q) \cup {i}
  <2>1. 1..Len(p) = (1..Len(q)) \cup {Len(q) + 1}
    BY <1>1
  <2> QED
    BY <1>2, <2>1 DEF Contents
<1>4. Distinct(p)
  <2> SUFFICES ASSUME NEW j \in 1..Len(p), NEW k \in 1..Len(p), p[j] = p[k]
               PROVE  j = k
    BY DEF Distinct
  <2>1. \A n \in 1..Len(q) : q[n] # i
    BY DEF Contents
  <2>2. \A n \in 1..Len(p) : n = Len(q) + 1 \/ n \in 1..Len(q)
    BY <1>1
  <2> QED
    BY <1>2, <2>1, <2>2 DEF Distinct
<1> QED
  BY <1>1, <1>3, <1>4

LEMMA TailRest ==
    ASSUME NEW q \in Seq(Items), q # <<>>, Distinct(q)
    PROVE  /\ Tail(q) \in Seq(Items)
           /\ Head(q) \in Items /\ Head(q) \in Contents(q)
           /\ Contents(Tail(q)) = Contents(q) \ {Head(q)}
           /\ Distinct(Tail(q))
<1> DEFINE p == Tail(q)
<1>1. /\ p \in Seq(Items) /\ Len(p) = Len(q) - 1
      /\ Len(q) \in Nat \ {0} /\ Head(q) = q[1]
      /\ \A k \in 1..Len(p) : p[k] = q[k + 1]
  OBVIOUS
<1>2. Head(q) \in Items /\ Head(q) \in Contents(q)
  BY <1>1 DEF Contents
<1>3. Contents(p) = Contents(q) \ {Head(q)}
  <2>1. ASSUME NEW k \in 1..Len(p)
        PROVE  p[k] \in Contents(q) /\ p[k] # Head(q)
    <3>1. k + 1 \in 1..Len(q) /\ 1 \in 1..Len(q) /\ k + 1 # 1
      BY <1>1
    <3> QED
      BY <1>1, <3>1 DEF Contents, Distinct
  <2>2. ASSUME NEW k \in 1..Len(q), q[k] # Head(q)
        PROVE  q[k] \in Contents(p)
    <3>1. k - 1 \in 1..Len(p) /\ (k - 1) + 1 = k
      BY <1>1, <2>2
    <3>2. p[k - 1] = q[k]
      BY <1>1, <3>1
    <3> QED
      BY <3>1, <3>2 DEF Contents
  <2> QED
    BY <2>1, <2>2 DEF Contents
<1>4. Distinct(p)
  <2> SUFFICES ASSUME NEW j \in 1..Len(p), NEW k \in 1..Len(p), p[j] = p[k]
               PROVE  j = k
    BY DEF Distinct
  <2>1. j + 1 \in 1..Len(q) /\ k + 1 \in 1..Len(q) /\ q[j + 1] = q[k + 1]
    BY <1>1
  <2>2. j + 1 = k + 1
    BY <2>1 DEF Distinct
  <2> QED
    BY <2>2
<1> QED
  BY <1>1, <1>2, <1>3, <1>4
-----------------------------------------------------------------------------
(***************************************************************************)
(* The inductive invariant.  None of its parts is inductive alone: that    *)
(* an item is not processed twice needs that a queued item is not being    *)
(* processed, which needs the slice to agree with its set, and that a      *)
(* timer finds its item neither queued nor processed needs the timers to   *)
(* agree with waitingForEnqueue.                                           *)
(***************************************************************************)
Inv == /\ TypeOK
       /\ QueueMatchesSet
       /\ KnownOnce
       /\ OneTimerPerWaitingItem
       /\ ExclusiveProcessing

LEMMA InitInv == Init => Inv
<1> SUFFICES ASSUME Init PROVE Inv
  OBVIOUS
<1>1. TypeOK
  <2>1. queue \in Seq(Items)
    BY DEF Init
  <2>2. timers \in [Items -> Nat]
    BY DEF Init
  <2>3. pc \in [Reconcilers -> Phases] /\ item \in [Reconcilers -> Items \cup {None}]
    BY DEF Init, Phases
  <2>4. inqueue \subseteq Items /\ processing \subseteq Items /\ waitingForEnqueue \subseteq Items
    BY DEF Init
  <2> QED
    BY <2>1, <2>2, <2>3, <2>4 DEF Init, TypeOK
<1>2. QueueMatchesSet
  BY DEF Init, QueueMatchesSet, Contents, Distinct
<1>3. KnownOnce /\ OneTimerPerWaitingItem /\ ExclusiveProcessing
  BY DEF Init, KnownOnce, OneTimerPerWaitingItem, ExclusiveProcessing
<1> QED
  BY <1>1, <1>2, <1>3 DEF Inv

(***************************************************************************)
(* What the helpers do to the variables they touch.                        *)
(***************************************************************************)

LEMMA NotifyKeeps ==
    ASSUME TypeOK, Notify
    PROVE  /\ pc' \in [Reconcilers -> Phases]
           /\ \A r \in Reconcilers : pc'[r] = "working" <=> pc[r] = "working"
<1>1. CASE UNCHANGED pc
  BY <1>1 DEF TypeOK
<1>2. CASE \E r \in Reconcilers : pc[r] = "parked" /\ pc' = [pc EXCEPT ![r] = "woken"]
  BY <1>2 DEF TypeOK, Phases
<1> QED
  BY <1>1, <1>2 DEF Notify

LEMMA AddKeeps ==
    ASSUME TypeOK, QueueMatchesSet, NEW i \in Items, NEW w,
           AddUnlessKnown(i, w)
    PROVE  /\ queue' \in Seq(Items) /\ inqueue' \in SUBSET Items
           /\ QueueMatchesSet'
           /\ pc' \in [Reconcilers -> Phases]
           /\ \A r \in Reconcilers : pc'[r] = "working" <=> pc[r] = "working"
           /\ \/ inqueue' = inqueue /\ i \in inqueue \cup processing \cup w
              \/ inqueue' = inqueue \cup {i} /\ i \notin inqueue \cup processing \cup w
<1>1. CASE i \in inqueue \cup processing \cup w /\ UNCHANGED <<queue, inqueue, pc>>
  <2>1. QueueMatchesSet'
    BY <1>1 DEF QueueMatchesSet, Contents, Distinct
  <2> QED
    BY <1>1, <2>1 DEF TypeOK
<1>2. CASE /\ i \notin inqueue \cup processing \cup w
           /\ queue' = Append(queue, i)
           /\ inqueue' = inqueue \cup {i}
           /\ Notify
  <2>1. queue \in Seq(Items) /\ Distinct(queue) /\ i \in Items \ Contents(queue)
    BY <1>2 DEF TypeOK, QueueMatchesSet
  <2>2. /\ queue' \in Seq(Items)
        /\ Contents(queue') = inqueue' /\ Distinct(queue')
    BY <1>2, <2>1, AppendNew DEF QueueMatchesSet
  <2>3. QueueMatchesSet'
    BY <2>2 DEF QueueMatchesSet, Contents, Distinct
  <2> QED
    BY <1>2, <2>2, <2>3, NotifyKeeps DEF TypeOK
<1> QED
  BY <1>1, <1>2 DEF AddUnlessKnown

LEMMA TakeHeadKeeps ==
    ASSUME Inv, NEW r \in Reconcilers, pc[r] # "working", queue # <<>>, TakeHead(r)
    PROVE  Inv'
<1> USE DEF Inv
<1>1. /\ queue \in Seq(Items) /\ Distinct(queue) /\ Contents(queue) = inqueue
  BY DEF TypeOK, QueueMatchesSet
<1>2. /\ queue' \in Seq(Items) /\ Distinct(queue')
      /\ Contents(queue') = inqueue' /\ Head(queue) \in Items /\ Head(queue) \in inqueue
  BY <1>1, TailRest DEF TakeHead
<1>3. TypeOK'
  BY <1>2 DEF TypeOK, TakeHead, Phases
<1>4. QueueMatchesSet'
  BY <1>2 DEF QueueMatchesSet, Contents, Distinct
<1>5. KnownOnce' /\ OneTimerPerWaitingItem'
  BY <1>2 DEF KnownOnce, OneTimerPerWaitingItem, TakeHead
<1>6. ExclusiveProcessing'
  <2>1. Head(queue) \notin processing
    BY <1>2 DEF KnownOnce
  <2>2. \A s \in Reconcilers :
          /\ pc'[s] = (IF s = r THEN "working" ELSE pc[s])
          /\ item'[s] = (IF s = r THEN Head(queue) ELSE item[s])
    BY DEF TakeHead, TypeOK
  <2>3. processing' = processing \cup {Head(queue)}
    BY DEF TakeHead
  <2> QED
    BY <2>1, <2>2, <2>3 DEF ExclusiveProcessing
<1> QED
  BY <1>3, <1>4, <1>5, <1>6
(***************************************************************************)
(* A reconciler ends an iteration: its item leaves processing.             *)
(***************************************************************************)
LEMMA IterationEnds ==
    ASSUME TypeOK, ExclusiveProcessing, NEW r \in Reconcilers, pc[r] = "working",
           processing' = processing \ {item[r]},
           item' = [item EXCEPT ![r] = None],
           NextIteration(r)
    PROVE  /\ item[r] \in processing
           /\ pc' \in [Reconcilers -> Phases]
           /\ item' \in [Reconcilers -> Items \cup {None}]
           /\ ExclusiveProcessing'
<1>1. \A s \in Reconcilers :
        /\ pc'[s] = "working" <=> (s # r /\ pc[s] = "working")
        /\ s # r => item'[s] = item[s]
  BY DEF NextIteration, TypeOK
<1>2. pc' \in [Reconcilers -> Phases]
  BY DEF NextIteration, TypeOK, Phases
<1>3. ExclusiveProcessing'
  BY <1>1 DEF ExclusiveProcessing
<1> QED
  BY <1>2, <1>3 DEF TypeOK, ExclusiveProcessing

LEMMA DelayKeeps ==
    ASSUME Inv, NEW i \in Items, NEW busy, DelayUnlessKnown(i, busy)
    PROVE  /\ waitingForEnqueue' \in SUBSET Items
           /\ timers' \in [Items -> Nat]
           /\ OneTimerPerWaitingItem'
           /\ \/ waitingForEnqueue' = waitingForEnqueue
              \/ /\ waitingForEnqueue' = waitingForEnqueue \cup {i}
                 /\ i \notin inqueue \cup busy \cup waitingForEnqueue
<1> USE DEF Inv
<1>1. CASE UNCHANGED <<waitingForEnqueue, timers>>
  BY <1>1 DEF TypeOK, OneTimerPerWaitingItem
<1>2. CASE /\ i \notin inqueue \cup busy \cup waitingForEnqueue
           /\ waitingForEnqueue' = waitingForEnqueue \cup {i}
           /\ timers' = [timers EXCEPT ![i] = @ + 1]
  <2>1. timers[i] = 0
    BY <1>2 DEF OneTimerPerWaitingItem
  <2>2. timers' \in [Items -> Nat] /\ \A j \in Items : timers'[j] = IF j = i THEN 1 ELSE timers[j]
    BY <1>2, <2>1 DEF TypeOK
  <2> QED
    BY <1>2, <2>2 DEF TypeOK, OneTimerPerWaitingItem
<1> QED
  BY <1>1, <1>2 DEF DelayUnlessKnown

(***************************************************************************)
(* A reconciler that only moves within Dequeue disturbs nothing.           *)
(***************************************************************************)
LEMMA OnlyPcKeeps ==
    ASSUME Inv, UNCHANGED <<qvars, item, cancelled>>,
           pc' \in [Reconcilers -> Phases],
           \A r \in Reconcilers : pc'[r] = "working" <=> pc[r] = "working"
    PROVE  Inv'
<1> USE DEF qvars
<1>1. TypeOK' /\ KnownOnce' /\ OneTimerPerWaitingItem'
  BY DEF Inv, TypeOK, KnownOnce, OneTimerPerWaitingItem
<1>2. QueueMatchesSet'
  BY DEF Inv, QueueMatchesSet, Contents, Distinct
<1>3. ExclusiveProcessing'
  BY DEF Inv, ExclusiveProcessing
<1> QED
  BY <1>1, <1>2, <1>3 DEF Inv

LEMMA NextInv == Inv /\ [Next]_wqvars => Inv'
<1> SUFFICES ASSUME Inv, [Next]_wqvars PROVE Inv'
  OBVIOUS
<1>1. ASSUME NEW i \in Items, Enqueue(i)
      PROVE  Inv'
  <2>1. AddUnlessKnown(i, waitingForEnqueue)
    BY <1>1 DEF Enqueue
  <2>2. /\ queue' \in Seq(Items) /\ inqueue' \in SUBSET Items
        /\ QueueMatchesSet'
        /\ pc' \in [Reconcilers -> Phases]
        /\ \A r \in Reconcilers : pc'[r] = "working" <=> pc[r] = "working"
        /\ \/ inqueue' = inqueue
           \/ /\ inqueue' = inqueue \cup {i}
              /\ i \notin inqueue \cup processing \cup waitingForEnqueue
    BY <2>1, AddKeeps DEF Inv
  <2>3. TypeOK' /\ KnownOnce' /\ OneTimerPerWaitingItem'
    BY <1>1, <2>2 DEF Inv, Enqueue, TypeOK, KnownOnce, OneTimerPerWaitingItem
  <2>4. ExclusiveProcessing'
    BY <1>1, <2>2 DEF Inv, Enqueue, ExclusiveProcessing
  <2> QED
    BY <2>2, <2>3, <2>4 DEF Inv
<1>2. ASSUME NEW i \in Items, EnqueueAfter(i)
      PROVE  Inv'
  <2>1. /\ DelayUnlessKnown(i, processing)
        /\ UNCHANGED <<queue, inqueue, processing, pc, item, cancelled>>
    BY <1>2 DEF EnqueueAfter
  <2>2. /\ waitingForEnqueue' \in SUBSET Items
        /\ timers' \in [Items -> Nat]
        /\ OneTimerPerWaitingItem'
        /\ \/ waitingForEnqueue' = waitingForEnqueue
           \/ /\ waitingForEnqueue' = waitingForEnqueue \cup {i}
              /\ i \notin inqueue \cup processing \cup waitingForEnqueue
    BY <2>1, DelayKeeps
  <2>3. TypeOK' /\ KnownOnce'
    BY <2>1, <2>2 DEF Inv, TypeOK, KnownOnce
  <2>4. QueueMatchesSet' /\ ExclusiveProcessing'
    BY <2>1 DEF Inv, QueueMatchesSet, Contents, Distinct, ExclusiveProcessing
  <2> QED
    BY <2>2, <2>3, <2>4 DEF Inv
<1>3. ASSUME NEW i \in Items, TimerFires(i)
      PROVE  Inv'
  <2>1. /\ timers[i] > 0
        /\ timers' = [timers EXCEPT ![i] = @ - 1]
        /\ waitingForEnqueue' = waitingForEnqueue \ {i}
        /\ AddUnlessKnown(i, waitingForEnqueue \ {i})
        /\ UNCHANGED <<processing, item, cancelled>>
    BY <1>3 DEF TimerFires
  <2>2. /\ queue' \in Seq(Items) /\ inqueue' \in SUBSET Items
        /\ QueueMatchesSet'
        /\ pc' \in [Reconcilers -> Phases]
        /\ \A r \in Reconcilers : pc'[r] = "working" <=> pc[r] = "working"
        /\ \/ inqueue' = inqueue
           \/ /\ inqueue' = inqueue \cup {i}
              /\ i \notin inqueue \cup processing
    BY <2>1, AddKeeps DEF Inv
  <2>3. i \in waitingForEnqueue /\ timers[i] = 1
    BY <2>1 DEF Inv, OneTimerPerWaitingItem
  <2>4. /\ timers' \in [Items -> Nat]
        /\ \A j \in Items : timers'[j] = IF j = i THEN 0 ELSE timers[j]
    BY <2>1, <2>3 DEF Inv, TypeOK
  <2>5. OneTimerPerWaitingItem'
    BY <2>1, <2>4 DEF Inv, OneTimerPerWaitingItem
  <2>6. TypeOK'
    BY <2>1, <2>2, <2>4 DEF Inv, TypeOK
  <2>7. KnownOnce'
    BY <2>1, <2>2 DEF Inv, KnownOnce
  <2>8. ExclusiveProcessing'
    BY <2>1, <2>2 DEF Inv, ExclusiveProcessing
  <2> QED
    BY <2>2, <2>5, <2>6, <2>7, <2>8 DEF Inv
<1>4. ASSUME NEW r \in Reconcilers, DequeueNow(r) \/ DequeueAfterWakeup(r)
      PROVE  Inv'
  BY <1>4, TakeHeadKeeps DEF DequeueNow, DequeueAfterWakeup
<1>5. ASSUME NEW r \in Reconcilers,
             \/ DequeueEmpty(r) \/ DequeuePark(r)
             \/ DequeueCancelled(r) \/ DequeuePanics(r)
      PROVE  Inv'
  <2>1. /\ UNCHANGED <<qvars, item, cancelled>>
        /\ pc[r] # "working"
        /\ \E p \in Phases \ {"working"} : pc' = [pc EXCEPT ![r] = p]
    BY <1>5 DEF DequeueEmpty, DequeuePark, DequeueCancelled, DequeuePanics,
                NextIteration, Phases
  <2>2. /\ pc' \in [Reconcilers -> Phases]
        /\ \A s \in Reconcilers : pc'[s] = "working" <=> pc[s] = "working"
    BY <2>1 DEF Inv, TypeOK, Phases
  <2> QED
    BY <2>1, <2>2, OnlyPcKeeps
<1>6. ASSUME NEW r \in Reconcilers, Done(r)
      PROVE  Inv'
  <2>1. /\ item[r] \in processing
        /\ pc' \in [Reconcilers -> Phases]
        /\ item' \in [Reconcilers -> Items \cup {None}]
        /\ ExclusiveProcessing'
    BY <1>6, IterationEnds DEF Inv, Done
  <2>2. /\ processing' = processing \ {item[r]}
        /\ UNCHANGED <<queue, inqueue, waitingForEnqueue, timers, cancelled>>
    BY <1>6 DEF Done
  <2>3. TypeOK' /\ KnownOnce' /\ OneTimerPerWaitingItem'
    BY <2>1, <2>2 DEF Inv, TypeOK, KnownOnce, OneTimerPerWaitingItem
  <2>4. QueueMatchesSet'
    BY <2>2 DEF Inv, QueueMatchesSet, Contents, Distinct
  <2> QED
    BY <2>1, <2>3, <2>4 DEF Inv
<1>7. ASSUME NEW r \in Reconcilers, RequeueAfter(r)
      PROVE  Inv'
  <2>1. /\ processing' = processing \ {item[r]}
        /\ DelayUnlessKnown(item[r], processing')
        /\ UNCHANGED <<queue, inqueue, cancelled>>
    BY <1>7 DEF RequeueAfter
  <2>2. /\ item[r] \in processing
        /\ pc' \in [Reconcilers -> Phases]
        /\ item' \in [Reconcilers -> Items \cup {None}]
        /\ ExclusiveProcessing'
    BY <1>7, IterationEnds DEF Inv, RequeueAfter
  <2>3. item[r] \in Items /\ item[r] \notin inqueue
    BY <2>2 DEF Inv, TypeOK, KnownOnce
  <2>4. /\ waitingForEnqueue' \in SUBSET Items
        /\ timers' \in [Items -> Nat]
        /\ OneTimerPerWaitingItem'
        /\ \/ waitingForEnqueue' = waitingForEnqueue
           \/ waitingForEnqueue' = waitingForEnqueue \cup {item[r]}
    BY <2>1, <2>3, DelayKeeps
  <2>5. TypeOK' /\ KnownOnce'
    BY <2>1, <2>2, <2>3, <2>4 DEF Inv, TypeOK, KnownOnce
  <2>6. QueueMatchesSet'
    BY <2>1 DEF Inv, QueueMatchesSet, Contents, Distinct
  <2> QED
    BY <2>2, <2>4, <2>5, <2>6 DEF Inv
<1>8. CASE Cancel
  <2>1. UNCHANGED <<qvars, pc, item>> /\ cancelled' = TRUE
    BY <1>8 DEF Cancel
  <2>2. TypeOK' /\ KnownOnce' /\ OneTimerPerWaitingItem' /\ ExclusiveProcessing'
    BY <2>1 DEF qvars, Inv, TypeOK, KnownOnce, OneTimerPerWaitingItem, ExclusiveProcessing
  <2>3. QueueMatchesSet'
    BY <2>1 DEF qvars, Inv, QueueMatchesSet, Contents, Distinct
  <2> QED
    BY <2>2, <2>3 DEF Inv
<1>9. CASE UNCHANGED wqvars
  BY <1>9, OnlyPcKeeps DEF wqvars, Inv, TypeOK
<1> QED
  BY <1>1, <1>2, <1>3, <1>4, <1>5, <1>6, <1>7, <1>8, <1>9 DEF Next
\* Whatever is called in whatever order, the variables keep their types and the
\* invariant holds (all of queue.go).
THEOREM Correct == Spec => []Inv
<1>1. Init => Inv
  BY InitInv
<1>2. Inv /\ [Next]_wqvars => Inv'
  BY NextInv
<1> QED
  BY <1>1, <1>2, PTL DEF Spec

\* The variables keep their types; of the slice this says that every element
\* Dequeue finds is an item (queue.go:36-68).
THEOREM TypeCorrect == Spec => []TypeOK
<1>1. Inv => TypeOK
  BY DEF Inv
<1> QED
  BY <1>1, Correct, PTL

\* The slice and inqueue agree, with no item twice (queue.go:112-116, 170-172).
THEOREM SliceMatchesSet == Spec => []QueueMatchesSet
<1>1. Inv => QueueMatchesSet
  BY DEF Inv
<1> QED
  BY <1>1, Correct, PTL

\* No item is queued, processed and waiting at once (queue.go:50-63).
THEOREM ItemsKnownOnce == Spec => []KnownOnce
<1>1. Inv => KnownOnce
  BY DEF Inv
<1> QED
  BY <1>1, Correct, PTL

\* One sleeping goroutine for every waiting item and none for any other
\* (queue.go:143-161).
THEOREM OneTimerEach == Spec => []OneTimerPerWaitingItem
<1>1. Inv => OneTimerPerWaitingItem
  BY DEF Inv
<1> QED
  BY <1>1, Correct, PTL

\* However many reconcilers share the queue, no two work on the same item
\* (queue.go:50-58, 112-116, 207-223).
THEOREM NoItemTwice == Spec => []ExclusiveProcessing
<1>1. Inv => ExclusiveProcessing
  BY DEF Inv
<1> QED
  BY <1>1, Correct, PTL

-----------------------------------------------------------------------------
(***************************************************************************)
(* The queue implements WorkSet.  The status of an item is read off the    *)
(* three sets; a step changes them for one item at most.                   *)
(***************************************************************************)

LEMMA StatusSteps ==
    ASSUME NEW i \in Items, NEW from, NEW to,
           ItemStatus(i) = from, ItemStatus(i)' = to,
           \A j \in Items \ {i} : ItemStatus(j)' = ItemStatus(j)
    PROVE  WS!Move(i, from, to)
BY DEF WS!Move

\* The three sets unchanged: every item keeps its status.
LEMMA SameSetsSameStatus ==
    ASSUME UNCHANGED <<inqueue, processing, waitingForEnqueue>>
    PROVE  \A i \in Items : ItemStatus(i)' = ItemStatus(i)
BY DEF ItemStatus

LEMMA StepSimulation == Inv /\ Inv' /\ [Next]_wqvars => [WS!Next]_[i \in Items |-> ItemStatus(i)]
<1> DEFINE Abstract == [WS!Next]_[i \in Items |-> ItemStatus(i)]
           Same == \A i \in Items : ItemStatus(i)' = ItemStatus(i)
<1>1. Same => Abstract
  OBVIOUS
<1>2. ASSUME NEW i \in Items,
             \/ WS!Move(i, "unknown", "queued") \/ WS!Move(i, "unknown", "waiting")
             \/ WS!Move(i, "waiting", "queued") \/ WS!Move(i, "queued", "processing")
             \/ WS!Move(i, "processing", "unknown") \/ WS!Move(i, "processing", "waiting")
      PROVE  Abstract
  BY <1>2 DEF WS!Next
<1> SUFFICES ASSUME Inv, Inv', [Next]_wqvars PROVE Abstract
  OBVIOUS
<1> HIDE DEF Abstract
<1>3. ASSUME NEW i \in Items, Enqueue(i)
      PROVE  Abstract
  <2>1. CASE UNCHANGED inqueue
    BY <1>1, <1>3, <2>1, SameSetsSameStatus DEF Enqueue
  <2>2. CASE /\ i \notin inqueue \cup processing \cup waitingForEnqueue
             /\ inqueue' = inqueue \cup {i}
    <3>1. ItemStatus(i) = "unknown" /\ ItemStatus(i)' = "queued"
      BY <1>3, <2>2 DEF Enqueue, ItemStatus
    <3>2. \A j \in Items \ {i} : ItemStatus(j)' = ItemStatus(j)
      BY <1>3, <2>2 DEF Enqueue, ItemStatus
    <3>3. WS!Move(i, "unknown", "queued")
      BY <3>1, <3>2, StatusSteps
    <3> QED
      BY <1>2, <3>3
  <2> QED
    BY <1>3, <2>1, <2>2 DEF Enqueue, AddUnlessKnown
<1>4. ASSUME NEW i \in Items, EnqueueAfter(i)
      PROVE  Abstract
  <2>1. CASE UNCHANGED waitingForEnqueue
    BY <1>1, <1>4, <2>1, SameSetsSameStatus DEF EnqueueAfter
  <2>2. CASE /\ i \notin inqueue \cup processing \cup waitingForEnqueue
             /\ waitingForEnqueue' = waitingForEnqueue \cup {i}
    <3>1. ItemStatus(i) = "unknown" /\ ItemStatus(i)' = "waiting"
      BY <1>4, <2>2 DEF EnqueueAfter, ItemStatus
    <3>2. \A j \in Items \ {i} : ItemStatus(j)' = ItemStatus(j)
      BY <1>4, <2>2 DEF EnqueueAfter, ItemStatus
    <3>3. WS!Move(i, "unknown", "waiting")
      BY <3>1, <3>2, StatusSteps
    <3> QED
      BY <1>2, <3>3
  <2> QED
    BY <1>4, <2>1, <2>2 DEF EnqueueAfter, DelayUnlessKnown
<1>5. ASSUME NEW i \in Items, TimerFires(i)
      PROVE  Abstract
  <2>1. i \in waitingForEnqueue /\ i \notin inqueue /\ i \notin processing
    BY <1>5 DEF Inv, TimerFires, OneTimerPerWaitingItem, KnownOnce
  <2>2. /\ waitingForEnqueue' = waitingForEnqueue \ {i}
        /\ inqueue' = inqueue \cup {i}
        /\ UNCHANGED processing
    BY <1>5, <2>1 DEF TimerFires, AddUnlessKnown
  <2>3. ItemStatus(i) = "waiting" /\ ItemStatus(i)' = "queued"
    BY <2>1, <2>2 DEF ItemStatus
  <2>4. \A j \in Items \ {i} : ItemStatus(j)' = ItemStatus(j)
    BY <2>2 DEF ItemStatus
  <2>5. WS!Move(i, "waiting", "queued")
    BY <2>3, <2>4, StatusSteps
  <2> QED
    BY <1>2, <2>5
<1>6. ASSUME NEW r \in Reconcilers, DequeueNow(r) \/ DequeueAfterWakeup(r)
      PROVE  Abstract
  <2>1. TakeHead(r) /\ queue # <<>>
    BY <1>6 DEF DequeueNow, DequeueAfterWakeup
  <2>2. PICK i \in inqueue : i = Head(queue)
    BY <2>1, TailRest DEF Inv, TypeOK, QueueMatchesSet
  <2>3. i \in Items /\ i \notin processing
    BY <2>2 DEF Inv, TypeOK, KnownOnce
  <2>4. /\ inqueue' = inqueue \ {i}
        /\ processing' = processing \cup {i}
        /\ UNCHANGED waitingForEnqueue
    BY <2>1, <2>2 DEF TakeHead
  <2>5. ItemStatus(i) = "queued" /\ ItemStatus(i)' = "processing"
    BY <2>2, <2>3, <2>4 DEF ItemStatus
  <2>6. \A j \in Items \ {i} : ItemStatus(j)' = ItemStatus(j)
    BY <2>4 DEF ItemStatus
  <2>7. WS!Move(i, "queued", "processing")
    BY <2>3, <2>5, <2>6, StatusSteps
  <2> QED
    BY <1>2, <2>3, <2>7
<1>7. ASSUME NEW r \in Reconcilers,
             \/ DequeueEmpty(r) \/ DequeuePark(r)
             \/ DequeueCancelled(r) \/ DequeuePanics(r)
      PROVE  Abstract
  BY <1>1, <1>7, SameSetsSameStatus
     DEF DequeueEmpty, DequeuePark, DequeueCancelled, DequeuePanics, qvars
<1>8. ASSUME NEW r \in Reconcilers, Done(r) \/ RequeueAfter(r)
      PROVE  Abstract
  <2>1. PICK i \in processing : i = item[r]
    BY <1>8 DEF Inv, ExclusiveProcessing, Done, RequeueAfter
  <2>2. processing' = processing \ {i} /\ UNCHANGED inqueue
    BY <1>8, <2>1 DEF Done, RequeueAfter
  <2>3. i \in Items /\ i \notin inqueue /\ i \notin waitingForEnqueue
    BY <2>1 DEF Inv, TypeOK, KnownOnce
  <2>4. CASE UNCHANGED waitingForEnqueue
    <3>1. ItemStatus(i) = "processing" /\ ItemStatus(i)' = "unknown"
      BY <2>2, <2>1, <2>3, <2>4 DEF ItemStatus
    <3>2. \A j \in Items \ {i} : ItemStatus(j)' = ItemStatus(j)
      BY <2>2, <2>4 DEF ItemStatus
    <3>3. WS!Move(i, "processing", "unknown")
      BY <2>3, <3>1, <3>2, StatusSteps
    <3> QED
      BY <1>2, <2>3, <3>3
  <2>5. CASE waitingForEnqueue' = waitingForEnqueue \cup {i}
    <3>1. ItemStatus(i) = "processing" /\ ItemStatus(i)' = "waiting"
      BY <2>2, <2>1, <2>3, <2>5 DEF ItemStatus
    <3>2. \A j \in Items \ {i} : ItemStatus(j)' = ItemStatus(j)
      BY <2>2, <2>5 DEF ItemStatus
    <3>3. WS!Move(i, "processing", "waiting")
      BY <2>3, <3>1, <3>2, StatusSteps
    <3> QED
      BY <1>2, <2>3, <3>3
  <2> QED
    BY <1>8, <2>1, <2>4, <2>5 DEF Done, RequeueAfter, DelayUnlessKnown
<1>9. CASE Cancel \/ UNCHANGED wqvars
  BY <1>1, <1>9, SameSetsSameStatus DEF Cancel, wqvars, qvars
<1> QED
  BY <1>3, <1>4, <1>5, <1>6, <1>7, <1>8, <1>9 DEF Next

\* For its callers the queue is the abstract set of queue.go's comments: each
\* method moves one item along its life cycle, in one step, or does nothing
\* (queue.go:80-83, 121, 129-132, 205-216).
THEOREM Implementation == Spec => ImplementsWorkSet
<1>1. Init => WS!Init
  BY DEF Init, WS!Init, ItemStatus
<1>2. Inv /\ Inv' /\ [Next]_wqvars => [WS!Next]_[i \in Items |-> ItemStatus(i)]
  BY StepSimulation
<1> QED
  BY <1>1, <1>2, Correct, PTL DEF Spec, ImplementsWorkSet, WS!Spec

-----------------------------------------------------------------------------
(***************************************************************************)
(* With one reconciler nobody can take the item a notification was for.    *)
(***************************************************************************)
SingleReconciler == \A r, s \in Reconcilers : r = s

WokenFindsItem ==
    \A r \in Reconcilers : pc[r] # "panicked" /\ (pc[r] = "woken" => queue # <<>>)

LEMMA AddWakes ==
    ASSUME Inv, WokenFindsItem, NEW i \in Items, NEW w, AddUnlessKnown(i, w)
    PROVE  WokenFindsItem'
<1>1. CASE UNCHANGED <<queue, inqueue, pc>>
  BY <1>1 DEF WokenFindsItem
<1>2. CASE /\ i \notin inqueue \cup processing \cup w
           /\ queue' = Append(queue, i)
           /\ Notify
  <2>1. queue' # <<>>
    BY <1>2, AppendNew DEF Inv, TypeOK, QueueMatchesSet
  <2>2. \A r \in Reconcilers : pc'[r] # "panicked"
    BY <1>2 DEF WokenFindsItem, Notify, Inv, TypeOK
  <2> QED
    BY <2>1, <2>2 DEF WokenFindsItem
<1> QED
  BY <1>1, <1>2 DEF AddUnlessKnown

\* With a single reconciler, as the orchestrator starts for each of its queues,
\* Dequeue never indexes an empty slice (queue.go:93-112).
THEOREM SafeWithOneReconciler ==
    ASSUME SingleReconciler PROVE Spec => []NoPanic
<1>1. Init => WokenFindsItem
  BY DEF Init, WokenFindsItem
<1>2. Inv /\ WokenFindsItem /\ [Next]_wqvars => WokenFindsItem'
  <2> SUFFICES ASSUME Inv, WokenFindsItem, [Next]_wqvars PROVE WokenFindsItem'
    OBVIOUS
  <2>1. ASSUME NEW i \in Items, Enqueue(i) \/ TimerFires(i)
        PROVE  WokenFindsItem'
    BY <2>1, AddWakes DEF Enqueue, TimerFires
  <2>2. ASSUME NEW i \in Items, EnqueueAfter(i)
        PROVE  WokenFindsItem'
    BY <2>2 DEF EnqueueAfter, WokenFindsItem
  <2>3. ASSUME NEW r \in Reconcilers, DequeueNow(r) \/ DequeueAfterWakeup(r)
        PROVE  WokenFindsItem'
    <3>1. pc' = [pc EXCEPT ![r] = "working"] /\ \A s \in Reconcilers : s = r
      BY <2>3 DEF DequeueNow, DequeueAfterWakeup, TakeHead, SingleReconciler
    <3> QED
      BY <3>1 DEF WokenFindsItem, Inv, TypeOK
  <2>4. ASSUME NEW r \in Reconcilers,
               \/ DequeueEmpty(r) \/ DequeuePark(r) \/ DequeueCancelled(r)
               \/ Done(r) \/ RequeueAfter(r)
        PROVE  WokenFindsItem'
    <3>1. /\ UNCHANGED queue
          /\ \E p \in {"unlocked", "parked", "idle", "stopped"} : pc' = [pc EXCEPT ![r] = p]
      BY <2>4 DEF DequeueEmpty, DequeuePark, DequeueCancelled, Done, RequeueAfter,
                  NextIteration, qvars
    <3> QED
      BY <3>1 DEF WokenFindsItem, Inv, TypeOK
  <2>5. ASSUME NEW r \in Reconcilers PROVE ~DequeuePanics(r)
    BY DEF DequeuePanics, WokenFindsItem
  <2>6. CASE Cancel \/ UNCHANGED wqvars
    BY <2>6 DEF Cancel, wqvars, qvars, WokenFindsItem
  <2> QED
    BY <2>1, <2>2, <2>3, <2>4, <2>5, <2>6 DEF Next
<1>3. WokenFindsItem => NoPanic
  BY DEF WokenFindsItem, NoPanic
<1> QED
  BY <1>1, <1>2, <1>3, Correct, PTL DEF Spec
-----------------------------------------------------------------------------
(* The queue of a controller.                                              *)

LEMMA StepUsesQueue == [LoopNext]_vars => [Next]_wqvars
<1> SUFFICES ASSUME [LoopNext]_vars PROVE [Next]_wqvars
  OBVIOUS
<1>1. ASSUME NEW i \in Items, Alive, BecomesDue(i) PROVE UNCHANGED wqvars
  BY <1>1 DEF BecomesDue
<1>2. ASSUME NEW i \in Items, Alive, DelayElapses(i) PROVE Next
  BY <1>2 DEF DelayElapses, Next
<1>3. ASSUME Alive, PollerStep PROVE Next \/ UNCHANGED wqvars
  BY <1>3 DEF PollerStep, Poll, PollerEnqueues, Next
<1>4. ASSUME NEW r \in Reconcilers, Alive, Dequeue(r) PROVE Next
  BY <1>4 DEF Dequeue, Next
<1>5. ASSUME NEW r \in Reconcilers, Alive, ReconcileReturns(r) PROVE Next
  BY <1>5 DEF ReconcileReturns, Reconciled, LeftForNextPoll, Requeued, Next
<1>6. ASSUME Alive, Shutdown PROVE Next
  BY <1>6 DEF Shutdown, Next
<1>7. ASSUME UNCHANGED vars PROVE UNCHANGED wqvars
  BY <1>7 DEF vars
<1> QED
  BY <1>1, <1>2, <1>3, <1>4, <1>5, <1>6, <1>7 DEF LoopNext

\* A controller is a client of the queue: every step of the poller and the
\* reconcilers is a step of the queue's methods or leaves the queue alone
\* (poller.go:39-70, reconciler.go:55-103).
THEOREM LoopUsesQueue == LoopSpec => Spec
<1>1. LoopInit => Init
  BY DEF LoopInit
<1>2. [LoopNext]_vars => [Next]_wqvars
  BY StepUsesQueue
<1> QED
  BY <1>1, <1>2, PTL DEF LoopSpec, Spec

\* The controller's variables keep their types: what is due or fetched is an
\* item, and the queue's own variables keep theirs.
THEOREM LoopTypeCorrect == LoopSpec => []LoopTypeOK
<1> DEFINE Own == due \in SUBSET Items /\ fetched \in SUBSET Items
<1>1. LoopInit => Own
  BY DEF LoopInit
<1>2. Own /\ [LoopNext]_vars => Own'
  <2> SUFFICES ASSUME Own, [LoopNext]_vars PROVE Own'
    OBVIOUS
  <2>1. ASSUME NEW i \in Items, BecomesDue(i) \/ DelayElapses(i) PROVE Own'
    BY <2>1 DEF BecomesDue, DelayElapses
  <2>2. CASE PollerStep
    BY <2>2 DEF PollerStep, Poll, PollerEnqueues
  <2>3. ASSUME NEW r \in Reconcilers, Dequeue(r) \/ ReconcileReturns(r) PROVE Own'
    BY <2>3 DEF Dequeue, ReconcileReturns, Reconciled, LeftForNextPoll, Requeued
  <2>4. CASE Shutdown
    BY <2>4 DEF Shutdown
  <2>5. CASE UNCHANGED vars
    BY <2>5 DEF vars
  <2> QED
    BY <2>1, <2>2, <2>3, <2>4, <2>5 DEF LoopNext
<1>3. TypeOK /\ Own => LoopTypeOK
  BY DEF LoopTypeOK
<1> QED
  BY <1>1, <1>2, <1>3, LoopUsesQueue, TypeCorrect, PTL DEF LoopSpec

\* The orchestrator's controllers, one poller and one reconciler each, never
\* panic in Dequeue (reconciler.go:61-66, queue.go:93-112).
THEOREM ControllerIsSafe ==
    ASSUME SingleReconciler PROVE LoopSpec => []NoPanic
BY LoopUsesQueue, SafeWithOneReconciler, PTL

\* No two reconcilers of a controller reconcile the same item at once, however
\* many it has and whatever the poller enqueues meanwhile.
THEOREM ControllerExclusive == LoopSpec => []ExclusiveProcessing
BY LoopUsesQueue, NoItemTwice, PTL

\* A controller's poller and reconcilers, together, move each item as WorkSet
\* says (poller.go:39-70, reconciler.go:55-103, queue.go:205-216).
THEOREM ControllerImplements == LoopSpec => ImplementsWorkSet
BY LoopUsesQueue, Implementation, PTL
-----------------------------------------------------------------------------
(* First come, first served.                                               *)

Before(q, i, j) == \E m, n \in 1..Len(q) : m < n /\ q[m] = i /\ q[n] = j

\* Of two queued items the one that was queued first is handed out first: a step
\* keeps their order or gives the first one to a reconciler, however items are
\* added, delayed, requeued and finished meanwhile (queue.go:112-116, 162-182).
FirstComeFirstServed ==
    [][\A i, j \in Items : Before(queue, i, j) =>
         \/ Before(queue', i, j)
         \/ i \in processing' /\ i \notin inqueue']_wqvars

\* What a step does to the slice: `append`, `q.queue[1:]` or nothing.
LEMMA QueueSteps ==
    ASSUME [Next]_wqvars
    PROVE  \/ queue' = queue
           \/ \E i \in Items : queue' = Append(queue, i)
           \/ \E r \in Reconcilers : queue # <<>> /\ TakeHead(r)
<1>1. ASSUME NEW i \in Items, Enqueue(i) \/ TimerFires(i)
      PROVE  queue' = queue \/ queue' = Append(queue, i)
  BY <1>1 DEF Enqueue, TimerFires, AddUnlessKnown
<1>2. ASSUME NEW i \in Items, EnqueueAfter(i) PROVE queue' = queue
  BY <1>2 DEF EnqueueAfter
<1>3. ASSUME NEW r \in Reconcilers, DequeueNow(r) \/ DequeueAfterWakeup(r)
      PROVE  queue # <<>> /\ TakeHead(r)
  BY <1>3 DEF DequeueNow, DequeueAfterWakeup
<1>4. ASSUME NEW r \in Reconcilers,
             \/ DequeueEmpty(r) \/ DequeuePark(r) \/ DequeueCancelled(r) \/ DequeuePanics(r)
             \/ Done(r) \/ RequeueAfter(r)
      PROVE  queue' = queue
  BY <1>4 DEF DequeueEmpty, DequeuePark, DequeueCancelled, DequeuePanics, Done, RequeueAfter,
              qvars
<1>5. CASE Cancel \/ UNCHANGED wqvars
  BY <1>5 DEF Cancel, wqvars, qvars
<1> QED BY <1>1, <1>2, <1>3, <1>4, <1>5 DEF Next

LEMMA AppendKeepsOrder ==
    ASSUME NEW q \in Seq(Items), NEW x \in Items, NEW i, NEW j, Before(q, i, j)
    PROVE  Before(Append(q, x), i, j)
<1>1. PICK m \in 1..Len(q), n \in 1..Len(q) : m < n /\ q[m] = i /\ q[n] = j
  BY DEF Before
<1> DEFINE p == Append(q, x)
<1>2. /\ m \in 1..Len(p) /\ n \in 1..Len(p)
      /\ p[m] = q[m] /\ p[n] = q[n]
  OBVIOUS
<1> HIDE DEF p
<1>3. Before(p, i, j)
  BY <1>1, <1>2 DEF Before
<1> QED BY <1>3 DEF p

LEMMA TailKeepsOrder ==
    ASSUME NEW q \in Seq(Items), q # <<>>, NEW i, NEW j, Before(q, i, j)
    PROVE  i = Head(q) \/ Before(Tail(q), i, j)
<1>1. PICK m \in 1..Len(q), n \in 1..Len(q) : m < n /\ q[m] = i /\ q[n] = j
  BY DEF Before
<1>2. CASE m = 1
  BY <1>1, <1>2
<1>3. CASE m # 1
  <2> DEFINE p == Tail(q)
  <2>1. /\ m - 1 \in 1..Len(p) /\ n - 1 \in 1..Len(p) /\ m - 1 < n - 1
        /\ p[m - 1] = q[m] /\ p[n - 1] = q[n]
    BY <1>1, <1>3
  <2> HIDE DEF p
  <2>2. Before(p, i, j)
    BY <1>1, <2>1 DEF Before
  <2> QED BY <2>2 DEF p
<1> QED BY <1>2, <1>3

\* Items are handed out in the order they were queued in (queue.go:112-116,
\* 162-182).
THEOREM ServedInOrder == Spec => FirstComeFirstServed
<1>1. ASSUME Inv, [Next]_wqvars, NEW i \in Items, NEW j \in Items, Before(queue, i, j)
      PROVE  Before(queue', i, j) \/ (i \in processing' /\ i \notin inqueue')
  <2>t. queue \in Seq(Items) /\ i \in inqueue
    BY <1>1 DEF Inv, TypeOK, QueueMatchesSet, Contents, Before
  <2>1. CASE queue' = queue
    BY <1>1, <2>1
  <2>2. ASSUME NEW x \in Items, queue' = Append(queue, x) PROVE Before(queue', i, j)
    BY <1>1, <2>t, <2>2, AppendKeepsOrder
  <2>3. ASSUME NEW r \in Reconcilers, queue # <<>>, TakeHead(r)
        PROVE  Before(queue', i, j) \/ (i \in processing' /\ i \notin inqueue')
    BY <1>1, <2>t, <2>3, TailKeepsOrder DEF TakeHead
  <2> QED BY <1>1, <2>1, <2>2, <2>3, QueueSteps
<1>2. Inv /\ [Next]_wqvars =>
        [\A i, j \in Items : Before(queue, i, j) =>
           \/ Before(queue', i, j)
           \/ i \in processing' /\ i \notin inqueue']_wqvars
  BY <1>1
<1> QED BY <1>2, Correct, PTL DEF Spec, FirstComeFirstServed

\* ... by every controller, too, whatever its poller adds meanwhile
\* (poller.go:39-70, reconciler.go:55-103).
THEOREM ControllerServesInOrder == LoopSpec => FirstComeFirstServed
BY LoopUsesQueue, ServedInOrder, PTL
=============================================================================
