----------------------- MODULE PreflightAdmissionProofs -----------------------
(***************************************************************************)
(* Proofs about PreflightAdmission.  The inductive invariant says who may  *)
(* hold a slot and why: a running coroutine, a granted waiter or a source  *)
(* task that has not stopped; and that after aclose() every live task is   *)
(* one it waits for, because no task starts once the admission is closed.  *)
(***************************************************************************)
EXTENDS PreflightAdmission, FiniteSetTheorems, SequenceTheorems, TLAPS

Inside(o) == pc[o] \in {"body", "running", "draining"}

RunningHoldsSlot == \A o \in Operations : Inside(o) => o \in active

GrantHoldsSlot ==
    \A o \in Operations : pc[o] = "queued" /\ waiter[o] = "granted" => o \in active

PendingIsQueued ==
    \A o \in Operations : waiter[o] = "pending" => pc[o] = "queued" /\ o \notin active

\* A queued operation has no slot but a granted one.
QueuedHasNoSlot ==
    \A o \in active : pc[o] = "queued" => waiter[o] = "granted"

NewIsOutside == \A o \in Operations : pc[o] = "new" => o \notin active

TaskHoldsSlot ==
    \A o \in Operations :
        task[o].state # "none" => o \in active /\ (Inside(o) \/ pc[o] = "ended")

CleanupIsProtected ==
    \A o \in Operations : Live(o) /\ task[o].depth > 0 => task[o].protected

ClosedForAll ==
    closed => /\ waiting = <<>>
              /\ \A o \in Operations : Live(o) => o \in drained

IInv ==
    /\ TypeOK /\ RunningHoldsSlot /\ GrantHoldsSlot /\ PendingIsQueued
    /\ QueuedHasNoSlot /\ NewIsOutside /\ TaskHoldsSlot /\ CleanupIsProtected
    /\ ClosedForAll /\ NoLostWakeup /\ SlotsReturn /\ CleanShutdown

-----------------------------------------------------------------------------
(* The queue *)

\* Removing an entry keeps a queue and never lengthens it.
LEMMA WithoutFacts ==
    ASSUME NEW queue \in Seq(Operations), NEW o \in Operations
    PROVE  /\ Without(queue, o) \in Seq(Operations)
           /\ Len(Without(queue, o)) <= Len(queue)
           /\ queue = <<>> => Without(queue, o) = <<>>
<1>1. CASE \E i \in 1..Len(queue) : queue[i] = o
  <2> DEFINE i == CHOOSE j \in 1..Len(queue) : queue[j] = o
             front == SubSeq(queue, 1, i - 1)
             back == SubSeq(queue, i + 1, Len(queue))
  <2>1. i \in 1..Len(queue) /\ Len(queue) \in Nat
    BY <1>1
  <2>2. Without(queue, o) = front \o back
    BY <1>1 DEF Without
  <2> HIDE DEF i
  <2>3. front \in Seq(Operations) /\ Len(front) = i - 1
    <3>1. \A j \in 1..i - 1 : queue[j] \in Operations
      BY <2>1
    <3> QED
      BY <2>1, <3>1, SubSeqProperties
  <2>4. back \in Seq(Operations) /\ Len(back) = Len(queue) - i
    <3>1. \A j \in i + 1..Len(queue) : queue[j] \in Operations
      BY <2>1
    <3>2. /\ back \in Seq(Operations)
          /\ Len(back) = IF i + 1 <= Len(queue) THEN Len(queue) - (i + 1) + 1 ELSE 0
      BY <2>1, <3>1, SubSeqProperties
    <3> QED
      BY <2>1, <3>2
  <2> HIDE DEF front, back
  <2>5. front \o back \in Seq(Operations) /\ Len(front \o back) = Len(front) + Len(back)
    BY <2>3, <2>4, ConcatProperties
  <2> QED
    BY <2>1, <2>2, <2>3, <2>4, <2>5
<1>2. CASE ~\E i \in 1..Len(queue) : queue[i] = o
  BY <1>2 DEF Without
<1> QED
  BY <1>1, <1>2

LEMMA SplitFacts ==
    ASSUME NEW queue \in Seq(Operations), NEW k \in 0..Len(queue)
    PROVE  /\ Split(queue, k)[2] \in Seq(Operations)
           /\ Len(Split(queue, k)[2]) = Len(queue) - k
<1>1. \A j \in k + 1..Len(queue) : queue[j] \in Operations
  OBVIOUS
<1>2. /\ SubSeq(queue, k + 1, Len(queue)) \in Seq(Operations)
      /\ Len(SubSeq(queue, k + 1, Len(queue))) =
           IF k + 1 <= Len(queue) THEN Len(queue) - (k + 1) + 1 ELSE 0
  BY <1>1, SubSeqProperties
<1>3. Split(queue, k)[2] = SubSeq(queue, k + 1, Len(queue))
  BY DEF Split
<1> QED
  BY <1>2, <1>3

\* One more pop grants at most one more entry.
LEMMA PoppedFacts ==
    ASSUME NEW queue \in Seq(Operations), NEW k \in 0..Len(queue)
    PROVE  /\ Granted(queue, k) \subseteq Operations
           /\ k = 0 => Granted(queue, k) = {}
           /\ k > 0 => Granted(queue, k) \subseteq Granted(queue, k - 1) \cup {queue[k]}
<1>1. \A j \in 0..Len(queue) :
        Popped(queue, j) = {queue[i] : i \in 1..j} \cap {q \in Operations : waiter[q] = "pending"}
  <2> SUFFICES ASSUME NEW j \in 0..Len(queue)
               PROVE  {SubSeq(queue, 1, j)[i] : i \in 1..Len(SubSeq(queue, 1, j))} =
                        {queue[i] : i \in 1..j}
    BY DEF Popped, Split
  <2>1. \A i \in 1..j : queue[i] \in Operations
    OBVIOUS
  <2>2. /\ Len(SubSeq(queue, 1, j)) = j
        /\ \A i \in 1..j : SubSeq(queue, 1, j)[i] = queue[i]
    BY <2>1, SubSeqProperties
  <2> QED
    BY <2>2
<1> QED
  BY <1>1 DEF Granted

Waiters == [Operations -> {"none", "pending", "granted", "refused", "dead"}]

\* What a release does to slots, queue and waiters.
LEMMA ReleaseFacts ==
    ASSUME TypeOK, PendingIsQueued, NEW o \in Operations, waiter[o] # "pending",
           NEW queue \in Seq(Operations), Release(o, queue)
    PROVE  /\ active' \in SUBSET Operations /\ Cardinality(active') <= MaxActive
           /\ waiting' \in Seq(Operations) /\ Len(waiting') <= Len(queue)
           /\ waiter' \in Waiters
           /\ closed => waiting' = queue
           /\ ~closed /\ waiting' # <<>> => Full(active')
           /\ o \notin active'
           /\ \A q \in Operations :
                 /\ q \in active' <=>
                      q # o /\ (q \in active \/ (waiter[q] = "pending" /\ waiter'[q] = "granted"))
                 /\ waiter[q] # "pending" => waiter'[q] = waiter[q]
                 /\ waiter'[q] = "pending" => waiter[q] = "pending"
<1> DEFINE A == active \ {o}
<1>1. /\ IsFiniteSet(active) /\ IsFiniteSet(A)
      /\ Cardinality(A) \in Nat /\ Cardinality(A) <= MaxActive /\ MaxActive \in Nat \ {0}
  <2>1. IsFiniteSet(active) /\ IsFiniteSet(A) /\ Cardinality(A) <= Cardinality(active)
    BY OperationsAssumption, FS_Subset DEF TypeOK
  <2> QED
    BY <2>1, FS_CardinalityType, PolicyAssumption DEF TypeOK
<1>2. CASE closed
  <2>1. active' = A /\ waiting' = queue /\ waiter' = waiter
    BY <1>2 DEF Release
  <2>2. active \in SUBSET Operations /\ waiter \in Waiters
    BY DEF TypeOK, Waiters
  <2>3. \A q \in Operations :
          /\ q \in active' <=>
               q # o /\ (q \in active \/ (waiter[q] = "pending" /\ waiter'[q] = "granted"))
          /\ waiter[q] # "pending" => waiter'[q] = waiter[q]
          /\ waiter'[q] = "pending" => waiter[q] = "pending"
    BY <2>1
  <2>4. Len(waiting') <= Len(queue)
    <3>1. Len(queue) \in Nat
      OBVIOUS
    <3> QED
      BY <2>1, <3>1
  <2>5. Cardinality(active') <= MaxActive
    BY <1>1, <2>1
  <2> HIDE DEF A
  <2> QED
    BY <1>2, <2>1, <2>2, <2>3, <2>4, <2>5 DEF A
<1>3. CASE ~closed
  <2>1. PICK k \in 0..Len(queue) :
          /\ PopsEnough(queue, k, A)
          /\ active' = A \cup Granted(queue, k)
          /\ waiting' = Split(queue, k)[2]
          /\ waiter' = [q \in Operations |->
                          IF q \notin Popped(queue, k) THEN waiter[q]
                          ELSE IF q \in expired THEN "refused" ELSE "granted"]
    BY <1>3 DEF Release
  <2>2. Popped(queue, k) \subseteq {q \in Operations : waiter[q] = "pending"}
    BY DEF Popped
  <2>3. Granted(queue, k) = Popped(queue, k) \ expired
    BY DEF Granted
  <2>4. Cardinality(active') <= MaxActive
    <3>1. CASE k = 0
      BY <1>1, <2>1, <3>1, PoppedFacts
    <3>2. CASE k > 0
      <4> DEFINE B == A \cup Granted(queue, k - 1)
      <4>1. k - 1 \in 0..k - 1 /\ k - 1 \in 0..Len(queue)
        BY <3>2
      <4>2. ~Full(B)
        BY <2>1, <4>1 DEF PopsEnough
      <4>3. IsFiniteSet(B)
        BY <4>1, PoppedFacts, OperationsAssumption, FS_Subset DEF TypeOK
      <4>4. active' \subseteq B \cup {queue[k]}
        BY <2>1, <3>2, PoppedFacts
      <4>5. /\ IsFiniteSet(B \cup {queue[k]})
            /\ Cardinality(B \cup {queue[k]}) <= Cardinality(B) + 1
            /\ Cardinality(B) \in Nat
        <5>1. Cardinality(B) \in Nat
          BY <4>3, FS_CardinalityType
        <5>2. /\ IsFiniteSet(B \cup {queue[k]})
              /\ Cardinality(B \cup {queue[k]}) =
                   IF queue[k] \in B THEN Cardinality(B) ELSE Cardinality(B) + 1
          <6> HIDE DEF B
          <6> QED
            BY <4>3, FS_AddElement
        <5> HIDE DEF B
        <5> QED
          BY <5>1, <5>2
      <4>6. Cardinality(active') <= Cardinality(B \cup {queue[k]}) /\ IsFiniteSet(active')
        BY <4>4, <4>5, FS_Subset
      <4>7. Cardinality(active') \in Nat /\ Cardinality(B \cup {queue[k]}) \in Nat
        BY <4>5, <4>6, FS_CardinalityType
      <4> HIDE DEF B
      <4> QED
        BY <1>1, <4>2, <4>5, <4>6, <4>7 DEF Full
    <3> QED
      BY <3>1, <3>2
  <2>5. waiting' \in Seq(Operations) /\ Len(waiting') = Len(queue) - k
    BY <2>1, SplitFacts
  <2>6. waiting' # <<>> => Full(active')
    <3>1. waiting' # <<>> => k # Len(queue)
      BY <2>5
    <3> QED
      BY <2>1, <3>1 DEF PopsEnough
  <2>7. o \notin active'
    BY <2>1, <2>2, <2>3
  <2>8. waiter' \in Waiters
    BY <2>1 DEF TypeOK, Waiters
  <2>9. \A q \in Operations :
          /\ q \in active' <=>
               q # o /\ (q \in active \/ (waiter[q] = "pending" /\ waiter'[q] = "granted"))
          /\ waiter[q] # "pending" => waiter'[q] = waiter[q]
          /\ waiter'[q] = "pending" => waiter[q] = "pending"
    BY <2>1, <2>2, <2>3
  <2>10. active' \in SUBSET Operations
    BY <2>1, PoppedFacts DEF TypeOK
  <2> QED
    BY <1>3, <2>4, <2>5, <2>6, <2>7, <2>8, <2>9, <2>10
<1> QED
  BY <1>2, <1>3

-----------------------------------------------------------------------------
(* The steps *)

\* At the start nobody is inside.
LEMMA InitHolds == Init => IInv
<1> SUFFICES ASSUME Init PROVE IInv
  OBVIOUS
<1>1. TypeOK
  <2>1. Cardinality({}) = 0
    BY FS_EmptySet
  <2>2. waiting \in Seq(Operations) /\ Len(waiting) = 0
    BY DEF Init
  <2> QED
    BY <2>1, <2>2, PolicyAssumption DEF Init, TypeOK, NoTask, Task
<1> QED
  BY <1>1 DEF Init, IInv, RunningHoldsSlot, Inside, GrantHoldsSlot, PendingIsQueued,
      QueuedHasNoSlot, NewIsOutside, TaskHoldsSlot, CleanupIsProtected, ClosedForAll,
      NoLostWakeup, SlotsReturn, CleanShutdown, NoTask, Live, closed

\* Stuttering keeps the invariant.
LEMMA StutterStep == ASSUME IInv, UNCHANGED vars PROVE IInv'
BY DEF vars, IInv, TypeOK, RunningHoldsSlot, Inside, GrantHoldsSlot, PendingIsQueued,
    QueuedHasNoSlot, NewIsOutside, TaskHoldsSlot, CleanupIsProtected, ClosedForAll,
    NoLostWakeup, SlotsReturn, CleanShutdown, Live, closed, Full

\* operation() entered: refused, admitted at once, or queued behind full slots.
LEMMA EnterStep == ASSUME IInv, NEW o \in Operations, Enter(o) PROVE IInv'
<1> USE DEF IInv, Enter
<1>1. o \notin active /\ waiter[o] # "pending" /\ task[o].state = "none"
  BY DEF NewIsOutside, PendingIsQueued, TaskHoldsSlot, Inside
<1>2. TypeOK'
  <2>1. IsFiniteSet(active) /\ Cardinality(active) \in Nat
    BY OperationsAssumption, FS_Subset, FS_CardinalityType DEF TypeOK
  <2>2. active' \in SUBSET Operations /\ Cardinality(active') <= MaxActive
    <3>1. CASE UNCHANGED active
      BY <3>1 DEF TypeOK
    <3>2. CASE ~Full(active) /\ active' = active \cup {o}
      <4>1. Cardinality(active \cup {o}) = Cardinality(active) + 1
        BY <1>1, <2>1, FS_AddElement
      <4> QED
        BY <2>1, <3>2, <4>1, PolicyAssumption DEF TypeOK, Full
    <3> QED
      BY <3>1, <3>2
  <2>3. waiting' \in Seq(Operations) /\ Len(waiting') <= MaxWaiting
    <3>1. CASE UNCHANGED waiting
      BY <3>1 DEF TypeOK
    <3>2. CASE ~NoPlace /\ waiting' = Append(waiting, o)
      <4>1. waiting \in Seq(Operations)
        BY DEF TypeOK
      <4>2. Append(waiting, o) \in Seq(Operations) /\ Len(Append(waiting, o)) = Len(waiting) + 1
        BY <4>1, AppendProperties
      <4>3. Len(waiting) \in Nat
        BY <4>1
      <4> QED
        BY <3>2, <4>2, <4>3, PolicyAssumption DEF NoPlace
    <3> QED
      BY <3>1, <3>2
  <2> QED
    BY <2>2, <2>3 DEF TypeOK
<1>3. NoLostWakeup'
  BY DEF NoLostWakeup, Full
<1>4. /\ RunningHoldsSlot' /\ GrantHoldsSlot' /\ PendingIsQueued' /\ QueuedHasNoSlot'
      /\ NewIsOutside' /\ TaskHoldsSlot'
  BY <1>1 DEF TypeOK, RunningHoldsSlot, Inside, GrantHoldsSlot, PendingIsQueued,
      QueuedHasNoSlot, NewIsOutside, TaskHoldsSlot
<1>5. CleanupIsProtected' /\ ClosedForAll' /\ SlotsReturn' /\ CleanShutdown'
  BY <1>1 DEF TypeOK, CleanupIsProtected, ClosedForAll, SlotsReturn, CleanShutdown, Live, closed
<1> QED
  BY <1>2, <1>3, <1>4, <1>5

\* The end of operation(), in whatever way it comes.
LEMMA LeaveStep ==
    ASSUME IInv, NEW o \in Operations, waiter[o] # "pending", Leave(o)
    PROVE  IInv'
<1> DEFINE queue == Without(waiting, o)
<1>1. /\ queue \in Seq(Operations) /\ Len(queue) <= MaxWaiting
      /\ waiting = <<>> => queue = <<>>
  <2>1. waiting \in Seq(Operations) /\ Len(waiting) <= MaxWaiting
    BY DEF IInv, TypeOK
  <2>2. queue \in Seq(Operations) /\ Len(queue) <= Len(waiting) /\ (waiting = <<>> => queue = <<>>)
    BY <2>1, WithoutFacts
  <2>3. Len(queue) \in Nat /\ Len(waiting) \in Nat
    BY <2>1, <2>2
  <2> QED
    BY <2>1, <2>2, <2>3, PolicyAssumption
<1>2. /\ pc' = [pc EXCEPT ![o] = "ended"]
      /\ UNCHANGED <<expired, task, shutdown, drained>>
  BY DEF Leave
<1>3. CASE o \in active /\ Idle(o)
  <2>1. Release(o, queue)
    BY <1>3 DEF Leave
  <2> HIDE DEF queue
  <2>2. TypeOK /\ PendingIsQueued
    BY DEF IInv
  <2>3. /\ active' \in SUBSET Operations /\ Cardinality(active') <= MaxActive
        /\ waiting' \in Seq(Operations) /\ Len(waiting') <= Len(queue)
        /\ waiter' \in Waiters
        /\ closed => waiting' = queue
        /\ ~closed /\ waiting' # <<>> => Full(active')
        /\ o \notin active'
        /\ \A q \in Operations :
              /\ q \in active' <=>
                   q # o /\ (q \in active \/ (waiter[q] = "pending" /\ waiter'[q] = "granted"))
              /\ waiter[q] # "pending" => waiter'[q] = waiter[q]
              /\ waiter'[q] = "pending" => waiter[q] = "pending"
    BY <1>1, <2>1, <2>2, ReleaseFacts
  <2>4. TypeOK'
    <3>1. Len(waiting') \in Nat /\ Len(queue) \in Nat
      BY <1>1, <2>3
    <3>2. Len(waiting') <= MaxWaiting
      BY <1>1, <2>3, <3>1, PolicyAssumption
    <3> QED
      BY <1>2, <2>3, <3>2 DEF IInv, TypeOK, Waiters
  <2>5. NoLostWakeup' /\ ClosedForAll'
    BY <1>1, <1>2, <2>3 DEF IInv, NoLostWakeup, ClosedForAll, Live, closed, Full
  <2>6. RunningHoldsSlot' /\ GrantHoldsSlot' /\ PendingIsQueued' /\ QueuedHasNoSlot' /\ NewIsOutside'
    BY <1>2, <2>3, <2>4 DEF IInv, TypeOK, RunningHoldsSlot, Inside, GrantHoldsSlot,
        PendingIsQueued, QueuedHasNoSlot, NewIsOutside
  <2>7. TaskHoldsSlot' /\ SlotsReturn'
    BY <1>2, <1>3, <2>3, <2>4 DEF IInv, TypeOK, TaskHoldsSlot, Inside, SlotsReturn, Idle,
        PendingIsQueued
  <2>8. CleanupIsProtected' /\ CleanShutdown'
    BY <1>2 DEF IInv, CleanupIsProtected, CleanShutdown, Live
  <2> QED
    BY <2>4, <2>5, <2>6, <2>7, <2>8 DEF IInv
<1>4. CASE ~(o \in active /\ Idle(o))
  <2>1. waiting' = queue /\ UNCHANGED <<active, waiter>>
    BY <1>4 DEF Leave
  <2> HIDE DEF queue
  <2>2. TypeOK'
    BY <1>1, <1>2, <2>1 DEF IInv, TypeOK
  <2>3. NoLostWakeup' /\ ClosedForAll'
    BY <1>1, <1>2, <2>1 DEF IInv, NoLostWakeup, ClosedForAll, Live, closed, Full
  <2>4. RunningHoldsSlot' /\ GrantHoldsSlot' /\ PendingIsQueued' /\ QueuedHasNoSlot' /\ NewIsOutside'
    BY <1>2, <2>1, <2>2 DEF IInv, TypeOK, RunningHoldsSlot, Inside, GrantHoldsSlot,
        PendingIsQueued, QueuedHasNoSlot, NewIsOutside
  <2>5. TaskHoldsSlot' /\ SlotsReturn'
    BY <1>2, <1>4, <2>1, <2>2 DEF IInv, TypeOK, TaskHoldsSlot, Inside, SlotsReturn, Idle
  <2>6. CleanupIsProtected' /\ CleanShutdown'
    BY <1>2 DEF IInv, CleanupIsProtected, CleanShutdown, Live
  <2> QED
    BY <2>2, <2>3, <2>4, <2>5, <2>6 DEF IInv
<1> QED
  BY <1>3, <1>4

\* The future of a queued operation is done without a grant.
LEMMA GiveUpStep == ASSUME IInv, NEW o \in Operations, GiveUp(o) PROVE IInv'
BY DEF GiveUp, IInv, TypeOK, RunningHoldsSlot, Inside, GrantHoldsSlot, PendingIsQueued,
    QueuedHasNoSlot, NewIsOutside, TaskHoldsSlot, CleanupIsProtected, ClosedForAll,
    NoLostWakeup, SlotsReturn, CleanShutdown, Live, closed, Full

\* A granted operation goes on, any other leaves.
LEMMA ResumeStep == ASSUME IInv, NEW o \in Operations, Resume(o) PROVE IInv'
<1>1. CASE Leave(o)
  BY <1>1, LeaveStep DEF Resume
<1>2. CASE ~Leave(o)
  <2>1. /\ pc[o] = "queued" /\ waiter[o] = "granted"
        /\ pc' = [pc EXCEPT ![o] = "body"]
        /\ UNCHANGED <<expired, active, waiting, waiter, task, shutdown, drained>>
    BY <1>2 DEF Resume
  <2> QED
    BY <2>1 DEF IInv, TypeOK, RunningHoldsSlot, Inside, GrantHoldsSlot, PendingIsQueued,
        QueuedHasNoSlot, NewIsOutside, TaskHoldsSlot, CleanupIsProtected, ClosedForAll,
        NoLostWakeup, SlotsReturn, CleanShutdown, Live, closed, Full
<1> QED
  BY <1>1, <1>2

\* A body that ends leaves; its future is done, if it ever had one.
LEMMA BodyEndsStep == ASSUME IInv, NEW o \in Operations, BodyEnds(o) PROVE IInv'
BY LeaveStep DEF BodyEnds, IInv, PendingIsQueued

\* The deadline passes.
LEMMA ExpireStep == ASSUME IInv, NEW o \in Operations, Expire(o) PROVE IInv'
BY DEF Expire, IInv, TypeOK, RunningHoldsSlot, Inside, GrantHoldsSlot, PendingIsQueued,
    QueuedHasNoSlot, NewIsOutside, TaskHoldsSlot, CleanupIsProtected, ClosedForAll,
    NoLostWakeup, SlotsReturn, CleanShutdown, Live, closed, Full

\* Steps of a running coroutine and of its source task change neither slots
\* nor queue, and may only end a task that is not live or start a new one
\* while the admission is open.
LEMMA TaskStep ==
    ASSUME IInv, NEW o \in Operations,
           UNCHANGED <<expired, active, waiting, waiter, shutdown, drained>>,
           Inside(o) \/ (Live(o) /\ UNCHANGED pc),
           pc' = pc \/ \E p \in {"body", "running", "draining"} : pc' = [pc EXCEPT ![o] = p],
           NEW t \in Task, task' = [task EXCEPT ![o] = t],
           t.state = "none" => pc'[o] # "ended",
           t.state = "live" => (Live(o) \/ ~closed) /\ (t.depth > 0 => t.protected)
    PROVE  IInv'
<1>1. o \in active /\ o \in Operations /\ (Inside(o) \/ pc[o] = "ended")
  BY DEF IInv, RunningHoldsSlot, TaskHoldsSlot, Live
<1>2. TypeOK'
  BY DEF IInv, TypeOK
<1>3. NoLostWakeup'
  BY DEF IInv, NoLostWakeup, Full
<1>4. RunningHoldsSlot' /\ GrantHoldsSlot' /\ PendingIsQueued' /\ QueuedHasNoSlot' /\ NewIsOutside'
  BY <1>1 DEF IInv, TypeOK, RunningHoldsSlot, Inside, GrantHoldsSlot, PendingIsQueued,
      QueuedHasNoSlot, NewIsOutside
<1>5. TaskHoldsSlot'
  BY <1>1 DEF IInv, TypeOK, TaskHoldsSlot, Inside
<1>6. CleanupIsProtected'
  BY DEF IInv, TypeOK, CleanupIsProtected, Live
<1>7. ClosedForAll'
  BY DEF IInv, TypeOK, ClosedForAll, Live, closed
<1>8. SlotsReturn'
  BY <1>1 DEF IInv, TypeOK, SlotsReturn, Inside
<1>9. CleanShutdown'
  BY DEF IInv, TypeOK, CleanShutdown, Live, closed
<1> QED
  BY <1>2, <1>3, <1>4, <1>5, <1>6, <1>7, <1>8, <1>9 DEF IInv

\* What a task is: for steps that change a field of one.
LEMMA TaskFacts ==
    ASSUME TypeOK, NEW o \in Operations
    PROVE  /\ task[o] \in Task /\ NoTask \in Task /\ NewTask \in Task /\ Cancelled(o) \in Task
           /\ Cancelled(o).state = task[o].state /\ Cancelled(o).depth = task[o].depth
           /\ Cancelled(o).protected = task[o].protected
           /\ task[o].protected => Cancelled(o) = task[o]
           /\ NoTask.state = "none" /\ NewTask.state = "live" /\ NewTask.depth = 0
           /\ task = [task EXCEPT ![o] = task[o]]
<1>1. task[o] \in Task /\ 0 \in 0..MaxDepth
  BY PolicyAssumption DEF TypeOK
<1> QED
  BY <1>1 DEF TypeOK, Task, NoTask, NewTask, Cancelled

\* A source task starts only on an open admission.
LEMMA RunStep == ASSUME IInv, NEW o \in Operations, Run(o) PROVE IInv'
<1>1. TypeOK
  BY DEF IInv
<1>2. NewTask \in Task /\ NewTask.state = "live" /\ NewTask.depth = 0
  BY <1>1, TaskFacts
<1>3. /\ Inside(o) /\ ~closed /\ pc' = [pc EXCEPT ![o] = "running"]
      /\ task' = [task EXCEPT ![o] = NewTask]
      /\ UNCHANGED <<expired, active, waiting, waiter, shutdown, drained>>
  BY DEF Run, MayRun, Check, Inside
<1>4. NewTask.state # "none" /\ ~(NewTask.depth > 0)
  BY <1>2
<1> HIDE DEF NewTask, closed
<1> QED
  BY <1>2, <1>3, <1>4, TaskStep

\* run() resumed after its task, forgetting it.
LEMMA ForgetStep ==
    ASSUME IInv, NEW o \in Operations, Inside(o), ~Live(o), Forget(o),
           pc' = [pc EXCEPT ![o] = "body"],
           UNCHANGED <<expired, active, waiting, waiter, shutdown, drained>>
    PROVE  IInv'
<1>1. NoTask \in Task /\ NoTask.state = "none" /\ pc'[o] = "body"
  BY TaskFacts DEF IInv, TypeOK
<1>2. task' = [task EXCEPT ![o] = NoTask]
  BY DEF Forget
<1> QED
  BY <1>1, <1>2, TaskStep

LEMMA RunReturnsStep == ASSUME IInv, NEW o \in Operations, RunReturns(o) PROVE IInv'
BY ForgetStep DEF RunReturns, Inside

LEMMA DrainEndsStep == ASSUME IInv, NEW o \in Operations, DrainEnds(o) PROVE IInv'
BY ForgetStep DEF DrainEnds, Inside

\* The deadline or the caller cancels the task, unless it is in cleanup.
LEMMA RunInterruptedStep == ASSUME IInv, NEW o \in Operations, RunInterrupted(o) PROVE IInv'
<1>1. /\ Cancelled(o) \in Task
      /\ Cancelled(o).state = task[o].state /\ Cancelled(o).depth = task[o].depth
      /\ Cancelled(o).protected = task[o].protected
  BY TaskFacts DEF IInv
<1>2. task[o].depth > 0 => task[o].protected
  BY DEF RunInterrupted, IInv, CleanupIsProtected
<1>3. Cancelled(o).state = "live"
  BY <1>1 DEF RunInterrupted, Live
<1>4. /\ Inside(o) /\ Live(o) /\ pc' = [pc EXCEPT ![o] = "draining"]
      /\ task' = [task EXCEPT ![o] = Cancelled(o)]
      /\ UNCHANGED <<expired, active, waiting, waiter, shutdown, drained>>
  BY DEF RunInterrupted, Inside
<1> HIDE DEF Cancelled
<1> QED
  BY <1>1, <1>2, <1>3, <1>4, TaskStep

\* The drain gives up on a live task, which stays as it is.
LEMMA DrainTimesOutStep == ASSUME IInv, NEW o \in Operations, DrainTimesOut(o) PROVE IInv'
<1>1. task[o] \in Task /\ task = [task EXCEPT ![o] = task[o]]
  BY TaskFacts DEF IInv
<1>2. task[o].depth > 0 => task[o].protected
  BY DEF DrainTimesOut, IInv, CleanupIsProtected
<1>3. /\ Inside(o) /\ Live(o) /\ pc' = [pc EXCEPT ![o] = "body"]
      /\ task' = [task EXCEPT ![o] = task[o]]
      /\ UNCHANGED <<expired, active, waiting, waiter, shutdown, drained>>
  BY <1>1 DEF DrainTimesOut, Inside
<1>4. task[o].state = "live"
  BY <1>3 DEF Live
<1> QED
  BY <1>1, <1>2, <1>3, <1>4, TaskStep

\* A cleanup block entered or left, and the end of a task.
LEMMA SourceStep ==
    ASSUME IInv, NEW o \in Operations, Protect(o) \/ Unprotect(o) \/ TaskStops(o)
    PROVE  IInv'
<1>1. task[o] \in Task /\ Live(o)
  BY DEF IInv, TypeOK, Protect, Unprotect, TaskStops
<1>2. /\ task[o].depth \in 0..MaxDepth /\ task[o].state = "live"
      /\ task[o].protected \in BOOLEAN /\ task[o].cancelled \in BOOLEAN
      /\ MaxDepth \in Nat
  BY <1>1, PolicyAssumption DEF Task, Live
<1>3. UNCHANGED <<pc, expired, active, waiting, waiter, shutdown, drained>>
  BY DEF Protect, Unprotect, TaskStops
<1>4. CASE Protect(o)
  <2> DEFINE t == [task[o] EXCEPT !.depth = @ + 1, !.protected = TRUE]
  <2>1. task' = [task EXCEPT ![o] = t]
    BY <1>4 DEF Protect
  <2>2. t \in Task /\ t.state = "live" /\ t.protected
    <3>1. task[o].depth + 1 \in 0..MaxDepth
      BY <1>2, <1>4 DEF Protect
    <3> QED
      BY <1>1, <1>2, <3>1 DEF Task
  <2> HIDE DEF t
  <2> QED
    BY <1>1, <1>3, <2>1, <2>2, TaskStep
<1>5. CASE Unprotect(o)
  <2> DEFINE t == [task[o] EXCEPT !.depth = @ - 1, !.protected = StillProtected(o)]
  <2>1. task' = [task EXCEPT ![o] = t]
    BY <1>5 DEF Unprotect
  <2>2. t \in Task /\ t.state = "live" /\ (t.depth > 0 => t.protected)
    <3>1. task[o].depth - 1 \in 0..MaxDepth
      BY <1>2, <1>5 DEF Unprotect
    <3>2. task[o].depth - 1 > 0 => StillProtected(o)
      BY <1>2 DEF StillProtected
    <3>3. StillProtected(o) \in BOOLEAN
      BY DEF StillProtected
    <3> HIDE DEF StillProtected
    <3> QED
      BY <1>1, <1>2, <3>1, <3>2, <3>3 DEF Task
  <2> HIDE DEF t
  <2> QED
    BY <1>1, <1>3, <2>1, <2>2, TaskStep
<1>6. CASE TaskStops(o)
  <2> DEFINE t == [task[o] EXCEPT !.state = "done"]
  <2>1. task' = [task EXCEPT ![o] = t]
    BY <1>6 DEF TaskStops
  <2>2. t \in Task /\ t.state = "done"
    BY <1>1, <1>2 DEF Task
  <2> HIDE DEF t
  <2> QED
    BY <1>1, <1>3, <2>1, <2>2, TaskStep
<1> QED
  BY <1>4, <1>5, <1>6

\* The callback of a done task; it gives the slot of an ended operation back.
LEMMA SourceDoneStep == ASSUME IInv, NEW o \in Operations, SourceDone(o) PROVE IInv'
<1>1. /\ task[o].state = "done" /\ task' = [task EXCEPT ![o] = NoTask]
      /\ UNCHANGED <<pc, expired, shutdown, drained>>
  BY DEF SourceDone
<1>2. NoTask \in Task /\ NoTask.state = "none"
  BY TaskFacts DEF IInv
<1>3. CASE ~HoldsSlotLate(o)
  <2>1. UNCHANGED <<active, waiting, waiter>>
    BY <1>3 DEF SourceDone
  <2>2. Inside(o)
    BY <1>1, <1>3 DEF IInv, TaskHoldsSlot, HoldsSlotLate
  <2>3. pc' = pc /\ pc'[o] # "ended"
    BY <1>1, <2>2 DEF Inside
  <2> QED
    BY <1>1, <1>2, <2>1, <2>2, <2>3, TaskStep
<1>4. CASE HoldsSlotLate(o)
  <2>1. Release(o, waiting) /\ pc[o] = "ended" /\ o \in active
    BY <1>4 DEF SourceDone, HoldsSlotLate
  <2>2. /\ TypeOK /\ PendingIsQueued /\ waiter[o] # "pending"
        /\ waiting \in Seq(Operations) /\ Len(waiting) <= MaxWaiting
    BY <2>1 DEF IInv, PendingIsQueued, TypeOK
  <2>3. /\ active' \in SUBSET Operations /\ Cardinality(active') <= MaxActive
        /\ waiting' \in Seq(Operations) /\ Len(waiting') <= Len(waiting)
        /\ waiter' \in Waiters
        /\ closed => waiting' = waiting
        /\ ~closed /\ waiting' # <<>> => Full(active')
        /\ o \notin active'
        /\ \A q \in Operations :
              /\ q \in active' <=>
                   q # o /\ (q \in active \/ (waiter[q] = "pending" /\ waiter'[q] = "granted"))
              /\ waiter[q] # "pending" => waiter'[q] = waiter[q]
              /\ waiter'[q] = "pending" => waiter[q] = "pending"
    BY <2>1, <2>2, ReleaseFacts
  <2>4. TypeOK'
    <3>1. Len(waiting') \in Nat /\ Len(waiting) \in Nat
      BY <2>2, <2>3
    <3>2. Len(waiting') <= MaxWaiting
      BY <2>2, <2>3, <3>1, PolicyAssumption
    <3> QED
      BY <1>1, <1>2, <2>3, <3>2 DEF IInv, TypeOK, Waiters
  <2>5. NoLostWakeup'
    BY <1>1, <2>3 DEF IInv, NoLostWakeup, ClosedForAll, closed, Full
  <2>6. ClosedForAll' /\ CleanShutdown' /\ CleanupIsProtected'
    BY <1>1, <1>2, <2>3, <2>4 DEF IInv, TypeOK, ClosedForAll, CleanShutdown,
        CleanupIsProtected, Live, closed
  <2>7. RunningHoldsSlot' /\ GrantHoldsSlot' /\ PendingIsQueued' /\ QueuedHasNoSlot' /\ NewIsOutside'
    BY <1>1, <2>1, <2>3, <2>4 DEF IInv, TypeOK, RunningHoldsSlot, Inside, GrantHoldsSlot,
        PendingIsQueued, QueuedHasNoSlot, NewIsOutside
  <2>8. TaskHoldsSlot' /\ SlotsReturn'
    BY <1>1, <1>2, <2>1, <2>3, <2>4 DEF IInv, TypeOK, TaskHoldsSlot, Inside, SlotsReturn,
        PendingIsQueued
  <2> QED
    BY <2>4, <2>5, <2>6, <2>7, <2>8 DEF IInv
<1> QED
  BY <1>3, <1>4

\* Shutdown empties the queue and takes note of every live task.
LEMMA CloseStep == ASSUME IInv, Close PROVE IInv'
<1>1. \A o \in Operations :
        /\ task'[o] \in Task /\ task'[o].state = task[o].state
        /\ task'[o].depth = task[o].depth /\ task'[o].protected = task[o].protected
  <2> TAKE o \in Operations
  <2>1. /\ task[o] \in Task /\ Cancelled(o) \in Task /\ Cancelled(o).state = task[o].state
        /\ Cancelled(o).depth = task[o].depth /\ Cancelled(o).protected = task[o].protected
    BY TaskFacts DEF IInv
  <2>2. task'[o] = IF o \in active THEN Cancelled(o) ELSE task[o]
    BY DEF Close
  <2> QED
    BY <2>1, <2>2
<1>2. /\ UNCHANGED <<pc, expired, active>> /\ shutdown' = "draining"
      /\ waiting' = <<>> /\ waiter' \in Waiters
      /\ \A q \in Operations : waiter[q] # "pending" => waiter'[q] = waiter[q]
      /\ \A q \in Operations : waiter'[q] \in {waiter[q], "refused"}
  BY DEF Close, IInv, TypeOK, Waiters
<1>3. TypeOK'
  <2>1. task' \in [Operations -> Task]
    <3>1. task' = [o \in Operations |-> task'[o]]
      BY DEF Close
    <3> QED
      BY <1>1, <3>1
  <2>2. waiting' \in Seq(Operations) /\ Len(waiting') = 0
    BY <1>2
  <2>3. drained' \in SUBSET Operations
    BY DEF Close, IInv, TypeOK
  <2> QED
    BY <1>2, <2>1, <2>2, <2>3, PolicyAssumption DEF IInv, TypeOK, Waiters
<1>4. NoLostWakeup' /\ CleanShutdown'
  BY <1>2 DEF NoLostWakeup, CleanShutdown
<1>5. ClosedForAll'
  <2>1. \A o \in Operations : Live(o)' => o \in drained'
    BY <1>1, <1>2 DEF Close, IInv, TaskHoldsSlot, Live
  <2> QED
    BY <1>2, <2>1 DEF ClosedForAll
<1>6. RunningHoldsSlot' /\ GrantHoldsSlot' /\ PendingIsQueued' /\ QueuedHasNoSlot' /\ NewIsOutside'
  BY <1>2 DEF IInv, TypeOK, RunningHoldsSlot, Inside, GrantHoldsSlot, PendingIsQueued,
      QueuedHasNoSlot, NewIsOutside
<1>7. TaskHoldsSlot' /\ SlotsReturn' /\ CleanupIsProtected'
  BY <1>1, <1>2 DEF IInv, TypeOK, TaskHoldsSlot, Inside, SlotsReturn, CleanupIsProtected, Live
<1> QED
  BY <1>3, <1>4, <1>5, <1>6, <1>7 DEF IInv

\* The drain at shutdown is over, clean only if every noted task has stopped.
LEMMA DrainedStep == ASSUME IInv, Drained PROVE IInv'
<1>1. shutdown = "draining" /\ closed /\ closed'
  BY DEF Drained, closed
<1> QED
  BY <1>1 DEF Drained, IInv, TypeOK, RunningHoldsSlot, Inside, GrantHoldsSlot, PendingIsQueued,
      QueuedHasNoSlot, NewIsOutside, TaskHoldsSlot, CleanupIsProtected, ClosedForAll,
      NoLostWakeup, SlotsReturn, CleanShutdown, Live, Full

LEMMA NextStep == ASSUME IInv, [Next]_vars PROVE IInv'
<1>1. CASE Close
  BY <1>1, CloseStep
<1>2. CASE Drained
  BY <1>2, DrainedStep
<1>3. ASSUME NEW o \in Operations, Operate(o) PROVE IInv'
  BY <1>3, EnterStep, GiveUpStep, ResumeStep, BodyEndsStep, RunStep, RunReturnsStep,
     RunInterruptedStep, DrainEndsStep, DrainTimesOutStep, ExpireStep DEF Operate
<1>4. ASSUME NEW o \in Operations, Source(o) PROVE IInv'
  BY <1>4, SourceStep, SourceDoneStep DEF Source
<1>5. CASE UNCHANGED vars
  BY <1>5, StutterStep
<1> QED
  BY <1>1, <1>2, <1>3, <1>4, <1>5 DEF Next

LEMMA Invariant == Spec => []IInv
BY InitHolds, NextStep, PTL DEF Spec

-----------------------------------------------------------------------------
(* Order of grants *)

\* Without leaves the order of what stays alone.
LEMMA WithoutOrder ==
    ASSUME NEW queue \in Seq(Operations), NEW o \in Operations
    PROVE  \E p \in 1..Len(queue) + 1 :
              /\ p <= Len(queue) => queue[p] = o
              /\ Len(Without(queue, o)) = IF p <= Len(queue) THEN Len(queue) - 1 ELSE Len(queue)
              /\ \A j \in 1..Len(Without(queue, o)) :
                    Without(queue, o)[j] = IF j < p THEN queue[j] ELSE queue[j + 1]
<1>0. Len(queue) \in Nat
  OBVIOUS
<1>1. CASE \E i \in 1..Len(queue) : queue[i] = o
  <2> DEFINE p == CHOOSE i \in 1..Len(queue) : queue[i] = o
             front == SubSeq(queue, 1, p - 1)
             back == SubSeq(queue, p + 1, Len(queue))
  <2>1. p \in 1..Len(queue) /\ queue[p] = o
    BY <1>1
  <2>2. Without(queue, o) = front \o back
    BY <1>1 DEF Without
  <2> HIDE DEF p
  <2>3. front \in Seq(Operations) /\ Len(front) = p - 1 /\ \A j \in 1..p - 1 : front[j] = queue[j]
    <3>1. \A j \in 1..p - 1 : queue[j] \in Operations
      BY <2>1
    <3> QED
      BY <2>1, <3>1, SubSeqProperties
  <2>4. /\ back \in Seq(Operations) /\ Len(back) = Len(queue) - p
        /\ \A j \in 1..Len(queue) - p : back[j] = queue[p + j]
    <3>1. \A j \in p + 1..Len(queue) : queue[j] \in Operations
      BY <2>1
    <3>2. /\ back \in Seq(Operations)
          /\ Len(back) = IF p + 1 <= Len(queue) THEN Len(queue) - (p + 1) + 1 ELSE 0
          /\ \A j \in 1..Len(queue) - (p + 1) + 1 : back[j] = queue[p + 1 + j - 1]
      BY <2>1, <3>1, SubSeqProperties
    <3> QED
      BY <1>0, <2>1, <3>2
  <2> HIDE DEF front, back
  <2>5. /\ Len(front \o back) = Len(front) + Len(back)
        /\ \A j \in 1..Len(front) + Len(back) :
              (front \o back)[j] = IF j <= Len(front) THEN front[j] ELSE back[j - Len(front)]
    BY <2>3, <2>4, ConcatProperties
  <2>6. Len(Without(queue, o)) = Len(queue) - 1
    BY <1>0, <2>1, <2>2, <2>3, <2>4, <2>5
  <2>7. ASSUME NEW j \in 1..Len(queue) - 1
        PROVE  Without(queue, o)[j] = IF j < p THEN queue[j] ELSE queue[j + 1]
    <3>1. Without(queue, o)[j] = IF j <= p - 1 THEN front[j] ELSE back[j - (p - 1)]
      BY <1>0, <2>1, <2>2, <2>3, <2>4, <2>5, <2>7
    <3>2. CASE j < p
      BY <1>0, <2>1, <2>3, <3>1, <3>2
    <3>3. CASE ~(j < p)
      <4>1. j - (p - 1) \in 1..Len(queue) - p /\ p + (j - (p - 1)) = j + 1
        BY <1>0, <2>1, <2>7, <3>3
      <4>2. back[j - (p - 1)] = queue[j + 1]
        BY <2>4, <4>1
      <4> QED
        BY <1>0, <2>1, <3>1, <3>3, <4>2
    <3> QED
      BY <3>2, <3>3
  <2> QED
    BY <1>0, <2>1, <2>6, <2>7
<1>2. CASE ~\E i \in 1..Len(queue) : queue[i] = o
  <2>1. Without(queue, o) = queue
    BY <1>2 DEF Without
  <2>2. Len(queue) + 1 \in 1..Len(queue) + 1
    BY <1>0
  <2> QED
    BY <1>0, <2>1, <2>2
<1> QED
  BY <1>1, <1>2

\* What is popped is a prefix of the queue.
LEMMA PoppedIsPrefix ==
    ASSUME NEW queue \in Seq(Operations), NEW k \in 0..Len(queue)
    PROVE  Popped(queue, k) =
             {queue[i] : i \in 1..k} \cap {q \in Operations : waiter[q] = "pending"}
<1>1. \A i \in 1..k : queue[i] \in Operations
  OBVIOUS
<1>2. /\ Len(SubSeq(queue, 1, k)) = k
      /\ \A i \in 1..k : SubSeq(queue, 1, k)[i] = queue[i]
  BY <1>1, SubSeqProperties
<1> QED
  BY <1>2 DEF Popped, Split

\* A release serves the queue it is given in order.
LEMMA ReleaseInOrder ==
    ASSUME NEW o \in Operations, NEW queue \in Seq(Operations), Release(o, queue),
           active \subseteq Operations,
           NEW g \in active' \ active, NEW i \in 1..Len(queue),
           waiter[queue[i]] = "pending", queue[i] \notin expired,
           \A j \in 1..i : queue[j] # g
    PROVE  queue[i] \in active'
<1>1. PICK k \in 0..Len(queue) : active' = (active \ {o}) \cup Granted(queue, k)
  BY DEF Release
<1>2. /\ Granted(queue, k) = Popped(queue, k) \ expired
      /\ Popped(queue, k) = {queue[j] : j \in 1..k} \cap {q \in Operations : waiter[q] = "pending"}
  BY PoppedIsPrefix DEF Granted
<1>3. PICK m \in 1..k : queue[m] = g
  BY <1>1, <1>2
<1>4. i \in 1..k
  BY <1>3
<1> QED
  BY <1>1, <1>2, <1>4

\* The same for the end of an operation, whose own entry is taken out first.
LEMMA LeaveInOrder ==
    ASSUME TypeOK, NEW o \in Operations, waiter[o] # "pending", Leave(o),
           NEW g \in active' \ active, NEW i \in 1..Len(waiting),
           waiter[waiting[i]] = "pending", waiting[i] \notin expired,
           \A j \in 1..i : waiting[j] # g
    PROVE  waiting[i] \in active'
<1> DEFINE queue == Without(waiting, o)
<1>1. waiting \in Seq(Operations) /\ Len(waiting) \in Nat /\ active \subseteq Operations
  BY DEF TypeOK
<1>2. queue \in Seq(Operations) /\ Release(o, queue)
  BY <1>1, WithoutFacts DEF Leave
<1>3. PICK p \in 1..Len(waiting) + 1 :
         /\ p <= Len(waiting) => waiting[p] = o
         /\ Len(queue) = IF p <= Len(waiting) THEN Len(waiting) - 1 ELSE Len(waiting)
         /\ \A j \in 1..Len(queue) : queue[j] = IF j < p THEN waiting[j] ELSE waiting[j + 1]
  BY <1>1, WithoutOrder
<1> HIDE DEF queue
<1>4. i # p
  BY <1>1, <1>3
<1> DEFINE n == IF i < p THEN i ELSE i - 1
<1>5. n \in 1..Len(queue) /\ queue[n] = waiting[i]
  BY <1>1, <1>3, <1>4
<1>6. ASSUME NEW j \in 1..n PROVE queue[j] # g
  <2>1. j \in 1..Len(queue) /\ j \in 1..i
    BY <1>1, <1>3, <1>4, <1>5
  <2>2. queue[j] = IF j < p THEN waiting[j] ELSE waiting[j + 1]
    BY <1>3, <2>1
  <2>3. CASE j < p
    BY <2>1, <2>2, <2>3
  <2>4. CASE ~(j < p)
    <3>1. j + 1 \in 1..i
      BY <1>1, <1>3, <1>4, <2>1, <2>4
    <3> QED
      BY <2>2, <2>4, <3>1
  <2> QED
    BY <2>3, <2>4
<1> HIDE DEF n
<1> QED
  BY <1>1, <1>2, <1>5, <1>6, ReleaseInOrder

-----------------------------------------------------------------------------
(* Theorems *)

\* The slots and the queue never exceed their limits (preflight.py:225-240),
\* and every variable has its type.
THEOREM TypeCorrect == Spec => []TypeOK
<1>1. IInv => TypeOK
  BY DEF IInv
<1> QED
  BY <1>1, Invariant, PTL

\* There are never more live source tasks than slots, even when tasks outlive
\* their operations (preflight.py:105-116).
THEOREM SourcesBounded == Spec => []BoundedSources
<1>1. IInv => BoundedSources
  <2> SUFFICES ASSUME IInv PROVE BoundedSources
    OBVIOUS
  <2> DEFINE L == {o \in Operations : Live(o)}
  <2>1. L \subseteq active
    BY DEF IInv, TaskHoldsSlot, Live
  <2>2. IsFiniteSet(active) /\ Cardinality(active) <= MaxActive
    BY OperationsAssumption, FS_Subset DEF IInv, TypeOK
  <2> HIDE DEF L
  <2>3. IsFiniteSet(L) /\ Cardinality(L) <= Cardinality(active)
    BY <2>1, <2>2, FS_Subset
  <2>4. Cardinality(L) \in Nat /\ Cardinality(active) \in Nat
    BY <2>2, <2>3, FS_CardinalityType
  <2>5. Cardinality(L) <= MaxActive
    BY <2>2, <2>3, <2>4, PolicyAssumption
  <2> QED
    BY <2>5 DEF BoundedSources, L
<1> QED
  BY <1>1, Invariant, PTL

\* Nobody waits while a slot is free (preflight.py:211-221).
THEOREM WakeupsKept == Spec => []NoLostWakeup
<1>1. IInv => NoLostWakeup
  BY DEF IInv
<1> QED
  BY <1>1, Invariant, PTL

\* An ended operation keeps no slot but for a task (preflight.py:113-116).
THEOREM SlotsGivenBack == Spec => []SlotsReturn
<1>1. IInv => SlotsReturn
  BY DEF IInv
<1> QED
  BY <1>1, Invariant, PTL

\* Both at once: slots are neither exceeded nor lost.
THEOREM SlotsFollow == Spec => []SlotsFollowTasks
<1>1. BoundedSources /\ SlotsReturn => SlotsFollowTasks
  BY DEF SlotsFollowTasks
<1> QED
  BY <1>1, SourcesBounded, SlotsGivenBack, PTL

\* After a clean drain no task runs, and none will start (preflight.py:262-277).
THEOREM ShutdownClean == Spec => []CleanShutdown
<1>1. IInv => CleanShutdown
  BY DEF IInv
<1> QED
  BY <1>1, Invariant, PTL

\* Neither the drain of a budget nor shutdown cancels a task in a cleanup
\* block (preflight.py:137-139).
THEOREM CleanupLeftAlone == Spec => CleanupUndisturbed
<1> DEFINE A == \A o \in Operations :
                  task[o].depth > 0 /\ task[o].state = "live"
                  => task'[o].cancelled = task[o].cancelled
<1>1. IInv /\ [Next]_vars => [A]_vars
  <2> SUFFICES ASSUME IInv, [Next]_vars, NEW o \in Operations,
                      task[o].depth > 0, task[o].state = "live"
               PROVE  task'[o].cancelled = task[o].cancelled
    OBVIOUS
  <2>1. task \in [Operations -> Task] /\ task[o].protected
    BY DEF IInv, TypeOK, CleanupIsProtected, Live
  <2>2. CASE Close
    BY <2>1, <2>2 DEF Close, Cancelled
  <2>3. CASE Drained
    BY <2>3 DEF Drained
  <2>4. CASE UNCHANGED vars
    BY <2>4 DEF vars
  <2>5. ASSUME NEW q \in Operations, Operate(q) PROVE task'[o].cancelled = task[o].cancelled
    <3>1. CASE Enter(q) \/ GiveUp(q) \/ BodyEnds(q) \/ Resume(q) \/ Expire(q) \/ DrainTimesOut(q)
      BY <3>1 DEF Enter, GiveUp, BodyEnds, Resume, Leave, Expire, DrainTimesOut
    <3>2. CASE Run(q)
      <4>1. q # o
        BY <3>2 DEF Run, MayRun
      <4> QED
        BY <2>1, <3>2, <4>1 DEF Run
    <3>3. CASE RunReturns(q) \/ DrainEnds(q)
      <4>1. q # o
        BY <3>3 DEF RunReturns, DrainEnds, Live
      <4> QED
        BY <2>1, <3>3, <4>1 DEF RunReturns, DrainEnds, Forget
    <3>4. CASE RunInterrupted(q)
      BY <2>1, <3>4 DEF RunInterrupted, Cancelled
    <3> QED
      BY <2>5, <3>1, <3>2, <3>3, <3>4 DEF Operate
  <2>6. ASSUME NEW q \in Operations, Source(q) PROVE task'[o].cancelled = task[o].cancelled
    <3>1. CASE Protect(q) \/ Unprotect(q) \/ TaskStops(q)
      BY <2>1, <3>1 DEF Protect, Unprotect, TaskStops, Task
    <3>2. CASE SourceDone(q)
      <4>1. q # o
        BY <3>2 DEF SourceDone
      <4> QED
        BY <2>1, <3>2, <4>1 DEF SourceDone
    <3> QED
      BY <2>6, <3>1, <3>2 DEF Source
  <2> QED
    BY <2>2, <2>3, <2>4, <2>5, <2>6 DEF Next
<1> HIDE DEF A
<1>2. Spec => [][A]_vars
  BY <1>1, Invariant, PTL DEF Spec
<1> QED
  BY <1>2 DEF CleanupUndisturbed, A

\* Slots are granted in the order of the queue: nobody is served past an older
\* waiter that could take the slot (preflight.py:211-221, 254-260).
THEOREM ServedInOrder == Spec => NoOvertaking
<1>1. IInv /\ [Next]_vars => [GrantsInOrder]_vars
  <2> SUFFICES ASSUME IInv, [Next]_vars, NEW g \in active' \ active,
                      NEW i \in 1..Len(waiting),
                      waiter[waiting[i]] = "pending", waiting[i] \notin expired,
                      \A j \in 1..i : waiting[j] # g
               PROVE  waiting[i] \in active'
    BY DEF GrantsInOrder
  <2>1. TypeOK /\ waiting \in Seq(Operations) /\ active \subseteq Operations
    BY DEF IInv, TypeOK
  <2>2. CASE Close \/ Drained \/ UNCHANGED vars
    BY <2>2 DEF Close, Drained, vars
  <2>3. ASSUME NEW o \in Operations, Operate(o) PROVE waiting[i] \in active'
    <3>1. CASE Enter(o)
      BY <2>1, <3>1 DEF Enter
    <3>2. CASE Resume(o) \/ BodyEnds(o)
      <4>1. waiter[o] # "pending" /\ Leave(o)
        BY <3>2 DEF Resume, BodyEnds, IInv, PendingIsQueued
      <4> QED
        BY <2>1, <4>1, LeaveInOrder
    <3>3. CASE ~(Enter(o) \/ Resume(o) \/ BodyEnds(o))
      BY <2>3, <3>3 DEF Operate, GiveUp, Run, RunReturns, RunInterrupted, DrainEnds,
          DrainTimesOut, Expire
    <3> QED
      BY <3>1, <3>2, <3>3
  <2>4. ASSUME NEW o \in Operations, Source(o) PROVE waiting[i] \in active'
    <3>1. CASE UNCHANGED active
      BY <3>1
    <3>2. CASE ~UNCHANGED active
      <4>1. Release(o, waiting)
        BY <2>4, <3>2 DEF Source, Protect, Unprotect, TaskStops, SourceDone
      <4> QED
        BY <2>1, <4>1, ReleaseInOrder
    <3> QED
      BY <3>1, <3>2
  <2> QED
    BY <2>2, <2>3, <2>4 DEF Next
<1>2. Spec => [][GrantsInOrder]_vars
  BY <1>1, Invariant, PTL DEF Spec
<1> QED
  BY <1>2 DEF NoOvertaking
=============================================================================
