-------------------------- MODULE PreflightAdmission --------------------------
(***************************************************************************)
(* The process-local admission of outer I/O: infrastructure/preflight.py.  *)
(*                                                                         *)
(* An operation (one PreflightAdmission.operation() block with its budget) *)
(* takes one of MaxActive slots or queues for it, runs source tasks one at *)
(* a time and leaves.  A source task may ignore its cancellation; the slot *)
(* then stays occupied until the task really stops.  Everything runs on    *)
(* one event loop, so a step lasts from one await to the next, and futures *)
(* and done callbacks are acted on in a later step than the one that sets  *)
(* them.                                                                   *)
(***************************************************************************)
EXTENDS Integers, Sequences, FiniteSets

CONSTANTS
    Operations,     \* operation() blocks entered during the process's life
    MaxActive,      \* slots
    MaxWaiting,     \* places in the queue
    MaxDepth        \* bound: nesting of protected cleanup

ASSUME OperationsAssumption == IsFiniteSet(Operations)
ASSUME PolicyAssumption == /\ MaxActive \in Nat \ {0} /\ MaxWaiting \in Nat
                           /\ MaxDepth \in Nat

VARIABLES
    pc,         \* where the coroutine of each operation is
    expired,    \* operations whose work deadline has passed
    active,     \* _active: the budgets that hold a slot
    waiting,    \* _waiting: the queue of budgets, oldest first
    waiter,     \* the future each queued operation awaits
    task,       \* the source task in _tasks of each budget
    shutdown,   \* "no", "draining", "clean" or "pending"
    drained     \* the operations whose tasks aclose() waits for

vars == <<pc, expired, active, waiting, waiter, task, shutdown, drained>>

\* A task: live or done with its callback to come; how deep it is in cleanup
\* blocks, whether it is in _cleanup_tasks, and whether it was cancelled.
Task == [state : {"none", "live", "done"}, depth : 0..MaxDepth,
         protected : BOOLEAN, cancelled : BOOLEAN]

NoTask  == [state |-> "none", depth |-> 0, protected |-> FALSE, cancelled |-> FALSE]
NewTask == [NoTask EXCEPT !.state = "live"]

closed == shutdown # "no"

TypeOK ==
    /\ pc \in [Operations -> {"new", "queued", "body", "running", "draining", "ended"}]
    /\ expired \in SUBSET Operations
    /\ active \in SUBSET Operations /\ Cardinality(active) <= MaxActive
    /\ waiting \in Seq(Operations) /\ Len(waiting) <= MaxWaiting
    /\ waiter \in [Operations -> {"none", "pending", "granted", "refused", "dead"}]
    /\ task \in [Operations -> Task]
    /\ shutdown \in {"no", "draining", "clean", "pending"}
    /\ drained \in SUBSET Operations

Init ==
    /\ pc = [o \in Operations |-> "new"]
    /\ expired = {}
    /\ active = {}
    /\ waiting = <<>>
    /\ waiter = [o \in Operations |-> "none"]
    /\ task = [o \in Operations |-> NoTask]
    /\ shutdown = "no"
    /\ drained = {}

Live(o) == task[o].state = "live"
Check(o) == o \notin expired /\ ~closed

-----------------------------------------------------------------------------
(* Slots *)

Full(A) == Cardinality(A) >= MaxActive

\* Mutation: the youngest entry is popped first.
Split_FromTheRight(queue, k) ==
    <<SubSeq(queue, Len(queue) - k + 1, Len(queue)), SubSeq(queue, 1, Len(queue) - k)>>

\* The entries that leave the queue and those that stay when k are popped.
Split(queue, k) == <<SubSeq(queue, 1, k), SubSeq(queue, k + 1, Len(queue))>>

Popped(queue, k) ==
    LET front == Split(queue, k)[1] IN
    {front[i] : i \in 1..Len(front)} \cap {q \in Operations : waiter[q] = "pending"}

\* An entry whose waiter is done is skipped, one past its deadline is refused.
Granted(queue, k) == Popped(queue, k) \ expired

\* Mutation: one pop per release, whatever became of it.
PopsEnough_Once(queue, k, A) == k = IF Len(queue) = 0 \/ Full(A) THEN 0 ELSE 1

\* The loop pops until a slot can no longer be given or nobody waits.
PopsEnough(queue, k, A) ==
    /\ k = Len(queue) \/ Full(A \cup Granted(queue, k))
    /\ \A j \in 0..k - 1 : ~Full(A \cup Granted(queue, j))

\* _release: o's slot is free; hand it on.
Release(o, queue) ==
    LET A == active \ {o} IN
    IF closed
    THEN active' = A /\ waiting' = queue /\ UNCHANGED waiter
    ELSE \E k \in 0..Len(queue) :
            /\ PopsEnough(queue, k, A)
            /\ active' = A \cup Granted(queue, k)
            /\ waiting' = Split(queue, k)[2]
            /\ waiter' = [q \in Operations |->
                            IF q \notin Popped(queue, k) THEN waiter[q]
                            ELSE IF q \in expired THEN "refused" ELSE "granted"]

\* Mutation: the slot of an ended operation is free at once.
Idle_AtOnce(o) == TRUE

\* _release_if_finished
Idle(o) == task[o].state = "none"

Without(queue, o) ==
    IF \E i \in 1..Len(queue) : queue[i] = o
    THEN LET i == CHOOSE i \in 1..Len(queue) : queue[i] = o IN
         SubSeq(queue, 1, i - 1) \o SubSeq(queue, i + 1, Len(queue))
    ELSE queue

\* The end of operation(): its entry leaves the queue, its slot is given back
\* unless a source task is still running.
Leave(o) ==
    /\ pc' = [pc EXCEPT ![o] = "ended"]
    /\ IF o \in active /\ Idle(o)
       THEN Release(o, Without(waiting, o))
       ELSE waiting' = Without(waiting, o) /\ UNCHANGED <<active, waiter>>
    /\ UNCHANGED <<expired, task, shutdown, drained>>

-----------------------------------------------------------------------------
(* Operations *)

\* Mutation: one place too many.
NoPlace_OffByOne == Len(waiting) > MaxWaiting

NoPlace == Len(waiting) >= MaxWaiting

Enter(o) ==
    /\ pc[o] = "new"
    /\ IF closed
       THEN pc' = [pc EXCEPT ![o] = "ended"] /\ UNCHANGED <<active, waiting, waiter>>
       ELSE IF ~Full(active) /\ waiting = <<>>
       THEN /\ pc' = [pc EXCEPT ![o] = "body"]
            /\ active' = active \cup {o}
            /\ UNCHANGED <<waiting, waiter>>
       ELSE IF NoPlace
       THEN pc' = [pc EXCEPT ![o] = "ended"] /\ UNCHANGED <<active, waiting, waiter>>
       ELSE /\ pc' = [pc EXCEPT ![o] = "queued"]
            /\ waiting' = Append(waiting, o)
            /\ waiter' = [waiter EXCEPT ![o] = "pending"]
            /\ UNCHANGED active
    /\ UNCHANGED <<expired, task, shutdown, drained>>

\* The wait times out or its caller is cancelled: the future is done at once,
\* the coroutine notices later.
GiveUp(o) ==
    /\ pc[o] = "queued" /\ waiter[o] = "pending"
    /\ waiter' = [waiter EXCEPT ![o] = "dead"]
    /\ UNCHANGED <<pc, expired, active, waiting, task, shutdown, drained>>

\* The queued coroutine runs again.
Resume(o) ==
    /\ pc[o] = "queued" /\ waiter[o] # "pending"
    /\ \/ /\ waiter[o] = "granted" /\ Check(o)
          /\ pc' = [pc EXCEPT ![o] = "body"]
          /\ UNCHANGED <<expired, active, waiting, waiter, task, shutdown, drained>>
       \* Refused, expired, closed, or cancelled after the grant.
       \/ Leave(o)

BodyEnds(o) == pc[o] = "body" /\ Leave(o)

\* Mutation: the admission's state is not looked at.
MayRun_EvenClosed(o) == o \notin expired /\ o \in active /\ task[o].state = "none"

\* run(): check() and the creation of the source task are one step.
MayRun(o) == Check(o) /\ o \in active /\ task[o].state = "none"

Run(o) ==
    /\ pc[o] = "body" /\ MayRun(o)
    /\ pc' = [pc EXCEPT ![o] = "running"]
    /\ task' = [task EXCEPT ![o] = NewTask]
    /\ UNCHANGED <<expired, active, waiting, waiter, shutdown, drained>>

\* A done task is dropped without waiting for its callback, which then finds
\* nothing left to do.
Forget(o) == task' = IF Live(o) THEN task ELSE [task EXCEPT ![o] = NoTask]

RunReturns(o) ==
    /\ pc[o] = "running" /\ ~Live(o)
    /\ pc' = [pc EXCEPT ![o] = "body"]
    /\ Forget(o)
    /\ UNCHANGED <<expired, active, waiting, waiter, shutdown, drained>>

\* _cancel_source: never a task in protected cleanup, and only once.
Cancelled(o) ==
    IF Live(o) /\ ~task[o].protected THEN [task[o] EXCEPT !.cancelled = TRUE] ELSE task[o]

\* The deadline, or the cancellation of the caller, ends the wait for the task.
RunInterrupted(o) ==
    /\ pc[o] = "running" /\ Live(o)
    /\ pc' = [pc EXCEPT ![o] = "draining"]
    /\ task' = [task EXCEPT ![o] = Cancelled(o)]
    /\ UNCHANGED <<expired, active, waiting, waiter, shutdown, drained>>

DrainEnds(o) ==
    /\ pc[o] = "draining" /\ ~Live(o)
    /\ pc' = [pc EXCEPT ![o] = "body"]
    /\ Forget(o)
    /\ UNCHANGED <<expired, active, waiting, waiter, shutdown, drained>>

\* Mutation: the drain waits for the task.
DrainTimesOut_Never(o) == FALSE /\ UNCHANGED vars

\* The task outlives the cleanup reserve and stays attached to the slot.
DrainTimesOut(o) ==
    /\ pc[o] = "draining" /\ Live(o)
    /\ pc' = [pc EXCEPT ![o] = "body"]
    /\ UNCHANGED <<expired, active, waiting, waiter, task, shutdown, drained>>

Expire(o) ==
    /\ pc[o] \notin {"new", "ended"} /\ o \notin expired
    /\ expired' = expired \cup {o}
    /\ UNCHANGED <<pc, active, waiting, waiter, task, shutdown, drained>>

-----------------------------------------------------------------------------
(* Source tasks *)

\* protect_source_cleanup, entered and left; blocks may nest.
Protect(o) ==
    /\ Live(o) /\ task[o].depth < MaxDepth
    /\ task' = [task EXCEPT ![o].depth = @ + 1, ![o].protected = TRUE]
    /\ UNCHANGED <<pc, expired, active, waiting, waiter, shutdown, drained>>

\* Mutation: leaving an inner block ends the protection of the outer one.
StillProtected_Never(o) == FALSE

StillProtected(o) == task[o].depth > 1

Unprotect(o) ==
    /\ Live(o) /\ task[o].depth > 0
    /\ task' = [task EXCEPT ![o].depth = @ - 1, ![o].protected = StillProtected(o)]
    /\ UNCHANGED <<pc, expired, active, waiting, waiter, shutdown, drained>>

TaskStops(o) ==
    /\ Live(o) /\ task[o].depth = 0
    /\ task' = [task EXCEPT ![o].state = "done"]
    /\ UNCHANGED <<pc, expired, active, waiting, waiter, shutdown, drained>>

\* Mutation: the callback only forgets the task.
HoldsSlotLate_Never(o) == FALSE

\* _source_done: the callback of a task still in _tasks.
HoldsSlotLate(o) == pc[o] = "ended" /\ o \in active

SourceDone(o) ==
    /\ task[o].state = "done"
    /\ task' = [task EXCEPT ![o] = NoTask]
    /\ IF HoldsSlotLate(o)
       THEN Release(o, waiting)
       ELSE UNCHANGED <<active, waiting, waiter>>
    /\ UNCHANGED <<pc, expired, shutdown, drained>>

-----------------------------------------------------------------------------
(* Shutdown: aclose() *)

Close ==
    /\ ~closed
    /\ shutdown' = "draining"
    /\ waiting' = <<>>
    /\ waiter' = [o \in Operations |->
                    IF (\E i \in 1..Len(waiting) : waiting[i] = o) /\ waiter[o] = "pending"
                    THEN "refused" ELSE waiter[o]]
    /\ drained' = {o \in active : task[o].state # "none"}
    /\ task' = [o \in Operations |-> IF o \in active THEN Cancelled(o) ELSE task[o]]
    /\ UNCHANGED <<pc, expired, active>>

\* The HTTP clients are closed only after a clean drain.
Drained ==
    /\ shutdown = "draining"
    /\ shutdown' = IF \A o \in drained : ~Live(o) THEN "clean" ELSE "pending"
    /\ UNCHANGED <<pc, expired, active, waiting, waiter, task, drained>>

-----------------------------------------------------------------------------
Operate(o) ==
    \/ Enter(o) \/ GiveUp(o) \/ Resume(o) \/ BodyEnds(o)
    \/ Run(o) \/ RunReturns(o) \/ RunInterrupted(o) \/ DrainEnds(o) \/ DrainTimesOut(o)
    \/ Expire(o)

Source(o) == Protect(o) \/ Unprotect(o) \/ TaskStops(o) \/ SourceDone(o)

Next == (\E o \in Operations : Operate(o) \/ Source(o)) \/ Close \/ Drained

Spec == Init /\ [][Next]_vars

\* The event loop runs ready coroutines and timers.  Waits and bodies are only
\* sure to end once the work deadline has passed, the drain by its timeout;
\* nothing is assumed of the source tasks.
Fairness ==
    \A o \in Operations :
        /\ WF_vars(Expire(o))
        /\ WF_vars(o \in expired /\ GiveUp(o))
        /\ WF_vars(Resume(o))
        /\ WF_vars(o \in expired /\ BodyEnds(o))
        /\ WF_vars(RunReturns(o))
        /\ WF_vars(o \in expired /\ RunInterrupted(o))
        /\ WF_vars(DrainEnds(o) \/ DrainTimesOut(o))

FairSpec == Spec /\ Fairness

-----------------------------------------------------------------------------
(* Properties *)

\* Never more running sources than slots, even if tasks ignore cancellation
\* after their operations have ended (preflight.py:69-76).
BoundedSources == Cardinality({o \in Operations : Live(o)}) <= MaxActive

\* As long as somebody is queued every slot is occupied: a release never stops
\* at an entry whose waiter has timed out or was cancelled (preflight.py:213).
NoLostWakeup == waiting # <<>> => Full(active)

\* An ended operation keeps its slot only for a source task that is not done.
SlotsReturn ==
    \A o \in active : pc[o] = "ended" => task[o].state # "none"

\* Slots follow the source tasks: held while one lives, given back with it.
SlotsFollowTasks == BoundedSources /\ SlotsReturn

\* After a clean shutdown no source task is left that could still use the HTTP
\* clients, which are closed next (composition/sources.py:86).
CleanShutdown == shutdown = "clean" => \A o \in Operations : ~Live(o)

\* A slot is never given past an older waiter that could take it.
GrantsInOrder ==
    \A o \in active' \ active :
        \A i \in 1..Len(waiting) :
            /\ waiter[waiting[i]] = "pending" /\ waiting[i] \notin expired
            /\ \A j \in 1..i : waiting[j] # o
            => waiting[i] \in active'

NoOvertaking == [][GrantsInOrder]_vars

\* A source task inside cleanup is left alone by the drain of its own budget
\* and by shutdown alike (preflight.py:137).
CleanupUndisturbed ==
    [][\A o \in Operations :
          task[o].depth > 0 /\ task[o].state = "live"
          => task'[o].cancelled = task[o].cancelled]_vars

\* Every operation ends, whatever its sources do: queueing, running and
\* draining are all bounded by the one deadline.
OperationEnds ==
    \A o \in Operations : pc[o] \notin {"new", "ended"} ~> pc[o] = "ended"
=============================================================================
