------------------------------ MODULE ThreadPool ------------------------------
(***************************************************************************)
(* code/pool/threadpool.h: one owner thread that calls AddTask and finally *)
(* the destructor, and detached workers that share a mutex, a condition    *)
(* variable, the flag isClosed and the queue tasks.                        *)
(*                                                                         *)
(* Every access to tasks and isClosed is made with the mutex held, and the *)
(* owner holds nothing between the unlock and the notify.  One critical    *)
(* section is therefore one action, and the two notifications, made after  *)
(* the unlock, are actions of their own.                                   *)
(***************************************************************************)
EXTENDS Integers, Sequences, FiniteSets

CONSTANTS
  Worker,   \* the threads the constructor starts
  Task,     \* the tasks the owner may submit, each at most once
  Idle      \* not a task

ASSUME WorkerAssumption == IsFiniteSet(Worker) /\ Worker # {}
ASSUME IdleAssumption == Idle \notin Task

VARIABLES
  tasks,      \* Pool::tasks
  isClosed,   \* Pool::isClosed
  waiting,    \* workers blocked in cond.wait
  exited,     \* workers that left their loop
  job,        \* job[w]: the task w runs outside the lock, or Idle
  owner,      \* where the owner is between a critical section and its notify
  submitted,  \* history: tasks given to AddTask
  done        \* history: tasks whose call has returned

vars == <<tasks, isClosed, waiting, exited, job, owner, submitted, done>>

OwnerState == {"ready", "notify", "closing", "gone"}

\* The workers that hold no task and are not asleep: each is about to take the
\* lock, or holds it, and will look at the queue.
Awake == {w \in Worker : job[w] = Idle /\ w \notin waiting /\ w \notin exited}

Running == {w \in Worker : job[w] # Idle}

Queued == {tasks[i] : i \in 1..Len(tasks)}

-------------------------------------------------------------------------------
Init ==
  /\ tasks = <<>>
  /\ isClosed = FALSE
  /\ waiting = {}
  /\ exited = {}
  /\ job = [w \in Worker |-> Idle]
  /\ owner = "ready"
  /\ submitted = {}
  /\ done = {}

\* AddTask, the critical section: the task is queued.
Emplace(t) ==
  /\ owner = "ready"
  /\ t \notin submitted
  /\ tasks' = Append(tasks, t)
  /\ submitted' = submitted \cup {t}
  /\ owner' = "notify"
  /\ UNCHANGED <<isClosed, waiting, exited, job, done>>

\* Mutant: notify only when the queue was empty before.
Bug_NotifyOnFirstOnly ==
  /\ owner = "notify"
  /\ \/ waiting = {} /\ UNCHANGED waiting
     \/ Len(tasks) # 1 /\ UNCHANGED waiting
     \/ Len(tasks) = 1 /\ \E w \in waiting : waiting' = waiting \ {w}
  /\ owner' = "ready"
  /\ UNCHANGED <<tasks, isClosed, exited, job, submitted, done>>

\* Mutant: AddTask forgets the notify.
Bug_NoNotify ==
  /\ owner = "notify"
  /\ owner' = "ready"
  /\ UNCHANGED <<tasks, isClosed, waiting, exited, job, submitted, done>>

\* AddTask after the unlock: notify_one wakes one sleeper if there is one.
NotifyOne ==
  /\ owner = "notify"
  /\ \/ waiting = {} /\ UNCHANGED waiting
     \/ \E w \in waiting : waiting' = waiting \ {w}
  /\ owner' = "ready"
  /\ UNCHANGED <<tasks, isClosed, exited, job, submitted, done>>

\* ~ThreadPool, the critical section.
SetClosed ==
  /\ owner = "ready"
  /\ isClosed' = TRUE
  /\ owner' = "closing"
  /\ UNCHANGED <<tasks, waiting, exited, job, submitted, done>>

\* Mutant: the destructor wakes one worker only.
Bug_CloseNotifiesOne ==
  /\ owner = "closing"
  /\ \/ waiting = {} /\ UNCHANGED waiting
     \/ \E w \in waiting : waiting' = waiting \ {w}
  /\ owner' = "gone"
  /\ UNCHANGED <<tasks, isClosed, exited, job, submitted, done>>

\* ~ThreadPool after the unlock: notify_all.
NotifyAll ==
  /\ owner = "closing"
  /\ waiting' = {}
  /\ owner' = "gone"
  /\ UNCHANGED <<tasks, isClosed, exited, job, submitted, done>>

-------------------------------------------------------------------------------
\* Mutant: the head is copied but not popped.
Bug_TakeWithoutPop(w) ==
  /\ w \in Awake
  /\ tasks # <<>>
  /\ job' = [job EXCEPT ![w] = Head(tasks)]
  /\ UNCHANGED <<tasks, isClosed, waiting, exited, owner, submitted, done>>

\* Mutant: the newest task is taken first.
Bug_TakeNewest(w) ==
  /\ w \in Awake
  /\ tasks # <<>>
  /\ job' = [job EXCEPT ![w] = tasks[Len(tasks)]]
  /\ tasks' = SubSeq(tasks, 1, Len(tasks) - 1)
  /\ UNCHANGED <<isClosed, waiting, exited, owner, submitted, done>>

\* Worker, holding the lock: a queued task is popped, the lock released and the
\* task called.
Take(w) ==
  /\ w \in Awake
  /\ tasks # <<>>
  /\ job' = [job EXCEPT ![w] = Head(tasks)]
  /\ tasks' = Tail(tasks)
  /\ UNCHANGED <<isClosed, waiting, exited, owner, submitted, done>>

\* Mutant: isClosed is tested before the queue.
Bug_ExitFirst(w) ==
  /\ w \in Awake
  /\ isClosed
  /\ exited' = exited \cup {w}
  /\ UNCHANGED <<tasks, isClosed, waiting, job, owner, submitted, done>>

\* Worker, holding the lock: the queue is empty and the pool closed.
Exit(w) ==
  /\ w \in Awake
  /\ tasks = <<>>
  /\ isClosed
  /\ exited' = exited \cup {w}
  /\ UNCHANGED <<tasks, isClosed, waiting, job, owner, submitted, done>>

\* Worker, holding the lock: cond.wait releases it and sleeps in one step.
Sleep(w) ==
  /\ w \in Awake
  /\ tasks = <<>>
  /\ ~isClosed
  /\ waiting' = waiting \cup {w}
  /\ UNCHANGED <<tasks, isClosed, exited, job, owner, submitted, done>>

\* Worker, without the lock: task() returns.
Return(w) ==
  /\ w \in Running
  /\ done' = done \cup {job[w]}
  /\ job' = [job EXCEPT ![w] = Idle]
  /\ UNCHANGED <<tasks, isClosed, waiting, exited, owner, submitted>>

\* A condition variable may wake a sleeper for no reason.
SpuriousWake(w) ==
  /\ w \in waiting
  /\ waiting' = waiting \ {w}
  /\ UNCHANGED <<tasks, isClosed, exited, job, owner, submitted, done>>

Loop(w) == Take(w) \/ Exit(w) \/ Sleep(w)

Next ==
  \/ \E t \in Task : Emplace(t)
  \/ NotifyOne
  \/ SetClosed
  \/ NotifyAll
  \/ \E w \in Worker : Loop(w) \/ Return(w) \/ SpuriousWake(w)

\* The scheduler runs every thread that can run and every task returns.
\* Nothing obliges the owner to submit or to close, nor a sleeper to wake alone.
Fairness ==
  /\ WF_vars(NotifyOne)
  /\ WF_vars(NotifyAll)
  /\ \A w \in Worker : WF_vars(Loop(w)) /\ WF_vars(Return(w))

SafeSpec == Init /\ [][Next]_vars
Spec == SafeSpec /\ Fairness

-------------------------------------------------------------------------------
\* Type correctness: workers only ever hold tasks that were submitted.
TypeOK ==
  /\ tasks \in Seq(Task)
  /\ isClosed \in BOOLEAN
  /\ waiting \subseteq Worker
  /\ exited \subseteq Worker
  /\ job \in [Worker -> Task \cup {Idle}]
  /\ owner \in OwnerState
  /\ submitted \subseteq Task
  /\ done \subseteq Task

\* A task is never lost and never run twice: whatever was given to AddTask is in
\* exactly one place, one slot of the queue, one worker, or the finished tasks.
ExactlyOnce ==
  /\ submitted = Queued \cup {job[w] : w \in Running} \cup done
  /\ \A i, j \in 1..Len(tasks) : tasks[i] = tasks[j] => i = j
  /\ \A v, w \in Running : job[v] = job[w] => v = w
  /\ \A w \in Running : job[w] \notin Queued \cup done
  /\ Queued \cap done = {}

\* Work conservation: while some worker sleeps, there is an awake worker for every
\* queued task, counting the wake-up the owner has not issued yet.  One missing
\* notify_one leaves a thread asleep beside a task it should be running.
WorkConserving ==
  waiting # {} =>
    Len(tasks) <= Cardinality(Awake) + (IF owner = "notify" THEN 1 ELSE 0)

\* The destructor abandons nothing: a worker leaves its loop only after the pool
\* is closed and its queue empty, so no accepted task stays behind.
ExitOnlyDrained ==
  exited # {} => isClosed /\ tasks = <<>>

\* Once the destructor has returned no worker sleeps on the condition variable,
\* which nobody will signal again.
NoSleeperLeft ==
  owner = "gone" => waiting = {}

\* What makes these inductive: a worker sleeps or leaves without a task in its hands,
\* and the owner knows whether it has closed the pool.
Consistent ==
  /\ waiting \cap exited = {}
  /\ \A w \in waiting \cup exited : job[w] = Idle
  /\ isClosed <=> owner \in {"closing", "gone"}

IInv ==
  /\ TypeOK /\ Consistent
  /\ ExactlyOnce /\ WorkConserving /\ ExitOnlyDrained /\ NoSleeperLeft

\* Every accepted task is eventually run, also when the pool is closed meanwhile.
EveryTaskRuns ==
  \A t \in Task : t \in submitted ~> t \in done

\* After the destructor every worker eventually ends, with all tasks done.
PoolStops ==
  (owner = "gone") ~> (exited = Worker /\ done = submitted)

\* The pool implements the promise the reactor relies on, first in first out
\* included.
Promise == INSTANCE TaskPool WITH queue <- tasks
ImplementsTaskPool == Promise!Spec

\* threadpool.h:53 says of the flag that it tells the pool to take no new task:
\* once isClosed is set no worker picks up another task.
NoTakeAfterClose ==
  [][isClosed => \A w \in Worker : job[w] = Idle => job'[w] = Idle]_vars
===============================================================================
