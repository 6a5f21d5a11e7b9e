---------------------------- MODULE ThreadPoolProofs ----------------------------
(***************************************************************************)
(* Proofs about ThreadPool, for any number of workers and tasks: the       *)
(* safety invariants the runs check, and that every step of the pool is a  *)
(* step or a stutter of TaskPool, the promise the reactor is built on.     *)
(***************************************************************************)
EXTENDS ThreadPool, TLAPS, FiniteSetTheorems

\* The steps of one worker, and all steps, by name.
LEMMA NextCases ==
  ASSUME Next
  PROVE  \/ \E t \in Task : Emplace(t)
         \/ NotifyOne \/ SetClosed \/ NotifyAll
         \/ \E w \in Worker : Take(w) \/ Exit(w) \/ Sleep(w) \/ Return(w) \/ SpuriousWake(w)
  BY DEF Next, Loop

\* What a queue holds after one more task, and after its oldest task left.
LEMMA Queue ==
  ASSUME tasks \in Seq(Task)
  PROVE  /\ Len(tasks) \in Nat
         /\ \A t : tasks' = Append(tasks, t) =>
              Len(tasks') = Len(tasks) + 1 /\ Queued' = Queued \cup {t}
         /\ tasks # <<>> /\ tasks' = Tail(tasks) =>
              /\ Len(tasks') = Len(tasks) - 1
              /\ Head(tasks) \in Task
              /\ Queued = Queued' \cup {Head(tasks)}
<1>1. ASSUME NEW t, tasks' = Append(tasks, t)
      PROVE  Len(tasks') = Len(tasks) + 1 /\ Queued' = Queued \cup {t}
  <2>1. /\ Len(tasks') = Len(tasks) + 1
        /\ \A i \in 1..Len(tasks) : tasks'[i] = tasks[i]
        /\ tasks'[Len(tasks) + 1] = t
    BY <1>1
  <2>2. 1..Len(tasks') = 1..Len(tasks) \cup {Len(tasks) + 1}
    BY <2>1
  <2>3. QED
    BY <2>1, <2>2 DEF Queued
<1>2. ASSUME tasks # <<>>, tasks' = Tail(tasks)
      PROVE  /\ Len(tasks') = Len(tasks) - 1
             /\ Head(tasks) \in Task
             /\ Queued = Queued' \cup {Head(tasks)}
  <2>1. /\ Len(tasks') = Len(tasks) - 1 /\ Len(tasks) >= 1
        /\ \A i \in 1..Len(tasks') : tasks'[i] = tasks[i + 1]
        /\ Head(tasks) = tasks[1] /\ Head(tasks) \in Task
    BY <1>2
  <2>2. ASSUME NEW x \in Queued PROVE x \in Queued' \cup {Head(tasks)}
    <3>1. PICK i \in 1..Len(tasks) : x = tasks[i]
      BY DEF Queued
    <3>2. CASE i # 1
      <4>1. i - 1 \in 1..Len(tasks') /\ tasks'[i - 1] = tasks[i]
        BY <2>1, <3>1, <3>2
      <4>2. QED
        BY <3>1, <4>1 DEF Queued
    <3>3. QED
      BY <2>1, <3>1, <3>2
  <2>3. ASSUME NEW x \in Queued' PROVE x \in Queued
    <3>1. PICK i \in 1..Len(tasks') : x = tasks'[i]
      BY <2>3 DEF Queued
    <3>2. i + 1 \in 1..Len(tasks) /\ tasks'[i] = tasks[i + 1]
      BY <2>1, <3>1
    <3>3. QED
      BY <3>1, <3>2 DEF Queued
  <2>4. Head(tasks) \in Queued
    BY <2>1 DEF Queued
  <2>5. QED
    BY <2>1, <2>2, <2>3, <2>4
<1>3. QED
  BY <1>1, <1>2

-------------------------------------------------------------------------------
\* Types, and who may sleep or leave.
LEMMA ConsistentStep ==
  ASSUME TypeOK, Consistent, [Next]_vars PROVE TypeOK' /\ Consistent'
<1> USE DEF TypeOK, Consistent, OwnerState
<1>1. CASE UNCHANGED vars
  BY <1>1 DEF vars
<1>2. ASSUME NEW t \in Task, Emplace(t) PROVE TypeOK' /\ Consistent'
  <2>1. tasks' \in Seq(Task)
    BY <1>2 DEF Emplace
  <2>2. QED
    BY <1>2, <2>1 DEF Emplace
<1>3. CASE NotifyOne \/ SetClosed \/ NotifyAll
  <2>1. CASE NotifyOne
    <3>1. waiting' \subseteq waiting
      BY <2>1 DEF NotifyOne
    <3>2. QED
      BY <2>1, <3>1 DEF NotifyOne
  <2>2. CASE SetClosed
    BY <2>2 DEF SetClosed
  <2>3. CASE NotifyAll
    BY <2>3 DEF NotifyAll
  <2>4. QED
    BY <1>3, <2>1, <2>2, <2>3
<1>4. ASSUME NEW w \in Worker, Take(w) PROVE TypeOK' /\ Consistent'
  <2>1. Head(tasks) \in Task /\ Tail(tasks) \in Seq(Task)
    BY <1>4 DEF Take
  <2>2. TypeOK'
    BY <1>4, <2>1 DEF Take
  <2>3. Consistent'
    BY <1>4 DEF Take, Awake
  <2>4. QED
    BY <2>2, <2>3
<1>5. ASSUME NEW w \in Worker, Exit(w) \/ Sleep(w) \/ SpuriousWake(w)
      PROVE  TypeOK' /\ Consistent'
  BY <1>5 DEF Exit, Sleep, SpuriousWake, Awake
<1>6. ASSUME NEW w \in Worker, Return(w) PROVE TypeOK' /\ Consistent'
  BY <1>6 DEF Return, Running
<1>7. QED
  BY <1>1, <1>2, <1>3, <1>4, <1>5, <1>6, NextCases

\* Nobody leaves a pool that is open or has work, and nobody sleeps on when the owner
\* has gone.
LEMMA CloseStep ==
  ASSUME TypeOK, Consistent, ExitOnlyDrained, NoSleeperLeft, [Next]_vars
  PROVE  ExitOnlyDrained' /\ NoSleeperLeft'
<1> USE DEF TypeOK, Consistent, ExitOnlyDrained, NoSleeperLeft
<1>1. CASE UNCHANGED vars
  BY <1>1 DEF vars
<1>2. ASSUME NEW t \in Task, Emplace(t) PROVE ExitOnlyDrained' /\ NoSleeperLeft'
  BY <1>2 DEF Emplace
<1>3. CASE NotifyOne \/ SetClosed \/ NotifyAll
  BY <1>3 DEF NotifyOne, SetClosed, NotifyAll
<1>4. ASSUME NEW w \in Worker,
             Take(w) \/ Exit(w) \/ Sleep(w) \/ Return(w) \/ SpuriousWake(w)
      PROVE  ExitOnlyDrained' /\ NoSleeperLeft'
  BY <1>4 DEF Take, Exit, Sleep, Return, SpuriousWake
<1>5. QED
  BY <1>1, <1>2, <1>3, <1>4, NextCases

-------------------------------------------------------------------------------
\* No step loses or doubles a task.
LEMMA OnceStep ==
  ASSUME TypeOK, Consistent, ExactlyOnce, [Next]_vars PROVE ExactlyOnce'
<1> USE IdleAssumption DEF TypeOK
<1>1. ASSUME UNCHANGED <<tasks, job, submitted, done>> PROVE ExactlyOnce'
  BY <1>1 DEF ExactlyOnce, Queued, Running
<1>2. ASSUME NEW t \in Task, Emplace(t) PROVE ExactlyOnce'
  <2>1. /\ tasks' = Append(tasks, t) /\ t \notin submitted
        /\ submitted' = submitted \cup {t} /\ UNCHANGED <<job, done>>
        /\ Queued' = Queued \cup {t} /\ Running' = Running
    BY <1>2, Queue DEF Emplace, Running
  <2>2. t \notin Queued /\ t \notin done /\ \A w \in Running : job[w] # t
    BY <2>1 DEF ExactlyOnce
  <2>3. \A i, j \in 1..Len(tasks') : tasks'[i] = tasks'[j] => i = j
    <3>1. /\ Len(tasks') = Len(tasks) + 1
          /\ \A i \in 1..Len(tasks) : tasks'[i] = tasks[i] /\ tasks[i] # t
          /\ tasks'[Len(tasks) + 1] = t
      BY <2>1, <2>2 DEF Queued
    <3>2. \A i \in 1..Len(tasks') : i \in 1..Len(tasks) \/ i = Len(tasks) + 1
      BY <3>1
    <3>3. \A i, j \in 1..Len(tasks) : tasks[i] = tasks[j] => i = j
      BY DEF ExactlyOnce
    <3>4. QED
      BY <3>1, <3>2, <3>3
  <2>4. QED
    BY <2>1, <2>2, <2>3 DEF ExactlyOnce
<1>3. ASSUME NEW w \in Worker, Take(w) PROVE ExactlyOnce'
  <2> DEFINE h == Head(tasks)
  <2>1. /\ job[w] = Idle /\ tasks # <<>> /\ tasks' = Tail(tasks)
        /\ UNCHANGED <<submitted, done>>
        /\ job'[w] = h /\ \A v \in Worker \ {w} : job'[v] = job[v]
    BY <1>3 DEF Take, Awake
  <2>2. h \in Task /\ Queued = Queued' \cup {h}
    BY <2>1, Queue
  <2>3. /\ \A i, j \in 1..Len(tasks') : tasks'[i] = tasks'[j] => i = j
        /\ h \notin Queued'
    <3>1. /\ Len(tasks') = Len(tasks) - 1 /\ Len(tasks) \in Nat \ {0} /\ h = tasks[1]
          /\ \A i \in 1..Len(tasks') : i + 1 \in 1..Len(tasks) /\ tasks'[i] = tasks[i + 1]
      BY <2>1
    <3>2. \A i, j \in 1..Len(tasks) : tasks[i] = tasks[j] => i = j
      BY DEF ExactlyOnce
    <3>3. \A i \in 1..Len(tasks') : tasks'[i] # h
      BY <3>1, <3>2
    <3>4. QED
      BY <3>1, <3>2, <3>3 DEF Queued
  <2>4. Running' = Running \cup {w} /\ w \notin Running
    BY <2>1, <2>2 DEF Running
  <2>5. \A v \in Running : v # w /\ job'[v] = job[v] /\ job[v] # h
    BY <2>1, <2>2, <2>4 DEF ExactlyOnce, Running
  <2>6. {job'[v] : v \in Running'} = {job[v] : v \in Running} \cup {h}
    BY <2>1, <2>4, <2>5
  <2>7. QED
    BY <2>1, <2>2, <2>3, <2>4, <2>5, <2>6 DEF ExactlyOnce
<1>4. ASSUME NEW w \in Worker, Return(w) PROVE ExactlyOnce'
  <2>1. /\ w \in Running /\ done' = done \cup {job[w]}
        /\ UNCHANGED <<tasks, submitted>> /\ Queued' = Queued
        /\ job'[w] = Idle /\ \A v \in Worker \ {w} : job'[v] = job[v]
    BY <1>4 DEF Return, Running, Queued
  <2>2. Running' = Running \ {w}
    BY <2>1 DEF Running
  <2>3. \A v \in Running' : v \in Running /\ v # w /\ job'[v] = job[v]
    BY <2>1, <2>2 DEF Running
  <2>4. {job[v] : v \in Running} = {job'[v] : v \in Running'} \cup {job[w]}
    BY <2>1, <2>2, <2>3
  <2>5. QED
    BY <2>1, <2>2, <2>3, <2>4 DEF ExactlyOnce
<1>5. CASE NotifyOne \/ SetClosed \/ NotifyAll \/ UNCHANGED vars
  BY <1>1, <1>5 DEF NotifyOne, SetClosed, NotifyAll, vars
<1>6. ASSUME NEW w \in Worker, Exit(w) \/ Sleep(w) \/ SpuriousWake(w) PROVE ExactlyOnce'
  BY <1>1, <1>6 DEF Exit, Sleep, SpuriousWake
<1>7. QED
  BY <1>2, <1>3, <1>4, <1>5, <1>6, NextCases

-------------------------------------------------------------------------------
\* The wake-up the owner still owes.
Owed == IF owner = "notify" THEN 1 ELSE 0

\* A notify_one for every task is enough to keep a worker awake for each.
LEMMA ConservingStep ==
  ASSUME TypeOK, Consistent, WorkConserving, [Next]_vars PROVE WorkConserving'
<1> USE DEF TypeOK
<1>1. /\ IsFiniteSet(Awake) /\ Cardinality(Awake) \in Nat
      /\ \A S \in SUBSET Worker : IsFiniteSet(S) /\ Cardinality(S) \in Nat
  BY WorkerAssumption, FS_Subset, FS_CardinalityType DEF Awake
<1>2. ASSUME NEW w \in Worker
      PROVE  /\ Cardinality(Awake \cup {w}) =
                  IF w \in Awake THEN Cardinality(Awake) ELSE Cardinality(Awake) + 1
             /\ Cardinality(Awake \ {w}) =
                  IF w \in Awake THEN Cardinality(Awake) - 1 ELSE Cardinality(Awake)
  BY <1>1, FS_AddElement, FS_RemoveElement
<1>3. WorkConserving <=> (waiting # {} => Len(tasks) <= Cardinality(Awake) + Owed)
  BY DEF WorkConserving, Owed
<1>4. WorkConserving' <=> (waiting' # {} => Len(tasks') <= Cardinality(Awake') + Owed')
  BY DEF WorkConserving, Owed
<1>5. Len(tasks) \in Nat
  OBVIOUS
<1>6. CASE UNCHANGED vars
  BY <1>6 DEF vars, WorkConserving, Awake
<1>7. ASSUME NEW t \in Task, Emplace(t) PROVE WorkConserving'
  <2>1. Len(tasks') = Len(tasks) + 1 /\ UNCHANGED waiting /\ Owed = 0 /\ Owed' = 1
    BY <1>7 DEF Emplace, Owed
  <2>2. Awake' = Awake
    BY <1>7 DEF Emplace, Awake
  <2>3. QED
    BY <1>1, <1>3, <1>4, <1>5, <2>1, <2>2
<1>8. CASE NotifyOne
  <2>1. UNCHANGED <<tasks, job, exited>> /\ Owed = 1 /\ Owed' = 0
    BY <1>8 DEF NotifyOne, Owed
  <2>2. CASE waiting = {}
    BY <1>4, <1>8, <2>2 DEF NotifyOne
  <2>3. CASE waiting # {}
    <3>1. PICK w \in waiting : waiting' = waiting \ {w}
      BY <1>8, <2>3 DEF NotifyOne
    <3>2. Awake' = Awake \cup {w} /\ w \notin Awake /\ w \in Worker
      BY <2>1, <3>1 DEF Awake, Consistent
    <3>3. Cardinality(Awake') = Cardinality(Awake) + 1
      BY <1>2, <3>2
    <3>4. QED
      BY <1>1, <1>3, <1>4, <1>5, <2>1, <2>3, <3>3
  <2>4. QED
    BY <2>2, <2>3
<1>9. CASE SetClosed
  <2>1. UNCHANGED <<tasks, waiting>> /\ Owed = 0 /\ Owed' = 0
    BY <1>9 DEF SetClosed, Owed
  <2>2. Awake' = Awake
    BY <1>9 DEF SetClosed, Awake
  <2>3. QED
    BY <1>3, <1>4, <2>1, <2>2
<1>10. CASE NotifyAll
  BY <1>4, <1>10 DEF NotifyAll
<1>11. ASSUME NEW w \in Worker, Take(w) PROVE WorkConserving'
  <2>1. Len(tasks') = Len(tasks) - 1 /\ UNCHANGED waiting /\ Owed' = Owed /\ w \in Awake
    BY <1>11 DEF Take, Owed
  <2>2. job'[w] # Idle /\ \A v \in Worker \ {w} : job'[v] = job[v]
    <3>1. Head(tasks) \in Task
      BY <1>11 DEF Take
    <3>2. QED
      BY <1>11, <3>1, IdleAssumption DEF Take
  <2>3. Awake' = Awake \ {w}
    BY <1>11, <2>2 DEF Take, Awake
  <2>4. Cardinality(Awake') = Cardinality(Awake) - 1
    BY <1>2, <2>1, <2>3
  <2>5. Owed \in Nat
    BY DEF Owed
  <2>6. QED
    BY <1>1, <1>3, <1>4, <1>5, <2>1, <2>4, <2>5
<1>12. ASSUME NEW w \in Worker, Exit(w) \/ Sleep(w) PROVE WorkConserving'
  <2>1. Len(tasks') = 0 /\ Owed' \in Nat /\ Awake' \subseteq Worker
    BY <1>12 DEF Exit, Sleep, Owed, Awake
  <2>2. Cardinality(Awake') \in Nat
    BY <1>1, <2>1
  <2>3. QED
    BY <1>4, <2>1, <2>2
<1>13. ASSUME NEW w \in Worker, Return(w) \/ SpuriousWake(w) PROVE WorkConserving'
  <2>1. UNCHANGED tasks /\ Owed' = Owed /\ Owed \in Nat /\ waiting' \subseteq waiting
    BY <1>13 DEF Return, SpuriousWake, Owed
  <2>2. Awake' = Awake \cup {w}
    <3>1. CASE Return(w)
      <4>1. w \notin waiting /\ w \notin exited /\ UNCHANGED <<waiting, exited>>
        BY <3>1 DEF Return, Running, Consistent
      <4>2. job'[w] = Idle /\ \A v \in Worker \ {w} : job'[v] = job[v]
        BY <3>1 DEF Return
      <4>3. QED
        BY <4>1, <4>2 DEF Awake
    <3>2. CASE SpuriousWake(w)
      <4>1. waiting' = waiting \ {w} /\ job[w] = Idle /\ w \notin exited
        BY <3>2 DEF SpuriousWake, Consistent
      <4>2. QED
        BY <3>2, <4>1 DEF SpuriousWake, Awake
    <3>3. QED
      BY <1>13, <3>1, <3>2
  <2>3. Cardinality(Awake') >= Cardinality(Awake) /\ Cardinality(Awake') \in Nat
    <3>1. Cardinality(Awake') = IF w \in Awake THEN Cardinality(Awake) ELSE Cardinality(Awake) + 1
      BY <1>2, <2>2
    <3>2. QED
      BY <1>1, <3>1
  <2>4. QED
    BY <1>1, <1>3, <1>4, <1>5, <2>1, <2>3
<1>14. QED
  BY <1>6, <1>7, <1>8, <1>9, <1>10, <1>11, <1>12, <1>13, NextCases

-------------------------------------------------------------------------------
\* The pool starts empty, open and with every worker about to look at the queue.
LEMMA PoolInit == Init => IInv
<1> SUFFICES ASSUME Init PROVE IInv
  OBVIOUS
<1>1. TypeOK
  <2>1. <<>> \in Seq(Task)
    OBVIOUS
  <2>2. QED
    BY <2>1 DEF Init, TypeOK, OwnerState
<1>6. Consistent
  BY DEF Init, Consistent
<1>2. Queued = {} /\ Running = {}
  BY DEF Init, Queued, Running
<1>3. ExactlyOnce
  BY <1>2 DEF Init, ExactlyOnce
<1>4. WorkConserving /\ ExitOnlyDrained /\ NoSleeperLeft
  BY DEF Init, WorkConserving, ExitOnlyDrained, NoSleeperLeft
<1>5. QED
  BY <1>1, <1>3, <1>4, <1>6 DEF IInv

\* The pool's invariant: no task lost or doubled, no worker asleep beside a task it is
\* needed for, none gone or left asleep at the wrong time.
THEOREM PoolCorrect == SafeSpec => []IInv
<1>1. IInv /\ [Next]_vars => IInv'
  BY ConsistentStep, CloseStep, OnceStep, ConservingStep DEF IInv
<1>2. QED
  BY PoolInit, <1>1, PTL DEF SafeSpec

\* A task given to AddTask is in exactly one place.
THEOREM TasksOnce == SafeSpec => []ExactlyOnce
  BY PoolCorrect, PTL DEF IInv

\* No worker sleeps while a task has nobody awake to run it.
THEOREM NoLostWakeUp == SafeSpec => []WorkConserving
  BY PoolCorrect, PTL DEF IInv

\* A worker leaves only a pool that is closed and has no task left.
THEOREM ExitsDrained == SafeSpec => []ExitOnlyDrained
  BY PoolCorrect, PTL DEF IInv

\* Every step of the pool is a step of its promise or invisible in it.
THEOREM Refines == SafeSpec => Promise!SafeSpec
<1>1. Init => Promise!Init
  BY DEF Init, Promise!Init
<1>2. IInv /\ [Next]_vars => [Promise!Next]_(Promise!vars)
  <2> SUFFICES ASSUME IInv, [Next]_vars PROVE [Promise!Next]_(Promise!vars)
    OBVIOUS
  <2> USE DEF Promise!vars, Promise!Next
  <2>1. ASSUME NEW t \in Task, Emplace(t) PROVE Promise!Next
    BY <2>1 DEF Emplace, Promise!Submit
  <2>2. ASSUME NEW w \in Worker, Take(w) PROVE Promise!Next
    BY <2>2 DEF Take, Awake, Promise!Start
  <2>3. ASSUME NEW w \in Worker, Return(w) PROVE Promise!Next
    BY <2>3 DEF Return, Running, Promise!Finish
  <2>4. CASE NotifyOne \/ SetClosed \/ NotifyAll \/ UNCHANGED vars
    BY <2>4 DEF NotifyOne, SetClosed, NotifyAll, vars
  <2>5. ASSUME NEW w \in Worker, Exit(w) \/ Sleep(w) \/ SpuriousWake(w)
        PROVE  UNCHANGED Promise!vars
    BY <2>5 DEF Exit, Sleep, SpuriousWake
  <2>6. QED
    BY <2>1, <2>2, <2>3, <2>4, <2>5, NextCases
<1>3. QED
  BY <1>1, <1>2, PoolCorrect, PTL DEF SafeSpec, Promise!SafeSpec
===============================================================================
