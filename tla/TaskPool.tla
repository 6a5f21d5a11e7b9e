------------------------------- MODULE TaskPool -------------------------------
(***************************************************************************)
(* What a thread pool promises to the code that uses it: submitted tasks   *)
(* form one queue, each is handed to one idle worker in submission order,  *)
(* and it leaves the pool when that worker has run it.  How workers sleep, *)
(* wake and stop is invisible here; ThreadPool refines this module, and    *)
(* the reactor is written against it.                                      *)
(***************************************************************************)
EXTENDS Sequences

CONSTANTS
  Worker,   \* the pool's threads
  Task,     \* everything that can be submitted
  Idle      \* what a worker runs when it runs no task

VARIABLES
  queue,    \* tasks not started yet, oldest first
  job       \* job[w]: the task w is running, or Idle

vars == <<queue, job>>

Init ==
  /\ queue = <<>>
  /\ job = [w \in Worker |-> Idle]

Submit(t) ==
  /\ queue' = Append(queue, t)
  /\ UNCHANGED job

Start(w) ==
  /\ job[w] = Idle
  /\ queue # <<>>
  /\ job' = [job EXCEPT ![w] = Head(queue)]
  /\ queue' = Tail(queue)

Finish(w) ==
  /\ job[w] # Idle
  /\ job' = [job EXCEPT ![w] = Idle]
  /\ UNCHANGED queue

Next ==
  \/ \E t \in Task : Submit(t)
  \/ \E w \in Worker : Start(w) \/ Finish(w)

\* A queued task is eventually started and a started one eventually finishes.
Fairness ==
  /\ WF_vars(\E w \in Worker : Start(w))
  /\ \A w \in Worker : WF_vars(Finish(w))

SafeSpec == Init /\ [][Next]_vars
Spec == SafeSpec /\ Fairness
===============================================================================
