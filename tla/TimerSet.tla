-------------------------------- MODULE TimerSet --------------------------------
(***************************************************************************)
(* What HeapTimer promises to WebServer: a descriptor has at most one      *)
(* deadline, which can be set and moved; tick runs the callbacks of timers *)
(* that are due, in the order of their deadlines, and leaves none behind.  *)
(***************************************************************************)
EXTENDS Integers

CONSTANTS
  Id,       \* descriptors
  Timeout,  \* durations callers ask for
  Grain     \* clock units in a millisecond

VARIABLES
  due,      \* the deadlines, a function of the descriptors that have one
  now,      \* the clock
  ticking   \* tick is running

vars == <<due, now, ticking>>

\* duration_cast<milliseconds>: whole milliseconds, towards zero.
Ms(d) == IF d >= 0 THEN d \div Grain ELSE -((-d) \div Grain)

Expired(id) == Ms(due[id] - now) <= 0

Drop(id) == due' = [x \in DOMAIN due \ {id} |-> due[x]]

Init == due = [id \in {} |-> 0] /\ now = 0 /\ ticking = TRUE

Set(id) ==
  /\ ~ticking
  /\ \E t \in Timeout :
       due' = [x \in DOMAIN due \cup {id} |-> IF x = id THEN now + t ELSE due[x]]
  /\ UNCHANGED <<now, ticking>>

\* A callback run ahead of time takes its timer with it.
Early(id) ==
  /\ ~ticking /\ id \in DOMAIN due
  /\ Drop(id)
  /\ UNCHANGED <<now, ticking>>

Fire(id) ==
  /\ ticking /\ id \in DOMAIN due
  /\ Expired(id)
  /\ \A x \in DOMAIN due : due[id] <= due[x]
  /\ Drop(id)
  /\ UNCHANGED <<now, ticking>>

Begin == ~ticking /\ ticking' = TRUE /\ UNCHANGED <<due, now>>

End ==
  /\ ticking /\ \A id \in DOMAIN due : ~Expired(id)
  /\ ticking' = FALSE
  /\ now' \in Int
  /\ UNCHANGED due

Time == now' \in Int /\ UNCHANGED <<due, ticking>>

Next == Begin \/ End \/ Time \/ \E id \in Id : Set(id) \/ Early(id) \/ Fire(id)

Spec == Init /\ [][Next]_vars
===============================================================================
