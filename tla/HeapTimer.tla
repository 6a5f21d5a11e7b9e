-------------------------------- MODULE HeapTimer -------------------------------
(***************************************************************************)
(* code/timer/heaptimer.cpp as the main thread of WebServer uses it: a     *)
(* binary heap of timers with an index from descriptors to positions.      *)
(*                                                                         *)
(* Start calls GetNextTick, which ticks and reads the clock again, waits   *)
(* for epoll, and handles events that set timers up (add), move them       *)
(* (adjust) or trigger them at once (doWork).  The clock moves between any *)
(* two of these.  Positions count from 1.  The callbacks do not touch the  *)
(* timers (CloseConn_) and are left out.                                   *)
(***************************************************************************)
EXTENDS Integers, Sequences

CONSTANTS
  Id,        \* descriptors
  Timeout,   \* durations passed to add and adjust
  Grain,     \* clock units in a millisecond
  Delay,     \* how far the clock moves inside GetNextTick after tick
  Back,      \* the clock may be set back: Clock is not a steady clock
  MaxClock   \* bound: the clock stops here

ASSUME ClockAssumption ==
  Timeout \subseteq Nat /\ Delay \subseteq Nat /\ Grain \in Nat \ {0} /\ Back \in BOOLEAN
  /\ MaxClock \in Nat

VARIABLES
  heap,      \* HeapTimer::heap_
  ref,       \* HeapTimer::ref_
  now,       \* Clock::now()
  stage,     \* where Start is: "tick", "wait" or "events"
  timeMS     \* what GetNextTick returned

vars == <<heap, ref, now, stage, timeMS>>

Node == [id : Id, expires : Nat]

-------------------------------------------------------------------------------
(* The heap.  t is a pair of a heap and an index, t.heap and t.ref.         *)

\* Mutant: the index is not kept.
Bug_SwapNodeUnindexed(t, i, j) ==
  [t EXCEPT !.heap = [@ EXCEPT ![i] = t.heap[j], ![j] = t.heap[i]]]

SwapNode_(t, i, j) ==
  [heap |-> [t.heap EXCEPT ![i] = t.heap[j], ![j] = t.heap[i]],
   ref  |-> [t.ref EXCEPT ![t.heap[j].id] = i, ![t.heap[i].id] = j]]

\* The loops.  s is what a loop works on: the timers s.t and its position s.i.  A round
\* in which the loop is left changes nothing, nor does any that follows; siftup_ makes
\* fewer than i rounds and siftdown_ fewer than n.
UpRound(s) ==
  LET j == s.i \div 2
  IN IF s.i = 1 \/ s.t.heap[j].expires < s.t.heap[s.i].expires THEN s
     ELSE [t |-> SwapNode_(s.t, s.i, j), i |-> j]

siftup_(t, i) ==
  LET s[k \in 0..i] == IF k = 0 THEN [t |-> t, i |-> i] ELSE UpRound(s[k - 1])
  IN s[i].t

\* Mutant: the right child is not looked at.
Bug_ChildLeft(t, i, n) == 2 * i

\* The smaller child of i among the first n nodes, the left one if they are equal.
Child(t, i, n) ==
  IF 2 * i + 1 <= n /\ t.heap[2 * i + 1].expires < t.heap[2 * i].expires
    THEN 2 * i + 1 ELSE 2 * i

DownRound(s, n) ==
  IF 2 * s.i > n \/ s.t.heap[s.i].expires < s.t.heap[Child(s.t, s.i, n)].expires THEN s
  ELSE [t |-> SwapNode_(s.t, s.i, Child(s.t, s.i, n)), i |-> Child(s.t, s.i, n)]

\* With the position it has come to, for its callers ask whether it has moved.
siftdown_(t, i, n) ==
  LET s[k \in 0..n] == IF k = 0 THEN [t |-> t, i |-> i] ELSE DownRound(s[k - 1], n)
  IN s[n]

\* siftdown_ moved the node, or siftup_ gets its turn.
Restore(t, i, n) ==
  LET down == siftdown_(t, i, n) IN IF down.i > i THEN down.t ELSE siftup_(down.t, i)

\* The node changes places with the last one, which finds its place among the rest.
del_(t, i) ==
  LET n == Len(t.heap)
      u == IF i < n THEN Restore(SwapNode_(t, i, n), i, n - 1) ELSE t
  IN [heap |-> SubSeq(u.heap, 1, n - 1),
      ref  |-> [x \in DOMAIN u.ref \ {u.heap[n].id} |-> u.ref[x]]]

Timers == [heap |-> heap, ref |-> ref]
Store(t) == heap' = t.heap /\ ref' = t.ref

\* A timer for id that expires at e: a new node at the end, or id's own.
Put(id, e) ==
  IF id \in DOMAIN ref
    THEN Restore([heap |-> [heap EXCEPT ![ref[id]].expires = e], ref |-> ref],
                 ref[id], Len(heap))
    ELSE LET i == Len(heap) + 1
         IN siftup_([heap |-> Append(heap, [id |-> id, expires |-> e]),
                     ref  |-> [x \in DOMAIN ref \cup {id} |-> IF x = id THEN i ELSE ref[x]]], i)

\* duration_cast<MS>(d).count(): whole milliseconds, towards zero.
Ms(d) == IF d >= 0 THEN d \div Grain ELSE -((-d) \div Grain)

Due(id) == heap[ref[id]].expires

\* The test of tick's loop.
FirstExpired == heap # <<>> /\ Ms(heap[1].expires - now) <= 0

-------------------------------------------------------------------------------
Init ==
  /\ heap = <<>>
  /\ ref = [id \in {} |-> 0]
  /\ now = 0
  /\ stage = "tick"
  /\ timeMS = -1

\* The clock moves on, and back if somebody sets it.
Time ==
  /\ \/ now < MaxClock /\ now' = now + 1
     \/ Back /\ now > 0 /\ now' = now - 1
  /\ UNCHANGED <<heap, ref, stage, timeMS>>

\* Mutant: one timer per tick.
Bug_TickFireOnce ==
  /\ stage = "tick"
  /\ FirstExpired
  /\ Store(del_(Timers, 1))
  /\ stage' = "wait"
  /\ timeMS' = IF Len(heap) = 1 THEN -1 ELSE Ms(heap'[1].expires - now)
  /\ UNCHANGED now

\* tick, one round: the callback of the first timer, and pop.
TickFire ==
  /\ stage = "tick"
  /\ FirstExpired
  /\ Store(del_(Timers, 1))
  /\ UNCHANGED <<now, stage, timeMS>>

\* Mutant: the time is rounded up.
Bug_TickEndRoundsUp ==
  /\ stage = "tick"
  /\ ~FirstExpired
  /\ \E d \in Delay :
       /\ now + d <= MaxClock
       /\ now' = now + d
       /\ timeMS' = IF heap = <<>> THEN -1 ELSE Ms(heap[1].expires - (now + d)) + 1
  /\ stage' = "wait"
  /\ UNCHANGED <<heap, ref>>

\* tick finds nothing due, and GetNextTick reads the clock again.  res is a size_t,
\* so that "res < 0" never holds; converted to int it is the negative count.
TickEnd ==
  /\ stage = "tick"
  /\ ~FirstExpired
  /\ \E d \in Delay :
       /\ now + d <= MaxClock
       /\ now' = now + d
       /\ timeMS' = IF heap = <<>> THEN -1 ELSE Ms(heap[1].expires - (now + d))
  /\ stage' = "wait"
  /\ UNCHANGED <<heap, ref>>

\* epoll_wait returns; for an event it may do so at any time.
Wake ==
  /\ stage = "wait"
  /\ stage' = "events"
  /\ UNCHANGED <<heap, ref, now, timeMS>>

add(id) ==
  /\ stage = "events"
  /\ \E t \in Timeout : Store(Put(id, now + t))
  /\ UNCHANGED <<now, stage, timeMS>>

\* Only siftdown_: the new time is taken to be the later one.
adjust(id) ==
  /\ stage = "events" /\ id \in DOMAIN ref
  /\ \E t \in Timeout :
       Store(siftdown_([Timers EXCEPT !.heap[ref[id]].expires = now + t],
                       ref[id], Len(heap)).t)
  /\ UNCHANGED <<now, stage, timeMS>>

\* The server does not call it.
doWork(id) ==
  /\ stage = "events" /\ id \in DOMAIN ref
  /\ Store(del_(Timers, ref[id]))
  /\ UNCHANGED <<now, stage, timeMS>>

EventsDone ==
  /\ stage = "events"
  /\ stage' = "tick"
  /\ UNCHANGED <<heap, ref, now, timeMS>>

Next ==
  \/ Time
  \/ TickFire \/ TickEnd \/ Wake \/ EventsDone
  \/ \E id \in Id : add(id) \/ adjust(id) \/ doWork(id)

Spec == Init /\ [][Next]_vars

-------------------------------------------------------------------------------
\* Type correctness: every position in the index exists.
TypeOK ==
  /\ heap \in Seq(Node)
  /\ DOMAIN ref \subseteq Id
  /\ \A id \in DOMAIN ref : ref[id] \in 1..Len(heap)
  /\ now \in 0..MaxClock
  /\ stage \in {"tick", "wait", "events"}
  /\ timeMS \in Int

\* The index is exact, so that adjust and doWork reach the timer of their descriptor
\* and none is in the heap twice.
RefExact ==
  /\ \A i \in 1..Len(heap) : heap[i].id \in DOMAIN ref /\ ref[heap[i].id] = i
  /\ \A id \in DOMAIN ref : heap[ref[id]].id = id

\* No timer hides behind a later one (heaptimer.cpp:99: adjust heapifies again).
HeapOrdered ==
  \A i \in 2..Len(heap) : heap[i \div 2].expires <= heap[i].expires

\* The time given to Wait ends no later than the deadline of id.
EndsBefore(id) ==
  \/ timeMS' = 0
  \/ timeMS' > 0 /\ now' + timeMS' * Grain <= Due(id)'

\* The deadline of id, a millisecond or more ahead when tick looked at the clock, is as
\* much behind when GetNextTick looks again.
PassedBetween(id) == Due(id) - now >= Grain /\ now' - Due(id)' >= Grain

\* epoll sleeps past no deadline, unless one passes inside GetNextTick: only then is the
\* time given to Wait with a timer set negative, which means for ever, whatever tick,
\* rounding and the conversion of res make of it (heaptimer.cpp:113, 136-137).
WakesInTime ==
  [][stage = "tick" /\ stage' = "wait" =>
       \/ \A id \in DOMAIN ref' : EndsBefore(id)
       \/ \E id \in DOMAIN ref' : PassedBetween(id) /\ timeMS' < 0]_vars

\* As "if(res < 0) { res = 0; }" means it (heaptimer.cpp:137): never.
NeverOversleeps ==
  [][stage = "tick" /\ stage' = "wait" => \A id \in DOMAIN ref' : EndsBefore(id)]_vars

\* The heap and its index behave like a set of deadlines.
Promise == INSTANCE TimerSet WITH due <- [id \in DOMAIN ref |-> Due(id)],
                                  ticking <- stage = "tick"
ImplementsTimerSet == Promise!Spec
===============================================================================
