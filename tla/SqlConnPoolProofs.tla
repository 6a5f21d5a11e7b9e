--------------------------- MODULE SqlConnPoolProofs ---------------------------
(***************************************************************************)
(* For any number of connections and threads, although connections are     *)
(* returned twice: the semaphore and the queue of SqlConnPool stay         *)
(* together, no connection is lost, and GetConn gives up only if each one  *)
(* has been taken while it looked.                                         *)
(***************************************************************************)
EXTENDS SqlConnPool, TLAPS, FiniteSetTheorems

\* The part of the invariant that says nothing of single connections.
Counted == TypeOK /\ SemMatchesQueue

\* Workers with a claim are counted by a number.
LEMMA ClaimsFinite == IsFiniteSet(Claims) /\ Cardinality(Claims) \in Nat
<1>1. Claims \subseteq Worker
  BY DEF Claims
<1>2. QED
  BY <1>1, ConnAssumption, FS_Subset, FS_CardinalityType

\* Steps that leave the stage "take" to the others leave the claims alone.
LEMMA ClaimsKept ==
  ASSUME TypeOK, NEW w \in Worker, NEW s \in Stage,
         stage' = [stage EXCEPT ![w] = s], stage[w] # "take", s # "take"
  PROVE  Claims' = Claims
  BY DEF TypeOK, Claims

\* sem_wait turns a unit of the semaphore into a claim.
LEMMA ClaimsGrow ==
  ASSUME TypeOK, NEW w \in Worker, SemWait(w)
  PROVE  Cardinality(Claims') = Cardinality(Claims) + 1
<1>1. Claims' = Claims \cup {w} /\ w \notin Claims
  BY DEF SemWait, Go, TypeOK, Claims
<1>2. QED
  BY <1>1, ClaimsFinite, FS_AddElement

\* The critical section of GetConn redeems one.
LEMMA ClaimsShrink ==
  ASSUME TypeOK, NEW w \in Worker, Take(w)
  PROVE  Cardinality(Claims') = Cardinality(Claims) - 1 /\ Cardinality(Claims) > 0
<1>1. Claims' = Claims \ {w} /\ w \in Claims
  BY DEF Take, Go, TypeOK, Claims
<1>2. Cardinality(Claims) # 0
  BY <1>1, ClaimsFinite, FS_EmptySet
<1>3. QED
  BY <1>1, <1>2, ClaimsFinite, FS_RemoveElement

\* FreeConn keeps types and adds one to both sides.
LEMMA Freed ==
  ASSUME TypeOK, NEW c \in Conn, FreeConn(c)
  PROVE  /\ connQue' \in Seq(Conn) /\ sem' \in Nat
         /\ Len(connQue') = Len(connQue) + 1 /\ sem' = sem + 1
  BY DEF TypeOK, FreeConn

\* The queue is as long as the pool when the server starts.
LEMMA PoolInit == Init => Counted
<1> SUFFICES ASSUME Init PROVE Counted
  OBVIOUS
<1>1. Cardinality(Conn) \in Nat
  BY ConnAssumption, FS_CardinalityType
<1>2. connQue \in Seq(Conn) /\ Len(connQue) = Cardinality(Conn)
  BY <1>1 DEF Init
<1>3. Claims = {}
  BY DEF Init, Claims
<1>4. Cardinality(Claims) = 0
  BY <1>3, FS_EmptySet
<1>5. TypeOK
  BY <1>1, <1>2 DEF Init, TypeOK, Stage
<1>6. QED
  BY <1>1, <1>2, <1>4, <1>5 DEF Init, Counted, SemMatchesQueue

\* One step of a worker.
LEMMA PoolStep ==
  ASSUME Counted, NEW w \in Worker, Call(w) \/ Step(w) PROVE Counted'
<1> USE DEF Counted
<1>1. CASE Call(w)
  <2>1. TypeOK'
    BY <1>1, ConnAssumption DEF Call, Go, TypeOK, Stage, Request
  <2>2. Claims' = Claims
    BY <1>1, ClaimsKept DEF Call, Go, Stage
  <2>3. QED
    BY <1>1, <2>1, <2>2 DEF Call, SemMatchesQueue
<1>11. CASE Look(w)
  <2>1. \A v \in Hands : sql[v] \in Conn \cup {None}
    BY DEF Hands, TypeOK
  <2>2. {sql[v] : v \in Hands} \in SUBSET (Conn \cup {None}) /\ Len(connQue) \in Int
    BY <2>1 DEF TypeOK
  <2>3. TypeOK'
    BY <1>11, <2>2 DEF Look, Go, TypeOK, Stage
  <2>4. Claims' = Claims
    BY <1>11, ClaimsKept DEF Look, Go, Stage
  <2>5. QED
    BY <1>11, <2>3, <2>4 DEF Look, SemMatchesQueue
<1>12. CASE SelectNoResult(w)
  <2>1. UNCHANGED <<connQue, sem, stage>>
    BY <1>12 DEF SelectNoResult
  <2>2. TypeOK'
    BY <1>12 DEF SelectNoResult, TypeOK
  <2>3. QED
    BY <2>1, <2>2 DEF SemMatchesQueue, Claims
<1>2. CASE Test(w)
  <2>1. TypeOK'
    <3>1. CASE left[w] = 0
      BY <1>2, <3>1 DEF Test, TypeOK
    <3>2. CASE left[w] # 0
      <4>1. /\ stage' = [stage EXCEPT ![w] = "wait"]
            /\ left' = [left EXCEPT ![w] = 0] /\ given' = [given EXCEPT ![w] = {}]
            /\ UNCHANGED <<connQue, sem, table, request, sql, flag, calls, aborted>>
        BY <1>2, <3>2 DEF Test, Go
      <4>2. left' \in [Worker -> Int] /\ given' \in [Worker -> SUBSET (Conn \cup {None})]
        BY <4>1 DEF TypeOK
      <4>3. QED
        BY <4>1, <4>2 DEF TypeOK, Stage
    <3>3. QED
      BY <3>1, <3>2
  <2>2. Claims' = Claims
    <3>1. CASE UNCHANGED stage
      BY <3>1 DEF Claims
    <3>2. CASE ~UNCHANGED stage
      BY <1>2, <3>2, ClaimsKept DEF Test, Go, Stage
    <3>3. QED
      BY <3>1, <3>2
  <2>3. QED
    BY <1>2, <2>1, <2>2 DEF Test, SemMatchesQueue
<1>3. CASE SemWait(w)
  <2>1. TypeOK'
    BY <1>3 DEF SemWait, Go, TypeOK, Stage
  <2>2. QED
    BY <1>3, <2>1, ClaimsGrow, ClaimsFinite DEF SemWait, SemMatchesQueue, TypeOK
<1>4. CASE Take(w)
  <2>1. Len(connQue) > 0
    <3>1. Cardinality(Claims) > 0
      BY <1>4, ClaimsShrink
    <3>2. sem \in Nat /\ Len(connQue) = sem + Cardinality(Claims)
      BY DEF SemMatchesQueue, TypeOK
    <3>3. QED
      BY <3>1, <3>2, ClaimsFinite
  <2>2. /\ Head(connQue) \in Conn /\ Tail(connQue) \in Seq(Conn)
        /\ Len(Tail(connQue)) = Len(connQue) - 1
    <3>1. connQue \in Seq(Conn) /\ connQue # <<>>
      BY <2>1 DEF TypeOK
    <3>2. QED
      BY <3>1
  <2>3. PICK c \in Conn : sql' = [sql EXCEPT ![w] = c]
    BY <1>4, <2>2 DEF Take
  <2>5. connQue' \in Seq(Conn)
    BY <1>4, <2>2 DEF Take
  <2>6. TypeOK'
    <3>1. /\ stage' = [stage EXCEPT ![w] = "release"] /\ stage \in [Worker -> Stage]
          /\ sql \in [Worker -> Conn \cup {None}]
          /\ UNCHANGED <<sem, table, request, flag, calls, aborted>>
      BY <1>4 DEF Take, Go, TypeOK
    <3>5. left' \in [Worker -> Int]
      BY <1>4 DEF Take, TypeOK
    <3>6. given' \in [Worker -> SUBSET (Conn \cup {None})]
      BY <1>4, <2>2 DEF Take, TypeOK
    <3>2. stage' \in [Worker -> Stage] /\ sql' \in [Worker -> Conn \cup {None}]
      BY <2>3, <3>1 DEF Stage
    <3>3. \A v \in Worker : stage'[v] \in {"release", "select", "insert", "free"} => sql'[v] \in Conn
      BY <2>3, <3>1 DEF TypeOK
    <3>4. QED
      BY <2>5, <3>1, <3>2, <3>3, <3>5, <3>6 DEF TypeOK
  <2>7. SemMatchesQueue'
    <3>1. Len(connQue') = Len(connQue) - 1 /\ sem' = sem
      BY <1>4, <2>2 DEF Take
    <3>2. Cardinality(Claims') = Cardinality(Claims) - 1
      BY <1>4, ClaimsShrink
    <3>3. connQue \in Seq(Conn) /\ sem \in Nat /\ Len(connQue) = sem + Cardinality(Claims)
      BY DEF TypeOK, SemMatchesQueue
    <3>4. QED
      BY <3>1, <3>2, <3>3, ClaimsFinite DEF SemMatchesQueue
  <2>8. QED
    BY <2>6, <2>7
<1>5. CASE Release(w)
  <2>1. CASE sql[w] \in Failed
    <3>1. UNCHANGED <<connQue, sem, stage>> /\ aborted' = "null"
      BY <1>5, <2>1 DEF Release
    <3>2. TypeOK'
      BY <1>5, <3>1 DEF Release, TypeOK
    <3>3. QED
      BY <3>1, <3>2 DEF SemMatchesQueue, Claims
  <2>2. CASE sql[w] \notin Failed
    <3>1. FreeConn(sql[w]) /\ Go(w, "select") /\ stage[w] = "release" /\ sql[w] \in Conn
      BY <1>5, <2>2 DEF Release, TypeOK
    <3>2. Claims' = Claims
      BY <3>1, ClaimsKept DEF Go, Stage
    <3>3. TypeOK'
      BY <1>5, <2>2, <3>1, Freed DEF Release, Go, TypeOK, Stage
    <3>4. QED
      BY <3>1, <3>2, <3>3, Freed, ClaimsFinite DEF SemMatchesQueue, TypeOK
  <2>3. QED
    BY <2>1, <2>2
<1>6. CASE Select(w)
  <2>1. \E b \in BOOLEAN : flag' = [flag EXCEPT ![w] = b]
    BY <1>6 DEF Select
  <2>2. PICK s \in {"insert", "free"} : stage' = [stage EXCEPT ![w] = s]
    BY <1>6 DEF Select, Go
  <2>3. TypeOK'
    BY <1>6, <2>1, <2>2 DEF Select, TypeOK, Stage
  <2>4. Claims' = Claims
    BY <1>6, <2>2, ClaimsKept DEF Select, Stage
  <2>5. QED
    BY <1>6, <2>3, <2>4 DEF Select, SemMatchesQueue
<1>7. CASE SelectFails(w)
  <2>1. TypeOK'
    BY <1>7, ConnAssumption DEF SelectFails, Go, TypeOK, Stage
  <2>2. Claims' = Claims
    BY <1>7, ClaimsKept DEF SelectFails, Go, Stage
  <2>3. QED
    BY <1>7, <2>1, <2>2 DEF SelectFails, SemMatchesQueue
<1>8. CASE Insert(w)
  <2>1. table' \subseteq Row
    BY <1>8 DEF Insert, TypeOK, Row, Request
  <2>2. TypeOK'
    BY <1>8, <2>1 DEF Insert, Go, TypeOK, Stage
  <2>3. Claims' = Claims
    BY <1>8, ClaimsKept DEF Insert, Go, Stage
  <2>4. QED
    BY <1>8, <2>2, <2>3 DEF Insert, SemMatchesQueue
<1>9. CASE Free(w)
  <2>1. sql[w] \in Conn /\ FreeConn(sql[w])
    BY <1>9 DEF Free, TypeOK
  <2>2. TypeOK'
    BY <1>9, <2>1, Freed, ConnAssumption DEF Free, Go, TypeOK, Stage
  <2>3. Claims' = Claims
    BY <1>9, ClaimsKept DEF Free, Go, Stage
  <2>4. QED
    BY <2>1, <2>2, <2>3, Freed, ClaimsFinite DEF SemMatchesQueue, TypeOK
<1>10. QED
  BY <1>1, <1>2, <1>3, <1>4, <1>5, <1>6, <1>7, <1>8, <1>9, <1>11, <1>12 DEF Step

-------------------------------------------------------------------------------
\* Where a connection is when it is not lost.
InQueue(c) == \E i \in 1..Len(connQue) : connQue[i] = c
InHands(c) == \E w \in Hands : sql[w] = c

LEMMA Located ==
  NoneLost <=> (aborted = "no" => \A c \in Conn \ Failed : InQueue(c) \/ InHands(c))
BY DEF NoneLost, InQueue, InHands

\* What is queued stays queued when another connection is returned, and that one is
\* queued then.
LEMMA Returned ==
  ASSUME TypeOK, NEW c \in Conn, FreeConn(c)
  PROVE  InQueue(c)' /\ \A d \in Conn : InQueue(d) => InQueue(d)'
<1>1. /\ Len(connQue) \in Nat /\ Len(connQue') = Len(connQue) + 1
      /\ connQue'[Len(connQue) + 1] = c
      /\ \A i \in 1..Len(connQue) : connQue'[i] = connQue[i]
  BY DEF TypeOK, FreeConn
<1>2. InQueue(c)'
  <2>1. Len(connQue) + 1 \in 1..Len(connQue')
    BY <1>1
  <2>2. QED
    BY <1>1, <2>1 DEF InQueue
<1>3. ASSUME NEW d \in Conn, InQueue(d) PROVE InQueue(d)'
  <2>1. PICK i \in 1..Len(connQue) : connQue[i] = d
    BY <1>3 DEF InQueue
  <2>2. i \in 1..Len(connQue') /\ connQue'[i] = d
    BY <1>1, <2>1
  <2>3. QED
    BY <2>2 DEF InQueue
<1>4. QED
  BY <1>2, <1>3

\* Only the one that is taken leaves the queue.
LEMMA Taken ==
  ASSUME TypeOK, connQue # <<>>, connQue' = Tail(connQue), NEW d \in Conn, InQueue(d)
  PROVE  d = Head(connQue) \/ InQueue(d)'
<1>1. PICK i \in 1..Len(connQue) : connQue[i] = d
  BY DEF InQueue
<1>2. CASE i = 1
  BY <1>1, <1>2 DEF TypeOK
<1>3. CASE i # 1
  <2>1. i - 1 \in 1..Len(connQue') /\ connQue'[i - 1] = d
    BY <1>1, <1>3 DEF TypeOK
  <2>2. QED
    BY <2>1 DEF InQueue
<1>4. QED
  BY <1>2, <1>3

\* A connection stays in the hands of everybody but the worker that takes the step.
LEMMA StillInHands ==
  ASSUME TypeOK, NEW w \in Worker, NEW s, stage' = [stage EXCEPT ![w] = s],
         \A v \in Worker \ {w} : sql'[v] = sql[v],
         NEW c, InHands(c), stage[w] # "release" \/ sql[w] # c
  PROVE  InHands(c)'
<1>1. PICK v \in Hands : sql[v] = c
  BY DEF InHands
<1>2. v \in Worker /\ v # w /\ stage'[v] = "release" /\ sql'[v] = c
  BY <1>1 DEF Hands, TypeOK
<1>3. QED
  BY <1>2 DEF InHands, Hands

\* A worker about to take a connection finds one.
LEMMA TakeFinds ==
  ASSUME Counted, NEW w \in Worker, Take(w)
  PROVE  /\ connQue # <<>> /\ Head(connQue) \in Conn
         /\ stage' = [stage EXCEPT ![w] = "release"] /\ stage[w] = "take"
         /\ sql' = [sql EXCEPT ![w] = Head(connQue)]
         /\ connQue' = Tail(connQue) /\ UNCHANGED aborted
<1>1. Cardinality(Claims) > 0
  BY ClaimsShrink DEF Counted
<1>2. connQue # <<>>
  BY <1>1, ClaimsFinite DEF Counted, SemMatchesQueue, TypeOK
<1>3. Head(connQue) \in Conn
  BY <1>2 DEF Counted, TypeOK
<1>4. QED
  BY <1>2, <1>3 DEF Take, Go

\* One step of a worker loses nothing.
LEMMA StepLosesNothing ==
  ASSUME Counted, NoneLost, aborted = "no", NEW w \in Worker, Call(w) \/ Step(w)
  PROVE  NoneLost'
<1> DEFINE Kept(c) == InQueue(c) \/ InHands(c)
<1> USE DEF Counted
<1>1. \A c \in Conn \ Failed : Kept(c)
  BY Located
<1>2. SUFFICES ASSUME aborted' = "no", NEW c \in Conn \ Failed PROVE Kept(c)'
  BY <1>2 DEF NoneLost, InQueue, InHands
<1>3. CASE Take(w)
  <2> PICK first : first = Head(connQue)
    OBVIOUS
  <2>1. /\ connQue # <<>> /\ connQue' = Tail(connQue)
        /\ stage' = [stage EXCEPT ![w] = "release"] /\ stage[w] = "take"
        /\ sql' = [sql EXCEPT ![w] = first]
    BY <1>3, TakeFinds
  <2>2. InHands(first)'
    BY <2>1 DEF InHands, Hands, TypeOK
  <2>3. CASE InQueue(c)
    BY <2>1, <2>2, <2>3, Taken
  <2>4. CASE InHands(c)
    <3>1. \A v \in Worker \ {w} : sql'[v] = sql[v]
      BY <2>1 DEF TypeOK
    <3>2. QED
      BY <2>1, <2>4, <3>1, StillInHands
  <2>5. QED
    BY <1>1, <2>3, <2>4
<1>4. CASE Release(w)
  <2>1. /\ FreeConn(sql[w]) /\ sql[w] \in Conn /\ UNCHANGED sql
        /\ stage' = [stage EXCEPT ![w] = "select"]
    BY <1>2, <1>4 DEF Release, Go, TypeOK
  <2>2. CASE c = sql[w]
    BY <2>1, <2>2, Returned
  <2>3. CASE InQueue(c)
    BY <2>1, <2>3, Returned
  <2>4. CASE InHands(c) /\ c # sql[w]
    BY <2>1, <2>4, StillInHands
  <2>5. QED
    BY <1>1, <2>2, <2>3, <2>4
<1>5. CASE Free(w)
  <2>1. /\ FreeConn(sql[w]) /\ sql[w] \in Conn /\ stage[w] = "free"
        /\ stage' = [stage EXCEPT ![w] = "idle"] /\ sql' = [sql EXCEPT ![w] = None]
    BY <1>5 DEF Free, Go, TypeOK
  <2>2. \A v \in Worker \ {w} : sql'[v] = sql[v]
    BY <2>1 DEF TypeOK
  <2>3. QED
    BY <1>1, <2>1, <2>2, Returned, StillInHands
<1>6. CASE Call(w) \/ Look(w) \/ Test(w) \/ SemWait(w)
  <2>1. UNCHANGED <<connQue, sql>> /\ stage[w] # "release"
    BY <1>6 DEF Call, Look, Test, SemWait
  <2>2. PICK s : stage' = [stage EXCEPT ![w] = s]
    BY <1>2, <1>6 DEF Call, Look, Test, SemWait, Go
  <2>3. InQueue(c) => InQueue(c)'
    BY <2>1 DEF InQueue
  <2>4. QED
    BY <1>1, <2>1, <2>2, <2>3, StillInHands
<1>7. CASE Select(w) \/ SelectFails(w) \/ Insert(w)
  <2>1. UNCHANGED connQue /\ stage[w] # "release"
    BY <1>7 DEF Select, SelectFails, Insert
  <2>2. \A v \in Worker \ {w} : sql'[v] = sql[v]
    BY <1>7 DEF Select, SelectFails, Insert, TypeOK
  <2>3. PICK s : stage' = [stage EXCEPT ![w] = s]
    BY <1>7 DEF Select, SelectFails, Insert, Go
  <2>4. InQueue(c) => InQueue(c)'
    BY <2>1 DEF InQueue
  <2>5. QED
    BY <1>1, <2>1, <2>2, <2>3, <2>4, StillInHands
<1>8. CASE SelectNoResult(w)
  BY <1>2, <1>8 DEF SelectNoResult
<1>9. QED
  BY <1>3, <1>4, <1>5, <1>6, <1>7, <1>8 DEF Step

\* What a worker needs to know while it looks at the queue.
Sees(v) ==
  /\ left[v] <= Len(connQue)
  /\ \A c \in Conn \ Failed :
       c \in given[v] \/ \E i \in 1..Len(connQue) : i <= left[v] /\ connQue[i] = c

\* A worker that looks goes on seeing what others leave of the queue.
LEMMA OthersSee ==
  ASSUME Counted, Seen, NEW w \in Worker, Call(w) \/ Step(w),
         NEW v \in Worker, stage[v] = "test", stage'[v] = "test"
  PROVE  Sees(v)'
<1> USE DEF Counted
<1>1. Sees(v)
  BY DEF Seen, Sees
<1>2. ASSUME NEW c \in Conn, FreeConn(c), UNCHANGED <<left, given>> PROVE Sees(v)'
  <2>1. /\ Len(connQue) \in Nat /\ Len(connQue') = Len(connQue) + 1
        /\ \A i \in 1..Len(connQue) : connQue'[i] = connQue[i]
    BY <1>2 DEF TypeOK, FreeConn
  <2>2. left[v] \in Int
    BY DEF TypeOK
  <2>3. left'[v] <= Len(connQue')
    BY <1>1, <1>2, <2>1, <2>2 DEF Sees
  <2>4. ASSUME NEW d \in Conn \ Failed, d \notin given'[v]
        PROVE  \E i \in 1..Len(connQue') : i <= left'[v] /\ connQue'[i] = d
    <3>1. PICK i \in 1..Len(connQue) : i <= left[v] /\ connQue[i] = d
      BY <1>1, <1>2, <2>4 DEF Sees
    <3>2. i \in 1..Len(connQue') /\ i <= left'[v] /\ connQue'[i] = d
      BY <1>2, <2>1, <3>1
    <3>3. QED
      BY <3>2
  <2>5. QED
    BY <2>3, <2>4 DEF Sees
<1>3. CASE Take(w)
  <2>1. connQue # <<>> /\ connQue \in Seq(Conn) /\ connQue' = Tail(connQue)
    BY <1>3, TakeFinds DEF TypeOK
  <2>2. left'[v] = left[v] - 1 /\ given'[v] = given[v] \cup {Head(connQue)} /\ left[v] \in Int
    BY <1>3 DEF Take, TypeOK
  <2>3. /\ Len(connQue) \in Nat /\ Len(connQue') = Len(connQue) - 1
        /\ \A i \in 1..Len(connQue') : connQue'[i] = connQue[i + 1]
        /\ Head(connQue) = connQue[1]
    BY <2>1
  <2>4. left'[v] <= Len(connQue')
    BY <1>1, <2>2, <2>3 DEF Sees
  <2>5. ASSUME NEW d \in Conn \ Failed, d \notin given'[v]
        PROVE  \E i \in 1..Len(connQue') : i <= left'[v] /\ connQue'[i] = d
    <3>1. PICK i \in 1..Len(connQue) : i <= left[v] /\ connQue[i] = d
      BY <1>1, <2>2, <2>5 DEF Sees
    <3>2. i # 1
      BY <2>2, <2>3, <2>5, <3>1
    <3>3. i - 1 \in 1..Len(connQue') /\ (i - 1) + 1 = i
      BY <2>3, <3>1, <3>2
    <3>4. i - 1 <= left'[v] /\ connQue'[i - 1] = d
      BY <2>2, <2>3, <3>1, <3>3
    <3>5. QED
      BY <3>3, <3>4
  <2>6. QED
    BY <2>4, <2>5 DEF Sees
<1>4. CASE Release(w)
  <2>1. CASE sql[w] \in Failed
    BY <1>1, <1>4, <2>1 DEF Release, Sees
  <2>2. CASE sql[w] \notin Failed
    BY <1>2, <1>4, <2>2 DEF Release, TypeOK
  <2>3. QED
    BY <2>1, <2>2
<1>5. CASE Free(w)
  <2>1. sql[w] \in Conn /\ FreeConn(sql[w]) /\ UNCHANGED <<left, given>>
    BY <1>5 DEF Free, TypeOK
  <2>2. QED
    BY <1>2, <2>1
<1>6. CASE Look(w) \/ Test(w)
  <2>1. CASE v # w
    <3>1. UNCHANGED connQue /\ left'[v] = left[v] /\ given'[v] = given[v]
      BY <1>6, <2>1 DEF Look, Test, TypeOK
    <3>2. QED
      BY <1>1, <3>1 DEF Sees
  <2>2. CASE v = w
    <3>1. UNCHANGED <<connQue, left, given>>
      BY <1>6, <2>2 DEF Look, Test, Go, TypeOK
    <3>2. QED
      BY <1>1, <3>1 DEF Sees
  <2>3. QED
    BY <2>1, <2>2
<1>7. CASE \/ Call(w) \/ SemWait(w)
           \/ Select(w) \/ SelectFails(w) \/ SelectNoResult(w) \/ Insert(w)
  <2>1. UNCHANGED <<connQue, left, given>>
    BY <1>7 DEF Call, SemWait, Select, SelectFails, SelectNoResult, Insert
  <2>2. QED
    BY <1>1, <2>1 DEF Sees
<1>8. QED
  BY <1>3, <1>4, <1>5, <1>6, <1>7 DEF Step

\* A worker that begins to look sees everything that is in the queue.
LEMMA LookSees ==
  ASSUME Counted, NoneLost, aborted = "no", NEW w \in Worker, Look(w) PROVE Sees(w)'
<1> USE DEF Counted
<1>1. /\ UNCHANGED connQue /\ Len(connQue) \in Nat
      /\ left'[w] = Len(connQue) /\ given'[w] = {sql[v] : v \in Hands}
  BY DEF Look, TypeOK
<1>2. ASSUME NEW c \in Conn \ Failed, c \notin given'[w]
      PROVE  \E i \in 1..Len(connQue') : i <= left'[w] /\ connQue'[i] = c
  <2>1. ~InHands(c)
    BY <1>1, <1>2 DEF InHands
  <2>2. PICK i \in 1..Len(connQue) : connQue[i] = c
    BY <2>1, Located DEF InQueue
  <2>3. i \in 1..Len(connQue') /\ i <= left'[w] /\ connQue'[i] = c
    BY <1>1, <2>2
  <2>4. QED
    BY <2>3
<1>3. QED
  BY <1>1, <1>2 DEF Sees

\* Nobody begins to look in any other step.
LEMMA OnlyLookLooks ==
  ASSUME Counted, NEW w \in Worker, Call(w) \/ Step(w),
         NEW v \in Worker, stage[v] # "test", stage'[v] = "test"
  PROVE  v = w /\ Look(w)
<1> USE DEF Counted
<1>1. CASE Look(w)
  BY <1>1 DEF Look, Go, TypeOK
<1>2. CASE ~Look(w)
  <2>1. PICK s : s # "test" /\ (UNCHANGED stage \/ stage' = [stage EXCEPT ![w] = s])
    <3>1. CASE Call(w) \/ Test(w) \/ SemWait(w) \/ Take(w) \/ Release(w)
      BY <3>1 DEF Call, Test, SemWait, Take, Release, Go
    <3>2. CASE Select(w) \/ SelectFails(w) \/ SelectNoResult(w) \/ Insert(w) \/ Free(w)
      BY <3>2 DEF Select, SelectFails, SelectNoResult, Insert, Free, Go
    <3>3. QED
      BY <1>2, <3>1, <3>2 DEF Step
  <2>2. QED
    BY <2>1 DEF TypeOK
<1>3. QED
  BY <1>1, <1>2

\* One step keeps what those who look see, and GetConn comes back without a connection
\* only if it saw none.
LEMMA StepSees ==
  ASSUME Counted, NoneLost, Seen, BusyOnlyWhenTaken, aborted = "no",
         NEW w \in Worker, Call(w) \/ Step(w)
  PROVE  Seen' /\ BusyOnlyWhenTaken'
<1> USE DEF Counted
<1>1. ASSUME NEW v \in Worker, stage'[v] = "test" PROVE Sees(v)'
  BY <1>1, OthersSee, LookSees, OnlyLookLooks
<1>2. Seen'
  BY <1>1 DEF Seen, Sees
<1>3. ASSUME aborted' = "busy"
      PROVE  \E v \in Worker : stage'[v] = "test" /\ Conn \ Failed \subseteq given'[v]
  <2>1. Test(w) /\ left[w] = 0 /\ UNCHANGED <<stage, given>> /\ stage[w] = "test"
    BY <1>3 DEF Step, Call, Look, Test, SemWait, Take, Release, Select, SelectFails,
                SelectNoResult, Insert, Free
  <2>2. \A c \in Conn \ Failed : c \in given[w]
    BY <2>1 DEF Seen
  <2>3. QED
    BY <2>1, <2>2
<1>4. QED
  BY <1>2, <1>3 DEF BusyOnlyWhenTaken

-------------------------------------------------------------------------------
\* The strengthening is an invariant.
THEOREM PoolSound == SafeSpec => []IInv
<1>1. Init => IInv
  <2> SUFFICES ASSUME Init PROVE IInv
    OBVIOUS
  <2>1. Counted
    BY PoolInit
  <2>2. NoneLost
    <3>1. DOMAIN connQue = 1..Len(connQue)
      BY <2>1 DEF Counted, TypeOK
    <3>2. QED
      BY <3>1 DEF Init, NoneLost
  <2>3. Seen /\ BusyOnlyWhenTaken
    BY DEF Init, Seen, BusyOnlyWhenTaken
  <2>4. QED
    BY <2>1, <2>2, <2>3 DEF IInv, Counted
<1>2. IInv /\ [Next]_vars => IInv'
  <2> SUFFICES ASSUME IInv, [Next]_vars PROVE IInv'
    OBVIOUS
  <2>1. CASE UNCHANGED vars
    <3> USE <2>1 DEF vars
    <3>1. TypeOK'
      BY DEF IInv, TypeOK
    <3>2. SemMatchesQueue'
      BY DEF IInv, SemMatchesQueue, Claims
    <3>3. NoneLost'
      BY DEF IInv, NoneLost, Hands
    <3>4. Seen' /\ BusyOnlyWhenTaken'
      BY DEF IInv, Seen, BusyOnlyWhenTaken
    <3>5. QED
      BY <3>1, <3>2, <3>3, <3>4 DEF IInv
  <2>2. CASE Next
    <3>1. PICK w \in Worker : Call(w) \/ Step(w)
      BY <2>2 DEF Next
    <3>2. aborted = "no" /\ Counted
      BY <2>2 DEF Next, IInv, Counted
    <3>3. QED
      BY <3>1, <3>2, PoolStep, StepLosesNothing, StepSees DEF IInv, Counted
  <2>3. QED
    BY <2>1, <2>2
<1>3. QED
  BY <1>1, <1>2, PTL DEF SafeSpec

\* GetConn's second look at the queue (sqlconnpool.cpp:59) is safe without a test: the
\* semaphore counts what is queued and not claimed.
THEOREM SemExact == SafeSpec => []SemMatchesQueue
<1>1. IInv => SemMatchesQueue
  BY DEF IInv
<1>2. QED
  BY <1>1, PoolSound, PTL

\* No connection is lost, on any path through UserVerify (httprequest.cpp:258).
THEOREM NoneIsLost == SafeSpec => []NoneLost
<1>1. IInv => NoneLost
  BY DEF IInv
<1>2. QED
  BY <1>1, PoolSound, PTL

\* The unlocked look at the queue (sqlconnpool.cpp:51) finds it empty only if each
\* connection has been in the hands of a worker since it began.
THEOREM BusyIsTaken == SafeSpec => []BusyOnlyWhenTaken
<1>1. IInv => BusyOnlyWhenTaken
  BY DEF IInv
<1>2. QED
  BY <1>1, PoolSound, PTL
===============================================================================
