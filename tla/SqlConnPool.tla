------------------------------ MODULE SqlConnPool ------------------------------
(***************************************************************************)
(* code/pool/sqlconnpool.cpp and sqlconnRAII.h, with the one function that *)
(* uses them, HttpRequest::UserVerify, run by the workers of the server.   *)
(*                                                                         *)
(* UserVerify takes its connection with                                    *)
(*     SqlConnRAII(&sql, SqlConnPool::Instance());                         *)
(* a temporary, destroyed at the end of that statement: the connection is  *)
(* back in the queue before it is used, and FreeConn at the end of the     *)
(* function puts it there once more.  MySQL answers from a table of users. *)
(* A step is a critical section, a semaphore operation, a query, or the    *)
(* read of one word that another thread may write.                         *)
(***************************************************************************)
EXTENDS Integers, Sequences, FiniteSets

CONSTANTS
  Conn,       \* the connections Init asks MySQL for
  Failed,     \* those it does not get: they are queued as null pointers
  Worker,     \* threads of the server
  Name, Password,
  Unique,     \* the table admits one row per name
  MaxVerify,  \* bound: calls of UserVerify per worker
  None        \* no connection

ASSUME ConnAssumption ==
  /\ IsFiniteSet(Conn) /\ Conn # {} /\ Failed \subseteq Conn /\ None \notin Conn
  /\ IsFiniteSet(Worker)
  /\ MaxVerify \in Nat /\ Unique \in BOOLEAN

VARIABLES
  connQue,    \* SqlConnPool::connQue_
  sem,        \* the value of semId_
  table,      \* MySQL: the rows of table user
  stage,      \* stage[w]: the next step of UserVerify
  request,    \* request[w]: what w verifies
  sql,        \* sql[w]: the local variable
  flag,       \* flag[w]: the local variable
  calls,      \* calls[w]: calls started
  left,       \* left[w]: while w looks at the queue, how much of what it saw is there
  given,      \* given[w], history: the connections in some hands since w looks
  aborted     \* what ended the process: GetConn was busy, a null pointer, or nothing

vars == <<connQue, sem, table, stage, request, sql, flag, calls, left, given, aborted>>

Request == [name : Name, pwd : Password, isLogin : BOOLEAN]
Row == [name : Name, pwd : Password]

Go(w, s) == stage' = [stage EXCEPT ![w] = s]

\* w uses its connection, and so does somebody else.
Using(w) == stage[w] \in {"select", "insert"}
Shared(w) == \E v \in Worker \ {w} : Using(v) /\ sql[v] = sql[w]

\* Taken and not given back by the temporary yet.
Hands == {w \in Worker : stage[w] = "release"}

\* Init pushed the connections in the order it made them.
Init ==
  /\ connQue \in [1..Cardinality(Conn) -> Conn]
  /\ \A c \in Conn : \E i \in DOMAIN connQue : connQue[i] = c
  /\ sem = Cardinality(Conn)
  /\ table = {}
  /\ stage = [w \in Worker |-> "idle"]
  /\ request \in [Worker -> Request]
  /\ sql = [w \in Worker |-> None]
  /\ flag = [w \in Worker |-> FALSE]
  /\ calls = [w \in Worker |-> 0]
  /\ left = [w \in Worker |-> 0]
  /\ given = [w \in Worker |-> {}]
  /\ aborted = "no"

-------------------------------------------------------------------------------
\* UserVerify is called with a name and a password; without either it returns at once.
Call(w) ==
  /\ stage[w] = "idle" /\ calls[w] < MaxVerify
  /\ \E r \in Request :
       /\ request' = [request EXCEPT ![w] = r]
       /\ flag' = [flag EXCEPT ![w] = ~r.isLogin]
  /\ calls' = [calls EXCEPT ![w] = @ + 1]
  /\ Go(w, "look")
  /\ UNCHANGED <<connQue, sem, table, sql, left, given, aborted>>

\* GetConn calls empty() without the lock.  It compares the two ends of the deque, which
\* it reads one after the other: first where the next connection goes ...
Look(w) ==
  /\ stage[w] = "look"
  /\ left' = [left EXCEPT ![w] = Len(connQue)]
  /\ given' = [given EXCEPT ![w] = {sql[v] : v \in Hands}]
  /\ Go(w, "test")
  /\ UNCHANGED <<connQue, sem, table, request, sql, flag, calls, aborted>>

\* Mutant: off by one.
Bug_TestSparesLast(w) ==
  /\ stage[w] = "test"
  /\ IF left[w] <= 1
       THEN aborted' = "busy" /\ UNCHANGED <<stage, left, given>>
       ELSE /\ Go(w, "wait")
            /\ left' = [left EXCEPT ![w] = 0]
            /\ given' = [given EXCEPT ![w] = {}]
            /\ UNCHANGED aborted
  /\ UNCHANGED <<connQue, sem, table, request, sql, flag, calls>>

\* ... then where the first one is: the ends are equal if just what was queued then has
\* been taken.  assert(sql) ends the process if GetConn comes back without a connection.
Test(w) ==
  /\ stage[w] = "test"
  /\ IF left[w] = 0
       THEN aborted' = "busy" /\ UNCHANGED <<stage, left, given>>
       ELSE /\ Go(w, "wait")
            /\ left' = [left EXCEPT ![w] = 0]
            /\ given' = [given EXCEPT ![w] = {}]
            /\ UNCHANGED aborted
  /\ UNCHANGED <<connQue, sem, table, request, sql, flag, calls>>

\* sem_wait.
SemWait(w) ==
  /\ stage[w] = "wait"
  /\ sem > 0
  /\ sem' = sem - 1
  /\ Go(w, "take")
  /\ UNCHANGED <<connQue, table, request, sql, flag, calls, left, given, aborted>>

\* GetConn, the critical section.
Take(w) ==
  /\ stage[w] = "take"
  /\ sql' = [sql EXCEPT ![w] = Head(connQue)]
  /\ connQue' = Tail(connQue)
  /\ left' = [v \in Worker |-> IF stage[v] = "test" THEN left[v] - 1 ELSE 0]
  /\ given' = [v \in Worker |->
                 IF stage[v] = "test" THEN given[v] \cup {Head(connQue)} ELSE {}]
  /\ Go(w, "release")
  /\ UNCHANGED <<sem, table, request, flag, calls, aborted>>

\* Mutant: FreeConn does not post.
Bug_FreeConnNoPost(c) == connQue' = Append(connQue, c) /\ UNCHANGED sem

\* FreeConn, the critical section.
FreeConn(c) == connQue' = Append(connQue, c) /\ sem' = sem + 1

\* Mutant: the guard object is there, but its destructor does nothing.
Bug_ReleaseNothing(w) ==
  /\ stage[w] = "release"
  /\ IF sql[w] \in Failed
       THEN aborted' = "null" /\ UNCHANGED stage
       ELSE Go(w, "select") /\ UNCHANGED aborted
  /\ UNCHANGED <<connQue, sem, table, request, sql, flag, calls, left, given>>

\* The temporary is destroyed; a null pointer is not given back, and assert(sql)
\* finds it.
Release(w) ==
  /\ stage[w] = "release"
  /\ IF sql[w] \in Failed
       THEN aborted' = "null" /\ UNCHANGED <<connQue, sem, stage>>
       ELSE FreeConn(sql[w]) /\ Go(w, "select") /\ UNCHANGED aborted
  /\ UNCHANGED <<table, request, sql, flag, calls, left, given>>

\* Everything the query can answer: the rows of that name, or anything if another
\* thread uses the connection too.
Answer(w) ==
  IF Shared(w) THEN {{}} \cup {{r} : r \in Row}
  ELSE LET found == {r \in table : r.name = request[w].name}
       IN IF found = {} THEN {{}} ELSE {{r} : r \in found}

\* SELECT fails: UserVerify returns at once.
SelectFails(w) ==
  /\ stage[w] = "select"
  /\ sql' = [sql EXCEPT ![w] = None]
  /\ Go(w, "idle")
  /\ UNCHANGED <<connQue, sem, table, request, flag, calls, left, given, aborted>>

\* SELECT succeeds and its result cannot be fetched: mysql_store_result returns a null
\* pointer, which mysql_num_fields follows.
SelectNoResult(w) ==
  /\ stage[w] = "select"
  /\ aborted' = "null"
  /\ UNCHANGED <<connQue, sem, table, stage, request, sql, flag, calls, left, given>>

\* SELECT with LIMIT 1: a login needs the password, a registration a free name.
Select(w) ==
  /\ stage[w] = "select"
  /\ \E found \in Answer(w) :
       LET ok == IF request[w].isLogin
                   THEN \E r \in found : r.pwd = request[w].pwd
                   ELSE found = {}
       IN /\ flag' = [flag EXCEPT ![w] = ok]
          /\ Go(w, IF ~request[w].isLogin /\ ok THEN "insert" ELSE "free")
  /\ UNCHANGED <<connQue, sem, table, request, sql, calls, left, given, aborted>>

\* INSERT; the flag is TRUE whatever became of it.
Insert(w) ==
  /\ stage[w] = "insert"
  /\ LET row == [name |-> request[w].name, pwd |-> request[w].pwd]
     IN \/ UNCHANGED table
        \/ /\ ~Unique \/ \A r \in table : r.name # row.name
           /\ table' = table \cup {row}
  /\ Go(w, "free")
  /\ UNCHANGED <<connQue, sem, request, sql, flag, calls, left, given, aborted>>

\* UserVerify returns the connection and its flag.
Free(w) ==
  /\ stage[w] = "free"
  /\ FreeConn(sql[w])
  /\ sql' = [sql EXCEPT ![w] = None]
  /\ Go(w, "idle")
  /\ UNCHANGED <<table, request, flag, calls, left, given, aborted>>

Step(w) ==
  \/ Look(w) \/ Test(w) \/ SemWait(w) \/ Take(w) \/ Release(w)
  \/ Select(w) \/ SelectFails(w) \/ SelectNoResult(w) \/ Insert(w) \/ Free(w)

Next == aborted = "no" /\ \E w \in Worker : Call(w) \/ Step(w)

\* Threads run, and MySQL answers.
Fairness == \A w \in Worker : WF_vars(aborted = "no" /\ Step(w))

SafeSpec == Init /\ [][Next]_vars
Spec == SafeSpec /\ Fairness

-------------------------------------------------------------------------------
Stage == {"idle", "look", "test", "wait", "take", "release", "select", "insert", "free"}

\* Type correctness: only connections are queued and used.
TypeOK ==
  /\ connQue \in Seq(Conn)
  /\ sem \in Nat
  /\ table \subseteq Row
  /\ stage \in [Worker -> Stage]
  /\ request \in [Worker -> Request]
  /\ sql \in [Worker -> Conn \cup {None}]
  /\ \A w \in Worker : stage[w] \in {"release", "select", "insert", "free"} => sql[w] \in Conn
  /\ flag \in [Worker -> BOOLEAN]
  /\ calls \in [Worker -> Nat]
  /\ left \in [Worker -> Int]
  /\ given \in [Worker -> SUBSET (Conn \cup {None})]
  /\ aborted \in {"no", "busy", "null"}

\* Between sem_wait and the critical section a worker has a claim on a connection.
Claims == {w \in Worker : stage[w] = "take"}

\* The semaphore counts what is queued and not claimed, in spite of connections that
\* are returned twice: a claim never meets an empty queue, and nobody waits for a
\* connection that is there.
SemMatchesQueue == Len(connQue) = sem + Cardinality(Claims)

\* No connection is lost: each is queued, or in the hands of a worker that is about
\* to return it.
NoneLost ==
  aborted = "no" => \A c \in Conn \ Failed :
    (\E i \in 1..Len(connQue) : connQue[i] = c) \/ (\E w \in Hands : sql[w] = c)

\* Who looks at the queue finds a connection among what was queued at the first look and
\* still is, unless it has been in hands since.
Seen ==
  \A w \in Worker : stage[w] = "test" =>
    /\ left[w] <= Len(connQue)
    /\ \A c \in Conn \ Failed :
         c \in given[w] \/ \E i \in 1..Len(connQue) : i <= left[w] /\ connQue[i] = c

\* GetConn comes back without a connection, and assert(sql) ends the process, only if
\* every connection has been in the hands of a worker while it looked.  It may have come
\* back into the queue since: that look takes no lock (sqlconnpool.cpp:51).
BusyOnlyWhenTaken ==
  aborted = "busy" =>
    \E w \in Worker : stage[w] = "test" /\ Conn \ Failed \subseteq given[w]

IInv == TypeOK /\ SemMatchesQueue /\ NoneLost /\ Seen /\ BusyOnlyWhenTaken

\* A verification that began ends, or the process does: nobody waits in sem_wait for
\* ever.
EveryVerifyEnds ==
  \A w \in Worker : stage[w] # "idle" ~> (stage[w] = "idle" \/ aborted # "no")

-------------------------------------------------------------------------------
\* sqlconnpool.cpp:48: GetConn hands out an idle connection.
GivenIdle ==
  [][\A w \in Worker : stage[w] = "take" /\ stage'[w] = "release" =>
       ~ \E v \in Worker : Using(v) /\ sql[v] = sql'[w]]_vars

\* sqlconnpool.cpp:51: GetConn reports busy when no connection is idle.
BusyNow ==
  aborted = "busy" => \A c \in Conn \ Failed : \E w \in Hands : sql[w] = c

\* sqlconnpool.h:35: the pool has at most MAX_CONN_ connections.
PoolBounded == Len(connQue) <= Cardinality(Conn)

\* httprequest.cpp:235: UserVerify returns whether it succeeded.
RegisterTold ==
  \A w \in Worker :
    stage[w] = "free" /\ flag[w] /\ ~request[w].isLogin =>
      [name |-> request[w].name, pwd |-> request[w].pwd] \in table
===============================================================================
