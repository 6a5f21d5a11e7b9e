--------------------------- MODULE RankingService ---------------------------
(***************************************************************************)
(* The ranking, a sorted set in Redis, as the program uses it              *)
(* (ranking/RankingService.cpp, main.cpp:20-31, http/httpconn.cpp:119-123).*)
(*                                                                         *)
(* Workers ask for the top of the ranking, the updater thread asks for the *)
(* first hundred and raises the score of one of them, over one             *)
(* redisContext and without a lock.  A command of hiredis is a sequence of *)
(* library routines on that context, and none of them is atomic: append    *)
(* and write read obuf and store it again, read fetches bytes and feeds    *)
(* them to the reader, get picks a reply and drops it.  Each is two steps  *)
(* here, and other threads may come between them.  Two threads inside      *)
(* routines on one buffer are a data race: what then happens is what the   *)
(* interleaved steps do, or a protocol error, a closed connection, the end *)
(* of the process (Garble, Lose, Die).  Replies that parse but contain     *)
(* other members than Redis sent are left out.                             *)
(*                                                                         *)
(* The ranking is the set of its members; scores change nothing here.      *)
(* Commands and replies carry the thread they belong to (by, to), which    *)
(* the protocol does not: no action looks at it, only OwnReply.  Nor does  *)
(* the program know whether threads have met in a routine (met).           *)
(***************************************************************************)
EXTENDS Naturals, Sequences, FiniteSets

CONSTANTS
  Member,    \* the products InitTestData enters
  Stranger,  \* a member of any other name
  Worker,    \* the threads that serve /rank/top
  Updater,   \* the thread main starts
  Losable,   \* the connection to Redis can be lost
  Nobody,
  MaxOnWay   \* bound of the model: no command is issued with more on the way

ASSUME WorkerAssumption == IsFiniteSet(Worker)

VARIABLES
  ranking,  \* the members of the sorted set
  obuf,     \* commands appended to the context
  wire,     \* commands Redis has not executed
  socket,   \* replies no thread has read
  reader,   \* replies read and not yet taken
  lost,     \* Redis has gone
  err,      \* the context has noticed, and fails from now on
  at,       \* where each thread is in redisCommand
  held,     \* obuf as the thread that appends or writes has read it
  fetched,  \* what the thread that reads has got from the socket
  command,  \* the command each thread has issued last
  reply,    \* the reply it got
  items,    \* what the updater's getRange returned
  met,      \* two threads have been inside routines on one buffer at once
  alive     \* the process has not been killed

context == <<obuf, reader, err>>
redis   == <<ranking, wire, socket, lost>>
hands   == <<held, fetched>>
vars    == <<context, redis, hands, at, command, reply, items, met, alive>>

Thread == Worker \cup {Updater}

\* freeReplyObject accepts the null reply, and so do the callers.
Null == [to |-> Nobody, kind |-> "null", members |-> {}]

-----------------------------------------------------------------------------
(* redisCommand (hiredis), as a thread goes through it *)

\* The stages in which a routine has read a buffer and not stored it yet.
InObuf == {"append", "trim"}
InReader == {"feed", "drop"}

Meeting ==
  \E t, u \in Thread :
    /\ t # u
    /\ \/ {at[t], at[u]} \subseteq InObuf
       \/ {at[t], at[u]} \subseteq InReader

Goto(t, step) ==
  /\ at' = [at EXCEPT ![t] = step]
  /\ met' = (met \/ Meeting')

OnWay == Len(obuf) + Len(wire) + Len(socket) + Len(reader)

\* redisAppendCommand joins the command to the buffer it has read ...
Issue(t, c) ==
  /\ at[t] = "out" /\ OnWay < MaxOnWay
  /\ command' = [command EXCEPT ![t] = c]
  /\ held' = [held EXCEPT ![t] = obuf]
  /\ Goto(t, "append")
  /\ UNCHANGED <<context, redis, fetched, reply, items, alive>>

\* ... and stores the result.
Join(t) ==
  /\ at[t] = "append"
  /\ obuf' = Append(held[t], command[t])
  /\ held' = [held EXCEPT ![t] = <<>>]
  /\ Goto(t, "look")
  /\ UNCHANGED <<reader, err, redis, fetched, command, reply, items, alive>>

\* redisGetReplyFromReader picks the first reply, if there is one ...
Pick(t, otherwise) ==
  /\ IF reader # <<>>
       THEN reply' = [reply EXCEPT ![t] = Head(reader)] /\ Goto(t, "drop")
       ELSE Goto(t, otherwise) /\ UNCHANGED reply
  /\ UNCHANGED <<context, redis, hands, command, items, alive>>

\* (a reply that is already there is taken without writing or reading)
Look(t) == at[t] = "look" /\ Pick(t, "write")
Take(t) == at[t] = "take" /\ Pick(t, "read")

\* ... and moves on behind it.
Drop(t) ==
  /\ at[t] = "drop"
  /\ reader' = IF reader = <<>> THEN <<>> ELSE Tail(reader)
  /\ Goto(t, "parse")
  /\ UNCHANGED <<obuf, err, redis, hands, command, reply, items, alive>>

Return(t, r) ==
  /\ reply' = [reply EXCEPT ![t] = r]
  /\ Goto(t, "parse")

\* redisBufferWrite sends the commands of the context, those of other threads too;
\* a socket whose peer has gone may still take them ...
Write(t) ==
  /\ at[t] = "write" /\ ~err
  /\ wire' = IF lost THEN wire ELSE wire \o obuf
  /\ held' = [held EXCEPT ![t] = obuf]
  /\ Goto(t, "trim")
  /\ UNCHANGED <<context, ranking, socket, lost, fetched, command, reply, items, alive>>

\* ... and removes as much as it has sent, again until nothing is left.
Trim(t) ==
  /\ at[t] = "trim"
  /\ obuf' = SubSeq(obuf, Len(held[t]) + 1, Len(obuf))
  /\ held' = [held EXCEPT ![t] = <<>>]
  /\ Goto(t, IF obuf' = <<>> THEN "read" ELSE "write")
  /\ UNCHANGED <<reader, err, redis, fetched, command, reply, items, alive>>

\* The context has failed, or fails now.
Fails(t) ==
  /\ \/ at[t] \in {"write", "read"} /\ err
     \/ at[t] = "write" /\ lost /\ obuf # <<>>
     \/ at[t] = "read" /\ lost /\ socket = <<>>
  /\ err' = TRUE
  /\ Return(t, Null)
  /\ UNCHANGED <<obuf, reader, redis, hands, command, items, alive>>

\* redisBufferRead fetches what has come, or waits in read(2) for it ...
Read(t) ==
  /\ at[t] = "read" /\ ~err /\ socket # <<>>
  /\ fetched' = [fetched EXCEPT ![t] = socket]
  /\ socket' = <<>>
  /\ Goto(t, "feed")
  /\ UNCHANGED <<context, ranking, wire, lost, held, command, reply, items, alive>>

\* ... and gives it to the reader.
Feed(t) ==
  /\ at[t] = "feed"
  /\ reader' = reader \o fetched[t]
  /\ fetched' = [fetched EXCEPT ![t] = <<>>]
  /\ Goto(t, "take")
  /\ UNCHANGED <<obuf, err, redis, held, command, reply, items, alive>>

\* A race garbles what is in the reader: a protocol error.
Garble ==
  /\ Meeting
  /\ err' = TRUE /\ reader' = <<>>
  /\ UNCHANGED <<obuf, redis, hands, at, command, reply, items, met, alive>>

\* A race destroys the heap, or SIGPIPE, which nobody ignores or handles, comes from a
\* write to a connection that is lost.
Die ==
  /\ Meeting \/ \E t \in Thread : at[t] = "write" /\ lost /\ ~err /\ obuf # <<>>
  /\ alive' = FALSE
  /\ UNCHANGED <<context, redis, hands, at, command, reply, items, met>>

-----------------------------------------------------------------------------
(* Redis *)

Execute ==
  /\ wire # <<>> /\ ~lost
  /\ LET c == Head(wire)
         incr == c.kind = "ZINCRBY"
     IN  /\ ranking' = IF incr THEN ranking \cup {c.member} ELSE ranking
         /\ socket' = Append(socket,
              [to |-> c.by, kind |-> IF incr THEN "score" ELSE "array",
               members |-> IF incr THEN {} ELSE ranking])
  /\ wire' = Tail(wire)
  /\ UNCHANGED <<lost, context, hands, at, command, reply, items, met, alive>>

\* The connection ends, by itself or because Redis cannot read what a race has made of
\* the commands.  Nothing in the program connects again.
Lose ==
  /\ Losable \/ Meeting
  /\ ~lost /\ lost' = TRUE /\ wire' = <<>>
  /\ UNCHANGED <<ranking, socket, context, hands, at, command, reply, items, met, alive>>

-----------------------------------------------------------------------------
(* The callers *)

ZRevRange(t) == [by |-> t, kind |-> "ZREVRANGE", member |-> Stranger]

\* Mutant: the member is named with the prefix that getRank puts before it.
Bug_ZIncrByPrefixed(t, m) == [by |-> t, kind |-> "ZINCRBY", member |-> Stranger]

ZIncrBy(t, m) == [by |-> t, kind |-> "ZINCRBY", member |-> m]

\* getTopN and getRange make items of an array, and none of another reply.
ItemsOf(r) == IF r.kind = "array" THEN r.members ELSE {}

GetTopN(t) == t \in Worker /\ Issue(t, ZRevRange(t))

\* The loop of the updater; the list it holds decides what it does next.
GetRange    == items = {} /\ Issue(Updater, ZRevRange(Updater))

\* Mutant: the command is appended, and nobody takes its reply.
Bug_UpdateScoreAppends ==
  \E m \in items :
    /\ at[Updater] = "out" /\ OnWay < MaxOnWay
    /\ obuf' = Append(obuf, ZIncrBy(Updater, m))
    /\ items' = {}
    /\ UNCHANGED <<reader, err, redis, hands, at, command, reply, met, alive>>

UpdateScore == \E m \in items : Issue(Updater, ZIncrBy(Updater, m))

Parse(t) ==
  /\ at[t] = "parse"
  /\ items' = IF t # Updater THEN items
              ELSE IF command[t].kind = "ZREVRANGE" THEN ItemsOf(reply[t])
              ELSE {}
  /\ reply' = [reply EXCEPT ![t] = Null]
  /\ command' = [command EXCEPT ![t] = ZRevRange(t)]
  /\ Goto(t, "out")
  /\ UNCHANGED <<context, redis, hands, alive>>

-----------------------------------------------------------------------------
\* InitTestData has run before main (a global object's constructor).
Init ==
  /\ ranking = Member
  /\ obuf = <<>> /\ wire = <<>> /\ socket = <<>> /\ reader = <<>>
  /\ lost = FALSE /\ err = FALSE
  /\ at = [t \in Thread |-> "out"] /\ met = FALSE /\ alive = TRUE
  /\ held = [t \in Thread |-> <<>>] /\ fetched = [t \in Thread |-> <<>>]
  /\ command = [t \in Thread |-> ZRevRange(t)]
  /\ reply = [t \in Thread |-> Null]
  /\ items = {}

Step(t) ==
  \/ Join(t) \/ Look(t) \/ Write(t) \/ Trim(t) \/ Read(t) \/ Feed(t)
  \/ Take(t) \/ Drop(t) \/ Fails(t) \/ Parse(t)

Next ==
  /\ alive
  /\ \/ \E t \in Thread : Step(t) \/ GetTopN(t)
     \/ GetRange \/ UpdateScore \/ Execute \/ Lose \/ Garble \/ Die

Fairness ==
  /\ \A t \in Thread : WF_vars(alive /\ Step(t))
  /\ WF_vars(alive /\ (GetRange \/ UpdateScore)) /\ WF_vars(alive /\ Execute)

Spec == Init /\ [][Next]_vars /\ Fairness

-----------------------------------------------------------------------------
(* Properties *)

Command == [by : Thread, kind : {"ZREVRANGE"}, member : {Stranger}]
           \cup [by : Thread, kind : {"ZINCRBY"}, member : Member]

Reply == [to : Thread \cup {Nobody}, kind : {"null", "array", "score"},
          members : SUBSET Member]

Stages == {"out", "append", "look", "write", "trim", "read", "feed", "take", "drop", "parse"}

\* Types, as long as no score of a stranger is raised.
TypeOK ==
  /\ obuf \in Seq(Command) /\ wire \in Seq(Command)
  /\ socket \in Seq(Reply) /\ reader \in Seq(Reply)
  /\ held \in [Thread -> Seq(Command)] /\ fetched \in [Thread -> Seq(Reply)]
  /\ command \in [Thread -> Command] /\ reply \in [Thread -> Reply]
  /\ at \in [Thread -> Stages]
  /\ {lost, err, met, alive} \subseteq BOOLEAN
  /\ items \subseteq Member

\* The threads that have issued a command and not taken a reply off the reader.
Waiting == {t \in Thread : at[t] \notin {"out", "append", "parse"}}

\* A thread gets the reply to its own command, or none: what the updater calls
\* the first hundred is the answer to its ZREVRANGE (main.cpp:22), and what a
\* worker sends as the top ten is the answer to its own, races apart.
OwnReply ==
  \A t \in Thread : at[t] = "parse" /\ ~met => reply[t].to \in {t, Nobody}

\* Every thread comes back from redisCommand, races apart.
EveryCallReturns == \A t \in Thread : at[t] = "look" ~> at[t] = "out" \/ met

\* Mixing up replies does not outlive the calls that overlapped: between calls
\* nothing is left in the context that a later call could take for its own.
NoneLeftOver ==
  (\A t \in Thread : at[t] = "out") /\ ~lost /\ ~err
    => obuf = <<>> /\ wire = <<>> /\ socket = <<>> /\ reader = <<>>

\* Calls that overlap mix up their own replies only.  What is left for later calls to
\* take for theirs comes from a race: from two threads that were inside routines on one
\* buffer at the same time (RankingService.cpp:31, 57, 86).
LeftByMeeting == ~met => NoneLeftOver

\* Whatever reply the updater takes, it raises the score of a product that is
\* in the ranking, and never enters another (main.cpp:23-27).
MembersFixed == ranking = Member

\* The memory of a context does not grow with the number of requests.
UnsentBounded == Len(obuf) <= Cardinality(Thread)

-----------------------------------------------------------------------------
(* The invariant the proofs go by: as long as no two threads have met, a     *)
(* thread inside a routine has its buffer to itself, and as many commands    *)
(* and replies are on their way as threads are waiting for one, whoever of   *)
(* them gets which.                                                          *)

MeetingsSeen == Meeting => met

\* A context fails when the connection is lost, or in a race.
FailureHasCause == err => lost \/ met

Unshared ==
  ~met => \A t \in Thread :
            /\ at[t] \in InObuf => held[t] = obuf
            /\ at[t] = "drop" => reader # <<>>

\* Commands that are still in the buffer while they are on the wire count once.
Unsent == IF \E t \in Thread : at[t] = "trim" THEN 0 ELSE Len(obuf)

Balanced ==
  ~met /\ ~lost =>
    LET there == Unsent + Len(wire) + Len(socket) + Len(reader)
    IN IF \E t \in Thread : at[t] = "feed"
         THEN \A t \in Thread : at[t] = "feed" =>
                there + Len(fetched[t]) = Cardinality(Waiting)
         ELSE there = Cardinality(Waiting)

IInv ==
  /\ TypeOK /\ MeetingsSeen /\ FailureHasCause
  /\ Unshared /\ Balanced /\ MembersFixed
=============================================================================
