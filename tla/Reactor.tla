-------------------------------- MODULE Reactor --------------------------------
(***************************************************************************)
(* code/server/webserver.cpp with the parts it drives: Epoller, the        *)
(* life cycle of HttpConn, the set of armed timers, and the thread pool,   *)
(* which is used through its promise (TaskPool).                           *)
(*                                                                         *)
(* The main thread runs Start: it fires expired timers, waits for events   *)
(* and handles them one by one.  Workers run OnRead_ and OnWrite_.  Both   *)
(* close connections.  users_[fd] is the HttpConn of descriptor fd for the *)
(* whole life of the server, so a connection is named by its descriptor.   *)
(* A step ends where another thread can see or change what the code        *)
(* touched: the system calls and each access to isClose_.                  *)
(***************************************************************************)
EXTENDS Integers, Sequences, FiniteSets

CONSTANTS
  Fd,         \* descriptors the process may have open for clients
  Client,     \* peers
  Worker,     \* threads of the pool
  Main,       \* the thread in Start
  Listen,     \* listenFd_
  Idle,       \* no task
  NoOne,      \* no peer
  MAX_FD,     \* WebServer::MAX_FD
  MaxEvent,   \* size of Epoller::events_
  RcvBuf,     \* room in a socket's receive buffer, in requests
  RespLen,    \* length of a response
  SndBuf,     \* room in a socket's send buffer
  LowWater,   \* the 10240 of HttpConn::write
  ConnET,     \* connEvent_ & EPOLLET
  ListenET,   \* listenEvent_ & EPOLLET
  Timeouts,   \* timeoutMS_ > 0
  SlowTasks,  \* a task may still be queued or running when its timer expires
  Resets,     \* a peer may abort the connection
  Again       \* a peer may connect again when the server has closed its connection

ASSUME NameAssumption ==
  /\ Main \notin Worker
  /\ Listen \notin Fd
  /\ NoOne \notin Client

ASSUME SizeAssumption ==
  /\ IsFiniteSet(Fd)
  /\ MAX_FD \in Nat \ {0} /\ MaxEvent \in Nat \ {0} /\ RespLen \in Nat \ {0}
  /\ RcvBuf \in Nat /\ SndBuf \in Nat /\ LowWater \in Nat

ASSUME ModeAssumption ==
  {ConnET, ListenET, Timeouts, SlowTasks, Resets, Again} \subseteq BOOLEAN

VARIABLES
  sock,       \* kernel: sock[fd] is the peer of the open socket fd, or NoOne
  interest,   \* epoll: what fd is registered for
  backlog,    \* kernel: queue of peers connected and not accepted
  edge,       \* kernel: a connection arrived since epoll reported listenFd_
  peer,       \* peer[c]: what the client has done
  unread,     \* unread[c]: requests in the receive buffer
  sndq,       \* sndq[c]: bytes in the send buffer
  isClose,    \* HttpConn::isClose_
  readBuff,   \* HttpConn::readBuff_, in requests
  out,        \* HttpConn::ToWriteBytes()
  keep,       \* HttpConn::IsKeepAlive()
  userCount,  \* HttpConn::userCount
  timer,      \* descriptors with a node in HeapTimer
  tasks,      \* queue of the pool
  job,        \* job[w]: the task w runs
  stage,      \* stage[t]: the next step of thread t
  ticking,    \* the main thread is inside GetNextTick
  victim,     \* the connection the main thread is closing
  batch,      \* events of the last Wait not handled yet
  alive       \* no signal has killed the process

kernel == <<sock, interest, backlog, edge, alive>>
client == <<peer, unread, sndq>>
conn == <<isClose, readBuff, out, keep, userCount>>
pool == <<tasks, job>>
main == <<timer, ticking, victim, batch>>
vars == <<kernel, client, conn, pool, main, stage>>

Thread == Worker \cup {Main}
ReactorTask == [op : {"read", "write"}, conn : Fd]

ASSUME IdleAssumption == Idle \notin ReactorTask

Event == [conn : Fd \cup {Listen}, ev : {"in", "out", "hup"}]

\* del, check, mark and shut are the steps of CloseConn_.
Closing == {"del", "check", "mark", "shut"}
WorkerStage == {"serve", "armIn", "armOut"} \cup Closing
MainStage == {"tick", "pop", "wait", "events", "accept"} \cup Closing

Pool == INSTANCE TaskPool WITH queue <- tasks, Task <- ReactorTask

Lesser(m, n) == IF m < n THEN m ELSE n

Armed(fd) == interest[fd] \in {"in", "out"}
InBatch(fd) == \E e \in batch : e.conn = fd
Waits(c) == \E i \in 1..Len(backlog) : backlog[i] = c
Queued(fd) == \E i \in 1..Len(tasks) : tasks[i].conn = fd
HeldBy(w, fd) == job[w] # Idle /\ job[w].conn = fd
Busy(fd) == Queued(fd) \/ \E w \in Worker : HeldBy(w, fd)

\* Main has a connection to close, from a timer or a hang-up event.
MainCloses(fd) == stage[Main] \in Closing /\ victim = fd

-------------------------------------------------------------------------------
(* The server has been constructed.                                         *)

\* InitSocket_ has succeeded: the server listens, and nobody has connected.
ListenInit ==
  /\ sock = [fd \in Fd |-> NoOne]
  /\ interest = [fd \in Fd |-> "none"]
  /\ backlog = <<>>
  /\ edge = FALSE

\* An HttpConn that has never been opened.
ConnInit ==
  /\ isClose = [fd \in Fd |-> TRUE]
  /\ readBuff = [fd \in Fd |-> 0]
  /\ out = [fd \in Fd |-> 0]
  /\ keep = [fd \in Fd |-> FALSE]

Init ==
  /\ ListenInit /\ ConnInit
  /\ alive = TRUE
  /\ userCount = 0
  /\ peer = [c \in Client |-> "away"]
  /\ unread = [c \in Client |-> 0]
  /\ sndq = [c \in Client |-> 0]
  /\ timer = {}
  /\ Pool!Init
  /\ stage = [t \in Thread |-> IF t = Main THEN "tick" ELSE "serve"]
  /\ ticking = TRUE
  /\ victim \in Fd
  /\ batch = {}

-------------------------------------------------------------------------------
(* Clients and the kernel.                                                 *)

Connect(c) ==
  /\ peer[c] = "away"
  /\ peer' = [peer EXCEPT ![c] = "live"]
  /\ backlog' = Append(backlog, c)
  /\ edge' = TRUE
  /\ UNCHANGED <<sock, interest, alive, unread, sndq, conn, pool, main, stage>>

Send(c) ==
  /\ peer[c] = "live"
  /\ unread[c] < RcvBuf
  /\ unread' = [unread EXCEPT ![c] = @ + 1]
  /\ UNCHANGED <<kernel, peer, sndq, conn, pool, main, stage>>

Shutdown(c) ==
  /\ peer[c] = "live"
  /\ peer' = [peer EXCEPT ![c] = "fin"]
  /\ UNCHANGED <<kernel, unread, sndq, conn, pool, main, stage>>

Reset(c) ==
  /\ Resets
  /\ peer[c] \in {"live", "fin"}
  /\ peer' = [peer EXCEPT ![c] = "reset"]
  /\ UNCHANGED <<kernel, unread, sndq, conn, pool, main, stage>>

Drain(c) ==
  /\ peer[c] \in {"live", "fin"}
  /\ \E n \in 0..sndq[c] - 1 : sndq' = [sndq EXCEPT ![c] = n]
  /\ UNCHANGED <<kernel, peer, unread, conn, pool, main, stage>>

\* What becomes of a peer whose connection the server has closed.
Over == IF Again THEN "away" ELSE "gone"

\* The kernel's side of close(fd): the peer is cut off and epoll forgets fd.
CloseSocket(fd) ==
  /\ interest' = [interest EXCEPT ![fd] = "none"]
  /\ IF sock[fd] = NoOne
       THEN UNCHANGED <<sock, peer, unread, sndq>>
       ELSE /\ sock' = [sock EXCEPT ![fd] = NoOne]
            /\ peer' = [peer EXCEPT ![sock[fd]] = Over]
            /\ unread' = [unread EXCEPT ![sock[fd]] = 0]
            /\ sndq' = [sndq EXCEPT ![sock[fd]] = 0]
  /\ UNCHANGED <<backlog, edge, alive>>

HungUp(c) == peer[c] \in {"fin", "reset"}

\* Mutant: the listening socket is registered edge-triggered in every mode.
Bug_ReadyEdgeListener ==
  {e \in [conn : Fd, ev : {"hup"}] :
     Armed(e.conn) /\ sock[e.conn] # NoOne /\ HungUp(sock[e.conn])}
  \cup {e \in [conn : Fd, ev : {"in"}] :
     /\ interest[e.conn] = "in" /\ sock[e.conn] # NoOne
     /\ ~HungUp(sock[e.conn]) /\ unread[sock[e.conn]] > 0}
  \cup {e \in [conn : Fd, ev : {"out"}] :
     /\ interest[e.conn] = "out" /\ sock[e.conn] # NoOne
     /\ ~HungUp(sock[e.conn]) /\ sndq[sock[e.conn]] < SndBuf}
  \cup {e \in [conn : {Listen}, ev : {"in"}] : edge}

\* What epoll_wait can report now.  A descriptor re-registered by ModFd is
\* reported again if its condition already holds, edge-triggered or not.
Ready ==
  {e \in [conn : Fd, ev : {"hup"}] :
     Armed(e.conn) /\ sock[e.conn] # NoOne /\ HungUp(sock[e.conn])}
  \cup {e \in [conn : Fd, ev : {"in"}] :
     /\ interest[e.conn] = "in" /\ sock[e.conn] # NoOne
     /\ ~HungUp(sock[e.conn]) /\ unread[sock[e.conn]] > 0}
  \cup {e \in [conn : Fd, ev : {"out"}] :
     /\ interest[e.conn] = "out" /\ sock[e.conn] # NoOne
     /\ ~HungUp(sock[e.conn]) /\ sndq[sock[e.conn]] < SndBuf}
  \cup {e \in [conn : {Listen}, ev : {"in"}] :
     IF ListenET THEN edge ELSE backlog # <<>>}

-------------------------------------------------------------------------------
(* CloseConn_, run by the main thread on victim and by a worker on the      *)
(* connection of its task.                                                  *)

Subject(t) == IF t = Main THEN victim ELSE job[t].conn

Go(t, next) == stage' = [stage EXCEPT ![t] = next]

\* CloseConn_ returns: to the timer heap or the event loop in the main thread,
\* to the pool in a worker.
Return(t) ==
  IF t = Main
    THEN Go(Main, IF ticking THEN "pop" ELSE "events") /\ UNCHANGED pool
    ELSE Go(t, "serve") /\ Pool!Finish(t)

\* Mutant: CloseConn_ leaves the epoll registration to close().
Bug_DelSkipped(t) ==
  /\ stage[t] = "del"
  /\ Go(t, "check")
  /\ UNCHANGED <<kernel, client, conn, pool, main>>

\* epoller_->DelFd; a descriptor that is not registered is left alone.
Del(t) ==
  /\ stage[t] = "del"
  /\ interest' = [interest EXCEPT ![Subject(t)] = "none"]
  /\ Go(t, "check")
  /\ UNCHANGED <<sock, backlog, edge, alive, client, conn, pool, main>>

\* Mutant: Close does not look at isClose_.
Bug_CheckDropped(t) ==
  /\ stage[t] = "check"
  /\ Go(t, "mark")
  /\ UNCHANGED <<kernel, client, conn, pool, main>>

\* HttpConn::Close reads isClose_ ...
Check(t) ==
  /\ stage[t] = "check"
  /\ IF isClose[Subject(t)] THEN Return(t) ELSE Go(t, "mark") /\ UNCHANGED pool
  /\ UNCHANGED <<kernel, client, conn, main>>

\* Mutant: Close forgets the counter.
Bug_MarkUncounted(t) ==
  /\ stage[t] = "mark"
  /\ isClose' = [isClose EXCEPT ![Subject(t)] = TRUE]
  /\ Go(t, "shut")
  /\ UNCHANGED <<kernel, client, readBuff, out, keep, userCount, pool, main>>

\* ... sets it and counts down, which is one step here: in between, accept may turn one
\* more client away, as it may just before ...
Mark(t) ==
  /\ stage[t] = "mark"
  /\ isClose' = [isClose EXCEPT ![Subject(t)] = TRUE]
  /\ userCount' = userCount - 1
  /\ Go(t, "shut")
  /\ UNCHANGED <<kernel, client, readBuff, out, keep, pool, main>>

\* ... and closes whatever socket the descriptor names by now.
Shut(t) ==
  /\ stage[t] = "shut"
  /\ CloseSocket(Subject(t))
  /\ Return(t)
  /\ UNCHANGED <<conn, main>>

CloseStep(t) == Del(t) \/ Check(t) \/ Mark(t) \/ Shut(t)

-------------------------------------------------------------------------------
(* The main thread.                                                         *)

\* tick: the timer of fd has expired and its callback is CloseConn_.
TickFire(fd) ==
  /\ stage[Main] = "tick"
  /\ fd \in timer
  /\ SlowTasks \/ ~Busy(fd)
  /\ victim' = fd
  /\ Go(Main, "del")
  /\ UNCHANGED <<kernel, client, conn, pool, timer, ticking, batch>>

\* tick, after the callback.
Pop ==
  /\ stage[Main] = "pop"
  /\ timer' = timer \ {victim}
  /\ Go(Main, "tick")
  /\ UNCHANGED <<kernel, client, conn, pool, ticking, victim, batch>>

\* No further timer has expired.
TickEnd ==
  /\ stage[Main] = "tick"
  /\ ticking' = FALSE
  /\ Go(Main, "wait")
  /\ UNCHANGED <<kernel, client, conn, pool, timer, victim, batch>>

\* Mutant: connEvent_ without EPOLLONESHOT.
Bug_WaitKeepsArmed ==
  /\ stage[Main] = "wait"
  /\ Ready # {}
  /\ \E S \in SUBSET Ready :
       /\ Cardinality(S) = Lesser(MaxEvent, Cardinality(Ready))
       /\ batch' = S
       /\ edge' = (edge /\ \A e \in S : e.conn # Listen)
  /\ Go(Main, "events")
  /\ UNCHANGED <<sock, interest, backlog, alive, client, conn, pool, timer, ticking, victim>>

\* Epoller::Wait returns events and EPOLLONESHOT disarms their descriptors.
WaitEvents ==
  /\ stage[Main] = "wait"
  /\ Ready # {}
  /\ \E S \in SUBSET Ready :
       /\ Cardinality(S) = Lesser(MaxEvent, Cardinality(Ready))
       /\ batch' = S
       /\ interest' = [fd \in Fd |->
            IF \E e \in S : e.conn = fd THEN "off" ELSE interest[fd]]
       /\ edge' = (edge /\ \A e \in S : e.conn # Listen)
  /\ Go(Main, "events")
  /\ UNCHANGED <<sock, backlog, alive, client, conn, pool, timer, ticking, victim>>

\* It returns nothing when the time given by GetNextTick is over.  Without a timer that
\* time is negative, which means none; with one it is negative if the first deadline passes
\* before GetNextTick looks at the clock again (heaptimer.cpp:137; HeapTimer), so this step
\* need not come.
WaitTimeout ==
  /\ stage[Main] = "wait"
  /\ timer # {}
  /\ Ready = {}
  /\ ticking' = TRUE
  /\ Go(Main, "tick")
  /\ UNCHANGED <<kernel, client, conn, pool, timer, victim, batch>>

\* The branches of the event loop, in the order of its tests.
HandleListen(e) ==
  /\ stage[Main] = "events" /\ e \in batch
  /\ e.conn = Listen
  /\ batch' = batch \ {e}
  /\ Go(Main, "accept")
  /\ UNCHANGED <<kernel, client, conn, pool, timer, ticking, victim>>

HandleHangUp(e) ==
  /\ stage[Main] = "events" /\ e \in batch
  /\ e.conn # Listen /\ e.ev = "hup"
  /\ victim' = e.conn
  /\ batch' = batch \ {e}
  /\ Go(Main, "del")
  /\ UNCHANGED <<kernel, client, conn, pool, timer, ticking>>

\* DealRead_ and DealWrite_.  ExtentTime_ moves the timer's expiry, which the
\* model does not keep.
Dispatch(e) ==
  /\ stage[Main] = "events" /\ e \in batch
  /\ e.conn # Listen /\ e.ev # "hup"
  /\ Pool!Submit([op |-> IF e.ev = "in" THEN "read" ELSE "write", conn |-> e.conn])
  /\ batch' = batch \ {e}
  /\ UNCHANGED <<kernel, client, conn, timer, ticking, victim, stage>>

EventsDone ==
  /\ stage[Main] = "events"
  /\ batch = {}
  /\ ticking' = TRUE
  /\ Go(Main, "tick")
  /\ UNCHANGED <<kernel, client, conn, pool, timer, victim, batch>>

FreeFd == {fd \in Fd : sock[fd] = NoOne}

\* accept finds nobody waiting, or no descriptor to give: DealListen_ returns.
AcceptFails ==
  /\ stage[Main] = "accept"
  /\ backlog = <<>> \/ FreeFd = {}
  /\ Go(Main, "events")
  /\ UNCHANGED <<kernel, client, conn, pool, main>>

\* accept succeeds with too many users: SendError_ closes the socket at once.
AcceptBusy ==
  /\ stage[Main] = "accept"
  /\ backlog # <<>> /\ FreeFd # {}
  /\ userCount >= MAX_FD
  /\ backlog' = Tail(backlog)
  /\ peer' = [peer EXCEPT ![Head(backlog)] = Over]
  /\ unread' = [unread EXCEPT ![Head(backlog)] = 0]
  /\ Go(Main, "events")
  /\ UNCHANGED <<sock, interest, edge, alive, sndq, conn, pool, main>>

\* Mutant: AddClient_ sets no timer.
Bug_AcceptUntimed ==
  /\ stage[Main] = "accept"
  /\ backlog # <<>> /\ userCount < MAX_FD
  /\ \E fd \in FreeFd :
       /\ sock' = [sock EXCEPT ![fd] = Head(backlog)]
       /\ interest' = [interest EXCEPT ![fd] = "in"]
       /\ isClose' = [isClose EXCEPT ![fd] = FALSE]
       /\ readBuff' = [readBuff EXCEPT ![fd] = 0]
  /\ backlog' = Tail(backlog)
  /\ userCount' = userCount + 1
  /\ Go(Main, IF ListenET THEN "accept" ELSE "events")
  /\ UNCHANGED <<edge, alive, client, out, keep, pool, main>>

\* accept succeeds and AddClient_ sets the connection, its timer and its
\* registration up; an edge-triggered listener accepts again.
AcceptClient ==
  /\ stage[Main] = "accept"
  /\ backlog # <<>> /\ userCount < MAX_FD
  /\ \E fd \in FreeFd :
       /\ sock' = [sock EXCEPT ![fd] = Head(backlog)]
       /\ interest' = [interest EXCEPT ![fd] = "in"]
       /\ isClose' = [isClose EXCEPT ![fd] = FALSE]
       /\ readBuff' = [readBuff EXCEPT ![fd] = 0]
       /\ timer' = IF Timeouts THEN timer \cup {fd} ELSE timer
  /\ backlog' = Tail(backlog)
  /\ userCount' = userCount + 1
  /\ Go(Main, IF ListenET THEN "accept" ELSE "events")
  /\ UNCHANGED <<edge, alive, client, out, keep, pool, ticking, victim, batch>>

\* What the main thread does without being delayed by epoll_wait.
MainWork ==
  \/ \E fd \in Fd : TickFire(fd)
  \/ Pop \/ TickEnd \/ WaitEvents \/ EventsDone
  \/ \E e \in batch : HandleListen(e) \/ HandleHangUp(e) \/ Dispatch(e)
  \/ AcceptFails \/ AcceptBusy \/ AcceptClient
  \/ CloseStep(Main)

MainStep == MainWork \/ WaitTimeout

-------------------------------------------------------------------------------
(* The workers.                                                             *)

Begin(w) ==
  /\ Pool!Start(w)
  /\ UNCHANGED <<kernel, client, conn, main, stage>>

\* HttpConn::process on n buffered requests, then OnProcess chooses what to wait
\* for.  Without input the iovec stays as it is, with rest to send.  Otherwise a
\* response is prepared for whatever parse makes of the buffer; the connection is
\* kept only if parse consumed a request, and if not, nobody looks at what is left
\* in the buffer again.
Process(w, fd, n, rest) ==
  \/ /\ n = 0
     /\ readBuff' = [readBuff EXCEPT ![fd] = 0]
     /\ out' = [out EXCEPT ![fd] = rest]
     /\ keep' = [keep EXCEPT ![fd] = FALSE]
     /\ Go(w, "armIn")
  \/ /\ n > 0
     /\ \/ keep' = [keep EXCEPT ![fd] = FALSE] /\ readBuff' = [readBuff EXCEPT ![fd] = 0]
        \/ /\ keep' = [keep EXCEPT ![fd] = TRUE]
           /\ \E left \in 0..n - 1 : readBuff' = [readBuff EXCEPT ![fd] = left]
     /\ out' = [out EXCEPT ![fd] = RespLen]
     /\ Go(w, "armOut")

Serving(w, op) == job[w] # Idle /\ job[w].op = op /\ stage[w] = "serve"

\* OnRead_ gets data; edge-triggered, read() goes on until nothing is left.
ReadData(w) ==
  /\ Serving(w, "read")
  /\ LET fd == job[w].conn
         c == sock[fd]
     IN /\ c # NoOne
        /\ IF ConnET THEN ~HungUp(c) ELSE HungUp(c) => unread[c] > 0
        /\ \E n \in IF ConnET \/ unread[c] = 0 THEN {unread[c]} ELSE 1..unread[c] :
             /\ unread' = [unread EXCEPT ![c] = @ - n]
             /\ Process(w, fd, readBuff[fd] + n, out[fd])
  /\ UNCHANGED <<kernel, peer, sndq, isClose, userCount, pool, main>>

\* Mutant: OnRead_ returns on an error and leaves the connection.
Bug_ReadFailsReturns(w) ==
  /\ Serving(w, "read")
  /\ LET c == sock[job[w].conn]
     IN c # NoOne => HungUp(c) /\ (ConnET \/ unread[c] = 0)
  /\ Return(w)
  /\ UNCHANGED <<kernel, client, conn, main>>

\* OnRead_ ends with end of file, an aborted peer or a closed descriptor.
ReadFails(w) ==
  /\ Serving(w, "read")
  /\ LET c == sock[job[w].conn]
     IN c # NoOne => HungUp(c) /\ (ConnET \/ unread[c] = 0)
  /\ Go(w, "del")
  /\ UNCHANGED <<kernel, client, conn, pool, main>>

\* The peer of fd takes what is written to it.
Writable(fd) == sock[fd] # NoOne /\ peer[sock[fd]] # "reset"
Room(fd) == SndBuf - sndq[sock[fd]]

\* OnWrite_ sends all that is left: next request, or close.
WriteAll(w) ==
  /\ Serving(w, "write")
  /\ LET fd == job[w].conn
         c == sock[fd]
     IN /\ IF out[fd] = 0 THEN UNCHANGED sndq
           ELSE /\ Writable(fd) /\ out[fd] <= Room(fd)
                /\ sndq' = [sndq EXCEPT ![c] = @ + out[fd]]
        /\ IF keep[fd] THEN Process(w, fd, readBuff[fd], 0)
           ELSE /\ out' = [out EXCEPT ![fd] = 0]
                /\ Go(w, "del")
                /\ UNCHANGED <<readBuff, keep>>
  /\ UNCHANGED <<kernel, peer, unread, isClose, userCount, pool, main>>

\* Mutant: a partial write ends the connection unless nothing was written.
Bug_WritePartCloses(w) ==
  /\ Serving(w, "write")
  /\ LET fd == job[w].conn
         c == sock[fd]
         rest == out[fd] - Room(fd)
     IN /\ Writable(fd) /\ rest > 0
        /\ sndq' = [sndq EXCEPT ![c] = SndBuf]
        /\ out' = [out EXCEPT ![fd] = rest]
        /\ Go(w, IF Room(fd) = 0 THEN "armOut" ELSE "del")
  /\ UNCHANGED <<kernel, peer, unread, isClose, readBuff, keep, userCount, pool, main>>

\* Mutant: the iovec is not advanced.
Bug_WritePartRepeats(w) ==
  /\ Serving(w, "write")
  /\ LET fd == job[w].conn
         c == sock[fd]
         rest == out[fd] - Room(fd)
     IN /\ Writable(fd) /\ rest > 0
        /\ sndq' = [sndq EXCEPT ![c] = SndBuf]
        /\ Go(w, IF ConnET \/ Room(fd) = 0 \/ rest > LowWater THEN "armOut" ELSE "del")
  /\ UNCHANGED <<kernel, peer, unread, conn, pool, main>>

\* OnWrite_ fills the send buffer.  write() comes back with EAGAIN if it tried
\* again, and with a positive count if it did not: level-triggered with at most
\* LowWater left.
WritePart(w) ==
  /\ Serving(w, "write")
  /\ LET fd == job[w].conn
         c == sock[fd]
         rest == out[fd] - Room(fd)
     IN /\ Writable(fd) /\ rest > 0
        /\ sndq' = [sndq EXCEPT ![c] = SndBuf]
        /\ out' = [out EXCEPT ![fd] = rest]
        /\ Go(w, IF ConnET \/ Room(fd) = 0 \/ rest > LowWater THEN "armOut" ELSE "del")
  /\ UNCHANGED <<kernel, peer, unread, isClose, readBuff, keep, userCount, pool, main>>

\* OnWrite_ gets an error from the socket.
WriteFails(w) ==
  /\ Serving(w, "write")
  /\ LET fd == job[w].conn IN out[fd] > 0 /\ ~Writable(fd)
  /\ Go(w, "del")
  /\ UNCHANGED <<kernel, client, conn, pool, main>>

\* writev on a socket whose peer reset it may also raise SIGPIPE (it does once the
\* error has been reported, or if the peer had shut down before), which the server
\* neither ignores nor handles.
WriteKilled(w) ==
  /\ Serving(w, "write")
  /\ LET fd == job[w].conn
     IN out[fd] > 0 /\ sock[fd] # NoOne /\ ~Writable(fd)
  /\ alive' = FALSE
  /\ UNCHANGED <<sock, interest, backlog, edge, client, conn, pool, main, stage>>

\* Mutant: interest in reading is taken to be still registered.
Bug_ArmInSkipped(w) ==
  /\ stage[w] \in {"armIn", "armOut"}
  /\ LET fd == job[w].conn
     IN interest' = [interest EXCEPT ![fd] =
          IF @ = "none" \/ stage[w] = "armIn" THEN @ ELSE "out"]
  /\ Return(w)
  /\ UNCHANGED <<sock, backlog, edge, alive, client, conn, main>>

\* epoller_->ModFd, which fails if fd is not registered any more; the task is
\* over with it.
Arm(w) ==
  /\ stage[w] \in {"armIn", "armOut"}
  /\ LET fd == job[w].conn
     IN interest' = [interest EXCEPT ![fd] =
          IF @ = "none" THEN "none" ELSE IF stage[w] = "armIn" THEN "in" ELSE "out"]
  /\ Return(w)
  /\ UNCHANGED <<sock, backlog, edge, alive, client, conn, main>>

WorkerStep(w) ==
  \/ Begin(w)
  \/ ReadData(w) \/ ReadFails(w)
  \/ WriteAll(w) \/ WritePart(w) \/ WriteFails(w) \/ WriteKilled(w)
  \/ Arm(w)
  \/ CloseStep(w)

ClientStep(c) == Connect(c) \/ Send(c) \/ Shutdown(c) \/ Reset(c) \/ Drain(c)

Next ==
  /\ alive
  /\ \/ \E c \in Client : ClientStep(c)
     \/ MainStep
     \/ \E w \in Worker : WorkerStep(w)

\* ExtentTime_ moves the timer of fd when its event is handled.
Extended(fd) == \E e \in batch : e.conn = fd /\ Dispatch(e)

\* A timer that is not moved for ever expires.
Expires(fd) == SF_vars(alive /\ TickFire(fd)) \/ []<><<Extended(fd)>>_vars

\* epoll hands out its ready descriptors in turn: at last Wait reports listenFd_.
WaitListen == WaitEvents /\ \E e \in batch' : e.conn = Listen

\* The scheduler runs every thread that can run, and time passes.  Nothing is assumed of
\* the clients, nor that a Wait without events returns.
Fairness ==
  /\ WF_vars(alive /\ MainWork)
  /\ SF_vars(alive /\ WaitListen)
  /\ \A fd \in Fd : Expires(fd)
  /\ \A w \in Worker : WF_vars(alive /\ WorkerStep(w))

\* Clients that read what they are sent.
Cooperation == \A c \in Client : WF_vars(alive /\ Drain(c))

SafeSpec == Init /\ [][Next]_vars
Spec == SafeSpec /\ Fairness
CooperativeSpec == Spec /\ Cooperation

-------------------------------------------------------------------------------
KernelType ==
  /\ sock \in [Fd -> Client \cup {NoOne}]
  /\ interest \in [Fd -> {"none", "in", "out", "off"}]
  /\ backlog \in Seq(Client)
  /\ edge \in BOOLEAN
  /\ alive \in BOOLEAN

ClientType ==
  /\ peer \in [Client -> {"away", "live", "fin", "reset", "gone"}]
  /\ unread \in [Client -> Nat]
  /\ sndq \in [Client -> 0..SndBuf]

ConnType ==
  /\ isClose \in [Fd -> BOOLEAN]
  /\ readBuff \in [Fd -> Nat]
  /\ out \in [Fd -> 0..RespLen]
  /\ keep \in [Fd -> BOOLEAN]
  /\ userCount \in Int

PoolType ==
  /\ tasks \in Seq(ReactorTask)
  /\ job \in [Worker -> ReactorTask \cup {Idle}]

MainType ==
  /\ timer \subseteq Fd
  /\ ticking \in BOOLEAN
  /\ victim \in Fd
  /\ batch \subseteq Event

StageType ==
  /\ stage \in [Thread -> WorkerStage \cup MainStage]
  /\ stage[Main] \in MainStage
  /\ \A w \in Worker : stage[w] \in WorkerStage
  /\ \A w \in Worker : job[w] = Idle => stage[w] = "serve"

\* Type correctness; a worker without a task is where the next one starts.
TypeOK ==
  KernelType /\ ClientType /\ ConnType /\ PoolType /\ MainType /\ StageType

\* EPOLLONESHOT keeps a socket to one thread (webserver.cpp:63): no two workers
\* hold the same HttpConn, nor does one while the main thread closes it.
OneThreadPerConn ==
  \A w \in Worker : job[w] # Idle =>
    /\ \A v \in Worker \ {w} : ~HeldBy(v, job[w].conn)
    /\ ~MainCloses(job[w].conn)

\* Every open connection is in somebody's hands: epoll watches it, its event waits
\* to be handled, its task is queued or running, or the main thread closes it.  A
\* return path without CloseConn_ or ModFd would strand it, descriptor and all.
NoOrphan ==
  \A fd \in Fd : ~isClose[fd] =>
    Armed(fd) \/ InBatch(fd) \/ Busy(fd) \/ MainCloses(fd)

\* What waits for a connection, a registration, an event or a queued task, belongs
\* to the client that is connected now: nothing outlives a close to act on the
\* next client of the same descriptor.
NothingStale ==
  \A fd \in Fd : Armed(fd) \/ InBatch(fd) \/ Queued(fd) =>
    ~isClose[fd] /\ sock[fd] # NoOne

\* No descriptor leaks and none is closed twice: the socket of a connection is open
\* exactly until the thread that marked it closed calls close.
SocketMatchesConn ==
  \A fd \in Fd : sock[fd] # NoOne <=>
    ~isClose[fd] \/ \E t \in Thread :
                      stage[t] = "shut" /\ Subject(t) = fd

\* userCount is the number of open connections, however the threads that close
\* them interleave with the thread that accepts.
UserCountExact == userCount = Cardinality({fd \in Fd : ~isClose[fd]})

\* With timeouts on, every connection has a timer from accept to close, so adjust
\* always finds it (its assert aborts the server otherwise) and an idle connection
\* cannot stay for ever.
TimerCovers == Timeouts => \A fd \in Fd : ~isClose[fd] => fd \in timer

-------------------------------------------------------------------------------
(* The inductive invariant behind the safety properties when a task ends    *)
(* before its timer expires: from the registration with epoll through the   *)
(* event, the queue and the worker back to epoll, one party holds the       *)
(* connection, and the registration tells which.                            *)

\* The main thread fires timers only between two rounds of events.
Phases ==
  /\ stage[Main] \in {"tick", "pop"} => ticking
  /\ stage[Main] \in {"wait", "events", "accept"} => ~ticking
  /\ ticking \/ stage[Main] = "wait" => batch = {}

Registered ==
  /\ \A fd \in Fd : Armed(fd) => ~isClose[fd]
  /\ \A fd \in Fd : InBatch(fd) \/ Queued(fd) => interest[fd] = "off" /\ ~isClose[fd]
  /\ \A w \in Worker : job[w] # Idle =>
       interest[job[w].conn] = IF stage[w] \in {"check", "mark", "shut"} THEN "none" ELSE "off"
  /\ stage[Main] \in {"check", "mark", "shut", "pop"} => interest[victim] = "none"

EventsDistinct == \A e, f \in batch : e.conn = f.conn => e = f

TasksDistinct ==
  \A i, j \in 1..Len(tasks) : tasks[i].conn = tasks[j].conn => i = j

HandedOver ==
  /\ \A fd \in Fd : InBatch(fd) => ~Busy(fd) /\ ~MainCloses(fd)
  /\ \A fd \in Fd : Queued(fd) => ~MainCloses(fd) /\ \A w \in Worker : ~HeldBy(w, fd)

CloseFlags ==
  /\ \A w \in Worker : job[w] # Idle => (isClose[job[w].conn] <=> stage[w] = "shut")
  /\ stage[Main] = "mark" => ~isClose[victim]
  /\ stage[Main] \in {"shut", "pop"} => isClose[victim]

IInv ==
  /\ TypeOK /\ Phases /\ Registered /\ CloseFlags
  /\ EventsDistinct /\ TasksDistinct /\ HandedOver /\ OneThreadPerConn
  /\ SocketMatchesConn /\ NoOrphan /\ TimerCovers /\ UserCountExact

-------------------------------------------------------------------------------
\* A connection is closed after a write only when the response is out or the peer
\* aborted (webserver.cpp:269, httpconn.cpp:103): a full send buffer never truncates.
NoTruncation ==
  [][\A w \in Worker :
       Serving(w, "write") /\ stage'[w] = "del" =>
         out'[job[w].conn] = 0 \/ ~Writable(job[w].conn)]_vars

\* An error on one connection closes that connection (webserver.cpp:269) and not
\* the server.
ServerSurvives == alive

\* Everybody who connects is accepted or told that the server is busy
\* (webserver.cpp:184).
NobodyStranded == \A c \in Client : Waits(c) ~> ~Waits(c)

\* Epoller::Wait has not returned, although timers are set, and there is no event.
Overslept == stage[Main] = "wait" /\ timer # {} /\ Ready = {}

\* With timeouts on, two things only keep an accepted connection open: its client goes on
\* sending or reading, so that its timer is moved for ever (webserver.cpp:221), or the
\* server sleeps for ever (heaptimer.cpp:137).  No interleaving of timers, events and
\* tasks, its own or those of others, loses it.
EventuallyClosed ==
  \A fd \in Fd : \A c \in Client :
    \/ (sock[fd] = c ~> sock[fd] # c)
    \/ []<><<Extended(fd)>>_vars
    \/ <>[]Overslept

\* A silent client is closed, as the timers are there for (webserver.cpp:164).
SilentClosed ==
  \A fd \in Fd : \A c \in Client :
    (sock[fd] = c ~> sock[fd] # c) \/ []<><<Extended(fd)>>_vars

\* Whoever stays connected and reads gets all it asked for consumed, also without
\* timeouts: no wake-up is lost between the epoll registration and the data.
NoLostRequest ==
  \A c \in Client :
    (~Waits(c) /\ unread[c] > 0) ~> (unread[c] = 0 \/ HungUp(c))

\* A response that waits for room to be written is eventually sent entirely, or its
\* connection closed.  (ToWriteBytes alone does not tell: init leaves the count of the
\* descriptor's previous connection behind.)
ResponsesLeave ==
  \A fd \in Fd : (out[fd] > 0 /\ interest[fd] = "out") ~> (out[fd] = 0 \/ isClose[fd])
===============================================================================
