----------------------------- MODULE ReactorProofs -----------------------------
(***************************************************************************)
(* Proofs about Reactor, for any number of descriptors, clients and        *)
(* workers.  First type correctness, in every mode and with tasks of any   *)
(* length.  Then ownership: a connection travels from epoll through the    *)
(* batch, the queue and a worker back to epoll, or to the thread that      *)
(* closes it.  IInv says that it is in one place at a time; each lemma     *)
(* Own<Action> shows that the action keeps it so.  Timers are the one      *)
(* party that does not take the connection from epoll first: the invariant *)
(* needs SlowTasks = FALSE for OwnTickFire and nowhere else.               *)
(***************************************************************************)
EXTENDS Reactor, TLAPS, FiniteSetTheorems

\* The server starts with every variable in its type.
LEMMA TypeInit == Init => TypeOK
<1> SUFFICES ASSUME Init PROVE TypeOK
  OBVIOUS
<1> USE DEF Init, ListenInit, ConnInit, Pool!Init
<1>1. KernelType
  <2>1. backlog \in Seq(Client)
    OBVIOUS
  <2>2. sock \in [Fd -> Client \cup {NoOne}] /\ interest \in [Fd -> {"none", "in", "out", "off"}]
    OBVIOUS
  <2>3. QED
    BY <2>1, <2>2 DEF KernelType
<1>5. ConnType
  BY SizeAssumption DEF ConnType
<1>6. ClientType
  BY SizeAssumption DEF ClientType
<1>2. PoolType /\ MainType
  BY DEF PoolType, MainType
<1>3. StageType
  BY NameAssumption DEF StageType, Thread, WorkerStage, MainStage, Closing
<1>4. QED
  BY <1>1, <1>2, <1>3, <1>5, <1>6 DEF TypeOK

\* Each client step changes the kernel's or the client's part of the state only.
LEMMA TypeClient ==
  ASSUME TypeOK, NEW c \in Client, ClientStep(c) PROVE TypeOK'
<1> USE DEF kernel, client, conn, pool, main
<1>1. UNCHANGED <<conn, pool, main, stage>>
  BY DEF ClientStep, Connect, Send, Shutdown, Reset, Drain
<1>2. ConnType' /\ PoolType' /\ MainType' /\ StageType'
  BY <1>1 DEF TypeOK, ConnType, PoolType, MainType, StageType
<1>3. KernelType'
  <2> USE DEF TypeOK, KernelType
  <2>1. CASE Connect(c)
    <3>1. backlog' \in Seq(Client)
      BY <2>1 DEF Connect
    <3>2. edge' \in BOOLEAN /\ UNCHANGED <<sock, interest, alive>>
      BY <2>1 DEF Connect
    <3>3. QED
      BY <3>1, <3>2
  <2>2. CASE UNCHANGED kernel
    BY <2>2
  <2>3. QED
    BY <2>1, <2>2 DEF ClientStep, Send, Shutdown, Reset, Drain
<1>4. ClientType'
  <2> USE SizeAssumption DEF TypeOK, ClientType
  <2>1. CASE Connect(c)
    BY <2>1 DEF Connect
  <2>2. CASE Send(c)
    BY <2>2 DEF Send
  <2>3. CASE Shutdown(c)
    BY <2>3 DEF Shutdown
  <2>4. CASE Reset(c)
    BY <2>4 DEF Reset
  <2>5. CASE Drain(c)
    BY <2>5 DEF Drain
  <2>6. QED
    BY <2>1, <2>2, <2>3, <2>4, <2>5 DEF ClientStep
<1>5. QED
  BY <1>2, <1>3, <1>4 DEF TypeOK

\* The steps of CloseConn_, in either kind of thread.
LEMMA TypeClose ==
  ASSUME TypeOK, NEW t \in Thread, CloseStep(t) PROVE TypeOK'
<1> USE DEF TypeOK
<1>1. UNCHANGED main
  BY DEF CloseStep, Del, Check, Mark, Shut
<1>2. MainType'
  BY <1>1 DEF main, MainType
<1>3. stage[t] \in Closing
  BY DEF CloseStep, Del, Check, Mark, Shut, Closing
<1>4. t # Main => t \in Worker /\ job[t] \in ReactorTask
  BY <1>3 DEF Thread, Closing, PoolType, StageType
<1>5. Subject(t) \in Fd
  BY <1>4 DEF Subject, ReactorTask, MainType
<1>6. Return(t) => PoolType' /\ StageType'
  <2>1. CASE t = Main
    BY <2>1, NameAssumption
    DEF Return, Go, pool, PoolType, StageType, Thread, WorkerStage, MainStage
  <2>2. CASE t # Main
    <3> SUFFICES ASSUME Return(t) PROVE PoolType' /\ StageType'
      OBVIOUS
    <3>1. /\ job' = [job EXCEPT ![t] = Idle]
          /\ stage' = [stage EXCEPT ![t] = "serve"]
          /\ tasks' = tasks
      BY <2>2 DEF Return, Go, Pool!Finish
    <3>2. PoolType'
      BY <3>1 DEF PoolType
    <3>3. StageType'
      BY <3>1, <1>4, <2>2 DEF StageType, PoolType, Thread, WorkerStage
    <3>4. QED
      BY <3>2, <3>3
  <2>3. QED
    BY <2>1, <2>2
<1>7. ASSUME NEW s \in {"check", "mark", "shut"}, Go(t, s), UNCHANGED pool
      PROVE  PoolType' /\ StageType'
  <2>1. PoolType' /\ UNCHANGED job
    BY <1>7 DEF pool, PoolType
  <2>2. s \in WorkerStage /\ s \in MainStage
    BY DEF WorkerStage, MainStage, Closing
  <2>3. stage' = [stage EXCEPT ![t] = s]
    BY <1>7 DEF Go
  <2>4. StageType'
    BY <2>1, <2>2, <2>3, <1>4, IdleAssumption, NameAssumption DEF StageType, Thread
  <2>5. QED
    BY <2>1, <2>4
<1>8. CASE Del(t)
  <2>1. KernelType' /\ ClientType' /\ ConnType'
    BY <1>5, <1>8 DEF Del, client, conn, KernelType, ClientType, ConnType
  <2>2. QED
    BY <2>1, <1>2, <1>7, <1>8 DEF Del
<1>9. CASE Check(t)
  <2>1. KernelType' /\ ClientType' /\ ConnType'
    BY <1>9 DEF Check, kernel, client, conn, KernelType, ClientType, ConnType
  <2>2. QED
    BY <2>1, <1>2, <1>6, <1>7, <1>9 DEF Check
<1>10. CASE Mark(t)
  <2>1. KernelType' /\ ClientType'
    BY <1>10 DEF Mark, kernel, client, KernelType, ClientType
  <2>2. ConnType'
    BY <1>5, <1>10 DEF Mark, ConnType
  <2>3. QED
    BY <2>1, <2>2, <1>2, <1>7, <1>10 DEF Mark
<1>11. CASE Shut(t)
  <2>1. ConnType'
    BY <1>11 DEF Shut, conn, ConnType
  <2>2. KernelType'
    BY <1>5, <1>11 DEF Shut, CloseSocket, KernelType
  <2>3. ClientType'
    <3>1. CASE sock[Subject(t)] = NoOne
      BY <3>1, <1>11 DEF Shut, CloseSocket, ClientType
    <3>2. CASE sock[Subject(t)] # NoOne
      <4>1. /\ peer' = [peer EXCEPT ![sock[Subject(t)]] = Over]
            /\ unread' = [unread EXCEPT ![sock[Subject(t)]] = 0]
            /\ sndq' = [sndq EXCEPT ![sock[Subject(t)]] = 0]
        BY <3>2, <1>11 DEF Shut, CloseSocket
      <4>2. Over \in {"away", "gone"}
        BY DEF Over
      <4>3. peer' \in [Client -> {"away", "live", "fin", "reset", "gone"}]
        BY <4>1, <4>2 DEF ClientType
      <4>4. unread' \in [Client -> Nat]
        BY <4>1 DEF ClientType
      <4>5. 0 \in 0..SndBuf
        BY SizeAssumption
      <4>6. sndq' \in [Client -> 0..SndBuf]
        BY <4>1, <4>5 DEF ClientType
      <4>7. QED
        BY <4>3, <4>4, <4>6 DEF ClientType
    <3>3. QED
      BY <3>1, <3>2
  <2>4. QED
    BY <2>1, <2>2, <2>3, <1>2, <1>6, <1>11 DEF Shut
<1>12. QED
  BY <1>8, <1>9, <1>10, <1>11 DEF CloseStep

\* The steps of Start, accept and the timer callbacks keep the types.
LEMMA TypeMain == TypeOK /\ MainStep => TypeOK'
<1> SUFFICES ASSUME TypeOK, MainStep PROVE TypeOK'
  OBVIOUS
<1>1. CASE CloseStep(Main)
  BY <1>1, TypeClose DEF Thread
<1> USE NameAssumption
    DEF TypeOK, KernelType, ClientType, ConnType, PoolType, MainType, StageType,
        kernel, client, conn, pool, main, Go, Thread, MainStage, Closing
<1>2. CASE Pop
  BY <1>2 DEF Pop
<1>3. CASE TickEnd
  BY <1>3 DEF TickEnd
<1>4. CASE WaitEvents
  BY <1>4 DEF WaitEvents, Ready, Event
<1>5. CASE WaitTimeout
  BY <1>5 DEF WaitTimeout
<1>6. CASE EventsDone
  BY <1>6 DEF EventsDone
<1>7. CASE AcceptFails
  BY <1>7 DEF AcceptFails
<1>8. CASE AcceptBusy
  BY <1>8 DEF AcceptBusy, Over
<1>9. CASE AcceptClient
  BY SMTT(20), <1>9 DEF AcceptClient, FreeFd
<1>10. ASSUME NEW fd \in Fd, TickFire(fd) PROVE TypeOK'
  BY <1>10 DEF TickFire
<1>11. ASSUME NEW e \in batch, HandleListen(e) PROVE TypeOK'
  BY <1>11 DEF HandleListen
<1>12. ASSUME NEW e \in batch, HandleHangUp(e) PROVE TypeOK'
  BY <1>12 DEF HandleHangUp, Event
<1>13. ASSUME NEW e \in batch, Dispatch(e) PROVE TypeOK'
  BY <1>13 DEF Dispatch, Event, ReactorTask, Pool!Submit
<1>14. QED
  BY <1>1, <1>2, <1>3, <1>4, <1>5, <1>6, <1>7, <1>8, <1>9, <1>10, <1>11, <1>12, <1>13 DEF MainStep, MainWork

\* The steps of OnRead_, OnWrite_ and OnProcess keep the types; out stays within a
\* response and a send buffer within its room.
LEMMA TypeWorker ==
  ASSUME TypeOK, NEW w \in Worker, WorkerStep(w) PROVE TypeOK'
<1> USE NameAssumption DEF TypeOK
<1>1. CASE Begin(w)
  <2>1. KernelType' /\ ClientType' /\ ConnType' /\ MainType'
    BY <1>1 DEF Begin, kernel, client, conn, main,
                KernelType, ClientType, ConnType, MainType
  <2>2. Head(tasks) \in ReactorTask /\ Tail(tasks) \in Seq(ReactorTask)
    BY <1>1 DEF Begin, Pool!Start, PoolType
  <2>3. PoolType'
    BY <1>1, <2>2 DEF Begin, Pool!Start, PoolType
  <2>4. StageType'
    BY <1>1 DEF Begin, Pool!Start, PoolType, StageType
  <2>5. QED
    BY <2>1, <2>3, <2>4
<1>2. CASE CloseStep(w)
  BY <1>2, TypeClose DEF Thread
<1>3. CASE Arm(w)
  <2>1. ClientType' /\ ConnType' /\ MainType'
    BY <1>3 DEF Arm, client, conn, main, ClientType, ConnType, MainType
  <2>2. job[w] \in ReactorTask
    BY <1>3 DEF Arm, PoolType, StageType
  <2>3. KernelType'
    BY <1>3, <2>2 DEF Arm, KernelType, ReactorTask
  <2>4. /\ job' = [job EXCEPT ![w] = Idle]
        /\ stage' = [stage EXCEPT ![w] = "serve"]
        /\ tasks' = tasks
    BY <1>3 DEF Arm, Return, Go, Pool!Finish
  <2>5. PoolType' /\ StageType'
    BY <2>4 DEF PoolType, StageType, Thread, WorkerStage
  <2>6. QED
    BY <2>1, <2>3, <2>5
<1>4. ASSUME job[w] # Idle, NEW s \in WorkerStage, Go(w, s), UNCHANGED <<pool, main>>
      PROVE  PoolType' /\ StageType' /\ MainType'
  BY <1>4 DEF Go, pool, main, PoolType, StageType, MainType, Thread
<1>5. ASSUME NEW fd \in Fd, NEW n \in Nat, NEW rest \in 0..RespLen,
             Process(w, fd, n, rest),
             UNCHANGED <<isClose, userCount>>
      PROVE  ConnType' /\ \E s \in WorkerStage : Go(w, s)
  <2>1. \E s \in WorkerStage : Go(w, s)
    BY <1>5 DEF Process, WorkerStage
  <2>2. /\ out' \in [Fd -> 0..RespLen]
        /\ keep' \in [Fd -> BOOLEAN]
    <3>1. RespLen \in 0..RespLen /\ 0 \in 0..RespLen
      BY SizeAssumption
    <3>2. /\ \E k \in 0..RespLen : out' = [out EXCEPT ![fd] = k]
          /\ \E b \in BOOLEAN : keep' = [keep EXCEPT ![fd] = b]
      BY <1>5, <3>1 DEF Process
    <3>3. QED
      BY <3>2 DEF ConnType
  <2>3. readBuff' \in [Fd -> Nat]
    BY <1>5 DEF Process, ConnType
  <2>4. QED
    BY <1>5, <2>1, <2>2, <2>3 DEF ConnType
<1>6. Serving(w, "read") \/ Serving(w, "write") => job[w] # Idle /\ job[w].conn \in Fd
  BY DEF Serving, PoolType, ReactorTask
<1>7. CASE ReadData(w)
  <2> DEFINE fd == job[w].conn
             c == sock[fd]
  <2>0. fd \in Fd /\ job[w] # Idle
    BY <1>6, <1>7 DEF ReadData
  <2>1. c \in Client
    BY <2>0, <1>7 DEF ReadData, KernelType
  <2>2. PICK n \in IF ConnET \/ unread[c] = 0 THEN {unread[c]} ELSE 1..unread[c] :
             /\ unread' = [unread EXCEPT ![c] = @ - n]
             /\ Process(w, fd, readBuff[fd] + n, out[fd])
    BY <1>7 DEF ReadData
  <2>3. n \in Nat /\ unread[c] - n \in Nat
    BY <2>1 DEF ClientType
  <2>4. ClientType'
    BY <1>7, <2>1, <2>2, <2>3 DEF ReadData, ClientType
  <2>5. readBuff[fd] + n \in Nat
    BY <2>0, <2>3 DEF ConnType
  <2>6. ConnType' /\ \E s \in WorkerStage : Go(w, s)
    <3>1. out[fd] \in 0..RespLen
      BY <2>0 DEF ConnType
    <3>2. QED
      BY <1>5, <1>7, <2>0, <2>2, <2>5, <3>1 DEF ReadData
  <2>7. KernelType'
    BY <1>7 DEF ReadData, kernel, KernelType
  <2>8. QED
    BY <1>4, <2>0, <1>7, <2>4, <2>6, <2>7 DEF ReadData
<1>8. CASE ReadFails(w) \/ WriteFails(w)
  <2>1. KernelType' /\ ClientType' /\ ConnType'
    BY <1>8 DEF ReadFails, WriteFails, kernel, client, conn, KernelType, ClientType, ConnType
  <2>2. QED
    BY <1>4, <1>6, <1>8, <2>1 DEF ReadFails, WriteFails, WorkerStage, Closing
<1>9. CASE WriteAll(w)
  <2> DEFINE fd == job[w].conn
             c == sock[fd]
  <2>1. fd \in Fd /\ job[w] # Idle
    BY <1>6, <1>9 DEF WriteAll
  <2>2. KernelType'
    BY <1>9 DEF WriteAll, kernel, KernelType
  <2>3. sndq' \in [Client -> 0..SndBuf]
    <3>1. CASE out[fd] = 0
      BY <1>9, <3>1 DEF WriteAll, ClientType
    <3>2. CASE out[fd] # 0
      <4>1. c \in Client
        BY <1>9, <2>1, <3>2 DEF WriteAll, Writable, KernelType
      <4>2. sndq[c] + out[fd] \in 0..SndBuf
        BY <1>9, <2>1, <3>2, <4>1, SizeAssumption
        DEF WriteAll, Room, ClientType, ConnType
      <4>3. sndq' = [sndq EXCEPT ![c] = @ + out[fd]]
        BY <1>9, <3>2 DEF WriteAll
      <4>4. QED
        BY <4>1, <4>2, <4>3 DEF ClientType
    <3>3. QED
      BY <3>1, <3>2
  <2>4. ClientType'
    BY <1>9, <2>3 DEF WriteAll, ClientType
  <2>5. ConnType' /\ \E s \in WorkerStage : Go(w, s)
    <3>1. CASE keep[fd]
      <4>1. readBuff[fd] \in Nat
        BY <2>1 DEF ConnType
      <4>2. QED
        BY <1>5, <1>9, <2>1, <3>1, <4>1, SizeAssumption DEF WriteAll
    <3>2. CASE ~keep[fd]
      BY <1>9, <2>1, <3>2, SizeAssumption DEF WriteAll, ConnType, WorkerStage, Closing
    <3>3. QED
      BY <3>1, <3>2
  <2>6. QED
    BY <1>4, <1>9, <2>1, <2>2, <2>4, <2>5 DEF WriteAll
<1>10. CASE WritePart(w)
  <2> DEFINE fd == job[w].conn
             c == sock[fd]
  <2>1. fd \in Fd /\ job[w] # Idle
    BY <1>6, <1>10 DEF WritePart
  <2>2. c \in Client
    BY <1>10, <2>1 DEF WritePart, Writable, KernelType
  <2>3. out[fd] - Room(fd) \in 0..RespLen
    BY <1>10, <2>1, <2>2, SizeAssumption DEF WritePart, Room, ClientType, ConnType
  <2>4. KernelType' /\ ClientType'
    BY <1>10, <2>2, SizeAssumption DEF WritePart, kernel, KernelType, ClientType
  <2>5. ConnType'
    BY <1>10, <2>3 DEF WritePart, ConnType
  <2>6. \E s \in WorkerStage : Go(w, s)
    BY <1>10 DEF WritePart, WorkerStage, Closing
  <2>7. QED
    BY <1>4, <1>10, <2>1, <2>4, <2>5, <2>6 DEF WritePart
<1>11. CASE WriteKilled(w)
  BY <1>11 DEF WriteKilled, client, conn, pool, main, KernelType, ClientType, ConnType,
               PoolType, MainType, StageType
<1>12. QED
  BY <1>1, <1>2, <1>3, <1>7, <1>8, <1>9, <1>10, <1>11 DEF WorkerStep

\* Every step keeps the types.
LEMMA TypeStep == TypeOK /\ [Next]_vars => TypeOK'
<1> SUFFICES ASSUME TypeOK, [Next]_vars PROVE TypeOK'
  OBVIOUS
<1>1. CASE UNCHANGED vars
  BY <1>1 DEF vars, kernel, client, conn, pool, main, TypeOK,
              KernelType, ClientType, ConnType, PoolType, MainType, StageType
<1>2. QED
  BY <1>1, TypeClient, TypeMain, TypeWorker DEF Next

\* No step takes a variable out of its type.
THEOREM TypeCorrect == SafeSpec => []TypeOK
  BY TypeInit, TypeStep, PTL DEF SafeSpec

-------------------------------------------------------------------------------
(* Ownership.                                                               *)

\* The invariant without the types and the count, which have proofs of their own.
Own ==
  /\ Phases /\ Registered /\ CloseFlags
  /\ EventsDistinct /\ TasksDistinct /\ HandedOver /\ OneThreadPerConn
  /\ SocketMatchesConn /\ NoOrphan /\ TimerCovers

-------------------------------------------------------------------------------
(* Who holds a connection depends on one or two variables each.             *)

\* InBatch depends on the events only.
LEMMA BatchFrame == UNCHANGED batch => \A fd \in Fd : InBatch(fd)' <=> InBatch(fd)
  BY DEF InBatch

\* Queued depends on the queue only.
LEMMA TaskFrame == UNCHANGED tasks => \A fd \in Fd : Queued(fd)' <=> Queued(fd)
  BY DEF Queued

\* HeldBy depends on the jobs only.
LEMMA JobFrame ==
  UNCHANGED job => \A fd \in Fd, w \in Worker : HeldBy(w, fd)' <=> HeldBy(w, fd)
  BY DEF HeldBy

\* Armed depends on the registrations only.
LEMMA ArmedFrame == UNCHANGED interest => \A fd \in Fd : Armed(fd)' <=> Armed(fd)
  BY DEF Armed

\* At most one party at a time, said of one connection.
Exclusive(fd) ==
  /\ InBatch(fd) => ~Queued(fd) /\ ~MainCloses(fd)
  /\ Queued(fd) => ~MainCloses(fd)
  /\ \A w \in Worker : HeldBy(w, fd) => ~InBatch(fd) /\ ~Queued(fd) /\ ~MainCloses(fd)
  /\ \A v, w \in Worker : HeldBy(v, fd) /\ HeldBy(w, fd) => v = w

\* Exclusive, for all connections, is what two parts of the invariant say.
LEMMA ExclusiveIs ==
  ASSUME PoolType
  PROVE  (\A fd \in Fd : Exclusive(fd)) <=> HandedOver /\ OneThreadPerConn
<1>1. \A w \in Worker : job[w] # Idle => job[w].conn \in Fd
  BY DEF PoolType, ReactorTask
<1>2. ASSUME \A fd \in Fd : Exclusive(fd) PROVE HandedOver /\ OneThreadPerConn
  <2>1. HandedOver
    BY <1>2 DEF Exclusive, HandedOver, Busy
  <2>2. OneThreadPerConn
    BY <1>1, <1>2 DEF Exclusive, OneThreadPerConn, HeldBy
  <2>3. QED
    BY <2>1, <2>2
<1>3. ASSUME HandedOver, OneThreadPerConn, NEW fd \in Fd PROVE Exclusive(fd)
  BY <1>3 DEF Exclusive, HandedOver, Busy, OneThreadPerConn, HeldBy
<1>4. QED
  BY <1>2, <1>3

\* The same after a step.
LEMMA ExclusiveNext ==
  ASSUME PoolType', \A fd \in Fd : Exclusive(fd)'
  PROVE  HandedOver' /\ OneThreadPerConn'
<1>1. \A w \in Worker : job'[w] # Idle => job'[w].conn \in Fd
  BY DEF PoolType, ReactorTask
<1>2. HandedOver'
  BY DEF Exclusive, HandedOver, Busy
<1>3. OneThreadPerConn'
  BY <1>1 DEF Exclusive, OneThreadPerConn, HeldBy
<1>4. QED
  BY <1>2, <1>3

\* NoOrphan and the flags of workers, said of HeldBy.
LEMMA HolderIs ==
  ASSUME PoolType, NEW w \in Worker, job[w] # Idle
  PROVE  job[w].conn \in Fd /\ \A fd \in Fd : HeldBy(w, fd) <=> fd = job[w].conn
  BY DEF PoolType, ReactorTask, HeldBy

-------------------------------------------------------------------------------
(* The steps of the main thread that move no connection.                    *)

\* The main thread goes on between two steps of its loop, neither of them part of
\* CloseConn_, and nothing changes but its own bookkeeping.
LEMMA OwnMainMoves ==
  ASSUME TypeOK, Own, NEW s \in {"tick", "wait", "events", "accept"}, Go(Main, s),
         stage[Main] \notin Closing,
         UNCHANGED <<sock, interest, isClose, pool>>,
         batch' \subseteq batch,
         \A fd \in Fd : InBatch(fd)' <=> InBatch(fd),
         timer' = timer \/ (timer' = timer \ {victim} /\ isClose[victim]),
         Phases'
  PROVE  Own'
<1> USE DEF Own
<1>1. stage'[Main] = s /\ \A w \in Worker : stage'[w] = stage[w]
  BY NameAssumption DEF Go, TypeOK, StageType, Thread
<1>2. \A fd \in Fd : ~MainCloses(fd) /\ ~MainCloses(fd)'
  BY <1>1 DEF MainCloses, Closing
<1>3. Registered'
  <2>1. UNCHANGED <<interest, isClose, tasks, job>>
    BY DEF pool
  <2>2. /\ \A fd \in Fd : Armed(fd)' => ~isClose'[fd]
        /\ \A fd \in Fd : InBatch(fd)' \/ Queued(fd)' => interest'[fd] = "off" /\ ~isClose'[fd]
    BY <2>1, ArmedFrame, TaskFrame DEF Registered
  <2>3. ASSUME NEW w \in Worker, job'[w] # Idle
        PROVE  interest'[job'[w].conn] =
                 IF stage'[w] \in {"check", "mark", "shut"} THEN "none" ELSE "off"
    <3>1. job[w] # Idle /\ stage'[w] = stage[w]
      BY <2>1, <2>3, <1>1
    <3>2. interest[job[w].conn] =
            IF stage[w] \in {"check", "mark", "shut"} THEN "none" ELSE "off"
      BY <3>1 DEF Registered
    <3>3. QED
      BY <2>1, <3>1, <3>2
  <2>4. stage'[Main] \notin {"check", "mark", "shut", "pop"}
    BY <1>1
  <2>5. QED
    BY <2>2, <2>3, <2>4 DEF Registered
<1>4. CloseFlags'
  BY <1>1 DEF CloseFlags, pool
<1>5. EventsDistinct' /\ TasksDistinct'
  BY DEF EventsDistinct, TasksDistinct, pool
<1>6. HandedOver' /\ OneThreadPerConn'
  <2>1. HandedOver'
    BY <1>2, TaskFrame, JobFrame DEF HandedOver, Busy, pool
  <2>2. OneThreadPerConn'
    <3>1. stage'[Main] \notin Closing
      BY <1>1 DEF Closing
    <3>2. QED
      BY <3>1 DEF OneThreadPerConn, HeldBy, MainCloses, pool
  <2>3. QED
    BY <2>1, <2>2
<1>7. SocketMatchesConn'
  <2>1. \A t \in Thread : (stage'[t] = "shut" <=> stage[t] = "shut")
    BY <1>1 DEF Thread, Closing
  <2>2. \A t \in Thread : stage[t] = "shut" => Subject(t)' = Subject(t)
    BY DEF Subject, pool, Closing
  <2>3. QED
    BY <2>1, <2>2 DEF SocketMatchesConn
<1>8. NoOrphan'
  BY <1>2, ArmedFrame, TaskFrame, JobFrame DEF NoOrphan, Busy, pool
<1>9. TimerCovers'
  BY DEF TimerCovers
<1>10. QED
  BY <1>3, <1>4, <1>5, <1>6, <1>7, <1>8, <1>9

-------------------------------------------------------------------------------
(* Closing.                                                                 *)

\* Whoever closes a connection is the only one to hold it.
LEMMA SubjectAlone ==
  ASSUME TypeOK, Own, NEW t \in Thread, stage[t] \in Closing
  PROVE  /\ Subject(t) \in Fd
         /\ t # Main => t \in Worker /\ job[t] # Idle /\ Subject(t) = job[t].conn
         /\ ~InBatch(Subject(t)) /\ ~Queued(Subject(t))
         /\ \A v \in Worker \ {t} : ~HeldBy(v, Subject(t))
         /\ t # Main => ~MainCloses(Subject(t))
<1>1. \A fd \in Fd : Exclusive(fd)
  BY ExclusiveIs DEF Own, TypeOK
<1>2. CASE t = Main
  <2>1. Subject(t) = victim /\ victim \in Fd /\ MainCloses(victim)
    BY <1>2 DEF Subject, MainCloses, TypeOK, MainType
  <2>2. QED
    BY <1>1, <1>2, <2>1 DEF Exclusive
<1>3. CASE t # Main
  <2>1. t \in Worker /\ job[t] # Idle /\ Subject(t) = job[t].conn
    BY <1>3 DEF Thread, TypeOK, StageType, Closing, Subject
  <2>2. Subject(t) \in Fd /\ HeldBy(t, Subject(t))
    BY <2>1, HolderIs DEF TypeOK
  <2>3. QED
    BY <1>1, <2>1, <2>2 DEF Exclusive
<1>4. QED
  BY <1>2, <1>3

\* Only the stage of t changes.
LEMMA GoStage ==
  ASSUME TypeOK, NEW t \in Thread, NEW s, Go(t, s)
  PROVE  stage'[t] = s /\ \A u \in Thread \ {t} : stage'[u] = stage[u]
  BY DEF Go, TypeOK, StageType

\* Nobody new holds a connection if the queue and the events are the same and no
\* thread takes anything on.
LEMMA HandLess ==
  ASSUME Own, PoolType, PoolType', UNCHANGED <<batch, tasks>>,
         \A fd \in Fd, w \in Worker : HeldBy(w, fd)' => HeldBy(w, fd),
         \A fd \in Fd : MainCloses(fd)' => MainCloses(fd)
  PROVE  EventsDistinct' /\ TasksDistinct' /\ HandedOver' /\ OneThreadPerConn'
<1> USE DEF Own
<1>1. EventsDistinct' /\ TasksDistinct'
  BY DEF EventsDistinct, TasksDistinct
<1>2. \A fd \in Fd : Exclusive(fd)
  BY ExclusiveIs
<1>3. \A fd \in Fd : Exclusive(fd)'
  BY <1>2, BatchFrame, TaskFrame DEF Exclusive
<1>4. QED
  BY <1>1, <1>3, ExclusiveNext

\* The special case in which no worker gives anything back either.
LEMMA HandFrame ==
  ASSUME Own, PoolType, UNCHANGED <<batch, tasks, job>>,
         \A fd \in Fd : MainCloses(fd)' => MainCloses(fd)
  PROVE  EventsDistinct' /\ TasksDistinct' /\ HandedOver' /\ OneThreadPerConn'
<1>1. PoolType'
  BY DEF PoolType
<1>2. QED
  BY <1>1, JobFrame, HandLess

\* DelFd takes the registration of a connection its closer holds alone.
LEMMA OwnDel ==
  ASSUME TypeOK, Own, NEW t \in Thread, Del(t) PROVE Own'
<1> DEFINE c == Subject(t)
<1> USE DEF Own
<1>1. stage[t] = "del" /\ t \in Thread
  BY DEF Del
<1>2. /\ c \in Fd
      /\ t # Main => t \in Worker /\ job[t] # Idle /\ c = job[t].conn
      /\ ~InBatch(c) /\ ~Queued(c)
      /\ \A v \in Worker \ {t} : ~HeldBy(v, c)
      /\ t # Main => ~MainCloses(c)
  BY <1>1, SubjectAlone DEF Closing
<1>3. stage'[t] = "check" /\ \A u \in Thread \ {t} : stage'[u] = stage[u]
  BY GoStage DEF Del
<1>4. interest'[c] = "none" /\ \A fd \in Fd \ {c} : interest'[fd] = interest[fd]
  BY <1>2 DEF Del, TypeOK, KernelType
<1>5. UNCHANGED <<sock, isClose, userCount, tasks, job, timer, ticking, victim, batch>>
  BY DEF Del, conn, pool, main
<1>6. \A fd \in Fd : MainCloses(fd)' <=> MainCloses(fd)
  BY <1>1, <1>3, <1>5, NameAssumption DEF MainCloses, Closing, Thread
<1>7. EventsDistinct' /\ TasksDistinct' /\ HandedOver' /\ OneThreadPerConn'
  BY <1>5, <1>6, HandFrame DEF TypeOK
<1>8. Phases' /\ TimerCovers'
  BY <1>1, <1>3, <1>5, NameAssumption DEF Phases, TimerCovers, Thread
<1>9. Registered'
  <2>1. \A fd \in Fd : Armed(fd)' => ~isClose'[fd]
    BY <1>4, <1>5 DEF Registered, Armed
  <2>2. \A fd \in Fd : InBatch(fd)' \/ Queued(fd)' => interest'[fd] = "off" /\ ~isClose'[fd]
    BY <1>2, <1>4, <1>5, BatchFrame, TaskFrame DEF Registered
  <2>3. ASSUME NEW w \in Worker, job'[w] # Idle
        PROVE  interest'[job'[w].conn] =
                 IF stage'[w] \in {"check", "mark", "shut"} THEN "none" ELSE "off"
    <3>1. CASE w = t
      BY <1>2, <1>3, <1>4, <1>5, <3>1, NameAssumption
    <3>2. CASE w # t
      <4>1. job[w].conn \in Fd \ {c}
        BY <1>2, <1>5, <2>3, <3>2, HolderIs DEF TypeOK
      <4>2. stage'[w] = stage[w]
        BY <1>3, <3>2 DEF Thread
      <4>3. QED
        BY <1>4, <1>5, <2>3, <4>1, <4>2 DEF Registered
    <3>3. QED
      BY <3>1, <3>2
  <2>4. stage'[Main] \in {"check", "mark", "shut", "pop"} => interest'[victim'] = "none"
    <3>1. CASE t = Main
      BY <1>4, <1>5, <3>1 DEF Subject
    <3>2. CASE t # Main
      BY <1>3, <1>4, <1>5, <3>2 DEF Registered, Thread, TypeOK, MainType
    <3>3. QED
      BY <3>1, <3>2
  <2>5. QED
    BY <2>1, <2>2, <2>3, <2>4 DEF Registered
<1>10. CloseFlags'
  BY <1>1, <1>3, <1>5, NameAssumption DEF CloseFlags, Thread
<1>11. SocketMatchesConn'
  <2>1. \A u \in Thread : stage'[u] = "shut" <=> stage[u] = "shut"
    BY <1>1, <1>3
  <2>2. \A u \in Thread : Subject(u)' = Subject(u)
    BY <1>5 DEF Subject
  <2>3. QED
    BY <1>5, <2>1, <2>2 DEF SocketMatchesConn
<1>12. NoOrphan'
  <2>1. \A fd \in Fd \ {c} : Armed(fd)' <=> Armed(fd)
    BY <1>4 DEF Armed
  <2>2. Busy(c) \/ MainCloses(c)
    BY <1>1, <1>2 DEF Busy, HeldBy, MainCloses, Subject, Closing
  <2>3. QED
    BY <1>5, <1>6, <2>1, <2>2, BatchFrame, TaskFrame, JobFrame DEF NoOrphan, Busy
<1>13. QED
  BY <1>7, <1>8, <1>9, <1>10, <1>11, <1>12

\* A worker that has read or written, or a thread that found the connection open,
\* goes on with it.
LEMMA OwnStage ==
  ASSUME TypeOK, Own, NEW t \in Thread, NEW s, Go(t, s),
         UNCHANGED <<sock, interest, isClose, tasks, job, timer, ticking, victim, batch>>,
         \/ t # Main /\ stage[t] = "serve" /\ s \in {"armIn", "armOut", "del"}
         \/ stage[t] = "check" /\ s = "mark" /\ ~isClose[Subject(t)]
  PROVE  Own'
<1> USE DEF Own
<1>1. stage'[t] = s /\ \A u \in Thread \ {t} : stage'[u] = stage[u]
  BY GoStage
<1>2. \A fd \in Fd : MainCloses(fd)' <=> MainCloses(fd)
  BY <1>1, NameAssumption DEF MainCloses, Closing, Thread
<1>3. EventsDistinct' /\ TasksDistinct' /\ HandedOver' /\ OneThreadPerConn'
  BY <1>2, HandFrame DEF TypeOK
<1>4. Phases' /\ TimerCovers'
  BY <1>1, NameAssumption DEF Phases, TimerCovers, Thread
<1>5. Registered'
  <2>1. /\ \A fd \in Fd : Armed(fd)' => ~isClose'[fd]
        /\ \A fd \in Fd : InBatch(fd)' \/ Queued(fd)' => interest'[fd] = "off" /\ ~isClose'[fd]
    BY ArmedFrame, BatchFrame, TaskFrame DEF Registered
  <2>2. ASSUME NEW w \in Worker, job'[w] # Idle
        PROVE  interest'[job'[w].conn] =
                 IF stage'[w] \in {"check", "mark", "shut"} THEN "none" ELSE "off"
    <3>1. stage'[w] \in {"check", "mark", "shut"} <=> stage[w] \in {"check", "mark", "shut"}
      BY <1>1 DEF Thread
    <3>2. QED
      BY <2>2, <3>1 DEF Registered
  <2>3. stage'[Main] \in {"check", "mark", "shut", "pop"} => interest'[victim'] = "none"
    BY <1>1 DEF Registered, Thread
  <2>4. QED
    BY <2>1, <2>2, <2>3 DEF Registered
<1>6. CloseFlags'
  BY <1>1, NameAssumption DEF CloseFlags, Thread, Subject
<1>7. SocketMatchesConn'
  <2>1. \A u \in Thread : stage'[u] = "shut" <=> stage[u] = "shut"
    BY <1>1
  <2>2. \A u \in Thread : Subject(u)' = Subject(u)
    BY DEF Subject
  <2>3. QED
    BY <2>1, <2>2 DEF SocketMatchesConn
<1>8. NoOrphan'
  BY <1>2, ArmedFrame, BatchFrame, TaskFrame, JobFrame DEF NoOrphan, Busy
<1>9. QED
  BY <1>3, <1>4, <1>5, <1>6, <1>7, <1>8

\* isClose_ is set once, by the thread that holds the connection.
LEMMA OwnMark ==
  ASSUME TypeOK, Own, NEW t \in Thread, Mark(t) PROVE Own'
<1> DEFINE c == Subject(t)
<1> USE DEF Own
<1>1. stage[t] = "mark"
  BY DEF Mark
<1>2. /\ c \in Fd
      /\ t # Main => t \in Worker /\ job[t] # Idle /\ c = job[t].conn
      /\ ~InBatch(c) /\ ~Queued(c)
      /\ \A v \in Worker \ {t} : ~HeldBy(v, c)
      /\ t # Main => ~MainCloses(c)
  BY <1>1, SubjectAlone DEF Closing
<1>3. stage'[t] = "shut" /\ \A u \in Thread \ {t} : stage'[u] = stage[u]
  BY GoStage DEF Mark
<1>4. isClose'[c] /\ \A fd \in Fd \ {c} : isClose'[fd] = isClose[fd]
  BY <1>2 DEF Mark, TypeOK, ConnType
<1>5. UNCHANGED <<sock, interest, tasks, job, timer, ticking, victim, batch>>
  BY DEF Mark, kernel, pool, main
<1>6. \A fd \in Fd : MainCloses(fd)' <=> MainCloses(fd)
  BY <1>1, <1>3, <1>5, NameAssumption DEF MainCloses, Closing, Thread
<1>7. EventsDistinct' /\ TasksDistinct' /\ HandedOver' /\ OneThreadPerConn'
  BY <1>5, <1>6, HandFrame DEF TypeOK
<1>8. Phases'
  BY <1>1, <1>3, <1>5, NameAssumption DEF Phases, Thread
<1>9. TimerCovers'
  BY <1>4, <1>5 DEF TimerCovers
<1>10. interest[c] = "none" /\ ~isClose[c]
  BY <1>1, <1>2 DEF Registered, CloseFlags, Subject
<1>11. Registered'
  <2>1. \A fd \in Fd : Armed(fd)' => ~isClose'[fd]
    BY <1>4, <1>5, <1>10 DEF Registered, Armed
  <2>2. \A fd \in Fd : InBatch(fd)' \/ Queued(fd)' => interest'[fd] = "off" /\ ~isClose'[fd]
    BY <1>2, <1>4, <1>5, BatchFrame, TaskFrame DEF Registered
  <2>3. ASSUME NEW w \in Worker, job'[w] # Idle
        PROVE  interest'[job'[w].conn] =
                 IF stage'[w] \in {"check", "mark", "shut"} THEN "none" ELSE "off"
    <3>1. stage'[w] \in {"check", "mark", "shut"} <=> stage[w] \in {"check", "mark", "shut"}
      BY <1>1, <1>3 DEF Thread
    <3>2. QED
      BY <1>5, <2>3, <3>1 DEF Registered
  <2>4. stage'[Main] \in {"check", "mark", "shut", "pop"} => interest'[victim'] = "none"
    BY <1>1, <1>3, <1>5 DEF Registered, Thread
  <2>5. QED
    BY <2>1, <2>2, <2>3, <2>4 DEF Registered
<1>12. CloseFlags'
  <2>1. ASSUME NEW w \in Worker, job'[w] # Idle
        PROVE  isClose'[job'[w].conn] <=> stage'[w] = "shut"
    <3>1. CASE w = t
      BY <1>2, <1>3, <1>4, <1>5, <3>1, NameAssumption
    <3>2. CASE w # t
      <4>1. job[w].conn \in Fd \ {c}
        BY <1>2, <1>5, <2>1, <3>2, HolderIs DEF TypeOK
      <4>2. stage'[w] = stage[w]
        BY <1>3, <3>2 DEF Thread
      <4>3. QED
        BY <1>4, <1>5, <2>1, <4>1, <4>2 DEF CloseFlags
    <3>3. QED
      BY <3>1, <3>2
  <2>2. CASE t = Main
    BY <1>3, <1>4, <1>5, <2>1, <2>2 DEF CloseFlags, Subject
  <2>3. CASE t # Main
    <3>1. stage'[Main] = stage[Main]
      BY <1>3, <2>3 DEF Thread
    <3>2. stage[Main] = "mark" => victim # c
      BY <1>2, <2>3 DEF MainCloses, Closing
    <3>3. QED
      BY <1>4, <1>5, <2>1, <3>1, <3>2 DEF CloseFlags, TypeOK, MainType
  <2>4. QED
    BY <2>2, <2>3
<1>13. SocketMatchesConn'
  <2>1. \A u \in Thread : Subject(u)' = Subject(u)
    BY <1>5 DEF Subject
  <2>2. sock[c] # NoOne
    BY <1>2, <1>10 DEF SocketMatchesConn
  <2>3. ASSUME NEW fd \in Fd \ {c}
        PROVE  (\E u \in Thread : stage'[u] = "shut" /\ Subject(u)' = fd)
                 <=> (\E u \in Thread : stage[u] = "shut" /\ Subject(u) = fd)
    BY <1>1, <1>3, <2>1
  <2>4. QED
    BY <1>2, <1>3, <1>4, <1>5, <2>1, <2>2, <2>3 DEF SocketMatchesConn
<1>14. NoOrphan'
  BY <1>4, <1>5, <1>6, ArmedFrame, BatchFrame, TaskFrame, JobFrame DEF NoOrphan, Busy
<1>15. QED
  BY <1>7, <1>8, <1>9, <1>11, <1>12, <1>13, <1>14

\* A worker returns to the pool.
LEMMA Release ==
  ASSUME TypeOK, NEW w \in Worker, Return(w)
  PROVE  /\ job[w] # Idle /\ job'[w] = Idle
         /\ \A v \in Worker \ {w} : job'[v] = job[v]
         /\ stage'[w] = "serve" /\ \A u \in Thread \ {w} : stage'[u] = stage[u]
         /\ UNCHANGED tasks
         /\ PoolType'
         /\ \A fd \in Fd, v \in Worker : HeldBy(v, fd)' <=> v # w /\ HeldBy(v, fd)
<1>1. /\ stage' = [stage EXCEPT ![w] = "serve"]
      /\ job' = [job EXCEPT ![w] = Idle] /\ job[w] # Idle
      /\ tasks' = tasks
  BY NameAssumption DEF Return, Go, Pool!Finish
<1>2. stage'[w] = "serve" /\ \A u \in Thread \ {w} : stage'[u] = stage[u]
  BY <1>1 DEF TypeOK, StageType, Thread
<1>3. job'[w] = Idle /\ \A v \in Worker \ {w} : job'[v] = job[v]
  BY <1>1 DEF TypeOK, PoolType
<1>4. PoolType'
  BY <1>1 DEF TypeOK, PoolType
<1>5. QED
  BY <1>1, <1>2, <1>3, <1>4 DEF HeldBy

\* close() and the way back to the pool or to the main loop.
LEMMA OwnShut ==
  ASSUME TypeOK, Own, NEW t \in Thread, Shut(t) PROVE Own'
<1> DEFINE c == Subject(t)
<1> USE DEF Own
<1>1. stage[t] = "shut"
  BY DEF Shut
<1>2. /\ c \in Fd
      /\ t # Main => t \in Worker /\ job[t] # Idle /\ c = job[t].conn
      /\ ~InBatch(c) /\ ~Queued(c)
      /\ \A v \in Worker \ {t} : ~HeldBy(v, c)
      /\ t # Main => ~MainCloses(c)
  BY <1>1, SubjectAlone DEF Closing
<1>3. isClose[c] /\ interest[c] = "none"
  BY <1>1, <1>2 DEF CloseFlags, Registered, Subject
<1>4. UNCHANGED interest
  BY <1>2, <1>3 DEF Shut, CloseSocket, TypeOK, KernelType
<1>5. UNCHANGED <<isClose, timer, ticking, victim, batch>>
  BY DEF Shut, conn, main
<1>6. sock'[c] = NoOne /\ \A fd \in Fd \ {c} : sock'[fd] = sock[fd]
  BY <1>2 DEF Shut, CloseSocket, TypeOK, KernelType
<1>7. /\ stage'[t] \in {"serve", "pop", "events"}
      /\ t = Main => stage'[t] = IF ticking THEN "pop" ELSE "events"
      /\ \A u \in Thread \ {t} : stage'[u] = stage[u]
  <2>1. CASE t = Main
    BY <2>1, GoStage DEF Shut, Return
  <2>2. CASE t # Main
    BY <1>2, <2>2, Release DEF Shut
  <2>3. QED
    BY <2>1, <2>2
<1>8. /\ \A v \in Worker \ {t} : job'[v] = job[v]
      /\ t # Main => job'[t] = Idle
      /\ UNCHANGED tasks /\ PoolType'
      /\ \A fd \in Fd, v \in Worker : HeldBy(v, fd)' <=> v # t /\ HeldBy(v, fd)
  <2>1. CASE t = Main
    BY <2>1, NameAssumption, JobFrame DEF Shut, Return, pool, TypeOK, PoolType
  <2>2. CASE t # Main
    BY <1>2, <2>2, Release DEF Shut
  <2>3. QED
    BY <2>1, <2>2
<1>9. \A fd \in Fd : MainCloses(fd)' <=> MainCloses(fd) /\ t # Main
  BY <1>1, <1>5, <1>7, NameAssumption DEF MainCloses, Closing, Thread
<1>10. EventsDistinct' /\ TasksDistinct' /\ HandedOver' /\ OneThreadPerConn'
  BY <1>5, <1>8, <1>9, HandLess DEF TypeOK
<1>11. Phases'
  <2>1. CASE t = Main
    BY <1>5, <1>7, <2>1 DEF Phases, TypeOK, MainType
  <2>2. CASE t # Main
    BY <1>5, <1>7, <2>2 DEF Phases, Thread
  <2>3. QED
    BY <2>1, <2>2
<1>12. TimerCovers'
  BY <1>5 DEF TimerCovers
<1>13. Registered'
  <2>1. /\ \A fd \in Fd : Armed(fd)' => ~isClose'[fd]
        /\ \A fd \in Fd : InBatch(fd)' \/ Queued(fd)' => interest'[fd] = "off" /\ ~isClose'[fd]
    BY <1>4, <1>5, <1>8, ArmedFrame, BatchFrame, TaskFrame DEF Registered
  <2>2. ASSUME NEW w \in Worker, job'[w] # Idle
        PROVE  interest'[job'[w].conn] =
                 IF stage'[w] \in {"check", "mark", "shut"} THEN "none" ELSE "off"
    <3>1. w # t /\ job'[w] = job[w] /\ stage'[w] = stage[w]
      BY <1>7, <1>8, <2>2, NameAssumption DEF Thread
    <3>2. QED
      BY <1>4, <2>2, <3>1 DEF Registered
  <2>3. stage'[Main] \in {"check", "mark", "shut", "pop"} => interest'[victim'] = "none"
    BY <1>1, <1>4, <1>5, <1>7 DEF Registered, Thread
  <2>4. QED
    BY <2>1, <2>2, <2>3 DEF Registered
<1>14. CloseFlags'
  <2>1. ASSUME NEW w \in Worker, job'[w] # Idle
        PROVE  isClose'[job'[w].conn] <=> stage'[w] = "shut"
    <3>1. w # t /\ job'[w] = job[w] /\ stage'[w] = stage[w]
      BY <1>7, <1>8, <2>1, NameAssumption DEF Thread
    <3>2. QED
      BY <1>5, <2>1, <3>1 DEF CloseFlags
  <2>2. QED
    BY <1>1, <1>5, <1>7, <2>1 DEF CloseFlags, Thread
<1>15. SocketMatchesConn'
  <2>1. ASSUME NEW u \in Thread, stage'[u] = "shut" \/ (stage[u] = "shut" /\ u # t)
        PROVE  /\ u # t /\ stage[u] = "shut" /\ stage'[u] = "shut"
               /\ Subject(u)' = Subject(u) /\ Subject(u) # c
    <3>1. u # t /\ stage[u] = "shut" /\ stage'[u] = "shut"
      BY <1>7, <2>1
    <3>2. CASE u = Main
      BY <1>2, <1>5, <3>1, <3>2 DEF Subject, MainCloses, Closing
    <3>3. CASE u # Main
      <4>1. u \in Worker /\ job[u] # Idle /\ job'[u] = job[u]
        BY <1>8, <3>1, <3>3 DEF Thread, TypeOK, StageType
      <4>2. QED
        BY <1>2, <3>1, <3>3, <4>1 DEF Subject, HeldBy
    <3>4. QED
      BY <3>2, <3>3
  <2>2. ASSUME NEW fd \in Fd \ {c}
        PROVE  (\E u \in Thread : stage'[u] = "shut" /\ Subject(u)' = fd)
                 <=> (\E u \in Thread : stage[u] = "shut" /\ Subject(u) = fd)
    BY <2>1
  <2>3. ~ \E u \in Thread : stage'[u] = "shut" /\ Subject(u)' = c
    BY <2>1
  <2>4. QED
    BY <1>3, <1>5, <1>6, <2>2, <2>3 DEF SocketMatchesConn
<1>16. NoOrphan'
  <2>1. ASSUME NEW fd \in Fd \ {c}
        PROVE  Busy(fd) \/ MainCloses(fd) => Busy(fd)' \/ MainCloses(fd)'
    <3>1. ~HeldBy(t, fd) \/ t = Main
      BY <1>2 DEF HeldBy
    <3>2. MainCloses(fd) => t # Main
      BY <1>2 DEF MainCloses, Subject
    <3>3. QED
      BY <1>8, <1>9, <3>1, <3>2, TaskFrame, NameAssumption DEF Busy
  <2>2. QED
    BY <1>3, <1>4, <1>5, <2>1, ArmedFrame, BatchFrame DEF NoOrphan
<1>17. QED
  BY <1>10, <1>11, <1>12, <1>13, <1>14, <1>15, <1>16

\* Close finds the connection closed already: only the main thread, on a timer that
\* outlived its connection.
LEMMA OwnCheck ==
  ASSUME TypeOK, Own, NEW t \in Thread, Check(t) PROVE Own'
<1> USE DEF Own
<1>1. stage[t] = "check" /\ UNCHANGED <<sock, interest, isClose, timer, ticking, victim, batch>>
  BY DEF Check, kernel, conn, main
<1>2. CASE ~isClose[Subject(t)]
  <2>1. Go(t, "mark") /\ UNCHANGED <<tasks, job>>
    BY <1>2 DEF Check, pool
  <2>2. QED
    BY <1>1, <1>2, <2>1, OwnStage
<1>3. CASE isClose[Subject(t)]
  <2>1. t = Main
    BY <1>1, <1>3, SubjectAlone DEF CloseFlags, Closing
  <2>2. Go(Main, IF ticking THEN "pop" ELSE "events") /\ UNCHANGED <<tasks, job>>
    BY <1>3, <2>1 DEF Check, Return, pool
  <2>3. /\ stage'[Main] = IF ticking THEN "pop" ELSE "events"
        /\ \A w \in Worker : stage'[w] = stage[w]
    BY <2>1, <2>2, GoStage, NameAssumption DEF Thread
  <2>4. isClose[victim] /\ interest[victim] = "none"
    BY <1>1, <1>3, <2>1 DEF Registered, Subject
  <2>5. \A fd \in Fd : ~MainCloses(fd)' /\ (MainCloses(fd) => isClose[fd])
    BY <2>3, <2>4 DEF MainCloses, Closing
  <2>6. EventsDistinct' /\ TasksDistinct' /\ HandedOver' /\ OneThreadPerConn'
    BY <1>1, <2>2, <2>5, HandFrame DEF TypeOK
  <2>7. Phases' /\ TimerCovers'
    BY <1>1, <2>1, <2>3 DEF Phases, TimerCovers, TypeOK, MainType
  <2>8. Registered'
    <3>1. /\ \A fd \in Fd : Armed(fd)' => ~isClose'[fd]
          /\ \A fd \in Fd : InBatch(fd)' \/ Queued(fd)' => interest'[fd] = "off" /\ ~isClose'[fd]
      BY <1>1, <2>2, ArmedFrame, BatchFrame, TaskFrame DEF Registered
    <3>2. \A w \in Worker : job'[w] # Idle =>
            interest'[job'[w].conn] =
              IF stage'[w] \in {"check", "mark", "shut"} THEN "none" ELSE "off"
      BY <1>1, <2>2, <2>3 DEF Registered
    <3>3. QED
      BY <1>1, <2>4, <3>1, <3>2 DEF Registered
  <2>9. CloseFlags'
    BY <1>1, <2>2, <2>3, <2>4 DEF CloseFlags
  <2>10. SocketMatchesConn'
    <3>1. \A u \in Thread : stage'[u] = "shut" <=> stage[u] = "shut"
      BY <1>1, <2>1, <2>3 DEF Thread
    <3>2. \A u \in Thread : Subject(u)' = Subject(u)
      BY <1>1, <2>2 DEF Subject
    <3>3. QED
      BY <1>1, <3>1, <3>2 DEF SocketMatchesConn
  <2>11. NoOrphan'
    BY <1>1, <2>2, <2>5, ArmedFrame, BatchFrame, TaskFrame, JobFrame DEF NoOrphan, Busy
  <2>12. QED
    BY <2>6, <2>7, <2>8, <2>9, <2>10, <2>11
<1>4. QED
  BY <1>2, <1>3

-------------------------------------------------------------------------------
(* Workers.                                                                 *)

\* ModFd gives the connection back to epoll.
LEMMA OwnArm ==
  ASSUME TypeOK, Own, NEW w \in Worker, Arm(w) PROVE Own'
<1> DEFINE c == job[w].conn
<1> USE DEF Own
<1>1. stage[w] \in {"armIn", "armOut"} /\ job[w] # Idle
  BY DEF Arm, TypeOK, StageType
<1>2. /\ job[w] # Idle /\ job'[w] = Idle
      /\ \A v \in Worker \ {w} : job'[v] = job[v]
      /\ stage'[w] = "serve" /\ \A u \in Thread \ {w} : stage'[u] = stage[u]
      /\ UNCHANGED tasks
      /\ PoolType'
      /\ \A fd \in Fd, v \in Worker : HeldBy(v, fd)' <=> v # w /\ HeldBy(v, fd)
  BY Release DEF Arm
<1>3. UNCHANGED <<sock, isClose, timer, ticking, victim, batch>>
  BY DEF Arm, conn, main
<1>4. c \in Fd /\ \A fd \in Fd : HeldBy(w, fd) <=> fd = c
  BY <1>1, HolderIs DEF TypeOK
<1>5. /\ ~InBatch(c) /\ ~Queued(c) /\ ~MainCloses(c)
      /\ \A v \in Worker \ {w} : ~HeldBy(v, c)
  BY <1>4, ExclusiveIs DEF Exclusive, TypeOK
<1>6. interest[c] = "off" /\ ~isClose[c]
  BY <1>1 DEF Registered, CloseFlags
<1>7. interest'[c] \in {"in", "out"} /\ \A fd \in Fd \ {c} : interest'[fd] = interest[fd]
  BY <1>1, <1>4, <1>6 DEF Arm, TypeOK, KernelType
<1>8. stage'[Main] = stage[Main] /\ \A fd \in Fd : MainCloses(fd)' <=> MainCloses(fd)
  BY <1>2, <1>3, NameAssumption DEF MainCloses, Thread
<1>9. EventsDistinct' /\ TasksDistinct' /\ HandedOver' /\ OneThreadPerConn'
  BY <1>2, <1>3, <1>8, HandLess DEF TypeOK
<1>10. Phases' /\ TimerCovers'
  BY <1>3, <1>8 DEF Phases, TimerCovers
<1>11. Registered'
  <2>1. \A fd \in Fd : Armed(fd)' => ~isClose'[fd]
    BY <1>3, <1>6, <1>7 DEF Registered, Armed
  <2>2. \A fd \in Fd : InBatch(fd)' \/ Queued(fd)' => interest'[fd] = "off" /\ ~isClose'[fd]
    BY <1>2, <1>3, <1>5, <1>7, BatchFrame, TaskFrame DEF Registered
  <2>3. ASSUME NEW v \in Worker, job'[v] # Idle
        PROVE  interest'[job'[v].conn] =
                 IF stage'[v] \in {"check", "mark", "shut"} THEN "none" ELSE "off"
    <3>1. v # w /\ job'[v] = job[v] /\ stage'[v] = stage[v]
      BY <1>2, <2>3 DEF Thread
    <3>2. job[v].conn \in Fd \ {c}
      BY <1>5, <2>3, <3>1, HolderIs DEF TypeOK
    <3>3. QED
      BY <1>7, <2>3, <3>1, <3>2 DEF Registered
  <2>4. stage'[Main] \in {"check", "mark", "shut", "pop"} => interest'[victim'] = "none"
    <3>1. stage[Main] \in {"check", "mark", "shut", "pop"} => victim \in Fd \ {c}
      BY <1>6 DEF Registered, TypeOK, MainType
    <3>2. QED
      BY <1>3, <1>7, <1>8, <3>1 DEF Registered
  <2>5. QED
    BY <2>1, <2>2, <2>3, <2>4 DEF Registered
<1>12. CloseFlags'
  <2>1. ASSUME NEW v \in Worker, job'[v] # Idle
        PROVE  isClose'[job'[v].conn] <=> stage'[v] = "shut"
    <3>1. v # w /\ job'[v] = job[v] /\ stage'[v] = stage[v]
      BY <1>2, <2>1 DEF Thread
    <3>2. QED
      BY <1>3, <2>1, <3>1 DEF CloseFlags
  <2>2. QED
    BY <1>3, <1>8, <2>1 DEF CloseFlags
<1>13. SocketMatchesConn'
  <2>1. ASSUME NEW u \in Thread
        PROVE  /\ stage'[u] = "shut" <=> stage[u] = "shut"
               /\ u # w => Subject(u)' = Subject(u)
    BY <1>1, <1>2, <1>3 DEF Subject, Thread
  <2>2. \A fd \in Fd :
          (\E u \in Thread : stage'[u] = "shut" /\ Subject(u)' = fd)
            <=> (\E u \in Thread : stage[u] = "shut" /\ Subject(u) = fd)
    BY <1>1, <1>2, <2>1
  <2>3. QED
    BY <1>3, <2>2 DEF SocketMatchesConn
<1>14. NoOrphan'
  <2>1. \A fd \in Fd : IF fd = c THEN Armed(fd)' ELSE Armed(fd)' <=> Armed(fd)
    BY <1>7 DEF Armed
  <2>2. \A fd \in Fd : fd # c => (Busy(fd)' <=> Busy(fd))
    BY <1>2, <1>4, TaskFrame DEF Busy
  <2>3. QED
    BY <1>3, <1>8, <2>1, <2>2, BatchFrame DEF NoOrphan
<1>15. QED
  BY <1>9, <1>10, <1>11, <1>12, <1>13, <1>14

\* A worker takes the oldest task.
LEMMA OwnBegin ==
  ASSUME TypeOK, Own, NEW w \in Worker, Begin(w) PROVE Own'
<1> DEFINE c == Head(tasks).conn
<1> USE DEF Own
<1>1. /\ job[w] = Idle /\ tasks # <<>> /\ tasks \in Seq(ReactorTask)
      /\ job' = [job EXCEPT ![w] = Head(tasks)]
      /\ tasks' = Tail(tasks)
  BY DEF Begin, Pool!Start, TypeOK, PoolType
<1>2. UNCHANGED <<sock, interest, isClose, timer, stage, ticking, victim, batch>>
  BY DEF Begin, kernel, conn, main
<1>3. /\ Head(tasks) = tasks[1] /\ Len(tasks) >= 1 /\ Head(tasks) \in ReactorTask
      /\ Len(tasks') = Len(tasks) - 1 /\ tasks' \in Seq(ReactorTask)
      /\ \A i \in 1..Len(tasks') : tasks'[i] = tasks[i + 1]
  BY <1>1
<1>4. /\ job'[w] = Head(tasks) /\ Head(tasks) # Idle
      /\ \A v \in Worker \ {w} : job'[v] = job[v]
      /\ PoolType'
  BY <1>1, <1>3, IdleAssumption DEF TypeOK, PoolType
<1>5. c \in Fd /\ Queued(c)
  BY <1>3 DEF Queued, ReactorTask
<1>6. \A fd \in Fd : Queued(fd)' <=> Queued(fd) /\ fd # c
  <2>1. ASSUME NEW fd \in Fd, Queued(fd)' PROVE Queued(fd) /\ fd # c
    <3>1. PICK i \in 1..Len(tasks') : tasks'[i].conn = fd
      BY <2>1 DEF Queued
    <3>2. i + 1 \in 1..Len(tasks) /\ tasks[i + 1].conn = fd /\ 1 \in 1..Len(tasks) /\ i + 1 # 1
      BY <1>1, <1>3, <3>1
    <3>3. QED
      BY <1>3, <3>2 DEF Queued, TasksDistinct
  <2>2. ASSUME NEW fd \in Fd, Queued(fd), fd # c PROVE Queued(fd)'
    <3>1. PICK i \in 1..Len(tasks) : tasks[i].conn = fd
      BY <2>2 DEF Queued
    <3>2. i # 1
      BY <1>3, <2>2, <3>1
    <3>3. i - 1 \in 1..Len(tasks') /\ tasks'[i - 1] = tasks[i]
      BY <1>1, <1>3, <3>1, <3>2
    <3>4. QED
      BY <3>1, <3>3 DEF Queued
  <2>3. QED
    BY <2>1, <2>2
<1>7. \A fd \in Fd, v \in Worker :
        HeldBy(v, fd)' <=> IF v = w THEN fd = c ELSE HeldBy(v, fd)
  BY <1>4 DEF HeldBy
<1>8. \A fd \in Fd : MainCloses(fd)' <=> MainCloses(fd)
  BY <1>2 DEF MainCloses
<1>9. EventsDistinct' /\ TasksDistinct'
  <2>1. TasksDistinct'
    <3> SUFFICES ASSUME NEW i \in 1..Len(tasks'), NEW j \in 1..Len(tasks'),
                        tasks'[i].conn = tasks'[j].conn
                 PROVE  i = j
      BY DEF TasksDistinct
    <3>1. i + 1 \in 1..Len(tasks) /\ j + 1 \in 1..Len(tasks)
      BY <1>1, <1>3
    <3>2. QED
      BY <1>3, <3>1 DEF TasksDistinct
  <2>2. QED
    BY <1>2, <2>1 DEF EventsDistinct
<1>10. HandedOver' /\ OneThreadPerConn'
  <2>1. \A fd \in Fd : Exclusive(fd)
    BY ExclusiveIs DEF TypeOK
  <2>2. \A fd \in Fd : Exclusive(fd)'
    BY <1>2, <1>5, <1>6, <1>7, <1>8, <2>1, BatchFrame DEF Exclusive
  <2>3. QED
    BY <1>4, <2>2, ExclusiveNext
<1>11. Phases' /\ TimerCovers'
  BY <1>2 DEF Phases, TimerCovers
<1>12. stage[w] = "serve"
  BY <1>1 DEF TypeOK, StageType
<1>13. interest[c] = "off" /\ ~isClose[c]
  BY <1>5 DEF Registered
<1>14. Registered'
  <2>1. /\ \A fd \in Fd : Armed(fd)' => ~isClose'[fd]
        /\ \A fd \in Fd : InBatch(fd)' \/ Queued(fd)' => interest'[fd] = "off" /\ ~isClose'[fd]
    BY <1>2, <1>6, ArmedFrame, BatchFrame DEF Registered
  <2>2. ASSUME NEW v \in Worker, job'[v] # Idle
        PROVE  interest'[job'[v].conn] =
                 IF stage'[v] \in {"check", "mark", "shut"} THEN "none" ELSE "off"
    <3>1. CASE v = w
      BY <1>2, <1>4, <1>12, <1>13, <3>1
    <3>2. CASE v # w
      BY <1>2, <1>4, <2>2, <3>2 DEF Registered
    <3>3. QED
      BY <3>1, <3>2
  <2>3. QED
    BY <1>2, <2>1, <2>2 DEF Registered
<1>15. CloseFlags'
  <2>1. ASSUME NEW v \in Worker, job'[v] # Idle
        PROVE  isClose'[job'[v].conn] <=> stage'[v] = "shut"
    <3>1. CASE v = w
      BY <1>2, <1>4, <1>12, <1>13, <3>1
    <3>2. CASE v # w
      BY <1>2, <1>4, <2>1, <3>2 DEF CloseFlags
    <3>3. QED
      BY <3>1, <3>2
  <2>2. QED
    BY <1>2, <2>1 DEF CloseFlags
<1>16. SocketMatchesConn'
  <2>1. \A u \in Thread : stage[u] = "shut" => Subject(u)' = Subject(u)
    BY <1>2, <1>4, <1>12 DEF Subject, Thread
  <2>2. QED
    BY <1>2, <2>1 DEF SocketMatchesConn
<1>17. NoOrphan'
  <2>1. ASSUME NEW fd \in Fd, Busy(fd) PROVE Busy(fd)'
    <3>1. \A v \in Worker : HeldBy(v, fd) => v # w
      BY <1>1 DEF HeldBy
    <3>2. CASE fd = c
      BY <1>7, <3>2 DEF Busy
    <3>3. CASE fd # c
      BY <1>6, <1>7, <2>1, <3>1, <3>3 DEF Busy
    <3>4. QED
      BY <3>2, <3>3
  <2>2. QED
    BY <1>2, <1>8, <2>1, ArmedFrame, BatchFrame DEF NoOrphan
<1>18. QED
  BY <1>9, <1>10, <1>11, <1>14, <1>15, <1>16, <1>17

-------------------------------------------------------------------------------
(* The main thread.                                                         *)

\* A timer fires only for a connection no task is outstanding for, which is where
\* SlowTasks = FALSE enters.
LEMMA OwnTickFire ==
  ASSUME SlowTasks = FALSE, TypeOK, Own, NEW c \in Fd, TickFire(c) PROVE Own'
<1> USE DEF Own
<1>1. /\ stage[Main] = "tick" /\ c \in timer /\ ~Busy(c) /\ victim' = c
      /\ UNCHANGED <<sock, interest, isClose, timer, ticking, batch, tasks, job>>
  BY DEF TickFire, kernel, conn, pool
<1>2. stage'[Main] = "del" /\ \A w \in Worker : stage'[w] = stage[w]
  BY GoStage, NameAssumption DEF TickFire, Thread
<1>3. \A fd \in Fd : ~MainCloses(fd) /\ (MainCloses(fd)' <=> fd = c)
  BY <1>1, <1>2 DEF MainCloses, Closing
<1>4. ticking /\ batch = {}
  BY <1>1 DEF Phases
<1>5. Phases'
  BY <1>1, <1>2, <1>4 DEF Phases
<1>6. EventsDistinct' /\ TasksDistinct' /\ TimerCovers'
  BY <1>1 DEF EventsDistinct, TasksDistinct, TimerCovers
<1>7. HandedOver' /\ OneThreadPerConn'
  <2>1. PoolType'
    BY <1>1 DEF TypeOK, PoolType
  <2>2. \A fd \in Fd : Exclusive(fd)
    BY ExclusiveIs DEF TypeOK
  <2>3. \A fd \in Fd : ~InBatch(fd)
    BY <1>4 DEF InBatch
  <2>4. ~Queued(c) /\ \A w \in Worker : ~HeldBy(w, c)
    BY <1>1 DEF Busy
  <2>5. \A fd \in Fd : Exclusive(fd)'
    BY <1>1, <1>3, <2>2, <2>3, <2>4, BatchFrame, TaskFrame, JobFrame DEF Exclusive
  <2>6. QED
    BY <2>1, <2>5, ExclusiveNext
<1>8. Registered'
  <2>1. /\ \A fd \in Fd : Armed(fd)' => ~isClose'[fd]
        /\ \A fd \in Fd : InBatch(fd)' \/ Queued(fd)' => interest'[fd] = "off" /\ ~isClose'[fd]
    BY <1>1, ArmedFrame, BatchFrame, TaskFrame DEF Registered
  <2>2. \A w \in Worker : job'[w] # Idle =>
          interest'[job'[w].conn] =
            IF stage'[w] \in {"check", "mark", "shut"} THEN "none" ELSE "off"
    BY <1>1, <1>2 DEF Registered
  <2>3. QED
    BY <1>2, <2>1, <2>2 DEF Registered
<1>9. CloseFlags'
  BY <1>1, <1>2 DEF CloseFlags
<1>10. SocketMatchesConn'
  <2>1. \A u \in Thread : stage'[u] = "shut" <=> stage[u] = "shut"
    BY <1>1, <1>2 DEF Thread
  <2>2. \A u \in Thread : stage[u] = "shut" => Subject(u)' = Subject(u)
    BY <1>1 DEF Subject
  <2>3. QED
    BY <1>1, <2>1, <2>2 DEF SocketMatchesConn
<1>11. NoOrphan'
  BY <1>1, <1>3, ArmedFrame, BatchFrame, TaskFrame, JobFrame DEF NoOrphan, Busy
<1>12. QED
  BY <1>5, <1>6, <1>7, <1>8, <1>9, <1>10, <1>11

\* The steps that only move the main thread on.
LEMMA OwnBookkeeping ==
  ASSUME TypeOK, Own,
         \/ Pop \/ TickEnd \/ WaitTimeout \/ EventsDone \/ AcceptFails \/ AcceptBusy
         \/ \E e \in batch : HandleListen(e)
  PROVE  Own'
<1> USE DEF Own, kernel, conn, pool, main
<1>1. \A s \in MainStage : Go(Main, s) => stage'[Main] = s
  BY GoStage DEF Thread
<1>2. CASE Pop
  <2>1. stage'[Main] = "tick" /\ ticking /\ batch = {} /\ isClose[victim]
    BY <1>1, <1>2 DEF Pop, Phases, CloseFlags, MainStage
  <2>2. QED
    BY <1>2, <2>1, OwnMainMoves, BatchFrame DEF Pop, Phases, Closing
<1>3. CASE TickEnd
  <2>1. stage'[Main] = "wait" /\ batch = {}
    BY <1>1, <1>3 DEF TickEnd, Phases, MainStage
  <2>2. QED
    BY <1>3, <2>1, OwnMainMoves, BatchFrame DEF TickEnd, Phases, Closing
<1>4. CASE WaitTimeout
  <2>1. stage'[Main] = "tick" /\ batch = {}
    BY <1>1, <1>4 DEF WaitTimeout, Phases, MainStage
  <2>2. QED
    BY <1>4, <2>1, OwnMainMoves, BatchFrame DEF WaitTimeout, Phases, Closing
<1>5. CASE EventsDone
  <2>1. stage'[Main] = "tick" /\ batch = {}
    BY <1>1, <1>5 DEF EventsDone, MainStage
  <2>2. QED
    BY <1>5, <2>1, OwnMainMoves, BatchFrame DEF EventsDone, Phases, Closing
<1>6. CASE AcceptFails \/ AcceptBusy
  <2>1. stage'[Main] = "events" /\ ~ticking
    BY <1>1, <1>6 DEF AcceptFails, AcceptBusy, Phases, MainStage
  <2>2. QED
    BY <1>6, <2>1, OwnMainMoves, BatchFrame DEF AcceptFails, AcceptBusy, Phases, Closing
<1>7. ASSUME NEW e \in batch, HandleListen(e) PROVE Own'
  <2>1. stage'[Main] = "accept" /\ ~ticking
    BY <1>1, <1>7 DEF HandleListen, Phases, MainStage
  <2>2. \A fd \in Fd : InBatch(fd)' <=> InBatch(fd)
    BY <1>7, NameAssumption DEF HandleListen, InBatch
  <2>3. QED
    BY <1>7, <2>1, <2>2, OwnMainMoves DEF HandleListen, Phases, Closing
<1>8. QED
  BY <1>2, <1>3, <1>4, <1>5, <1>6, <1>7

\* An event of the batch is about to be handled.
LEMMA EventLeaves ==
  ASSUME TypeOK, EventsDistinct, NEW e \in batch, e.conn # Listen, batch' = batch \ {e}
  PROVE  /\ e.conn \in Fd /\ InBatch(e.conn)
         /\ \A fd \in Fd : InBatch(fd)' <=> InBatch(fd) /\ fd # e.conn
         /\ EventsDistinct'
<1>1. e.conn \in Fd /\ InBatch(e.conn)
  BY DEF TypeOK, MainType, Event, InBatch
<1>2. \A fd \in Fd : InBatch(fd)' <=> InBatch(fd) /\ fd # e.conn
  BY DEF InBatch, EventsDistinct
<1>3. EventsDistinct'
  BY DEF EventsDistinct
<1>4. QED
  BY <1>1, <1>2, <1>3

\* A hang-up is the main thread's own to handle.
LEMMA OwnHandleHangUp ==
  ASSUME TypeOK, Own, NEW e \in batch, HandleHangUp(e) PROVE Own'
<1> DEFINE c == e.conn
<1> USE DEF Own
<1>1. /\ stage[Main] = "events" /\ victim' = c /\ ~ticking
      /\ UNCHANGED <<sock, interest, isClose, timer, ticking, tasks, job>>
  BY DEF HandleHangUp, kernel, conn, pool, Phases
<1>2. stage'[Main] = "del" /\ \A w \in Worker : stage'[w] = stage[w]
  BY GoStage, NameAssumption DEF HandleHangUp, Thread
<1>3. \A fd \in Fd : ~MainCloses(fd) /\ (MainCloses(fd)' <=> fd = c)
  BY <1>1, <1>2 DEF MainCloses, Closing
<1>4. /\ c \in Fd /\ InBatch(c)
      /\ \A fd \in Fd : InBatch(fd)' <=> InBatch(fd) /\ fd # c
      /\ EventsDistinct'
  BY EventLeaves DEF HandleHangUp
<1>5. Phases' /\ TasksDistinct' /\ TimerCovers'
  BY <1>1, <1>2 DEF Phases, TasksDistinct, TimerCovers
<1>6. HandedOver' /\ OneThreadPerConn'
  <2>1. PoolType'
    BY <1>1 DEF TypeOK, PoolType
  <2>2. \A fd \in Fd : Exclusive(fd)
    BY ExclusiveIs DEF TypeOK
  <2>3. \A fd \in Fd : Exclusive(fd)'
    BY <1>1, <1>3, <1>4, <2>2, TaskFrame, JobFrame DEF Exclusive
  <2>4. QED
    BY <2>1, <2>3, ExclusiveNext
<1>7. Registered'
  <2>1. /\ \A fd \in Fd : Armed(fd)' => ~isClose'[fd]
        /\ \A fd \in Fd : InBatch(fd)' \/ Queued(fd)' => interest'[fd] = "off" /\ ~isClose'[fd]
    BY <1>1, <1>4, ArmedFrame, TaskFrame DEF Registered
  <2>2. \A w \in Worker : job'[w] # Idle =>
          interest'[job'[w].conn] =
            IF stage'[w] \in {"check", "mark", "shut"} THEN "none" ELSE "off"
    BY <1>1, <1>2 DEF Registered
  <2>3. QED
    BY <1>2, <2>1, <2>2 DEF Registered
<1>8. CloseFlags'
  BY <1>1, <1>2 DEF CloseFlags
<1>9. SocketMatchesConn'
  <2>1. \A u \in Thread : stage'[u] = "shut" <=> stage[u] = "shut"
    BY <1>1, <1>2 DEF Thread
  <2>2. \A u \in Thread : stage[u] = "shut" => Subject(u)' = Subject(u)
    BY <1>1 DEF Subject
  <2>3. QED
    BY <1>1, <2>1, <2>2 DEF SocketMatchesConn
<1>10. NoOrphan'
  BY <1>1, <1>3, <1>4, ArmedFrame, TaskFrame, JobFrame DEF NoOrphan, Busy
<1>11. QED
  BY <1>4, <1>5, <1>6, <1>7, <1>8, <1>9, <1>10

\* Any other event becomes a task of the pool.
LEMMA OwnDispatch ==
  ASSUME TypeOK, Own, NEW e \in batch, Dispatch(e) PROVE Own'
<1> DEFINE c == e.conn
           n == Len(tasks)
<1> USE DEF Own
<1>1. /\ stage[Main] = "events" /\ ~ticking
      /\ UNCHANGED <<sock, interest, isClose, timer, ticking, victim, job, stage>>
  BY DEF Dispatch, Pool!Submit, kernel, conn, Phases
<1>2. /\ c \in Fd /\ InBatch(c)
      /\ \A fd \in Fd : InBatch(fd)' <=> InBatch(fd) /\ fd # c
      /\ EventsDistinct'
  BY EventLeaves DEF Dispatch
<1>3. PICK k \in ReactorTask : k.conn = c /\ tasks' = Append(tasks, k)
  BY <1>2 DEF Dispatch, Pool!Submit, ReactorTask
<1>4. /\ Len(tasks') = n + 1 /\ tasks'[n + 1].conn = c /\ n \in Nat
      /\ \A i \in 1..n : tasks'[i] = tasks[i]
      /\ PoolType'
  BY <1>1, <1>3 DEF TypeOK, PoolType
<1>5. \A fd \in Fd : Queued(fd)' <=> Queued(fd) \/ fd = c
  <2>1. ASSUME NEW fd \in Fd, Queued(fd)' PROVE Queued(fd) \/ fd = c
    BY <1>4, <2>1 DEF Queued
  <2>2. ASSUME NEW fd \in Fd, Queued(fd) PROVE Queued(fd)'
    <3>1. PICK i \in 1..n : tasks[i].conn = fd
      BY <2>2 DEF Queued
    <3>2. i \in 1..Len(tasks') /\ tasks'[i].conn = fd
      BY <1>4, <3>1
    <3>3. QED
      BY <3>2 DEF Queued
  <2>3. n + 1 \in 1..Len(tasks')
    BY <1>4
  <2>4. Queued(c)'
    BY <1>4, <2>3 DEF Queued
  <2>5. QED
    BY <2>1, <2>2, <2>4
<1>6. ~Queued(c) /\ interest[c] = "off" /\ ~isClose[c]
  BY <1>2, ExclusiveIs DEF Exclusive, TypeOK, Registered
<1>7. \A fd \in Fd : ~MainCloses(fd) /\ ~MainCloses(fd)'
  BY <1>1 DEF MainCloses, Closing
<1>8. Phases' /\ TimerCovers'
  BY <1>1 DEF Phases, TimerCovers
<1>9. TasksDistinct'
  <2>1. \A i \in 1..n : tasks[i].conn # c
    BY <1>6 DEF Queued
  <2>2. \A i \in 1..Len(tasks') : i = n + 1 \/ i \in 1..n
    BY <1>4
  <2>3. QED
    BY <1>4, <2>1, <2>2 DEF TasksDistinct
<1>10. HandedOver' /\ OneThreadPerConn'
  <2>1. \A fd \in Fd : Exclusive(fd)
    BY ExclusiveIs DEF TypeOK
  <2>2. \A fd \in Fd : Exclusive(fd)'
    BY <1>1, <1>2, <1>5, <1>7, <2>1, JobFrame DEF Exclusive
  <2>3. QED
    BY <1>4, <2>2, ExclusiveNext
<1>11. Registered'
  <2>1. /\ \A fd \in Fd : Armed(fd)' => ~isClose'[fd]
        /\ \A fd \in Fd : InBatch(fd)' \/ Queued(fd)' => interest'[fd] = "off" /\ ~isClose'[fd]
    BY <1>1, <1>2, <1>5, <1>6, ArmedFrame DEF Registered
  <2>2. QED
    BY <1>1, <2>1 DEF Registered
<1>12. CloseFlags'
  BY <1>1 DEF CloseFlags
<1>13. SocketMatchesConn'
  <2>1. \A u \in Thread : Subject(u)' = Subject(u)
    BY <1>1 DEF Subject
  <2>2. QED
    BY <1>1, <2>1 DEF SocketMatchesConn
<1>14. NoOrphan'
  BY <1>1, <1>2, <1>5, <1>7, ArmedFrame, JobFrame DEF NoOrphan, Busy
<1>15. QED
  BY <1>2, <1>8, <1>9, <1>10, <1>11, <1>12, <1>13, <1>14

\* The wait returns events of armed connections only and disarms them.
LEMMA OwnWaitEvents ==
  ASSUME TypeOK, Own, WaitEvents PROVE Own'
<1> USE DEF Own
<1>1. PICK S \in SUBSET Ready :
        /\ batch' = S
        /\ interest' = [fd \in Fd |->
             IF \E e \in S : e.conn = fd THEN "off" ELSE interest[fd]]
  BY DEF WaitEvents
<1>2. /\ stage[Main] = "wait" /\ ~ticking /\ batch = {}
      /\ UNCHANGED <<sock, isClose, timer, ticking, victim, tasks, job>>
  BY DEF WaitEvents, conn, pool, Phases
<1>3. stage'[Main] = "events" /\ \A w \in Worker : stage'[w] = stage[w]
  BY GoStage, NameAssumption DEF WaitEvents, Thread
<1>4. \A fd \in Fd : InBatch(fd)' => Armed(fd) /\ ~isClose[fd]
  <2>1. \A e \in Ready : e.conn = Listen \/ Armed(e.conn)
    BY DEF Ready, Armed
  <2>2. QED
    BY <1>1, <2>1, NameAssumption DEF InBatch, Registered
<1>5. \A fd \in Fd : interest'[fd] = IF InBatch(fd)' THEN "off" ELSE interest[fd]
  BY <1>1 DEF InBatch
<1>6. \A fd \in Fd : ~InBatch(fd)
  BY <1>2 DEF InBatch
<1>7. \A fd \in Fd : ~MainCloses(fd) /\ ~MainCloses(fd)'
  BY <1>2, <1>3 DEF MainCloses, Closing
<1>8. EventsDistinct'
  <2>1. \A e, f \in Ready : e.conn = f.conn => e = f
    BY NameAssumption DEF Ready, Armed
  <2>2. QED
    BY <1>1, <2>1 DEF EventsDistinct
<1>9. Phases' /\ TasksDistinct' /\ TimerCovers'
  BY <1>2, <1>3 DEF Phases, TasksDistinct, TimerCovers
<1>10. HandedOver' /\ OneThreadPerConn'
  <2>1. PoolType'
    BY <1>2 DEF TypeOK, PoolType
  <2>2. \A fd \in Fd : Exclusive(fd)
    BY ExclusiveIs DEF TypeOK
  <2>3. \A fd \in Fd : InBatch(fd)' => ~Queued(fd)
    BY <1>4 DEF Registered, Armed
  <2>4. \A fd \in Fd, w \in Worker : InBatch(fd)' => ~HeldBy(w, fd)
    BY <1>4 DEF Registered, Armed, HeldBy
  <2>5. \A fd \in Fd : Exclusive(fd)'
    BY <1>2, <1>7, <2>2, <2>3, <2>4, TaskFrame, JobFrame DEF Exclusive
  <2>6. QED
    BY <2>1, <2>5, ExclusiveNext
<1>11. Registered'
  <2>1. \A fd \in Fd : Armed(fd)' => ~isClose'[fd]
    BY <1>2, <1>5 DEF Registered, Armed
  <2>2. \A fd \in Fd : InBatch(fd)' \/ Queued(fd)' => interest'[fd] = "off" /\ ~isClose'[fd]
    BY <1>2, <1>4, <1>5, TaskFrame DEF Registered
  <2>3. ASSUME NEW w \in Worker, job'[w] # Idle
        PROVE  interest'[job'[w].conn] =
                 IF stage'[w] \in {"check", "mark", "shut"} THEN "none" ELSE "off"
    <3>1. job[w].conn \in Fd /\ job'[w] = job[w] /\ stage'[w] = stage[w]
      BY <1>2, <1>3, <2>3, HolderIs DEF TypeOK
    <3>2. interest[job[w].conn] \notin {"in", "out"}
      BY <1>2, <2>3 DEF Registered
    <3>3. interest'[job[w].conn] = interest[job[w].conn]
      BY <1>4, <1>5, <3>1, <3>2 DEF Armed
    <3>4. QED
      BY <1>2, <2>3, <3>1, <3>3 DEF Registered
  <2>4. QED
    BY <1>3, <2>1, <2>2, <2>3 DEF Registered
<1>12. CloseFlags'
  BY <1>2, <1>3 DEF CloseFlags
<1>13. SocketMatchesConn'
  <2>1. \A u \in Thread : stage'[u] = "shut" <=> stage[u] = "shut"
    BY <1>2, <1>3 DEF Thread
  <2>2. \A u \in Thread : Subject(u)' = Subject(u)
    BY <1>2 DEF Subject
  <2>3. QED
    BY <1>2, <2>1, <2>2 DEF SocketMatchesConn
<1>14. NoOrphan'
  <2>1. \A fd \in Fd : Armed(fd) => Armed(fd)' \/ InBatch(fd)'
    BY <1>5 DEF Armed
  <2>2. QED
    BY <1>2, <1>6, <1>7, <2>1, TaskFrame, JobFrame DEF NoOrphan, Busy
<1>15. QED
  BY <1>8, <1>9, <1>10, <1>11, <1>12, <1>13, <1>14

\* accept can only give a descriptor whose last connection nobody works on.
LEMMA OwnAcceptClient ==
  ASSUME TypeOK, Own, AcceptClient PROVE Own'
<1> USE DEF Own
<1>1. PICK a \in Client, c \in Fd :
        /\ sock[c] = NoOne
        /\ sock' = [sock EXCEPT ![c] = a]
        /\ interest' = [interest EXCEPT ![c] = "in"]
        /\ isClose' = [isClose EXCEPT ![c] = FALSE]
        /\ timer' = IF Timeouts THEN timer \cup {c} ELSE timer
  <2>1. backlog # <<>> /\ backlog \in Seq(Client)
    BY DEF AcceptClient, TypeOK, KernelType
  <2>2. Head(backlog) \in Client
    BY <2>1
  <2>3. QED
    BY <2>2 DEF AcceptClient, FreeFd
<1>2. /\ sock'[c] # NoOne /\ interest'[c] = "in" /\ ~isClose'[c]
      /\ \A fd \in Fd \ {c} : /\ sock'[fd] = sock[fd] /\ interest'[fd] = interest[fd]
                              /\ isClose'[fd] = isClose[fd]
  BY <1>1, NameAssumption DEF TypeOK, KernelType, ConnType
<1>3. /\ stage[Main] = "accept" /\ ~ticking
      /\ UNCHANGED <<ticking, victim, batch, tasks, job>>
  BY DEF AcceptClient, pool, Phases
<1>4. stage'[Main] \in {"accept", "events"} /\ \A w \in Worker : stage'[w] = stage[w]
  BY GoStage, NameAssumption DEF AcceptClient, Thread
<1>5. isClose[c] /\ \A t \in Thread : stage[t] = "shut" => Subject(t) # c
  BY <1>1 DEF SocketMatchesConn
<1>6. ~InBatch(c) /\ ~Queued(c)
  BY <1>5 DEF Registered
<1>7. \A w \in Worker : ~HeldBy(w, c)
  <2> SUFFICES ASSUME NEW w \in Worker, job[w] # Idle, job[w].conn = c
               PROVE  FALSE
    BY DEF HeldBy
  <2>1. stage[w] = "shut"
    BY <1>5 DEF CloseFlags
  <2>2. Subject(w) = c
    BY NameAssumption DEF Subject
  <2>3. QED
    BY <1>5, <2>1, <2>2 DEF Thread
<1>8. \A fd \in Fd : ~MainCloses(fd) /\ ~MainCloses(fd)'
  BY <1>3, <1>4 DEF MainCloses, Closing
<1>9. EventsDistinct' /\ TasksDistinct' /\ HandedOver' /\ OneThreadPerConn'
  BY <1>3, <1>8, HandFrame DEF TypeOK
<1>10. Phases'
  BY <1>3, <1>4 DEF Phases
<1>11. TimerCovers'
  BY <1>1, <1>2 DEF TimerCovers
<1>12. Registered'
  <2>1. \A fd \in Fd : Armed(fd)' => ~isClose'[fd]
    BY <1>2 DEF Registered, Armed
  <2>2. \A fd \in Fd : InBatch(fd)' \/ Queued(fd)' => interest'[fd] = "off" /\ ~isClose'[fd]
    BY <1>2, <1>3, <1>6, BatchFrame, TaskFrame DEF Registered
  <2>3. ASSUME NEW w \in Worker, job'[w] # Idle
        PROVE  interest'[job'[w].conn] =
                 IF stage'[w] \in {"check", "mark", "shut"} THEN "none" ELSE "off"
    <3>1. job[w].conn \in Fd \ {c} /\ job'[w] = job[w] /\ stage'[w] = stage[w]
      BY <1>3, <1>4, <1>7, <2>3, HolderIs DEF TypeOK
    <3>2. QED
      BY <1>2, <1>3, <2>3, <3>1 DEF Registered
  <2>4. QED
    BY <1>4, <2>1, <2>2, <2>3 DEF Registered
<1>13. CloseFlags'
  <2>1. ASSUME NEW w \in Worker, job'[w] # Idle
        PROVE  isClose'[job'[w].conn] <=> stage'[w] = "shut"
    <3>1. job[w].conn \in Fd \ {c} /\ job'[w] = job[w] /\ stage'[w] = stage[w]
      BY <1>3, <1>4, <1>7, <2>1, HolderIs DEF TypeOK
    <3>2. QED
      BY <1>2, <1>3, <2>1, <3>1 DEF CloseFlags
  <2>2. QED
    BY <1>4, <2>1 DEF CloseFlags
<1>14. SocketMatchesConn'
  <2>1. \A u \in Thread : stage'[u] = "shut" <=> stage[u] = "shut"
    BY <1>3, <1>4 DEF Thread
  <2>2. \A u \in Thread : Subject(u)' = Subject(u)
    BY <1>3 DEF Subject
  <2>3. QED
    BY <1>2, <2>1, <2>2 DEF SocketMatchesConn
<1>15. NoOrphan'
  <2>1. \A fd \in Fd : Armed(fd) => Armed(fd)'
    BY <1>2 DEF Armed
  <2>2. Armed(c)'
    BY <1>2 DEF Armed
  <2>3. QED
    BY <1>2, <1>3, <1>8, <2>1, <2>2, BatchFrame, TaskFrame, JobFrame DEF NoOrphan, Busy
<1>16. QED
  BY <1>9, <1>10, <1>11, <1>12, <1>13, <1>14, <1>15

-------------------------------------------------------------------------------
(* All steps together.                                                      *)

\* Nothing that Own speaks of changes: the clients, and a process that is dying.
LEMMA OwnFrame ==
  ASSUME Own,
         UNCHANGED <<sock, interest, isClose, tasks, job, timer, stage, ticking, victim, batch>>
  PROVE  Own'
<1>1. \A u \in Thread : Subject(u)' = Subject(u)
  BY DEF Subject
<1>2. \A fd \in Fd : MainCloses(fd)' <=> MainCloses(fd)
  BY DEF MainCloses
<1>3. Phases' /\ TimerCovers' /\ CloseFlags' /\ EventsDistinct' /\ TasksDistinct'
  BY DEF Own, Phases, TimerCovers, CloseFlags, EventsDistinct, TasksDistinct
<1>4. Registered'
  BY ArmedFrame, BatchFrame, TaskFrame DEF Own, Registered
<1>5. HandedOver' /\ OneThreadPerConn'
  BY <1>2, BatchFrame, TaskFrame, JobFrame
     DEF Own, HandedOver, OneThreadPerConn, Busy, HeldBy, MainCloses
<1>6. SocketMatchesConn'
  BY <1>1 DEF Own, SocketMatchesConn
<1>7. NoOrphan'
  BY <1>2, ArmedFrame, BatchFrame, TaskFrame, JobFrame DEF Own, NoOrphan, Busy
<1>8. QED
  BY <1>3, <1>4, <1>5, <1>6, <1>7 DEF Own

\* No connection exists yet.
LEMMA OwnInit == Init => Own
<1> SUFFICES ASSUME Init PROVE Own
  OBVIOUS
<1>1. \A w \in Worker : stage[w] = "serve" /\ job[w] = Idle
  BY NameAssumption DEF Init, ListenInit, ConnInit, Thread, Pool!Init
<1>2. stage[Main] = "tick" /\ ticking /\ batch = {} /\ tasks = <<>>
  BY DEF Init, ListenInit, ConnInit, Thread, Pool!Init
<1>3. \A fd \in Fd : isClose[fd] /\ sock[fd] = NoOne /\ ~Armed(fd)
  BY DEF Init, ListenInit, ConnInit, Armed
<1>4. \A fd \in Fd : ~InBatch(fd) /\ ~Queued(fd) /\ ~MainCloses(fd)
  BY <1>2 DEF InBatch, Queued, MainCloses, Closing
<1>5. \A t \in Thread : stage[t] # "shut"
  BY <1>1, <1>2 DEF Thread
<1>6. Phases /\ EventsDistinct /\ TasksDistinct /\ TimerCovers
  BY <1>2, <1>3 DEF Phases, EventsDistinct, TasksDistinct, TimerCovers
<1>7. Registered /\ CloseFlags /\ HandedOver /\ OneThreadPerConn
  BY <1>1, <1>2, <1>3, <1>4 DEF Registered, CloseFlags, HandedOver, OneThreadPerConn
<1>8. SocketMatchesConn /\ NoOrphan
  BY <1>3, <1>5 DEF SocketMatchesConn, NoOrphan
<1>9. QED
  BY <1>6, <1>7, <1>8 DEF Own

\* The steps of a worker between taking a task and giving the connection back.
LEMMA OwnServe ==
  ASSUME TypeOK, Own, NEW w \in Worker,
         ReadData(w) \/ ReadFails(w) \/ WriteAll(w) \/ WritePart(w) \/ WriteFails(w)
  PROVE  Own'
<1>1. /\ w \in Thread /\ w # Main /\ stage[w] = "serve"
      /\ UNCHANGED <<sock, interest, isClose, tasks, job, timer, ticking, victim, batch>>
  BY NameAssumption
     DEF ReadData, ReadFails, WriteAll, WritePart, WriteFails, Serving, Thread,
         Process, kernel, conn, pool, main
<1>2. PICK s \in {"armIn", "armOut", "del"} : Go(w, s)
  <2>1. CASE ReadData(w) \/ WriteAll(w)
    BY <2>1 DEF ReadData, WriteAll, Process
  <2>2. CASE ReadFails(w) \/ WriteFails(w) \/ WritePart(w)
    BY <2>2 DEF ReadFails, WriteFails, WritePart
  <2>3. QED
    BY <2>1, <2>2
<1>3. QED
  BY <1>1, <1>2, OwnStage

\* Every step keeps Own.
LEMMA OwnStep ==
  ASSUME SlowTasks = FALSE, TypeOK, Own, [Next]_vars PROVE Own'
<1>1. ASSUME NEW c \in Client, ClientStep(c) PROVE Own'
  BY <1>1, OwnFrame
     DEF ClientStep, Connect, Send, Shutdown, Reset, Drain, kernel, client, conn, pool, main
<1>2. ASSUME NEW t \in Thread, CloseStep(t) PROVE Own'
  BY <1>2, OwnDel, OwnCheck, OwnMark, OwnShut DEF CloseStep
<1>3. CASE MainStep
  BY <1>2, <1>3, OwnTickFire, OwnBookkeeping, OwnHandleHangUp, OwnDispatch, OwnWaitEvents,
     OwnAcceptClient DEF MainStep, MainWork, Thread
<1>4. ASSUME NEW w \in Worker, WorkerStep(w) PROVE Own'
  <2>1. CASE WriteKilled(w)
    BY <2>1, OwnFrame DEF WriteKilled, conn, pool, main
  <2>2. CASE CloseStep(w)
    BY <1>2, <2>2 DEF Thread
  <2>3. QED
    BY <1>4, <2>1, <2>2, OwnBegin, OwnServe, OwnArm DEF WorkerStep
<1>5. CASE UNCHANGED vars
  BY <1>5, OwnFrame DEF vars, kernel, conn, pool, main
<1>6. QED
  BY <1>1, <1>3, <1>4, <1>5 DEF Next

-------------------------------------------------------------------------------
(* The count of connections.                                                *)

Open == {fd \in Fd : ~isClose[fd]}

\* No connection is open and none is counted.
LEMMA CountInit == Init => UserCountExact
<1> SUFFICES ASSUME Init PROVE UserCountExact
  OBVIOUS
<1>1. userCount = 0 /\ {fd \in Fd : ~isClose[fd]} = {}
  BY DEF Init, ListenInit, ConnInit
<1>2. QED
  BY <1>1, FS_EmptySet DEF UserCountExact

\* Only the owner counts a connection down, and only once.
LEMMA CountMark ==
  ASSUME TypeOK, Own, UserCountExact, NEW t \in Thread, Mark(t) PROVE UserCountExact'
<1> DEFINE c == Subject(t)
<1>1. c \in Fd /\ ~isClose[c]
  BY SubjectAlone DEF Mark, Closing, Own, CloseFlags, Subject
<1>2. IsFiniteSet(Open) /\ c \in Open
  BY <1>1, FS_Subset, SizeAssumption DEF Open
<1>3. Open' = Open \ {c}
  BY <1>1 DEF Open, Mark, TypeOK, ConnType
<1>4. Cardinality(Open') = Cardinality(Open) - 1
  BY <1>2, <1>3, FS_RemoveElement
<1>5. userCount' = userCount - 1
  BY DEF Mark
<1>6. QED
  BY <1>4, <1>5 DEF UserCountExact, Open

\* accept counts a connection that was closed before.
LEMMA CountAccept ==
  ASSUME TypeOK, Own, UserCountExact, AcceptClient PROVE UserCountExact'
<1>1. PICK c \in Fd : sock[c] = NoOne /\ isClose' = [isClose EXCEPT ![c] = FALSE]
  BY DEF AcceptClient, FreeFd
<1>2. isClose[c]
  BY <1>1 DEF Own, SocketMatchesConn
<1>3. IsFiniteSet(Open) /\ c \notin Open
  BY <1>2, FS_Subset, SizeAssumption DEF Open
<1>4. Open' = Open \cup {c}
  BY <1>1 DEF Open, TypeOK, ConnType
<1>5. Cardinality(Open') = Cardinality(Open) + 1
  BY <1>3, <1>4, FS_AddElement
<1>6. userCount' = userCount + 1
  BY DEF AcceptClient
<1>7. QED
  BY <1>5, <1>6 DEF UserCountExact, Open

\* Only accept and Close touch the count.
LEMMA CountStep ==
  ASSUME TypeOK, Own, UserCountExact, [Next]_vars PROVE UserCountExact'
<1>1. ASSUME UNCHANGED <<isClose, userCount>> PROVE UserCountExact'
  BY <1>1 DEF UserCountExact
<1>2. ASSUME NEW t \in Thread, CloseStep(t) PROVE UserCountExact'
  <2>1. CASE Mark(t)
    BY <2>1, CountMark
  <2>2. CASE Del(t) \/ Check(t) \/ Shut(t)
    BY <1>1, <2>2 DEF Del, Check, Shut, conn
  <2>3. QED
    BY <1>2, <2>1, <2>2 DEF CloseStep
<1>3. ASSUME NEW c \in Client, ClientStep(c) PROVE UserCountExact'
  BY <1>1, <1>3 DEF ClientStep, Connect, Send, Shutdown, Reset, Drain, conn
<1>4. CASE MainStep
  <2>1. CASE AcceptClient
    BY <2>1, CountAccept
  <2>2. CASE CloseStep(Main)
    BY <1>2, <2>2 DEF Thread
  <2>3. CASE Pop \/ TickEnd \/ WaitEvents \/ WaitTimeout \/ EventsDone \/ AcceptFails \/ AcceptBusy
    BY <1>1, <2>3
       DEF Pop, TickEnd, WaitEvents, WaitTimeout, EventsDone, AcceptFails, AcceptBusy, conn
  <2>4. CASE \/ \E fd \in Fd : TickFire(fd)
             \/ \E e \in batch : HandleListen(e) \/ HandleHangUp(e) \/ Dispatch(e)
    BY <1>1, <2>4 DEF TickFire, HandleListen, HandleHangUp, Dispatch, conn
  <2>5. QED
    BY <1>4, <2>1, <2>2, <2>3, <2>4 DEF MainStep, MainWork
<1>5. ASSUME NEW w \in Worker, WorkerStep(w) PROVE UserCountExact'
  <2>1. CASE CloseStep(w)
    BY <1>2, <2>1 DEF Thread
  <2>2. CASE ReadData(w) \/ WriteAll(w) \/ WritePart(w)
    BY <1>1, <2>2 DEF ReadData, WriteAll, WritePart
  <2>3. CASE Begin(w) \/ ReadFails(w) \/ WriteFails(w) \/ WriteKilled(w) \/ Arm(w)
    BY <1>1, <2>3 DEF Begin, ReadFails, WriteFails, WriteKilled, Arm, conn
  <2>4. QED
    BY <1>5, <2>1, <2>2, <2>3 DEF WorkerStep
<1>6. CASE UNCHANGED vars
  BY <1>1, <1>6 DEF vars, conn
<1>7. QED
  BY <1>3, <1>4, <1>5, <1>6 DEF Next

-------------------------------------------------------------------------------
(* The theorems.                                                            *)

\* As long as every task ends before its connection's timer expires, the invariant
\* holds throughout: one party at a time owns a connection.
THEOREM Ownership == ASSUME SlowTasks = FALSE PROVE SafeSpec => []IInv
<1>1. Init => IInv
  BY TypeInit, OwnInit, CountInit DEF IInv, Own
<1>2. IInv /\ [Next]_vars => IInv'
  BY TypeStep, OwnStep, CountStep DEF IInv, Own
<1>3. QED
  BY <1>1, <1>2, PTL DEF SafeSpec

\* What epoll or the queue holds for a connection is for its present client.
LEMMA InvNothingStale == IInv => NothingStale
  BY DEF IInv, Registered, SocketMatchesConn, NothingStale

\* A socket is served by one thread at a time.
THEOREM OneThread == ASSUME SlowTasks = FALSE PROVE SafeSpec => []OneThreadPerConn
  BY Ownership, PTL DEF IInv

\* An open connection always has somebody to serve or to close it.
THEOREM NoneForgotten == ASSUME SlowTasks = FALSE PROVE SafeSpec => []NoOrphan
  BY Ownership, PTL DEF IInv

\* A reused descriptor meets nothing left over from the connection before.
THEOREM NoneStale == ASSUME SlowTasks = FALSE PROVE SafeSpec => []NothingStale
  BY Ownership, InvNothingStale, PTL

\* A connection's socket is closed, once, by the thread that marked it closed.
THEOREM SocketsMatch == ASSUME SlowTasks = FALSE PROVE SafeSpec => []SocketMatchesConn
  BY Ownership, PTL DEF IInv

\* userCount never drifts.
THEOREM CountExact == ASSUME SlowTasks = FALSE PROVE SafeSpec => []UserCountExact
  BY Ownership, PTL DEF IInv

\* A connection is never without its timer when timeouts are on.
THEOREM Timed == ASSUME SlowTasks = FALSE PROVE SafeSpec => []TimerCovers
  BY Ownership, PTL DEF IInv

-------------------------------------------------------------------------------
(* Edge-triggered connections are never cut short, slow tasks or not.       *)

\* Only the steps of OnWrite_ take a worker from a write to CloseConn_.
LEMMA OnlyWriteCloses ==
  ASSUME TypeOK, [Next]_vars, NEW w \in Worker, Serving(w, "write"), stage'[w] = "del"
  PROVE  WriteAll(w) \/ WritePart(w) \/ WriteFails(w)
<1> DEFINE Moves(t) == \E s : Go(t, s)
<1>1. stage[w] = "serve" /\ w \in Thread /\ w # Main /\ job[w] # Idle /\ job[w].op = "write"
  BY NameAssumption DEF Serving, Thread
<1>2. ASSUME NEW t \in Thread \ {w}, Moves(t) PROVE FALSE
  BY <1>1, <1>2, GoStage
<1>3. stage' # stage
  BY <1>1
<1>4. ~ \E c \in Client : ClientStep(c)
  BY <1>3 DEF ClientStep, Connect, Send, Shutdown, Reset, Drain
<1>5. ASSUME NEW t \in Thread, CloseStep(t) PROVE FALSE
  <2>1. t # w
    BY <1>1, <1>5 DEF CloseStep, Del, Check, Mark, Shut
  <2>2. \A s : ~Go(t, s)
    BY <1>2, <2>1
  <2>3. CASE t = Main
    BY <1>5, <2>2, <2>3 DEF CloseStep, Del, Check, Mark, Shut, Return
  <2>4. CASE t # Main
    BY <1>5, <2>2, <2>4 DEF CloseStep, Del, Check, Mark, Shut, Return
  <2>5. QED
    BY <2>3, <2>4
<1>6. ~MainStep
  <2>1. \A s : ~Go(Main, s)
    BY <1>1, <1>2 DEF Thread
  <2>2. ~CloseStep(Main)
    BY <1>5 DEF Thread
  <2>3. ~ \E fd \in Fd : TickFire(fd)
    BY <2>1 DEF TickFire
  <2>4. ~(Pop \/ TickEnd \/ WaitEvents \/ WaitTimeout \/ EventsDone)
    BY <2>1 DEF Pop, TickEnd, WaitEvents, WaitTimeout, EventsDone
  <2>5. ~ \E e \in batch : HandleListen(e) \/ HandleHangUp(e) \/ Dispatch(e)
    BY <1>3, <2>1 DEF HandleListen, HandleHangUp, Dispatch
  <2>6. ~(AcceptFails \/ AcceptBusy \/ AcceptClient)
    BY <2>1 DEF AcceptFails, AcceptBusy, AcceptClient
  <2>7. QED
    BY <2>2, <2>3, <2>4, <2>5, <2>6 DEF MainStep, MainWork
<1>7. PICK v \in Worker : WorkerStep(v)
  BY <1>3, <1>4, <1>6 DEF Next, vars
<1>8. v = w
  <2> SUFFICES ASSUME v # w PROVE FALSE
    OBVIOUS
  <2>1. v \in Thread \ {w} /\ v # Main /\ \A s : ~Go(v, s)
    BY <1>2, NameAssumption DEF Thread
  <2>2. CASE Begin(v) \/ WriteKilled(v)
    BY <1>3, <2>2 DEF Begin, WriteKilled
  <2>3. CASE ReadData(v) \/ WriteAll(v)
    BY <2>1, <2>3 DEF ReadData, WriteAll, Process
  <2>4. CASE ReadFails(v) \/ WritePart(v) \/ WriteFails(v) \/ Arm(v)
    BY <2>1, <2>4 DEF ReadFails, WritePart, WriteFails, Arm, Return
  <2>5. ~CloseStep(v)
    BY <1>5, <2>1
  <2>6. QED
    BY <1>7, <2>2, <2>3, <2>4, <2>5 DEF WorkerStep
<1>9. ~ReadData(w) /\ ~ReadFails(w)
  BY <1>1 DEF ReadData, ReadFails, Serving
<1>10. ~Begin(w) /\ ~WriteKilled(w)
  BY <1>3 DEF Begin, WriteKilled
<1>11. ~Arm(w) /\ ~CloseStep(w)
  BY <1>1, <1>5 DEF Arm
<1>12. QED
  BY <1>7, <1>8, <1>9, <1>10, <1>11 DEF WorkerStep

\* A worker that turns to CloseConn_ has sent everything, or its peer aborted.
LEMMA StepNoTruncation ==
  ASSUME ConnET, TypeOK, [Next]_vars, NEW w \in Worker,
         Serving(w, "write"), stage'[w] = "del"
  PROVE  out'[job[w].conn] = 0 \/ ~Writable(job[w].conn)
<1>1. w \in Thread /\ job[w].conn \in Fd /\ \A s : Go(w, s) => s = "del"
  BY GoStage, HolderIs DEF Serving, Thread, TypeOK
<1>2. CASE WriteAll(w)
  BY <1>1, <1>2 DEF WriteAll, Process, TypeOK, ConnType
<1>3. CASE WritePart(w)
  BY <1>1, <1>3 DEF WritePart
<1>4. CASE WriteFails(w)
  BY <1>4 DEF WriteFails
<1>5. QED
  BY <1>2, <1>3, <1>4, OnlyWriteCloses

\* With edge-triggered connections, what main.cpp selects, a response is cut short
\* only if its reader aborted.
THEOREM NeverTruncates == ASSUME ConnET PROVE SafeSpec => NoTruncation
<1>1. TypeOK /\ [Next]_vars =>
        [\A w \in Worker :
           Serving(w, "write") /\ stage'[w] = "del" =>
             out'[job[w].conn] = 0 \/ ~Writable(job[w].conn)]_vars
  BY StepNoTruncation
<1>2. QED
  BY <1>1, TypeCorrect, PTL DEF SafeSpec, NoTruncation
===============================================================================
