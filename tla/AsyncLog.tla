-------------------------------- MODULE AsyncLog --------------------------------
(***************************************************************************)
(* code/log: Log::write and Log::flush as the LOG macros call them, the    *)
(* bounded queue BlockDeque, the thread of AsyncWrite_ that empties it     *)
(* into the file, and the destructor of the singleton.                     *)
(*                                                                         *)
(* Two mutexes are at work.  mtx_ of Log is held over several steps and is *)
(* a variable; the one of BlockDeque is held for a moment by each of its   *)
(* methods, which are therefore one step each.  What is read without a     *)
(* lock (toDay_, lineCount_, fp_) is read in a step of its own.            *)
(***************************************************************************)
EXTENDS Integers, Sequences, FiniteSets

CONSTANTS
  Writer,     \* threads that log
  Nobody,     \* no thread
  capacity_,  \* BlockDeque::capacity_
  MAX_LINES,  \* Log::MAX_LINES
  LastDay,    \* bound: the calendar stops here
  MaxLine     \* bound: LOG calls in all

ASSUME LogAssumption ==
  /\ IsFiniteSet(Writer) /\ Nobody \notin Writer
  /\ capacity_ \in Nat \ {0} /\ MAX_LINES \in Nat \ {0}
  /\ LastDay \in Nat /\ MaxLine \in Nat

VARIABLES
  deq_, isClose_,     \* of BlockDeque
  toDay_, lineCount_, \* of Log
  fp_,        \* the open file: its day, its part, and how many were opened before
  mtx_,       \* the thread that holds Log::mtx_, or Nobody
  today,      \* the date
  stage,      \* stage[w]: the next step of w
  t,          \* t[w]: the date at the start of write
  newFile,    \* newFile[w]: the file w is about to open
  file,       \* file[w]: the fp_ that w flushes
  line,       \* line[w]: the line w has formatted
  calls,      \* LOG calls started
  consumer,   \* the next step of AsyncWrite_
  str,        \* the line it has taken, or 0
  dtor,       \* the next step of ~Log
  count,      \* history: lines formatted, which are numbered in this order
  log         \* history: lines given to fputs, each with its file

queue == <<deq_, isClose_>>
names == <<toDay_, lineCount_, fp_>>
locals == <<t, newFile, file, line, calls>>
history == <<count, log>>
vars == <<queue, names, mtx_, today, stage, locals, consumer, str, dtor, history>>

\* A file is named after its day, and parts after the first have a number.
First == -1
NoFile == [day |-> 0, part |-> First]

Go(w, next) == stage' = [stage EXCEPT ![w] = next]

\* Mutant: the notification is lost.
Bug_NotifyConsumer == UNCHANGED consumer

\* condConsumer_.notify_one; only AsyncWrite_ waits there.
NotifyConsumer == consumer' = IF consumer = "asleep" THEN "woken" ELSE consumer

\* condProducer_.notify_one.
NotifyProducer ==
  LET asleep == {w \in Writer : stage[w] = "asleep"}
  IN IF asleep = {} THEN UNCHANGED stage ELSE \E w \in asleep : Go(w, "push")

\* Mutant: off by one.
Bug_Full == Len(deq_) > capacity_

Full == Len(deq_) >= capacity_

Fputs(n) == log' = Append(log, [no |-> n, day |-> fp_.day, part |-> fp_.part])

-------------------------------------------------------------------------------
\* init has opened the file of the day and started the thread.
Init ==
  /\ deq_ = <<>> /\ isClose_ = FALSE
  /\ toDay_ = 0 /\ lineCount_ = 0
  /\ fp_ = [day |-> 0, part |-> First, opened |-> 0]
  /\ mtx_ = Nobody
  /\ today = 0
  /\ stage = [w \in Writer |-> "idle"]
  /\ t = [w \in Writer |-> 0]
  /\ newFile = [w \in Writer |-> NoFile]
  /\ file = [w \in Writer |-> 0]
  /\ line = [w \in Writer |-> 0]
  /\ calls = 0
  /\ consumer = "pop" /\ str = 0
  /\ dtor = "none"
  /\ count = 0 /\ log = <<>>

Midnight ==
  /\ today < LastDay
  /\ today' = today + 1
  /\ UNCHANGED <<queue, names, mtx_, stage, locals, consumer, str, dtor, history>>

-------------------------------------------------------------------------------
(* A LOG macro: write, then flush.                                          *)

\* The process does not log any more when it destroys its static objects.
Call(w) ==
  /\ stage[w] = "idle" /\ calls < MaxLine /\ dtor = "none"
  /\ calls' = calls + 1
  /\ t' = [t EXCEPT ![w] = today]
  /\ Go(w, "check")
  /\ UNCHANGED <<queue, names, mtx_, today, newFile, file, line, consumer, str, dtor, history>>

\* Is another file needed?  Read without mtx_.
CheckFile(w) ==
  /\ stage[w] = "check"
  /\ Go(w, IF toDay_ # t[w] \/ (lineCount_ # 0 /\ lineCount_ % MAX_LINES = 0)
             THEN "name" ELSE "format")
  /\ UNCHANGED <<queue, names, mtx_, today, locals, consumer, str, dtor, history>>

\* Its name, made up without mtx_.
NameFile(w) ==
  /\ stage[w] = "name"
  /\ newFile' = [newFile EXCEPT ![w] =
       [day |-> t[w], part |-> IF toDay_ # t[w] THEN First ELSE lineCount_ \div MAX_LINES]]
  /\ IF toDay_ # t[w] THEN toDay_' = t[w] /\ lineCount_' = 0
                      ELSE UNCHANGED <<toDay_, lineCount_>>
  /\ Go(w, "open")
  /\ UNCHANGED <<queue, fp_, mtx_, today, t, file, line, calls, consumer, str, dtor, history>>

\* flush, fclose and fopen with mtx_ held.
OpenFile(w) ==
  /\ stage[w] = "open" /\ mtx_ = Nobody
  /\ NotifyConsumer
  /\ fp_' = [day |-> newFile[w].day, part |-> newFile[w].part, opened |-> fp_.opened + 1]
  /\ Go(w, "format")
  /\ UNCHANGED <<queue, toDay_, lineCount_, mtx_, today, locals, str, dtor, history>>

\* Mutant: buff_ is used without mtx_.
Bug_FormatUnlocked(w) ==
  /\ stage[w] = "format"
  /\ lineCount_' = lineCount_ + 1
  /\ count' = count + 1
  /\ line' = [line EXCEPT ![w] = count + 1]
  /\ Go(w, "full")
  /\ UNCHANGED <<queue, toDay_, fp_, mtx_, today, t, newFile, file, calls, consumer, str, dtor, log>>

\* mtx_ is taken and the line put together in buff_.
Format(w) ==
  /\ stage[w] = "format" /\ mtx_ = Nobody
  /\ mtx_' = w
  /\ lineCount_' = lineCount_ + 1
  /\ count' = count + 1
  /\ line' = [line EXCEPT ![w] = count + 1]
  /\ Go(w, "full")
  /\ UNCHANGED <<queue, toDay_, fp_, today, t, newFile, file, calls, consumer, str, dtor, log>>

\* full(), with mtx_ held and the lock of the queue only meanwhile.
TestFull(w) ==
  /\ stage[w] = "full"
  /\ Go(w, IF Full THEN "direct" ELSE "push")
  /\ UNCHANGED <<queue, names, mtx_, today, locals, consumer, str, dtor, history>>

\* push_back: it finds room, and mtx_ is released; or it finds none, and waits on
\* condProducer_ with mtx_ held.
Push(w) ==
  /\ stage[w] = "push"
  /\ IF ~Full
       THEN /\ deq_' = Append(deq_, line[w])
            /\ NotifyConsumer
            /\ line' = [line EXCEPT ![w] = 0]
            /\ mtx_' = Nobody
            /\ Go(w, "flush")
       ELSE Go(w, "asleep") /\ UNCHANGED <<deq_, consumer, line, mtx_>>
  /\ UNCHANGED <<isClose_, names, today, t, newFile, file, calls, str, dtor, history>>

\* Mutant: the line goes to the queue's reader and to the file.
Bug_DirectKeepsLine(w) ==
  /\ stage[w] = "direct"
  /\ Fputs(line[w])
  /\ mtx_' = Nobody
  /\ Go(w, "flush")
  /\ UNCHANGED <<queue, names, today, locals, consumer, str, dtor, count>>

\* The queue is full: fputs, and mtx_ is released.
Direct(w) ==
  /\ stage[w] = "direct"
  /\ Fputs(line[w])
  /\ line' = [line EXCEPT ![w] = 0]
  /\ mtx_' = Nobody
  /\ Go(w, "flush")
  /\ UNCHANGED <<queue, names, today, t, newFile, file, calls, consumer, str, dtor, count>>

\* flush: the thread is notified and fp_ read, both without mtx_ ...
Flush(w) ==
  /\ stage[w] = "flush"
  /\ NotifyConsumer
  /\ file' = [file EXCEPT ![w] = fp_.opened]
  /\ Go(w, "fflush")
  /\ UNCHANGED <<queue, names, mtx_, today, t, newFile, line, calls, str, dtor, history>>

\* ... and fflush called on what was read.  The local variables end here.
Fflush(w) ==
  /\ stage[w] = "fflush"
  /\ Go(w, "idle")
  /\ t' = [t EXCEPT ![w] = 0]
  /\ newFile' = [newFile EXCEPT ![w] = NoFile]
  /\ file' = [file EXCEPT ![w] = 0]
  /\ UNCHANGED <<queue, names, mtx_, today, line, calls, consumer, str, dtor, history>>

Log(w) ==
  \/ CheckFile(w) \/ NameFile(w) \/ OpenFile(w)
  \/ Format(w) \/ TestFull(w) \/ Push(w) \/ Direct(w)
  \/ Flush(w) \/ Fflush(w)

-------------------------------------------------------------------------------
(* AsyncWrite_.                                                             *)

\* pop finds a line.
Pop ==
  /\ consumer = "pop" /\ deq_ # <<>>
  /\ str' = Head(deq_)
  /\ deq_' = Tail(deq_)
  /\ consumer' = "write"
  /\ NotifyProducer
  /\ UNCHANGED <<isClose_, names, mtx_, today, locals, dtor, history>>

\* pop finds none and waits, also if the queue is closed.
PopSleeps ==
  /\ consumer = "pop" /\ deq_ = <<>>
  /\ consumer' = "asleep"
  /\ UNCHANGED <<queue, names, mtx_, today, stage, locals, str, dtor, history>>

\* pop wakes: false if the queue is closed, otherwise it looks again.
PopWakes ==
  /\ consumer = "woken"
  /\ consumer' = IF isClose_ THEN "ended" ELSE "pop"
  /\ UNCHANGED <<queue, names, mtx_, today, stage, locals, str, dtor, history>>

\* fputs with mtx_ held.
Write ==
  /\ consumer = "write" /\ mtx_ = Nobody
  /\ Fputs(str)
  /\ str' = 0
  /\ consumer' = "pop"
  /\ UNCHANGED <<queue, names, mtx_, today, stage, locals, dtor, count>>

AsyncWrite_ == Pop \/ PopSleeps \/ PopWakes \/ Write

\* A wait may end for no reason.
SpuriousWake ==
  /\ consumer = "asleep"
  /\ consumer' = "woken"
  /\ UNCHANGED <<queue, names, mtx_, today, stage, locals, str, dtor, history>>

-------------------------------------------------------------------------------
(* ~Log, when the process exits.                                            *)

Exit ==
  /\ dtor = "none" /\ \A w \in Writer : stage[w] = "idle"
  /\ dtor' = "drain"
  /\ UNCHANGED <<queue, names, mtx_, today, stage, locals, consumer, str, history>>

\* empty(), and flush() as long as it says no.
Drain ==
  /\ dtor = "drain"
  /\ IF deq_ = <<>> THEN dtor' = "close" /\ UNCHANGED consumer
                    ELSE NotifyConsumer /\ UNCHANGED dtor
  /\ UNCHANGED <<queue, names, mtx_, today, stage, locals, str, history>>

\* BlockDeque::Close
Close ==
  /\ dtor = "close"
  /\ deq_' = <<>> /\ isClose_' = TRUE
  /\ NotifyConsumer
  /\ dtor' = "join"
  /\ UNCHANGED <<names, mtx_, today, stage, locals, str, history>>

\* join() returns; the file is closed.
Join ==
  /\ dtor = "join" /\ consumer = "ended"
  /\ dtor' = "gone"
  /\ UNCHANGED <<queue, names, mtx_, today, stage, locals, consumer, str, history>>

Dtor == Drain \/ Close \/ Join

Next ==
  \/ Midnight \/ Exit
  \/ \E w \in Writer : Call(w) \/ Log(w)
  \/ AsyncWrite_ \/ SpuriousWake
  \/ Dtor

\* Threads run.  Nobody has to log or to exit, and no wait ends by itself.
Fairness ==
  /\ \A w \in Writer : WF_vars(Log(w))
  /\ WF_vars(AsyncWrite_)
  /\ WF_vars(Dtor)

SafeSpec == Init /\ [][Next]_vars
Spec == SafeSpec /\ Fairness

-------------------------------------------------------------------------------
Stage ==
  {"idle", "check", "name", "open", "format", "full", "push", "asleep", "direct",
   "flush", "fflush"}

\* Type correctness.
TypeOK ==
  /\ deq_ \in Seq(Nat)
  /\ isClose_ \in BOOLEAN
  /\ toDay_ \in Nat /\ lineCount_ \in Nat
  /\ fp_ \in [day : Nat, part : Nat \cup {First}, opened : Nat]
  /\ mtx_ \in Writer \cup {Nobody}
  /\ today \in Nat
  /\ stage \in [Writer -> Stage]
  /\ t \in [Writer -> Nat] /\ file \in [Writer -> Nat] /\ line \in [Writer -> Nat]
  /\ newFile \in [Writer -> [day : Nat, part : Nat \cup {First}]]
  /\ calls \in Nat
  /\ consumer \in {"pop", "asleep", "woken", "write", "ended"}
  /\ str \in Nat
  /\ dtor \in {"none", "drain", "close", "join", "gone"}
  /\ count \in Nat
  /\ log \in Seq([no : Nat, day : Nat, part : Nat \cup {First}])

Queued == {deq_[i] : i \in 1..Len(deq_)}
Written == {log[i].no : i \in 1..Len(log)}
InHand == ({line[w] : w \in Writer} \cup {str}) \ {0}

\* No line is lost, written twice or torn from its thread: each is in one place, the
\* hands of its writer, a slot of the queue, the hands of the thread or the file, and
\* closing the queue clears none.
LineOnce ==
  /\ Queued \cup Written \cup InHand = 1..count
  /\ Cardinality({w \in Writer : line[w] # 0}) + (IF str # 0 THEN 1 ELSE 0)
       + Len(deq_) + Len(log) = count

\* full() and push_back take the queue's lock one after the other, but mtx_ is held
\* over both, so no writer ever waits in push_back, where it would hold the mutex
\* that the thread needs to make room: the two would wait for each other.
PushNeverWaits == \A w \in Writer : stage[w] # "asleep"

\* What makes it inductive: mtx_ is held from the formatting to the release, and the
\* queue is not filled between full() and push_back.
HoldsMutex == \A w \in Writer :
  mtx_ = w <=> stage[w] \in {"full", "push", "asleep", "direct"}

RoomKept == \A w \in Writer : stage[w] = "push" => ~Full

IInv == TypeOK /\ HoldsMutex /\ RoomKept /\ PushNeverWaits

\* A line written past a full queue overtakes the queued lines and the one in the
\* hands of the thread, and never more: the file is at most that far out of order.
OvertakeBounded ==
  \A i \in 1..Len(log) :
    Cardinality((1..log[i].no) \ {log[j].no : j \in 1..i}) <= capacity_ + 1

\* Every line gets into the file, also if the process exits: a wake-up is never lost
\* between a writer and the thread, and the queue is cleared only when it is empty.
EveryLineWritten ==
  \A n \in 1..MaxLine : count >= n ~> n \in Written

-------------------------------------------------------------------------------
\* log.cpp:200: when the queue is closed, pop returns false, the thread ends and
\* the destructor with it.
JoinReturns == dtor = "join" ~> dtor = "gone"

\* log.h:80: mtx_ protects what the threads share, so no file is flushed after
\* another thread has closed it.
FlushesOpenFile == \A w \in Writer : stage[w] = "fflush" => file[w] = fp_.opened

\* log.h:53: toDay_ is the day of the current file, whenever nobody changes files.
DayOfFile ==
  (\A w \in Writer : stage[w] \notin {"name", "open"}) => fp_.day = toDay_

\* log.h:45: no file gets more than MAX_LINES lines.
FileBounded ==
  \A i \in 1..Len(log) :
    Cardinality({j \in 1..Len(log) : log[j].day = log[i].day /\ log[j].part = log[i].part})
      <= MAX_LINES
===============================================================================
