----------------------------- MODULE AsyncLogProofs -----------------------------
(***************************************************************************)
(* For any number of threads, any capacity of the queue and any size of a  *)
(* file: no logging thread ever waits in push_back, no line is lost or     *)
(* written twice, and the file is out of order by at most the capacity of  *)
(* the queue and one line more.                                            *)
(***************************************************************************)
EXTENDS AsyncLog, TLAPS, FiniteSetTheorems

\* The number of a file's part is a number.
LEMMA DividesInNat ==
  ASSUME NEW m \in Nat, NEW n \in Nat, n # 0 PROVE m \div n \in Nat
  BY Z3

\* The steps of a writer keep the types.
LEMMA TypeWriter ==
  ASSUME TypeOK, NEW w \in Writer, Call(w) \/ Log(w) PROVE TypeOK'
<1> USE LogAssumption DEF TypeOK, Stage, Go, queue, names, locals, history, First
<1>1. CASE Call(w)
  BY <1>1 DEF Call
<1>2. CASE CheckFile(w)
  BY <1>2 DEF CheckFile
<1>3. CASE NameFile(w)
  <2>1. toDay_' \in Nat /\ lineCount_' \in Nat /\ lineCount_ \div MAX_LINES \in Nat
    <3>1. lineCount_ \div MAX_LINES \in Nat
      BY DividesInNat
    <3>2. toDay_' \in Nat /\ lineCount_' \in Nat
      BY <1>3 DEF NameFile
    <3>3. QED
      BY <3>1, <3>2
  <2>2. newFile' \in [Writer -> [day : Nat, part : Nat \cup {First}]]
    BY <1>3, <2>1 DEF NameFile
  <2>3. QED
    BY <1>3, <2>1, <2>2 DEF NameFile
<1>4. CASE OpenFile(w)
  BY <1>4 DEF OpenFile, NotifyConsumer
<1>5. CASE Format(w)
  BY <1>5 DEF Format
<1>6. CASE TestFull(w)
  BY <1>6 DEF TestFull
<1>7. CASE Push(w)
  <2>1. deq_' \in Seq(Nat) /\ line' \in [Writer -> Nat]
    <3>1. line[w] \in Nat
      OBVIOUS
    <3>2. CASE Full
      BY <1>7, <3>2 DEF Push
    <3>3. CASE ~Full
      <4>1. deq_' = Append(deq_, line[w]) /\ line' = [line EXCEPT ![w] = 0]
        BY <1>7, <3>3 DEF Push
      <4>2. QED
        BY <3>1, <4>1
    <3>4. QED
      BY <3>2, <3>3
  <2>2. consumer' \in {"pop", "asleep", "woken", "write", "ended"}
    BY <1>7 DEF Push, NotifyConsumer
  <2>3. stage' \in [Writer -> Stage] /\ mtx_' \in Writer \cup {Nobody}
    BY <1>7 DEF Push
  <2>4. QED
    BY <1>7, <2>1, <2>2, <2>3 DEF Push
<1>8. CASE Direct(w)
  <2>1. log' \in Seq([no : Nat, day : Nat, part : Nat \cup {First}])
    BY <1>8 DEF Direct, Fputs
  <2>2. QED
    BY <1>8, <2>1 DEF Direct
<1>9. CASE Flush(w)
  BY <1>9 DEF Flush, NotifyConsumer
<1>10. CASE Fflush(w)
  <2>1. NoFile \in [day : Nat, part : Nat \cup {First}]
    BY DEF NoFile
  <2>2. newFile' \in [Writer -> [day : Nat, part : Nat \cup {First}]]
    BY <1>10, <2>1 DEF Fflush
  <2> QED
    BY <1>10, <2>2 DEF Fflush
<1>11. QED
  BY <1>1, <1>2, <1>3, <1>4, <1>5, <1>6, <1>7, <1>8, <1>9, <1>10 DEF Log

\* A notified writer looks again; nobody else moves.
LEMMA Notified ==
  ASSUME TypeOK, NotifyProducer
  PROVE  /\ stage' \in [Writer -> Stage]
         /\ \A w \in Writer :
              stage'[w] = stage[w] \/ (stage[w] = "asleep" /\ stage'[w] = "push")
  BY DEF TypeOK, NotifyProducer, Go, Stage

\* So do the steps of the thread that writes the file, and of the process.
LEMMA TypeOther ==
  ASSUME TypeOK, Midnight \/ Exit \/ AsyncWrite_ \/ SpuriousWake \/ Dtor
  PROVE  TypeOK'
<1> USE DEF TypeOK, queue, names, locals, history
<1>1. CASE Midnight
  BY <1>1 DEF Midnight
<1>2. CASE Exit
  BY <1>2 DEF Exit
<1>3. CASE Pop
  <2>1. stage' \in [Writer -> Stage]
    BY <1>3, Notified DEF Pop
  <2>2. str' \in Nat /\ deq_' \in Seq(Nat)
    BY <1>3 DEF Pop
  <2>3. QED
    BY <1>3, <2>1, <2>2 DEF Pop
<1>4. CASE PopSleeps
  BY <1>4 DEF PopSleeps
<1>5. CASE PopWakes
  BY <1>5 DEF PopWakes
<1>6. CASE Write
  <2>1. log' \in Seq([no : Nat, day : Nat, part : Nat \cup {First}])
    BY <1>6 DEF Write, Fputs
  <2>2. QED
    BY <1>6, <2>1 DEF Write
<1>7. CASE SpuriousWake
  BY <1>7 DEF SpuriousWake
<1>8. CASE Dtor
  <2>1. CASE Drain
    BY <2>1 DEF Drain, NotifyConsumer
  <2>2. CASE Close
    <3>1. deq_' \in Seq(Nat)
      BY <2>2 DEF Close
    <3>2. QED
      BY <2>2, <3>1 DEF Close, NotifyConsumer
  <2>3. CASE Join
    BY <2>3 DEF Join
  <2>4. QED
    BY <1>8, <2>1, <2>2, <2>3 DEF Dtor
<1>9. QED
  BY <1>1, <1>2, <1>3, <1>4, <1>5, <1>6, <1>7, <1>8 DEF AsyncWrite_

\* The queue only grows in push_back.
LEMMA Shrinks ==
  ASSUME TypeOK, Midnight \/ Exit \/ AsyncWrite_ \/ SpuriousWake \/ Dtor
  PROVE  Len(deq_') <= Len(deq_)
<1>1. Len(<<>>) = 0 /\ Len(deq_) \in Nat
  BY DEF TypeOK
<1>2. CASE Pop
  <2>1. Len(Tail(deq_)) = Len(deq_) - 1
    BY <1>2 DEF Pop, TypeOK
  <2>2. QED
    BY <1>1, <1>2, <2>1 DEF Pop
<1>3. CASE Close
  BY <1>1, <1>3 DEF Close
<1>4. CASE ~Pop /\ ~Close
  <2>1. UNCHANGED deq_
    BY <1>4 DEF Midnight, Exit, AsyncWrite_, PopSleeps, PopWakes, Write, SpuriousWake, Dtor,
                Drain, Join, queue
  <2>2. QED
    BY <1>1, <2>1
<1>5. QED
  BY <1>2, <1>3, <1>4

\* Steps outside the writers leave mtx_ alone and put nobody to sleep.
LEMMA SafeOther ==
  ASSUME IInv, Midnight \/ Exit \/ AsyncWrite_ \/ SpuriousWake \/ Dtor
  PROVE  HoldsMutex' /\ RoomKept' /\ PushNeverWaits'
<1>1. UNCHANGED mtx_
  <2>1. Midnight \/ Exit \/ SpuriousWake => UNCHANGED mtx_
    BY DEF Midnight, Exit, SpuriousWake
  <2>2. AsyncWrite_ => UNCHANGED mtx_
    BY DEF AsyncWrite_, Pop, PopSleeps, PopWakes, Write
  <2>3. Dtor => UNCHANGED mtx_
    BY DEF Dtor, Drain, Close, Join
  <2>4. QED
    BY <2>1, <2>2, <2>3
<1>2. UNCHANGED stage
  <2>1. CASE Pop
    <3>1. {w \in Writer : stage[w] = "asleep"} = {}
      BY DEF IInv, PushNeverWaits
    <3>2. QED
      BY <2>1, <3>1 DEF Pop, NotifyProducer
  <2>2. CASE ~Pop
    BY <2>2 DEF Midnight, Exit, AsyncWrite_, PopSleeps, PopWakes, Write, SpuriousWake, Dtor,
                Drain, Close, Join
  <2>3. QED
    BY <2>1, <2>2
<1>3. Len(deq_') <= Len(deq_) /\ Len(deq_') \in Nat /\ Len(deq_) \in Nat
  <2>1. deq_ \in Seq(Nat) /\ deq_' \in Seq(Nat)
    BY TypeOther DEF IInv, TypeOK
  <2>2. QED
    BY <2>1, Shrinks DEF IInv
<1>4. ~Full => ~Full'
  BY <1>3, LogAssumption DEF Full
<1>5. QED
  BY <1>1, <1>2, <1>4 DEF IInv, HoldsMutex, RoomKept, PushNeverWaits

\* A writer takes mtx_ to format a line and keeps it until the line is out of its
\* hands; meanwhile no other writer adds to the queue it has found room in.
LEMMA SafeWriter ==
  ASSUME IInv, NEW w \in Writer, Call(w) \/ Log(w)
  PROVE  HoldsMutex' /\ RoomKept' /\ PushNeverWaits'
<1> USE LogAssumption DEF IInv, HoldsMutex, RoomKept, PushNeverWaits, Go
<1>0. stage \in [Writer -> Stage]
  BY DEF TypeOK
<1>1. CASE Call(w) \/ CheckFile(w) \/ NameFile(w) \/ OpenFile(w) \/ Flush(w) \/ Fflush(w)
  <2>1. UNCHANGED <<mtx_, deq_>>
    BY <1>1 DEF Call, CheckFile, NameFile, OpenFile, Flush, Fflush, queue
  <2>2. PICK next \in {"idle", "check", "name", "open", "format", "fflush"} :
          stage' = [stage EXCEPT ![w] = next]
    BY <1>1 DEF Call, CheckFile, NameFile, OpenFile, Flush, Fflush
  <2>3. stage[w] \in {"idle", "check", "name", "open", "flush", "fflush"}
    BY <1>1 DEF Call, CheckFile, NameFile, OpenFile, Flush, Fflush
  <2>4. QED
    BY <1>0, <2>1, <2>2, <2>3 DEF Full
<1>2. CASE Format(w)
  BY <1>0, <1>2 DEF Format, Full, queue
<1>3. CASE TestFull(w)
  BY <1>0, <1>3 DEF TestFull, Full, queue
<1>4. CASE Push(w)
  <2>1. ~Full
    BY <1>4 DEF Push
  <2>2. mtx_ = w /\ mtx_' = Nobody /\ stage' = [stage EXCEPT ![w] = "flush"]
    BY <1>4, <2>1 DEF Push
  <2>3. \A v \in Writer : stage[v] \in {"full", "push", "asleep", "direct"} => v = w
    BY <2>2
  <2>4. QED
    BY <1>0, <2>2, <2>3
<1>5. CASE Direct(w)
  BY <1>0, <1>5 DEF Direct, Full, queue
<1>6. QED
  BY <1>1, <1>2, <1>3, <1>4, <1>5 DEF Log

\* The strengthening is an invariant: the types hold, the holder of mtx_ is the one
\* writer between formatting and release, and room once found stays.
THEOREM Held == SafeSpec => []IInv
<1>1. Init => IInv
  <2> SUFFICES ASSUME Init PROVE IInv
    OBVIOUS
  <2>1. TypeOK
    <3>1. deq_ \in Seq(Nat) /\ log \in Seq([no : Nat, day : Nat, part : Nat \cup {First}])
      BY DEF Init
    <3>2. QED
      BY <3>1, LogAssumption DEF Init, TypeOK, Stage, First, NoFile
  <2>2. HoldsMutex /\ RoomKept /\ PushNeverWaits
    BY LogAssumption DEF Init, HoldsMutex, RoomKept, PushNeverWaits
  <2>3. QED
    BY <2>1, <2>2 DEF IInv
<1>2. IInv /\ [Next]_vars => IInv'
  <2> SUFFICES ASSUME IInv, [Next]_vars PROVE IInv'
    OBVIOUS
  <2>1. CASE \E w \in Writer : Call(w) \/ Log(w)
    BY <2>1, TypeWriter, SafeWriter DEF IInv
  <2>2. CASE Midnight \/ Exit \/ AsyncWrite_ \/ SpuriousWake \/ Dtor
    BY <2>2, TypeOther, SafeOther DEF IInv
  <2>3. CASE UNCHANGED vars
    BY <2>3 DEF vars, queue, names, locals, history, IInv, TypeOK, HoldsMutex, RoomKept,
                PushNeverWaits, Full
  <2>4. QED
    BY <2>1, <2>2, <2>3 DEF Next
<1>3. QED
  BY <1>1, <1>2, PTL DEF SafeSpec

\* log.cpp:157-158 cannot block: no writer waits in push_back with mtx_ held, so
\* writers and the thread never wait for each other.
THEOREM NeverBlocks == SafeSpec => []PushNeverWaits
<1>1. IInv => PushNeverWaits
  BY DEF IInv
<1>2. QED
  BY <1>1, Held, PTL

-------------------------------------------------------------------------------
(* Where the lines are. *)

Busy == {"full", "push", "asleep", "direct"}

\* Who has a line in hand, and that no writer is left when the queue is closed.
Carries ==
  /\ \A w \in Writer : line[w] # 0 <=> stage[w] \in Busy
  /\ str # 0 <=> consumer = "write"
  /\ dtor # "none" => \A w \in Writer : stage[w] = "idle"
  /\ dtor = "close" => deq_ = <<>>

Formatted == IF mtx_ = Nobody THEN {} ELSE {line[mtx_]}
Popped == IF str = 0 THEN {} ELSE {str}

\* LineOnce, with the one writer that holds mtx_ in place of all of them.
AllThere == Queued \cup Written \cup Formatted \cup Popped = 1..count
Formatting == IF mtx_ = Nobody THEN 0 ELSE 1
Popping == IF str = 0 THEN 0 ELSE 1
Counted == Formatting + Popping + Len(deq_) + Len(log) = count

Accounted == AllThere /\ Counted

LEMMA Lengths ==
  ASSUME TypeOK 
  PROVE  /\ Len(deq_) \in Nat /\ Len(log) \in Nat /\ count \in Nat
         /\ Formatting \in Nat /\ Popping \in Nat
BY DEF TypeOK, Formatting, Popping

LEMMA HandsAre ==
  ASSUME IInv, Carries
  PROVE  /\ InHand = Formatted \cup Popped
         /\ Cardinality({w \in Writer : line[w] # 0}) = IF mtx_ = Nobody THEN 0 ELSE 1
<1> USE DEF IInv, Carries, HoldsMutex, Busy
<1>1. \A w \in Writer : line[w] # 0 <=> mtx_ = w
  OBVIOUS
<1>2. CASE mtx_ = Nobody
  <2>1. {w \in Writer : line[w] # 0} = {}
    BY <1>1, <1>2, LogAssumption
  <2>2. QED
    BY <1>2, <2>1, FS_EmptySet DEF InHand, Formatted, Popped
<1>3. CASE mtx_ # Nobody
  <2>1. mtx_ \in Writer /\ {w \in Writer : line[w] # 0} = {mtx_}
    BY <1>1, <1>3 DEF TypeOK
  <2>2. InHand = {line[mtx_]} \cup Popped
    BY <1>1, <2>1 DEF InHand, Popped
  <2>3. QED
    BY <1>3, <2>1, <2>2, FS_Singleton DEF Formatted
<1>4. QED
  BY <1>2, <1>3

\* A sequence with one more element, and without its first.
LEMMA OneMore ==
  ASSUME NEW S, NEW seq \in Seq(S), NEW e \in S
  PROVE  LET new == Append(seq, e)
         IN  /\ Len(new) = Len(seq) + 1 /\ new[Len(new)] = e
             /\ \A i \in 1..Len(seq) : new[i] = seq[i]
             /\ 1..Len(new) = 1..Len(seq) \cup {Len(new)}
OBVIOUS

LEMMA QueuedMore ==
  ASSUME TypeOK, NEW n \in Nat, deq_' = Append(deq_, n)
  PROVE  Queued' = Queued \cup {n} /\ Len(deq_') = Len(deq_) + 1
<1>1. /\ Len(deq_') = Len(deq_) + 1 /\ deq_'[Len(deq_')] = n
      /\ \A i \in 1..Len(deq_) : deq_'[i] = deq_[i]
      /\ 1..Len(deq_') = 1..Len(deq_) \cup {Len(deq_')}
  BY OneMore DEF TypeOK
<1>2. QED
  BY <1>1 DEF Queued

LEMMA QueuedLess ==
  ASSUME TypeOK, deq_ # <<>>, deq_' = Tail(deq_)
  PROVE  /\ Queued = Queued' \cup {Head(deq_)}
         /\ Len(deq_') = Len(deq_) - 1 /\ Head(deq_) \in Nat
<1>1. /\ Len(deq_') = Len(deq_) - 1 /\ Len(deq_) \in Nat \ {0}
      /\ \A i \in 1..Len(deq_') : deq_'[i] = deq_[i + 1]
      /\ Head(deq_) = deq_[1] /\ Head(deq_) \in Nat
  BY DEF TypeOK
<1>2. ASSUME NEW n \in Queued PROVE n \in Queued' \cup {Head(deq_)}
  <2>1. PICK i \in 1..Len(deq_) : n = deq_[i]
    BY DEF Queued
  <2>2. i = 1 \/ (i - 1 \in 1..Len(deq_') /\ deq_'[i - 1] = deq_[i])
    BY <1>1
  <2>3. QED
    BY <1>1, <2>1, <2>2 DEF Queued
<1>3. ASSUME NEW n \in Queued' PROVE n \in Queued
  <2>1. PICK i \in 1..Len(deq_') : n = deq_'[i]
    BY <1>3 DEF Queued
  <2>2. i + 1 \in 1..Len(deq_) /\ deq_'[i] = deq_[i + 1]
    BY <1>1
  <2>3. QED
    BY <2>1, <2>2 DEF Queued
<1>4. QED
  BY <1>1, <1>2, <1>3 DEF Queued

LEMMA WrittenMore ==
  ASSUME TypeOK, NEW n \in Nat, Fputs(n)
  PROVE  Written' = Written \cup {n} /\ Len(log') = Len(log) + 1
<1> DEFINE File == [no : Nat, day : Nat, part : Nat \cup {First}]
<1> DEFINE e == [no |-> n, day |-> fp_.day, part |-> fp_.part]
<1>1. e \in File /\ log' = Append(log, e) /\ e.no = n
  BY DEF Fputs, TypeOK
<1> HIDE DEF e, File
<1>2. log \in Seq(File)
  BY DEF TypeOK, File
<1>3. /\ Len(log') = Len(log) + 1 /\ log'[Len(log')] = e
      /\ \A i \in 1..Len(log) : log'[i] = log[i]
      /\ 1..Len(log') = 1..Len(log) \cup {Len(log')}
  BY <1>1, <1>2, OneMore
<1>4. QED
  BY <1>1, <1>3 DEF Written

-------------------------------------------------------------------------------
(* Every step keeps the account. *)

\* Most steps move no line.
LEMMA Untouched ==
  ASSUME Accounted, UNCHANGED <<deq_, log, line, str, count, mtx_>>
  PROVE  Accounted'
BY DEF Accounted, AllThere, Counted, Formatting, Popping, Queued, Written, Formatted, Popped

LEMMA WriterCarries ==
  ASSUME IInv, Carries, Accounted, NEW w \in Writer, Call(w) \/ Log(w)
  PROVE  Carries' /\ Accounted'
<1> USE LogAssumption DEF IInv, TypeOK, Go
<1>1. CASE Call(w) \/ CheckFile(w) \/ NameFile(w) \/ OpenFile(w) \/ Flush(w) \/ Fflush(w)
  <2>1. UNCHANGED <<deq_, log, line, str, count, mtx_, dtor>>
    BY <1>1 DEF Call, CheckFile, NameFile, OpenFile, Flush, Fflush, queue, locals, history
  <2>2. consumer' = "write" <=> consumer = "write"
    BY <1>1 DEF Call, CheckFile, NameFile, OpenFile, Flush, Fflush, NotifyConsumer
  <2>3. PICK next \in Stage \ Busy : stage' = [stage EXCEPT ![w] = next]
    BY <1>1 DEF Call, CheckFile, NameFile, OpenFile, Flush, Fflush, Stage, Busy
  <2>4. stage[w] \notin Busy /\ dtor = "none"
    BY <1>1 DEF Call, CheckFile, NameFile, OpenFile, Flush, Fflush, Carries, Busy
  <2>5. Carries'
    BY <2>1, <2>2, <2>3, <2>4 DEF Carries
  <2>6. QED
    BY <2>1, <2>5, Untouched
<1>2. CASE Format(w)
  <2>1. /\ mtx_ = Nobody /\ mtx_' = w /\ count' = count + 1
        /\ line' = [line EXCEPT ![w] = count + 1]
        /\ stage' = [stage EXCEPT ![w] = "full"] /\ stage[w] = "format"
        /\ UNCHANGED <<deq_, log, str, consumer, dtor>>
    BY <1>2 DEF Format, queue
  <2>2. Carries'
    BY <2>1 DEF Carries, Busy
  <2>3. Formatted = {} /\ Formatted' = {count + 1} /\ mtx_' # Nobody
    BY <2>1 DEF Formatted
  <2>4. 1..count' = 1..count \cup {count + 1}
    BY <2>1
  <2>5. UNCHANGED <<Queued, Written, Popped>>
    BY <2>1 DEF Queued, Written, Popped
  <2>6. QED
    <3>1. AllThere'
      BY <2>1, <2>2, <2>3, <2>4, <2>5 DEF Accounted, AllThere
    <3>2. Counted'
      <4>0. /\ Len(deq_) \in Nat /\ Len(log) \in Nat /\ count \in Nat
            /\ Formatting \in Nat /\ Popping \in Nat
        BY Lengths
      <4>1. w # Nobody /\ Counted
        BY LogAssumption DEF Accounted
      <4>2. /\ Formatting = 0 /\ Formatting' = 1 /\ Popping' = Popping
            /\ Len(deq_') = Len(deq_) /\ Len(log') = Len(log) /\ count' = count + 1
        BY ONLY <4>1, <2>1, <2>2, <2>3, <2>4, <2>5 DEF Formatting, Popping
      <4>3. QED
        BY ONLY <4>0, <4>1, <4>2 DEF Counted
    <3>3. QED
      BY <3>1, <3>2, <2>1, <2>2, <2>3, <2>4, <2>5 DEF Accounted
<1>3. CASE TestFull(w)
  <2>1. /\ UNCHANGED <<deq_, log, line, str, count, mtx_, consumer, dtor>>
        /\ stage[w] = "full"
        /\ \E next \in {"direct", "push"} : stage' = [stage EXCEPT ![w] = next]
    BY <1>3 DEF TestFull, queue, locals, history
  <2>2. Carries'
    BY <2>1 DEF Carries, Busy
  <2>3. QED
    BY <2>1, <2>2, Untouched
<1>4. CASE Push(w)
  <2>1. stage[w] = "push" /\ ~Full /\ mtx_ = w
    BY <1>4 DEF Push, RoomKept, HoldsMutex
  <2>2. /\ deq_' = Append(deq_, line[w]) /\ mtx_' = Nobody
        /\ line' = [line EXCEPT ![w] = 0] /\ stage' = [stage EXCEPT ![w] = "flush"]
        /\ UNCHANGED <<log, str, count, dtor>>
        /\ consumer' = "write" <=> consumer = "write"
    BY <1>4, <2>1 DEF Push, NotifyConsumer, history
  <2>3. dtor = "none"
    BY <2>1 DEF Carries
  <2>4. Carries'
    BY <2>1, <2>2, <2>3 DEF Carries, Busy
  <2>5. Queued' = Queued \cup {line[w]} /\ Len(deq_') = Len(deq_) + 1
    BY <2>2, QueuedMore
  <2>6. Formatted = {line[w]} /\ Formatted' = {}
    BY <2>1, <2>2 DEF Formatted
  <2>7. UNCHANGED <<Written, Popped>>
    BY <2>2 DEF Written, Popped
  <2>8. QED
    <3>1. AllThere'
      BY <2>1, <2>2, <2>4, <2>5, <2>6, <2>7 DEF Accounted, AllThere
    <3>2. Counted'
      <4>0. /\ Len(deq_) \in Nat /\ Len(log) \in Nat /\ count \in Nat
            /\ Formatting \in Nat /\ Popping \in Nat
        BY Lengths
      <4>1. w # Nobody /\ Counted
        BY LogAssumption DEF Accounted
      <4>2. /\ Formatting = 1 /\ Formatting' = 0 /\ Popping' = Popping
            /\ Len(deq_') = Len(deq_) + 1 /\ Len(log') = Len(log) /\ count' = count
        BY ONLY <4>1, <2>1, <2>2, <2>4, <2>5, <2>6, <2>7 DEF Formatting, Popping
      <4>3. QED
        BY ONLY <4>0, <4>1, <4>2 DEF Counted
    <3>3. QED
      BY <3>1, <3>2, <2>1, <2>2, <2>4, <2>5, <2>6, <2>7 DEF Accounted
<1>5. CASE Direct(w)
  <2>1. stage[w] = "direct" /\ mtx_ = w
    BY <1>5 DEF Direct, HoldsMutex
  <2>2. /\ Fputs(line[w]) /\ mtx_' = Nobody
        /\ line' = [line EXCEPT ![w] = 0] /\ stage' = [stage EXCEPT ![w] = "flush"]
        /\ UNCHANGED <<deq_, str, count, dtor, consumer>>
    BY <1>5 DEF Direct, queue
  <2>3. Carries'
    BY <2>1, <2>2 DEF Carries, Busy
  <2>4. Written' = Written \cup {line[w]} /\ Len(log') = Len(log) + 1
    BY <2>2, WrittenMore
  <2>5. Formatted = {line[w]} /\ Formatted' = {}
    BY <2>1, <2>2 DEF Formatted
  <2>6. UNCHANGED <<Queued, Popped>>
    BY <2>2 DEF Queued, Popped
  <2>7. QED
    <3>1. AllThere'
      BY <2>1, <2>2, <2>3, <2>4, <2>5, <2>6 DEF Accounted, AllThere
    <3>2. Counted'
      <4>0. /\ Len(deq_) \in Nat /\ Len(log) \in Nat /\ count \in Nat
            /\ Formatting \in Nat /\ Popping \in Nat
        BY Lengths
      <4>1. w # Nobody /\ Counted
        BY LogAssumption DEF Accounted
      <4>2. /\ Formatting = 1 /\ Formatting' = 0 /\ Popping' = Popping
            /\ Len(deq_') = Len(deq_) /\ Len(log') = Len(log) + 1 /\ count' = count
        BY ONLY <4>1, <2>1, <2>2, <2>3, <2>4, <2>5, <2>6 DEF Formatting, Popping
      <4>3. QED
        BY ONLY <4>0, <4>1, <4>2 DEF Counted
    <3>3. QED
      BY <3>1, <3>2, <2>1, <2>2, <2>3, <2>4, <2>5, <2>6 DEF Accounted
<1>6. QED
  BY <1>1, <1>2, <1>3, <1>4, <1>5 DEF Log

LEMMA OtherCarries ==
  ASSUME IInv, Carries, Accounted, Midnight \/ Exit \/ AsyncWrite_ \/ SpuriousWake \/ Dtor
  PROVE  Carries' /\ Accounted'
<1> USE DEF IInv, TypeOK
<1>1. CASE Pop
  <2>1. UNCHANGED stage
    <3>1. {w \in Writer : stage[w] = "asleep"} = {}
      BY DEF PushNeverWaits
    <3>2. QED
      BY <1>1, <3>1 DEF Pop, NotifyProducer
  <2>2. /\ deq_ # <<>> /\ deq_' = Tail(deq_) /\ str' = Head(deq_)
        /\ consumer = "pop" /\ consumer' = "write"
        /\ UNCHANGED <<log, line, count, mtx_, dtor>>
    BY <1>1 DEF Pop, locals, history
  <2>3. /\ Queued = Queued' \cup {str'} /\ Len(deq_') = Len(deq_) - 1 /\ str' \in Nat
    BY <2>2, QueuedLess
  <2>4. str = 0 /\ str' # 0
    <3>1. str' \in 1..count
      BY <2>3 DEF Accounted, AllThere
    <3>2. QED
      BY <2>2, <3>1 DEF Carries
  <2>5. Carries'
    BY <2>1, <2>2, <2>4 DEF Carries
  <2>6. Popped = {} /\ Popped' = {str'}
    BY <2>4 DEF Popped
  <2>7. UNCHANGED <<Written, Formatted>>
    BY <2>2 DEF Written, Formatted
  <2>8. QED
    <3>1. AllThere'
      BY <2>2, <2>3, <2>4, <2>5, <2>6, <2>7 DEF Accounted, AllThere
    <3>2. Counted'
      <4>0. /\ Len(deq_) \in Nat /\ Len(log) \in Nat /\ count \in Nat
            /\ Formatting \in Nat /\ Popping \in Nat
        BY Lengths
      <4>1. Counted
        BY DEF Accounted
      <4>2. /\ Formatting' = Formatting /\ Popping = 0 /\ Popping' = 1
            /\ Len(deq_') = Len(deq_) - 1 /\ Len(log') = Len(log) /\ count' = count
        BY ONLY <4>1, <2>2, <2>3, <2>4, <2>5, <2>6, <2>7 DEF Formatting, Popping
      <4>3. QED
        BY ONLY <4>0, <4>1, <4>2 DEF Counted
    <3>3. QED
      BY <3>1, <3>2, <2>2, <2>3, <2>4, <2>5, <2>6, <2>7 DEF Accounted
<1>2. CASE Write
  <2>1. /\ Fputs(str) /\ str' = 0 /\ consumer = "write" /\ consumer' = "pop"
        /\ UNCHANGED <<deq_, line, count, mtx_, dtor, stage>>
    BY <1>2 DEF Write, locals, queue
  <2>2. str # 0 /\ Carries'
    BY <2>1 DEF Carries
  <2>3. Written' = Written \cup {str} /\ Len(log') = Len(log) + 1
    BY <2>1, WrittenMore
  <2>4. Popped = {str} /\ Popped' = {}
    BY <2>1, <2>2 DEF Popped
  <2>5. UNCHANGED <<Queued, Formatted>>
    BY <2>1 DEF Queued, Formatted
  <2>6. QED
    <3>1. AllThere'
      BY <2>1, <2>2, <2>3, <2>4, <2>5 DEF Accounted, AllThere
    <3>2. Counted'
      <4>0. /\ Len(deq_) \in Nat /\ Len(log) \in Nat /\ count \in Nat
            /\ Formatting \in Nat /\ Popping \in Nat
        BY Lengths
      <4>1. Counted
        BY DEF Accounted
      <4>2. /\ Formatting' = Formatting /\ Popping = 1 /\ Popping' = 0
            /\ Len(deq_') = Len(deq_) /\ Len(log') = Len(log) + 1 /\ count' = count
        BY ONLY <4>1, <2>1, <2>2, <2>3, <2>4, <2>5 DEF Formatting, Popping
      <4>3. QED
        BY ONLY <4>0, <4>1, <4>2 DEF Counted
    <3>3. QED
      BY <3>1, <3>2, <2>1, <2>2, <2>3, <2>4, <2>5 DEF Accounted
<1>3. CASE PopSleeps \/ PopWakes \/ Midnight \/ SpuriousWake
  <2>1. /\ UNCHANGED <<deq_, log, line, str, count, mtx_, dtor, stage>>
        /\ consumer' = "write" <=> consumer = "write"
    BY <1>3 DEF PopSleeps, PopWakes, Midnight, SpuriousWake, queue, locals, history
  <2>2. QED
    BY <2>1, Untouched DEF Carries
<1>4. CASE Exit \/ Dtor
  <2>1. /\ UNCHANGED <<deq_, log, line, str, count, mtx_, stage>>
        /\ \A w \in Writer : stage[w] = "idle"
        /\ dtor' = "close" => deq_ = <<>>
    <3>1. CASE Exit
      BY <3>1 DEF Exit, queue, locals, history
    <3>2. CASE Drain
      BY <3>2 DEF Drain, queue, locals, history, Carries
    <3>3. CASE Close
      BY <3>3 DEF Close, locals, history, Carries
    <3>4. CASE Join
      BY <3>4 DEF Join, queue, locals, history, Carries
    <3>5. QED
      BY <1>4, <3>1, <3>2, <3>3, <3>4 DEF Dtor
  <2>2. consumer' = "write" <=> consumer = "write"
    BY <1>4 DEF Exit, Dtor, Drain, Close, Join, NotifyConsumer
  <2>3. QED
    BY <2>1, <2>2, Untouched DEF Carries
<1>5. QED
  BY <1>1, <1>2, <1>3, <1>4 DEF AsyncWrite_

\* No line is lost, doubled or left behind when the process exits (log.cpp:19-33,
\* 146-164, 201-204).
THEOREM LinesOnce == SafeSpec => []LineOnce
<1>1. Init => Carries /\ Accounted
  <2> SUFFICES ASSUME Init PROVE Carries /\ Accounted
    OBVIOUS
  <2>1. Queued = {} /\ Written = {} /\ Formatted = {} /\ Popped = {}
    BY DEF Init, Queued, Written, Formatted, Popped
  <2>2. QED
    BY <2>1 DEF Init, Carries, Busy, Accounted, AllThere, Counted, Formatting, Popping
<1>2. IInv /\ Carries /\ Accounted /\ [Next]_vars => (Carries /\ Accounted)'
  <2> SUFFICES ASSUME IInv, Carries, Accounted, [Next]_vars PROVE Carries' /\ Accounted'
    OBVIOUS
  <2>1. CASE UNCHANGED vars
    BY <2>1, Untouched DEF vars, queue, names, locals, history, Carries
  <2>2. QED
    BY <2>1, WriterCarries, OtherCarries DEF Next
<1>3. IInv /\ Carries /\ Accounted => LineOnce
  BY HandsAre DEF Accounted, AllThere, Counted, Formatting, Popping, LineOnce
<1>4. QED
  BY <1>1, <1>2, <1>3, Held, PTL DEF SafeSpec

-------------------------------------------------------------------------------
(* How far a line can overtake others. *)

WithinCapacity == Len(deq_) <= capacity_

\* The numbers written up to place i of the file.
Before(i) == {log[j].no : j \in 1..i}

\* The queue stays within its capacity, because room once found is kept.
LEMMA RoomFilled ==
  ASSUME IInv, WithinCapacity, [Next]_vars PROVE WithinCapacity'
<1> USE LogAssumption DEF IInv
<1>1. CASE \E w \in Writer : Call(w) \/ Log(w)
  <2>1. PICK w \in Writer : Call(w) \/ Log(w)
    BY <1>1
  <2>2. CASE Push(w)
    <3>1. ~Full
      BY <2>2 DEF Push, RoomKept
    <3>2. deq_' = Append(deq_, line[w]) /\ line[w] \in Nat
      BY <2>2, <3>1 DEF Push, TypeOK
    <3>3. Len(deq_') = Len(deq_) + 1 /\ Len(deq_) \in Nat
      BY <3>2, QueuedMore DEF TypeOK
    <3>4. QED
      BY <3>1, <3>3 DEF Full, WithinCapacity
  <2>3. CASE ~Push(w)
    <3>1. UNCHANGED deq_
      BY <2>1, <2>3 DEF Call, Log, CheckFile, NameFile, OpenFile, Format, TestFull, Direct,
                        Flush, Fflush, queue
    <3>2. QED
      BY <3>1 DEF WithinCapacity
  <2>4. QED
    BY <2>2, <2>3
<1>2. CASE Midnight \/ Exit \/ AsyncWrite_ \/ SpuriousWake \/ Dtor
  <2>1. Len(deq_') <= Len(deq_) /\ Len(deq_') \in Nat /\ Len(deq_) \in Nat
    <3>1. deq_ \in Seq(Nat) /\ deq_' \in Seq(Nat)
      BY <1>2, TypeOther DEF TypeOK
    <3>2. QED
      BY <1>2, <3>1, Shrinks
  <2>2. QED
    BY <2>1 DEF WithinCapacity
<1>3. CASE UNCHANGED vars
  BY <1>3 DEF vars, queue, WithinCapacity
<1>4. QED
  BY <1>1, <1>2, <1>3 DEF Next

\* No more lines are queued than the queue is long.
LEMMA QueuedFinite ==
  ASSUME TypeOK PROVE IsFiniteSet(Queued) /\ Cardinality(Queued) <= Len(deq_)
<1> DEFINE at == [i \in 1..Len(deq_) |-> deq_[i]]
<1>1. at \in Surjection(1..Len(deq_), Queued)
  BY DEF Queued, Surjection
<1>2. Len(deq_) \in Nat
  BY DEF TypeOK
<1>3. IsFiniteSet(1..Len(deq_)) /\ Cardinality(1..Len(deq_)) = Len(deq_)
  BY SMTT(20), <1>2, FS_Interval
<1>4. QED
  BY <1>1, <1>3, FS_Surjection

\* When a line is given to fputs, only what is queued and what the thread has in its
\* hands can be older and not in the file: mtx_ is held, so no other line is on its way.
LEMMA Overtaken ==
  ASSUME IInv, WithinCapacity, Accounted, NEW n \in Nat,
         n \in Formatted \cup Popped, Formatted \subseteq {n}
  PROVE  Cardinality((1..n) \ (Written \cup {n})) <= capacity_ + 1
<1> DEFINE late == (1..n) \ (Written \cup {n})
<1>1. late \subseteq Queued \cup Popped
  <2>1. n \in 1..count /\ count \in Nat
    BY DEF Accounted, AllThere, IInv, TypeOK
  <2>2. \A k \in 1..n : k \in Queued \cup Written \cup Formatted \cup Popped
    BY <2>1 DEF Accounted, AllThere
  <2>3. QED
    BY <2>2
<1>2. IsFiniteSet(Queued) /\ Cardinality(Queued) <= capacity_ /\ Cardinality(Queued) \in Nat
  <2>1. IsFiniteSet(Queued) /\ Cardinality(Queued) <= Len(deq_) /\ Len(deq_) \in Nat
    BY QueuedFinite DEF IInv, TypeOK
  <2>2. Cardinality(Queued) \in Nat
    BY <2>1, FS_CardinalityType
  <2>3. QED
    BY <2>1, <2>2, LogAssumption DEF WithinCapacity
<1>3. IsFiniteSet(Queued \cup Popped) /\ Cardinality(Queued \cup Popped) <= capacity_ + 1
  <2>1. CASE str = 0
    <3>1. Queued \cup Popped = Queued
      BY <2>1 DEF Popped
    <3>2. QED
      BY <1>2, <3>1, LogAssumption
  <2>2. CASE str # 0
    <3>1. Queued \cup Popped = Queued \cup {str}
      BY <2>2 DEF Popped
    <3>2. /\ IsFiniteSet(Queued \cup {str})
          /\ \/ Cardinality(Queued \cup {str}) = Cardinality(Queued)
             \/ Cardinality(Queued \cup {str}) = Cardinality(Queued) + 1
      BY <1>2, FS_AddElement
    <3>3. QED
      BY <1>2, <3>1, <3>2, LogAssumption
  <2>3. QED
    BY <2>1, <2>2
<1>4. Cardinality(late) <= Cardinality(Queued \cup Popped) /\ IsFiniteSet(late)
  BY <1>1, <1>3, FS_Subset
<1>5. Cardinality(late) \in Nat /\ Cardinality(Queued \cup Popped) \in Nat
  BY <1>3, <1>4, FS_CardinalityType
<1>6. QED
  BY <1>3, <1>4, <1>5, LogAssumption

\* The file only grows, so what was said of its places stays true of them.
LEMMA PlacesStay ==
  ASSUME TypeOK, OvertakeBounded, NEW n \in Nat, Fputs(n),
         Cardinality((1..n) \ (Written \cup {n})) <= capacity_ + 1
  PROVE  OvertakeBounded'
<1> DEFINE File == [no : Nat, day : Nat, part : Nat \cup {First}]
<1> DEFINE e == [no |-> n, day |-> fp_.day, part |-> fp_.part]
<1>1. e \in File /\ log' = Append(log, e) /\ e.no = n
  BY DEF Fputs, TypeOK
<1> HIDE DEF e, File
<1>2. log \in Seq(File) /\ Len(log) \in Nat
  BY DEF TypeOK, File
<1>3. /\ Len(log') = Len(log) + 1 /\ log'[Len(log')] = e
      /\ \A i \in 1..Len(log) : log'[i] = log[i]
  BY <1>1, <1>2, OneMore
<1>4. ASSUME NEW i \in 1..Len(log)
      PROVE  Before(i)' = Before(i) /\ log'[i].no = log[i].no
  <2>1. \A j \in 1..i : log'[j] = log[j]
    BY <1>2, <1>3, <1>4
  <2>2. QED
    BY <1>3, <1>4, <2>1 DEF Before
<1>5. {log'[j].no : j \in 1..Len(log')} = Written \cup {n} /\ log'[Len(log')].no = n
  BY <1>1, <1>3, WrittenMore DEF Written
<1>6. SUFFICES ASSUME NEW i \in 1..Len(log')
               PROVE  Cardinality((1..log'[i].no) \ {log'[j].no : j \in 1..i}) <= capacity_ + 1
  BY DEF OvertakeBounded
<1>7. CASE i = Len(log')
  BY <1>5, <1>7
<1>8. CASE i # Len(log')
  <2>1. i \in 1..Len(log)
    BY <1>2, <1>3, <1>8
  <2>2. {log'[j].no : j \in 1..i} = {log[j].no : j \in 1..i} /\ log'[i].no = log[i].no
    BY <1>4, <2>1 DEF Before
  <2>3. QED
    BY <2>1, <2>2 DEF OvertakeBounded
<1>9. QED
  BY <1>7, <1>8

\* A line that is written past the full queue overtakes no more than the queue and the
\* thread hold (log.cpp:157-161, 206-211): the step of fputs, directly or by the thread.
LEMMA StepOvertakes ==
  ASSUME IInv, Carries, Accounted, WithinCapacity, OvertakeBounded, [Next]_vars
  PROVE  OvertakeBounded'
<1> USE DEF IInv
<1>1. ASSUME NEW w \in Writer, Direct(w) PROVE OvertakeBounded'
  <2>1. mtx_ = w /\ w # Nobody /\ Fputs(line[w]) /\ line[w] \in Nat
    BY <1>1, LogAssumption DEF Direct, HoldsMutex, TypeOK
  <2>2. Formatted = {line[w]}
    BY <2>1 DEF Formatted
  <2>3. Cardinality((1..line[w]) \ (Written \cup {line[w]})) <= capacity_ + 1
    BY <2>1, <2>2, Overtaken
  <2>4. QED
    BY <2>1, <2>3, PlacesStay
<1>2. ASSUME Write PROVE OvertakeBounded'
  <2>1. mtx_ = Nobody /\ Fputs(str) /\ str \in Nat /\ str # 0
    BY <1>2 DEF Write, Carries, TypeOK
  <2>2. Formatted = {} /\ Popped = {str}
    BY <2>1 DEF Formatted, Popped
  <2>3. Cardinality((1..str) \ (Written \cup {str})) <= capacity_ + 1
    BY <2>1, <2>2, Overtaken
  <2>4. QED
    BY <2>1, <2>3, PlacesStay
<1>3. ASSUME UNCHANGED log PROVE OvertakeBounded'
  BY <1>3 DEF OvertakeBounded
<1>4. (\E w \in Writer : Direct(w)) \/ Write \/ UNCHANGED log
  <2>1. CASE \E w \in Writer : Call(w) \/ Log(w)
    BY <2>1 DEF Call, Log, CheckFile, NameFile, OpenFile, Format, TestFull, Push, Flush,
                Fflush, history
  <2>2. CASE Midnight \/ Exit \/ AsyncWrite_ \/ SpuriousWake \/ Dtor
    BY <2>2 DEF Midnight, Exit, AsyncWrite_, Pop, PopSleeps, PopWakes, SpuriousWake, Dtor,
                Drain, Close, Join, history
  <2>3. CASE UNCHANGED vars
    BY <2>3 DEF vars, history
  <2>4. QED
    BY <2>1, <2>2, <2>3 DEF Next
<1>5. QED
  BY <1>1, <1>2, <1>3, <1>4

\* A line in the file overtakes at most a full queue and the line that the thread has
\* taken from it, for any number of threads and any capacity.
THEOREM OvertakesLittle == SafeSpec => []OvertakeBounded
<1> DEFINE Where == Carries /\ Accounted /\ WithinCapacity
<1>1. Init => Where /\ OvertakeBounded
  <2> SUFFICES ASSUME Init PROVE Where /\ OvertakeBounded
    OBVIOUS
  <2>1. Queued = {} /\ Written = {} /\ Formatted = {} /\ Popped = {}
    BY DEF Init, Queued, Written, Formatted, Popped
  <2>2. Carries /\ Accounted
    BY <2>1 DEF Init, Carries, Busy, Accounted, AllThere, Counted, Formatting, Popping
  <2>3. WithinCapacity /\ OvertakeBounded
    BY LogAssumption DEF Init, WithinCapacity, OvertakeBounded
  <2>4. QED
    BY <2>2, <2>3
<1>2. IInv /\ Where /\ OvertakeBounded /\ [Next]_vars => (Where /\ OvertakeBounded)'
  <2> SUFFICES ASSUME IInv, Carries, Accounted, WithinCapacity, OvertakeBounded, [Next]_vars
               PROVE  (Where /\ OvertakeBounded)'
    OBVIOUS
  <2>1. Carries' /\ Accounted'
    <3>1. CASE UNCHANGED vars
      BY <3>1, Untouched DEF vars, queue, names, locals, history, Carries
    <3>2. QED
      BY <3>1, WriterCarries, OtherCarries DEF Next
  <2>2. WithinCapacity' /\ OvertakeBounded'
    BY RoomFilled, StepOvertakes
  <2>3. QED
    BY <2>1, <2>2
<1>3. QED
  BY <1>1, <1>2, Held, PTL DEF SafeSpec
===============================================================================
