------------------------- MODULE RankingServiceProofs -------------------------
(***************************************************************************)
(* What is right about the ranking although its threads share a context    *)
(* without a lock, for any number of workers and products, whether or not  *)
(* the connection is lost: what races leave unsaid is said of calls that   *)
(* overlap without one (LeftByMeeting), and which products are ranked does *)
(* not depend on it (MembersFixed).                                        *)
(***************************************************************************)
EXTENDS RankingService, TLAPS, FiniteSetTheorems

LEMMA WaitingFinite == IsFiniteSet(Waiting) /\ Cardinality(Waiting) \in Nat
<1>1. IsFiniteSet(Thread)
  BY WorkerAssumption, FS_AddElement DEF Thread
<1>2. QED
  BY <1>1, FS_Subset, FS_CardinalityType DEF Waiting

\* One thread more, or one less, that waits for a reply.
LEMMA OneMore ==
  ASSUME NEW t \in Thread, TypeOK, at[t] = "append", Goto(t, "look")
  PROVE  Cardinality(Waiting') = Cardinality(Waiting) + 1
<1>1. Waiting' = Waiting \cup {t} /\ t \notin Waiting
  BY DEF Waiting, Goto, TypeOK
<1>2. QED
  BY <1>1, WaitingFinite, FS_AddElement

LEMMA OneLess ==
  ASSUME NEW t \in Waiting, TypeOK, Goto(t, "parse")
  PROVE  Cardinality(Waiting') = Cardinality(Waiting) - 1
<1>1. Waiting' = Waiting \ {t} /\ t \in Thread
  BY DEF Waiting, Goto, TypeOK
<1>2. QED
  BY <1>1, WaitingFinite, FS_RemoveElement

\* A thread that only goes on waiting, or only goes on not waiting, changes no number.
LEMMA SameWaiting ==
  ASSUME NEW t \in Thread, TypeOK, NEW s \in Stages, Goto(t, s),
         at[t] \in {"out", "append", "parse"} <=> s \in {"out", "append", "parse"}
  PROVE  Waiting' = Waiting
BY DEF Waiting, Goto, TypeOK

-----------------------------------------------------------------------------
(* Threads that have not met *)

\* Nobody has met before who has not met now.
LEMMA MetStays ==
  ASSUME TypeOK, NEW t \in Thread, NEW s \in Stages, Goto(t, s)
  PROVE  met' \in BOOLEAN /\ (~met' => ~met) /\ MeetingsSeen'
BY DEF Goto, MeetingsSeen, TypeOK

\* Inside a routine on obuf a thread is alone with obuf ...
LEMMA AloneInObuf ==
  ASSUME MeetingsSeen, ~met, NEW t \in Thread, at[t] \in InObuf,
         NEW u \in Thread \ {t}
  PROVE  at[u] \notin InObuf
BY DEF MeetingsSeen, Meeting

\* ... and inside one on the reader with the reader.
LEMMA AloneInReader ==
  ASSUME MeetingsSeen, ~met, NEW t \in Thread, at[t] \in InReader,
         NEW u \in Thread \ {t}
  PROVE  at[u] \notin InReader
BY DEF MeetingsSeen, Meeting

\* The threads that do not step stay where they are.
LEMMA OthersStay ==
  ASSUME TypeOK, NEW t \in Thread, NEW s \in Stages, Goto(t, s)
  PROVE  /\ at'[t] = s /\ at' \in [Thread -> Stages]
         /\ \A u \in Thread \ {t} : at'[u] = at[u]
BY DEF Goto, TypeOK

-----------------------------------------------------------------------------
(* What is there for the threads that wait *)

\* The number of commands and replies that Balanced counts, but for fetched ones.
There == Unsent + Len(wire) + Len(socket) + Len(reader)

\* While no thread feeds the reader.
LEMMA BalancedIs ==
  ASSUME Balanced, ~met, ~lost
  PROVE  /\ (\A t \in Thread : at[t] # "feed") => There = Cardinality(Waiting)
         /\ \A t \in Thread : at[t] = "feed" => There + Len(fetched[t]) = Cardinality(Waiting)
BY DEF Balanced, There

\* The same facts prove Balanced.
LEMMA BalancedFrom ==
  ASSUME ~met /\ ~lost =>
           /\ (\A t \in Thread : at[t] # "feed") => There = Cardinality(Waiting)
           /\ \A t \in Thread : at[t] = "feed" => There + Len(fetched[t]) = Cardinality(Waiting)
  PROVE  Balanced
BY DEF Balanced, There

LEMMA ThereNat == TypeOK => Unsent \in Nat /\ There \in Nat
BY DEF Unsent, There, TypeOK

-----------------------------------------------------------------------------
(* Types, the ranking, and what meetings and failures leave behind *)

LEMMA CommandsTyped ==
  ASSUME NEW t \in Thread
  PROVE  ZRevRange(t) \in Command /\ \A m \in Member : ZIncrBy(t, m) \in Command
BY DEF ZRevRange, ZIncrBy, Command

\* A command is issued by a caller.
LEMMA CallerIssues ==
  ASSUME TypeOK, (\E t \in Thread : GetTopN(t)) \/ GetRange \/ UpdateScore
  PROVE  \E t \in Thread, c \in Command : Issue(t, c)
BY CommandsTyped DEF GetTopN, GetRange, UpdateScore, Thread, TypeOK

LEMMA IssueTypes ==
  ASSUME TypeOK, NEW t \in Thread, NEW c \in Command, Issue(t, c) PROVE TypeOK'
BY DEF Issue, Goto, TypeOK, context, redis, Stages

LEMMA JoinTypes == ASSUME TypeOK, NEW t \in Thread, Join(t) PROVE TypeOK'
<1>1. Append(held[t], command[t]) \in Seq(Command) /\ <<>> \in Seq(Command)
  BY DEF TypeOK
<1>2. QED
  BY <1>1 DEF Join, Goto, TypeOK, redis, Stages

LEMMA PickTypes ==
  ASSUME TypeOK, NEW t \in Thread, NEW s \in {"write", "read"}, Pick(t, s) PROVE TypeOK'
<1>1. reader # <<>> => Head(reader) \in Reply
  BY DEF TypeOK
<1>2. QED
  BY <1>1 DEF Pick, Goto, TypeOK, context, redis, hands, Stages

LEMMA DropTypes == ASSUME TypeOK, NEW t \in Thread, Drop(t) PROVE TypeOK'
<1>1. reader' \in Seq(Reply)
  BY DEF Drop, TypeOK
<1>2. QED
  BY <1>1 DEF Drop, Goto, TypeOK, redis, hands, Stages

LEMMA WriteTypes == ASSUME TypeOK, NEW t \in Thread, Write(t) PROVE TypeOK'
<1>1. wire' \in Seq(Command)
  BY DEF Write, TypeOK
<1>2. QED
  BY <1>1 DEF Write, Goto, TypeOK, context, Stages

LEMMA TrimTypes == ASSUME TypeOK, NEW t \in Thread, Trim(t) PROVE TypeOK'
<1>1. SubSeq(obuf, Len(held[t]) + 1, Len(obuf)) \in Seq(Command) /\ <<>> \in Seq(Command)
  <2>1. obuf \in Seq(Command) /\ Len(held[t]) \in Nat /\ Len(obuf) \in Nat
    BY DEF TypeOK
  <2>2. \A i \in Len(held[t]) + 1..Len(obuf) : obuf[i] \in Command
    BY <2>1
  <2>3. QED
    BY <2>1, <2>2
<1>2. QED
  BY <1>1 DEF Trim, Goto, TypeOK, redis, Stages

LEMMA FailsTypes == ASSUME TypeOK, NEW t \in Thread, Fails(t) PROVE TypeOK'
<1>1. Null \in Reply
  BY DEF Null, Reply
<1>2. QED
  BY <1>1 DEF Fails, Return, Goto, TypeOK, redis, hands, Stages

LEMMA ReadTypes == ASSUME TypeOK, NEW t \in Thread, Read(t) PROVE TypeOK'
<1>1. <<>> \in Seq(Reply)
  OBVIOUS
<1>2. QED
  BY <1>1 DEF Read, Goto, TypeOK, context, Stages

LEMMA FeedTypes == ASSUME TypeOK, NEW t \in Thread, Feed(t) PROVE TypeOK'
<1>1. reader \o fetched[t] \in Seq(Reply) /\ <<>> \in Seq(Reply)
  BY DEF TypeOK
<1>2. QED
  BY <1>1 DEF Feed, Goto, TypeOK, redis, Stages

LEMMA ParseTypes == ASSUME TypeOK, NEW t \in Thread, Parse(t) PROVE TypeOK'
<1>1. items' \subseteq Member
  BY DEF Parse, ItemsOf, Reply, TypeOK
<1>2. Null \in Reply /\ ZRevRange(t) \in Command
  BY CommandsTyped DEF Null, Reply
<1>3. QED
  BY <1>1, <1>2 DEF Parse, Goto, TypeOK, context, redis, hands, Stages

LEMMA ExecuteTypes == ASSUME TypeOK, MembersFixed, Execute PROVE TypeOK' /\ MembersFixed'
<1>1. Head(wire) \in Command /\ wire' \in Seq(Command)
  BY DEF Execute, TypeOK
<1>2. MembersFixed'
  BY <1>1 DEF Execute, MembersFixed, Command
<1>3. socket' \in Seq(Reply)
  <2>1. PICK r : socket' = Append(socket, r) /\ r \in Reply
    BY <1>1 DEF Execute, MembersFixed, Command, Reply
  <2>2. QED
    BY <2>1 DEF TypeOK
<1>4. QED
  BY <1>1, <1>2, <1>3 DEF Execute, TypeOK, context, hands

LEMMA OtherTypes == ASSUME TypeOK, Lose \/ Garble \/ Die PROVE TypeOK'
<1>1. <<>> \in Seq(Reply) /\ <<>> \in Seq(Command)
  OBVIOUS
<1>2. QED
  BY <1>1 DEF Lose, Garble, Die, TypeOK, context, redis, hands

-----------------------------------------------------------------------------
(* The other parts of the invariant, step by step.  A step only has to keep  *)
(* them if no threads have met by its end.                                   *)

\* What Unshared and Balanced say, of a state before which nobody has met.
Sound == TypeOK /\ MeetingsSeen /\ FailureHasCause /\ Unshared /\ Balanced

\* The buffers of the threads that do not step are unshared if they do not change.
LEMMA UnsharedFrame ==
  ASSUME Sound, NEW t \in Thread, NEW s \in Stages, Goto(t, s),
         \A u \in Thread \ {t} : held'[u] = held[u],
         obuf' = obuf \/ at[t] \in InObuf,
         reader' = reader \/ at[t] \in InReader,
         ~met' => /\ s \in InObuf => held'[t] = obuf'
                  /\ s = "drop" => reader' # <<>>
  PROVE  Unshared'
<1> SUFFICES ASSUME ~met', NEW u \in Thread
             PROVE  /\ at'[u] \in InObuf => held'[u] = obuf'
                    /\ at'[u] = "drop" => reader' # <<>>
  BY DEF Unshared
<1>1. ~met /\ at'[t] = s
  BY MetStays, OthersStay DEF Sound
<1>2. CASE u = t
  BY <1>1, <1>2
<1>3. CASE u # t
  <2>1. at'[u] = at[u] /\ held'[u] = held[u]
    BY <1>3, OthersStay DEF Sound
  <2>2. at[u] \in InObuf => held[u] = obuf /\ obuf' = obuf
    BY <1>1, <1>3, AloneInObuf DEF Sound, Unshared
  <2>3. at[u] = "drop" => reader # <<>> /\ reader' = reader
    BY <1>1, <1>3, AloneInReader DEF Sound, Unshared, InReader
  <2>4. QED
    BY <2>1, <2>2, <2>3
<1>4. QED
  BY <1>2, <1>3

\* Nothing is sent or read, taken or given up: the balance stays.
LEMMA BalancedFrame ==
  ASSUME Sound, TypeOK', NEW t \in Thread, NEW s \in Stages \ {"feed"}, Goto(t, s),
         at[t] # "feed", UNCHANGED <<lost, fetched>>,
         ~met' /\ ~lost => There' + Cardinality(Waiting) = There + Cardinality(Waiting')
  PROVE  Balanced'
<1> SUFFICES ASSUME ~met', ~lost' PROVE Balanced'
  BY DEF Balanced
<1>1. ~met /\ ~lost /\ at'[t] = s /\ \A u \in Thread \ {t} : at'[u] = at[u]
  BY MetStays, OthersStay DEF Sound
<1>2. \A u \in Thread : at'[u] = "feed" <=> at[u] = "feed"
  BY <1>1
<1>3. There \in Nat /\ There' \in Nat
  <2>1. There \in Nat
    BY ThereNat DEF Sound
  <2>2. Len(obuf') \in Nat /\ Len(wire') \in Nat /\ Len(socket') \in Nat /\ Len(reader') \in Nat
    BY DEF TypeOK
  <2>3. Unsent' \in Nat
    BY <2>2 DEF Unsent
  <2>4. There' \in Nat
    BY <2>2, <2>3 DEF There
  <2>5. QED
    BY <2>1, <2>4
<1>4. Cardinality(Waiting) \in Nat /\ Cardinality(Waiting') \in Nat
  <2>1. IsFiniteSet(Waiting')
    BY FS_Subset, WorkerAssumption, FS_AddElement DEF Waiting, Thread
  <2>2. QED
    BY <2>1, WaitingFinite, FS_CardinalityType
<1>5. There' + Cardinality(Waiting) = There + Cardinality(Waiting')
  BY <1>1
<1>6. (\A u \in Thread : at'[u] # "feed") => There' = Cardinality(Waiting')
  <2> SUFFICES ASSUME \A u \in Thread : at'[u] # "feed" PROVE There' = Cardinality(Waiting')
    OBVIOUS
  <2>1. There = Cardinality(Waiting)
    BY <1>1, <1>2, BalancedIs DEF Sound
  <2>2. QED
    BY ONLY <1>3, <1>4, <1>5, <2>1
<1>7. ASSUME NEW u \in Thread, at'[u] = "feed"
      PROVE  There' + Len(fetched'[u]) = Cardinality(Waiting')
  <2>1. There + Len(fetched[u]) = Cardinality(Waiting) /\ Len(fetched[u]) \in Nat
    BY <1>1, <1>2, <1>7, BalancedIs DEF Sound, TypeOK
  <2>2. There' + Len(fetched[u]) = Cardinality(Waiting')
    BY ONLY <2>1, <1>3, <1>4, <1>5
  <2>3. QED
    BY <2>2
<1>8. QED
  BY <1>6, <1>7 DEF Balanced, There

\* Unsent does not change with a step that neither touches obuf nor begins or ends a
\* write.
LEMMA UnsentSame ==
  ASSUME TypeOK, NEW t \in Thread, NEW s \in Stages \ {"trim"}, Goto(t, s),
         at[t] # "trim", obuf' = obuf
  PROVE  Unsent' = Unsent
<1>1. \A u \in Thread : at'[u] = "trim" <=> at[u] = "trim"
  BY OthersStay
<1>2. QED
  BY <1>1 DEF Unsent

LEMMA IssueKeeps ==
  ASSUME Sound, NEW t \in Thread, NEW c \in Command, Issue(t, c) PROVE Sound'
<1>1. TypeOK' /\ Goto(t, "append") /\ at[t] = "out" /\ "append" \in Stages
  BY IssueTypes DEF Sound, Issue, Stages
<1>2. Unsent' = Unsent /\ Waiting' = Waiting
  BY <1>1, UnsentSame, SameWaiting DEF Sound, Issue, context
<1>3. Unshared'
  <2>1. held'[t] = obuf' /\ \A u \in Thread \ {t} : held'[u] = held[u]
    BY DEF Issue, Sound, TypeOK, context
  <2>2. QED
    BY <1>1, <2>1, UnsharedFrame DEF Issue, context, redis
<1>4. Balanced'
  <2>1. There' = There
    BY <1>2 DEF There, Issue, context, redis
  <2>2. QED
    BY <1>1, <1>2, <2>1, BalancedFrame DEF Issue, redis
<1>5. QED
  BY <1>1, <1>3, <1>4, MetStays DEF Sound, Issue, context, redis, FailureHasCause

LEMMA JoinKeeps == ASSUME Sound, NEW t \in Thread, Join(t) PROVE Sound'
<1>1. TypeOK' /\ Goto(t, "look") /\ at[t] = "append" /\ "look" \in Stages
  BY JoinTypes DEF Sound, Join, Stages
<1>2. Cardinality(Waiting') = Cardinality(Waiting) + 1 /\ Cardinality(Waiting) \in Nat
  BY <1>1, OneMore, WaitingFinite DEF Sound
<1>3. Unshared'
  <2>1. \A u \in Thread \ {t} : held'[u] = held[u]
    BY DEF Join, Sound, TypeOK
  <2>2. QED
    BY <1>1, <2>1, UnsharedFrame DEF Join, InObuf
<1>4. ASSUME ~met' PROVE There' = There + 1
  <2>1. held[t] = obuf /\ ~met
    BY <1>1, <1>4, MetStays DEF Sound, Unshared, InObuf
  <2>2. \A u \in Thread : at[u] # "trim" /\ at'[u] # "trim"
    BY <1>1, <2>1, AloneInObuf, OthersStay DEF Sound, InObuf
  <2>3. Unsent = Len(obuf) /\ Unsent' = Len(obuf')
    BY <2>2 DEF Unsent
  <2>4. Len(obuf') = Len(obuf) + 1
    BY <2>1 DEF Join, Sound, TypeOK
  <2>5. There \in Nat /\ Len(obuf) \in Nat
    BY ThereNat DEF Sound, TypeOK
  <2>6. QED
    BY <2>3, <2>4, <2>5 DEF There, Join, redis, Sound, TypeOK
<1>5. Balanced'
  <2>1. ~met' => There' + Cardinality(Waiting) = There + Cardinality(Waiting')
    BY <1>2, <1>4, ThereNat DEF Sound
  <2>2. QED
    BY <1>1, <2>1, BalancedFrame DEF Join, redis
<1>6. QED
  BY <1>1, <1>3, <1>5, MetStays DEF Sound, Join, redis, FailureHasCause

LEMMA PickKeeps ==
  ASSUME Sound, NEW t \in Thread, NEW s \in {"write", "read"}, Pick(t, s),
         at[t] \in {"look", "take"}
  PROVE  Sound'
<1>1. TypeOK'
  BY PickTypes DEF Sound
<1>2. PICK q \in {"write", "read", "drop"} : Goto(t, q) /\ (q = "drop" => reader # <<>>)
  BY DEF Pick
<1>3. q \in Stages
  BY DEF Stages
<1>4. Unsent' = Unsent /\ Waiting' = Waiting
  BY <1>2, <1>3, UnsentSame, SameWaiting DEF Sound, Pick, context
<1>5. Unshared'
  BY <1>2, <1>3, UnsharedFrame DEF Pick, context, redis, hands, InObuf
<1>6. Balanced'
  <2>1. There' = There
    BY <1>4 DEF There, Pick, context, redis
  <2>2. QED
    BY <1>1, <1>2, <1>3, <1>4, <2>1, BalancedFrame DEF Pick, redis, hands
<1>7. QED
  BY <1>1, <1>2, <1>3, <1>5, <1>6, MetStays DEF Sound, Pick, context, redis, FailureHasCause

LEMMA DropKeeps == ASSUME Sound, NEW t \in Thread, Drop(t) PROVE Sound'
<1>1. TypeOK' /\ Goto(t, "parse") /\ at[t] = "drop" /\ "parse" \in Stages /\ t \in Waiting
  BY DropTypes DEF Sound, Drop, Stages, Waiting
<1>2. Cardinality(Waiting') = Cardinality(Waiting) - 1 /\ Cardinality(Waiting) \in Nat
  BY <1>1, OneLess, WaitingFinite DEF Sound
<1>3. Unshared'
  BY <1>1, UnsharedFrame DEF Drop, redis, hands, InObuf, InReader
<1>4. ASSUME ~met' PROVE There' = There - 1
  <2>1. reader # <<>>
    BY <1>1, <1>4, MetStays DEF Sound, Unshared
  <2>2. Len(reader') = Len(reader) - 1 /\ Len(reader) \in Nat
    BY <2>1 DEF Drop, Sound, TypeOK
  <2>3. Unsent' = Unsent /\ Unsent \in Nat
    BY <1>1, UnsentSame, ThereNat DEF Sound, Drop
  <2>4. Len(wire') = Len(wire) /\ Len(wire) \in Nat /\ Len(socket') = Len(socket) /\ Len(socket) \in Nat
    BY DEF Drop, redis, Sound, TypeOK
  <2>5. QED
    BY <2>2, <2>3, <2>4 DEF There
<1>5. Balanced'
  <2>1. ~met' => There' + Cardinality(Waiting) = There + Cardinality(Waiting')
    BY <1>2, <1>4, ThereNat DEF Sound
  <2>2. QED
    BY <1>1, <2>1, BalancedFrame DEF Drop, redis, hands
<1>6. QED
  BY <1>1, <1>3, <1>5, MetStays DEF Sound, Drop, redis, FailureHasCause

LEMMA FailsKeeps == ASSUME Sound, NEW t \in Thread, Fails(t) PROVE Sound'
<1>1. TypeOK' /\ Goto(t, "parse") /\ "parse" \in Stages /\ at[t] \in {"write", "read"}
  BY FailsTypes DEF Sound, Fails, Return, Stages
<1>2. ~met' => lost /\ lost'
  BY <1>1, MetStays DEF Sound, Fails, redis, FailureHasCause
<1>3. Unshared'
  BY <1>1, UnsharedFrame DEF Fails, redis, hands, InObuf
<1>4. Balanced'
  BY <1>2 DEF Balanced
<1>5. QED
  BY <1>1, <1>2, <1>3, <1>4, MetStays DEF Sound, FailureHasCause

LEMMA WriteKeeps == ASSUME Sound, NEW t \in Thread, Write(t) PROVE Sound'
<1>1. TypeOK' /\ Goto(t, "trim") /\ at[t] = "write" /\ "trim" \in Stages
  BY WriteTypes DEF Sound, Write, Stages
<1>2. Unshared'
  <2>1. held'[t] = obuf' /\ \A u \in Thread \ {t} : held'[u] = held[u]
    BY DEF Write, Sound, TypeOK, context
  <2>2. QED
    BY <1>1, <2>1, UnsharedFrame DEF Write, context
<1>3. ASSUME ~met', ~lost PROVE There' = There
  <2>1. MeetingsSeen' /\ at'[t] = "trim" /\ \A u \in Thread \ {t} : at'[u] = at[u]
    BY <1>1, MetStays, OthersStay DEF Sound
  <2>2. \A u \in Thread : at[u] # "trim"
    BY <1>1, <1>3, <2>1 DEF MeetingsSeen, Meeting, InObuf
  <2>3. Unsent = Len(obuf) /\ Unsent' = 0
    BY <2>1, <2>2 DEF Unsent
  <2>4. Len(wire') = Len(wire) + Len(obuf) /\ Len(wire) \in Nat /\ Len(obuf) \in Nat
    BY <1>3 DEF Write, Sound, TypeOK
  <2>5. Len(reader') = Len(reader) /\ Len(reader) \in Nat /\ Len(socket') = Len(socket) /\ Len(socket) \in Nat
    BY DEF Write, context, Sound, TypeOK
  <2>6. QED
    BY <2>3, <2>4, <2>5 DEF There
<1>4. Balanced'
  BY <1>1, <1>3, SameWaiting, BalancedFrame DEF Write, Sound
<1>5. QED
  BY <1>1, <1>2, <1>4, MetStays DEF Sound, Write, context, FailureHasCause

LEMMA TrimKeeps == ASSUME Sound, NEW t \in Thread, Trim(t) PROVE Sound'
<1>1. PICK q \in {"read", "write"} : Goto(t, q)
  BY DEF Trim
<1>2. TypeOK' /\ q \in Stages /\ at[t] = "trim"
  BY <1>1, TrimTypes DEF Sound, Trim, Stages
<1>3. Unshared'
  <2>1. \A u \in Thread \ {t} : held'[u] = held[u]
    BY DEF Trim, Sound, TypeOK
  <2>2. QED
    BY <1>1, <1>2, <2>1, UnsharedFrame DEF Trim, redis, InObuf
<1>4. ASSUME ~met' PROVE There' = There
  <2>1. held[t] = obuf /\ ~met
    BY <1>1, <1>2, <1>4, MetStays DEF Sound, Unshared, InObuf
  <2>2. Len(obuf') = 0
    <3>1. obuf' = SubSeq(obuf, Len(obuf) + 1, Len(obuf)) /\ Len(obuf) \in Nat /\ obuf \in Seq(Command)
      BY <2>1 DEF Trim, Sound, TypeOK
    <3>2. QED
      BY <3>1
  <2>3. Unsent = 0 /\ Unsent' = 0
    BY <1>2, <2>2 DEF Unsent
  <2>4. QED
    BY <2>3 DEF There, Trim, redis
<1>5. Balanced'
  BY <1>1, <1>2, <1>4, SameWaiting, BalancedFrame DEF Trim, Sound, redis
<1>6. QED
  BY <1>1, <1>2, <1>3, <1>5, MetStays DEF Sound, Trim, redis, FailureHasCause

LEMMA ReadKeeps == ASSUME Sound, NEW t \in Thread, Read(t) PROVE Sound'
<1>1. TypeOK' /\ Goto(t, "feed") /\ at[t] = "read" /\ "feed" \in Stages
  BY ReadTypes DEF Sound, Read, Stages
<1>2. Unshared'
  BY <1>1, UnsharedFrame DEF Read, context, InObuf
<1>3. Waiting' = Waiting /\ Unsent' = Unsent /\ Unsent \in Nat
  BY <1>1, SameWaiting, UnsentSame, ThereNat DEF Sound, Read, context
<1>4. ASSUME ~met', ~lost'
      PROVE  /\ ~(\A u \in Thread : at'[u] # "feed")
             /\ \A u \in Thread : at'[u] = "feed" => There' + Len(fetched'[u]) = Cardinality(Waiting')
  <2>1. MeetingsSeen' /\ at'[t] = "feed" /\ (\A u \in Thread \ {t} : at'[u] = at[u]) /\ ~met /\ ~lost
    BY <1>1, <1>4, MetStays, OthersStay DEF Sound, Read
  <2>2. \A u \in Thread : (at'[u] = "feed" => u = t) /\ at[u] # "feed"
    BY <1>1, <1>4, <2>1 DEF MeetingsSeen, Meeting, InReader
  <2>3. There = Cardinality(Waiting)
    BY <2>1, <2>2, BalancedIs DEF Sound
  <2>4. Len(socket') = 0 /\ fetched'[t] = socket /\ Len(socket) \in Nat
    BY DEF Read, Sound, TypeOK
  <2>5. Len(wire') = Len(wire) /\ Len(wire) \in Nat /\ Len(reader') = Len(reader) /\ Len(reader) \in Nat
    BY DEF Read, context, Sound, TypeOK
  <2>6. There' + Len(fetched'[t]) = Cardinality(Waiting)
    BY <1>3, <2>3, <2>4, <2>5 DEF There
  <2>7. QED
    BY <1>3, <2>1, <2>2, <2>6
<1>5. Balanced'
  BY <1>4 DEF Balanced, There
<1>6. QED
  BY <1>1, <1>2, <1>5, MetStays DEF Sound, Read, context, FailureHasCause

LEMMA FeedKeeps == ASSUME Sound, NEW t \in Thread, Feed(t) PROVE Sound'
<1>1. TypeOK' /\ Goto(t, "take") /\ at[t] = "feed" /\ "take" \in Stages
  BY FeedTypes DEF Sound, Feed, Stages
<1>2. Unshared'
  BY <1>1, UnsharedFrame DEF Feed, redis, InObuf, InReader
<1>3. Waiting' = Waiting /\ Unsent' = Unsent /\ Unsent \in Nat
  BY <1>1, SameWaiting, UnsentSame, ThereNat DEF Sound, Feed
<1>4. ASSUME ~met', ~lost'
      PROVE  (\A u \in Thread : at'[u] # "feed") /\ There' = Cardinality(Waiting')
  <2>1. at'[t] = "take" /\ (\A u \in Thread \ {t} : at'[u] = at[u]) /\ ~met /\ ~lost
    BY <1>1, <1>4, MetStays, OthersStay DEF Sound, Feed, redis
  <2>2. \A u \in Thread : at'[u] # "feed"
    BY <1>1, <2>1, AloneInReader DEF Sound, InReader
  <2>3. There + Len(fetched[t]) = Cardinality(Waiting)
    BY <1>1, <2>1, BalancedIs DEF Sound
  <2>4. Len(reader') = Len(reader) + Len(fetched[t]) /\ Len(reader) \in Nat /\ Len(fetched[t]) \in Nat
    BY DEF Feed, Sound, TypeOK
  <2>5. Len(wire') = Len(wire) /\ Len(wire) \in Nat /\ Len(socket') = Len(socket) /\ Len(socket) \in Nat
    BY DEF Feed, redis, Sound, TypeOK
  <2>6. There' = There + Len(fetched[t])
    <3>1. /\ There = Unsent + Len(wire) + Len(socket) + Len(reader)
          /\ There' = Unsent + Len(wire) + Len(socket) + Len(reader')
      BY <1>3, <2>5 DEF There
    <3> DEFINE r == Len(reader)
               n == Len(fetched[t])
               k == Unsent + Len(wire) + Len(socket)
    <3>2. r \in Nat /\ n \in Nat /\ k \in Nat /\ There = k + r /\ There' = k + (r + n)
      BY <1>3, <2>4, <2>5, <3>1
    <3> HIDE DEF r, n, k
    <3>3. There' = There + n
      BY <3>2
    <3>4. QED
      BY <3>3 DEF n
  <2>7. QED
    BY <1>3, <2>2, <2>3, <2>6
<1>5. Balanced'
  BY <1>4 DEF Balanced, There
<1>6. QED
  BY <1>1, <1>2, <1>5, MetStays DEF Sound, Feed, redis, FailureHasCause

LEMMA ParseKeeps == ASSUME Sound, NEW t \in Thread, Parse(t) PROVE Sound'
<1>1. TypeOK' /\ Goto(t, "out") /\ at[t] = "parse" /\ "out" \in Stages
  BY ParseTypes DEF Sound, Parse, Stages
<1>2. Unsent' = Unsent /\ Waiting' = Waiting
  BY <1>1, UnsentSame, SameWaiting DEF Sound, Parse, context
<1>3. Unshared'
  BY <1>1, UnsharedFrame DEF Parse, context, redis, hands, InObuf
<1>4. Balanced'
  <2>1. There' = There
    BY <1>2 DEF There, Parse, context, redis
  <2>2. QED
    BY <1>1, <1>2, <2>1, BalancedFrame DEF Parse, redis, hands
<1>5. QED
  BY <1>1, <1>3, <1>4, MetStays DEF Sound, Parse, context, redis, FailureHasCause

-----------------------------------------------------------------------------
(* Redis, and what a race does *)

\* A command on the wire becomes a reply on the socket.
LEMMA ExecuteKeeps == ASSUME Sound, MembersFixed, Execute PROVE Sound'
<1>1. TypeOK'
  BY ExecuteTypes DEF Sound
<1>2. Waiting' = Waiting /\ Unsent' = Unsent /\ Unsent \in Nat
  BY ThereNat DEF Waiting, Unsent, Execute, context, Sound
<1>3. Len(wire') = Len(wire) - 1 /\ Len(wire) \in Nat
  BY DEF Execute, Sound, TypeOK
<1>4. Len(socket') = Len(socket) + 1 /\ Len(socket) \in Nat
  BY DEF Execute, Sound, TypeOK
<1>5. Len(reader') = Len(reader) /\ Len(reader) \in Nat
  BY DEF Execute, context, Sound, TypeOK
<1>6. There' = There
  BY <1>2, <1>3, <1>4, <1>5 DEF There
<1>7. Balanced'
  BY <1>2, <1>6 DEF Balanced, There, Sound, Execute, hands
<1>8. MeetingsSeen' /\ FailureHasCause' /\ Unshared'
  BY DEF Sound, MeetingsSeen, Meeting, FailureHasCause, Unshared, Execute, context, hands
<1>9. QED
  BY <1>1, <1>7, <1>8 DEF Sound

LEMMA OthersKeep == ASSUME Sound, Lose \/ Garble \/ Die PROVE Sound'
<1>1. TypeOK'
  BY OtherTypes DEF Sound
<1>2. CASE Lose
  BY <1>1, <1>2 DEF Lose, context, hands, Sound, MeetingsSeen, Meeting, FailureHasCause,
                    Unshared, Balanced
<1>3. CASE Garble
  <2>1. met /\ met'
    BY <1>3 DEF Garble, Sound, MeetingsSeen
  <2>2. QED
    BY <1>1, <2>1 DEF Sound, MeetingsSeen, FailureHasCause, Unshared, Balanced
<1>4. CASE Die
  <2>1. UNCHANGED <<context, redis, hands, at, command, reply, items, met>>
    BY <1>4 DEF Die
  <2>2. QED
    BY <1>1, <2>1 DEF context, redis, hands, Sound, MeetingsSeen, Meeting, FailureHasCause,
                      Unshared, Balanced, Unsent, Waiting
<1>5. QED
  BY <1>2, <1>3, <1>4

-----------------------------------------------------------------------------
LEMMA InitIInv == Init => IInv
<1> SUFFICES ASSUME Init PROVE IInv
  OBVIOUS
<1>1. Null \in Reply /\ \A t \in Thread : ZRevRange(t) \in Command
  BY CommandsTyped DEF Null, Reply
<1>2. TypeOK
  <2>1. items \subseteq Member /\ <<>> \in Seq(Command) /\ <<>> \in Seq(Reply)
    BY DEF Init
  <2>2. QED
    BY <1>1, <2>1 DEF Init, TypeOK, Stages
<1>3. Waiting = {}
  BY DEF Init, Waiting
<1>4. Balanced
  BY <1>3, FS_EmptySet DEF Init, Balanced, Unsent
<1>5. MeetingsSeen /\ FailureHasCause /\ Unshared
  BY DEF Init, MeetingsSeen, Meeting, FailureHasCause, Unshared, InObuf, InReader
<1>6. QED
  BY <1>2, <1>4, <1>5 DEF IInv, Init, MembersFixed

LEMMA StepKeeps == ASSUME IInv, NEW t \in Thread, Step(t) PROVE IInv'
<1>1. Sound'
  BY JoinKeeps, PickKeeps, WriteKeeps, TrimKeeps, ReadKeeps, FeedKeeps, DropKeeps, FailsKeeps,
     ParseKeeps DEF Step, Look, Take, Sound, IInv
<1>2. ranking' = ranking
  BY DEF Step, Join, Look, Take, Pick, Write, Trim, Read, Feed, Drop, Fails, Parse, redis
<1>3. QED
  BY <1>1, <1>2 DEF Sound, IInv, MembersFixed

\* The inductive invariant: while no two threads have met inside a routine, each of them
\* has its buffer to itself, and as many commands and replies are on their way as threads
\* are waiting (RankingService.cpp:31, 57, 86).
THEOREM RankingSound == Spec => []IInv
<1>1. ASSUME IInv, [Next]_vars PROVE IInv'
  <2>1. CASE UNCHANGED vars
    BY <1>1, <2>1 DEF vars, context, redis, hands, IInv, TypeOK, MeetingsSeen, Meeting,
         FailureHasCause, Unshared, Balanced, Unsent, Waiting, MembersFixed
  <2>2. CASE (\E t \in Thread : GetTopN(t)) \/ GetRange \/ UpdateScore
    <3>1. PICK t \in Thread, c \in Command : Issue(t, c)
      BY <1>1, <2>2, CallerIssues DEF IInv
    <3>2. QED
      BY <1>1, <3>1, IssueKeeps DEF Issue, redis, Sound, IInv, MembersFixed
  <2>3. CASE Execute
    BY <1>1, <2>3, ExecuteKeeps, ExecuteTypes DEF Sound, IInv
  <2>4. CASE Lose \/ Garble \/ Die
    BY <1>1, <2>4, OthersKeep DEF Sound, IInv, Lose, Garble, Die, redis, MembersFixed
  <2>5. QED
    BY <1>1, <2>1, <2>2, <2>3, <2>4, StepKeeps DEF Next
<1>2. QED
  BY <1>1, InitIInv, PTL DEF Spec

\* Calls that overlap without a race leave nothing that a later call could take for the
\* reply to its own command.
THEOREM NothingLeft == Spec => []LeftByMeeting
<1>1. ASSUME IInv PROVE LeftByMeeting
  <2> SUFFICES ASSUME \A t \in Thread : at[t] = "out", ~lost, ~met
               PROVE  obuf = <<>> /\ wire = <<>> /\ socket = <<>> /\ reader = <<>>
    BY DEF LeftByMeeting, NoneLeftOver
  <2>1. Waiting = {}
    BY DEF Waiting
  <2>2. Unsent = Len(obuf)
    BY DEF Unsent
  <2>3. Len(obuf) + Len(wire) + Len(socket) + Len(reader) = 0
    BY <1>1, <2>1, <2>2, FS_EmptySet DEF IInv, Balanced
  <2>4. QED
    BY <1>1, <2>3 DEF IInv, TypeOK
<1>2. QED
  BY <1>1, RankingSound, PTL

\* Mixed-up replies never bring another member into the ranking (main.cpp:23-27), races
\* or not.
THEOREM SameProducts == Spec => []MembersFixed
<1>1. IInv => MembersFixed
  BY DEF IInv
<1>2. QED
  BY <1>1, RankingSound, PTL
=============================================================================
