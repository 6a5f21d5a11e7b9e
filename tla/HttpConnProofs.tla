---------------------------- MODULE HttpConnProofs -----------------------------
(***************************************************************************)
(* The responses of HttpConn leave as they were made: Framed and           *)
(* MappingCovers for requests of any form, files and errors of any length, *)
(* both trigger modes and every way in which writev can stop short.  The   *)
(* read buffer is used up: BufferSpent and WholeAnswered for buffers and   *)
(* requests of any length, turn after turn of the loop in parse.           *)
(***************************************************************************)
EXTENDS HttpConn, TLAPS, SequenceTheorems, WellFoundedInduction

-------------------------------------------------------------------------------
(* Sequences of bytes, cut where writev stopped.                            *)

LEMMA Cut ==
  ASSUME NEW s \in Seq(Byte), NEW n \in 0..Len(s)
  PROVE  /\ SubSeq(s, 1, n) \in Seq(Byte) /\ SubSeq(s, n + 1, Len(s)) \in Seq(Byte)
         /\ SubSeq(s, 1, n) \o SubSeq(s, n + 1, Len(s)) = s
<1>1. Len(s) \in Nat /\ \A i \in 1..Len(s) : s[i] \in Byte
  BY LenProperties, ElementOfSeq
<1>2. SubSeq(s, 1, n) \in Seq(Byte)
  BY <1>1, SubSeqProperties
<1>3. SubSeq(s, n + 1, Len(s)) \in Seq(Byte)
  BY <1>1, SubSeqProperties
<1>4. SubSeq(s, 1, n) \o SubSeq(s, n + 1, Len(s)) = SubSeq(s, 1, Len(s))
  <2>1. 1 \in 1..(Len(s) + 1) /\ n \in (1 - 1)..Len(s) /\ Len(s) \in n..Len(s)
    BY <1>1
  <2>2. QED
    BY <2>1, ConcatAdjacentSubSeq
<1>5. QED
  BY <1>2, <1>3, <1>4, SubSeqFull

\* writev stops in the first entry.
LEMMA CutFirst ==
  ASSUME NEW s \in Seq(Byte), NEW t \in Seq(Byte), NEW n \in 1..Len(s)
  PROVE  SubSeq(s \o t, 1, n) = SubSeq(s, 1, n)
<1>1. Len(s) \in Nat
  BY LenProperties
<1>2. QED
  BY <1>1, SubSeqOfConcat1

\* writev stops in the second entry.
LEMMA CutSecond ==
  ASSUME NEW s \in Seq(Byte), NEW t \in Seq(Byte),
         NEW n \in (Len(s) + 1)..(Len(s) + Len(t))
  PROVE  SubSeq(s \o t, 1, n) = s \o SubSeq(t, 1, n - Len(s))
<1> DEFINE k == n - Len(s)
<1>1. Len(s) \in Nat /\ Len(t) \in Nat /\ k \in 1..Len(t)
  BY LenProperties
<1>2. s \o t \in Seq(Byte) /\ Len(s \o t) = Len(s) + Len(t)
  BY ConcatProperties
<1>3. SubSeq(s \o t, 1, Len(s)) \o SubSeq(s \o t, Len(s) + 1, n) = SubSeq(s \o t, 1, n)
  <2>1. /\ 1 \in 1..(Len(s \o t) + 1) /\ Len(s) \in (1 - 1)..Len(s \o t)
        /\ n \in Len(s)..Len(s \o t)
    BY <1>1, <1>2
  <2>2. QED
    BY <1>2, <2>1, ConcatAdjacentSubSeq
<1>4. SubSeq(s \o t, Len(s) + 1, n) = SubSeq(t, 1, k)
  BY <1>1, SubSeqOfConcat2
<1>5. SubSeq(s \o t, 1, Len(s)) = s
  <2>1. CASE Len(s) = 0
    <3>1. s = <<>>
      BY <2>1, EmptySeq
    <3>2. SubSeq(s \o t, 1, Len(s)) = <<>>
      BY <2>1, SubSeqEmpty
    <3>3. QED
      BY <3>1, <3>2
  <2>2. CASE Len(s) # 0
    BY <1>1, <2>2, CutFirst, SubSeqFull
  <2>3. QED
    BY <2>1, <2>2
<1>6. QED
  BY <1>3, <1>4, <1>5

LEMMA Reassociate ==
  ASSUME NEW a \in Seq(Byte), NEW b \in Seq(Byte), NEW c \in Seq(Byte)
  PROVE  a \o (b \o c) = (a \o b) \o c
  BY ConcatAssociative

\* What was sent and what is left make up both entries, wherever writev stopped.
LEMMA SplitFirst ==
  ASSUME NEW s \in Seq(Byte), NEW t \in Seq(Byte), NEW n \in 1..Len(s)
  PROVE  /\ SubSeq(s \o t, 1, n) \in Seq(Byte) /\ SubSeq(s, n + 1, Len(s)) \in Seq(Byte)
         /\ SubSeq(s \o t, 1, n) \o SubSeq(s, n + 1, Len(s)) = s
         /\ SubSeq(s \o t, 1, n) \o (SubSeq(s, n + 1, Len(s)) \o t) = s \o t
<1> DEFINE sent == SubSeq(s \o t, 1, n)
           left == SubSeq(s, n + 1, Len(s))
<1>1. n \in 0..Len(s)
  OBVIOUS
<1>2. sent = SubSeq(s, 1, n)
  BY CutFirst
<1>3. sent \in Seq(Byte) /\ left \in Seq(Byte) /\ sent \o left = s
  BY <1>1, <1>2, Cut
<1> HIDE DEF sent, left
<1>4. sent \o (left \o t) = (sent \o left) \o t
  BY <1>3, Reassociate
<1>5. sent \o (left \o t) = s \o t
  BY <1>3, <1>4
<1>6. QED
  BY <1>3, <1>5 DEF sent, left

LEMMA SplitSecond ==
  ASSUME NEW s \in Seq(Byte), NEW t \in Seq(Byte),
         NEW n \in (Len(s) + 1)..(Len(s) + Len(t))
  PROVE  /\ SubSeq(s \o t, 1, n) \in Seq(Byte)
         /\ SubSeq(t, n - Len(s) + 1, Len(t)) \in Seq(Byte)
         /\ SubSeq(s \o t, 1, n) \o (<<>> \o SubSeq(t, n - Len(s) + 1, Len(t))) = s \o t
         /\ \A i \in 1..Len(SubSeq(t, n - Len(s) + 1, Len(t))) :
              \E j \in 1..Len(t) : SubSeq(t, n - Len(s) + 1, Len(t))[i] = t[j]
<1> DEFINE k == n - Len(s)
           head == SubSeq(t, 1, k)
           left == SubSeq(t, k + 1, Len(t))
<1>1. Len(s) \in Nat /\ Len(t) \in Nat /\ k \in 0..Len(t)
  BY LenProperties
<1>2. SubSeq(s \o t, 1, n) = s \o head
  BY CutSecond
<1> HIDE DEF k
<1>3. head \in Seq(Byte) /\ left \in Seq(Byte) /\ head \o left = t
  BY <1>1, Cut
<1>4. \A i \in 1..Len(left) : \E j \in 1..Len(t) : left[i] = t[j]
  <2>1. k \in Nat /\ \A i \in (k + 1)..Len(t) : t[i] \in Byte
    BY <1>1, ElementOfSeq
  <2>2. /\ Len(left) = IF k + 1 <= Len(t) THEN Len(t) - (k + 1) + 1 ELSE 0
        /\ \A i \in 1..(Len(t) - (k + 1) + 1) : left[i] = t[(k + 1) + i - 1]
    BY <1>1, <2>1, SubSeqProperties
  <2> HIDE DEF left
  <2>3. QED
    BY <1>1, <2>1, <2>2
<1> HIDE DEF head, left
<1>5. s \o (head \o left) = (s \o head) \o left
  BY <1>3, Reassociate
<1>6. s \o head \in Seq(Byte) /\ <<>> \o left = left
  BY <1>3, ConcatProperties, ConcatEmptySeq
<1>7. (s \o head) \o (<<>> \o left) = s \o t
  BY <1>3, <1>5, <1>6
<1>8. SubSeq(s \o t, 1, n) \o (<<>> \o left) = s \o t /\ SubSeq(s \o t, 1, n) \in Seq(Byte)
  BY <1>2, <1>6, <1>7
<1>9. QED
  BY <1>3, <1>4, <1>8 DEF left, k

-------------------------------------------------------------------------------
(* What process makes.                                                      *)

LEMMA BytesType ==
  ASSUME NEW source \in Source, NEW n \in Nat
  PROVE  /\ Bytes(source, n) \in ByteSeq
         /\ \A i \in 1..Len(Bytes(source, n)) : Bytes(source, n)[i][1] = source
  BY DEF Bytes, ByteSeq, Byte

\* What the proofs use of a response for a request that parse has found in p.
Sound(p, r) ==
  /\ r.mmFile \in {"null", "map", "FAILED"}
  /\ r.writeBuff \in ByteSeq /\ r.file \in ByteSeq /\ r.promise \in ByteSeq
  /\ \A i \in 1..Len(r.file) : r.file[i][1] = "map" => r.mmFile = "map"
  /\ p.line # "rank" =>
       r.writeBuff \o (IF r.mmFile = "map" THEN r.file ELSE <<>>) = r.promise

LEMMA RankingSound == ASSUME NEW p, p.line = "rank" PROVE Sound(p, Ranking)
<1>1. HeadLen \in Nat /\ BodyLen \in Nat
  BY LengthAssumption
<1>2. Head_ \in ByteSeq /\ Bytes("body", BodyLen) \in ByteSeq
  BY <1>1, BytesType DEF Head_, Source
<1>3. Head_ \o Bytes("body", BodyLen) \in ByteSeq
  BY <1>2, ConcatProperties DEF ByteSeq
<1>4. \A i \in 1..Len(Bytes("body", BodyLen)) : Bytes("body", BodyLen)[i][1] # "map"
  BY <1>1, BytesType DEF Source
<1>5. QED
  BY <1>2, <1>3, <1>4 DEF Sound, Ranking

LEMMA NoContentSound ==
  ASSUME NEW p, NEW c, NEW size \in Nat, NEW base \in {"null", "FAILED"}
  PROVE  Sound(p, NoContent(c, size, base))
<1> DEFINE text == Head_ \o Bytes("error", ErrorLen)
<1>1. HeadLen \in Nat /\ ErrorLen \in Nat
  BY LengthAssumption
<1>2. Head_ \in ByteSeq /\ Bytes("error", ErrorLen) \in ByteSeq
  BY <1>1, BytesType DEF Head_, Source
<1>3. text \in ByteSeq /\ text \o <<>> = text
  BY <1>2, ConcatProperties, ConcatEmptySeq DEF ByteSeq
<1>4. Bytes(base, size) \in ByteSeq
      /\ \A i \in 1..Len(Bytes(base, size)) : Bytes(base, size)[i][1] # "map"
  BY BytesType DEF Source
<1>5. base # "map"
  OBVIOUS
<1> HIDE DEF text
<1>6. QED
  BY <1>3, <1>4, <1>5 DEF Sound, NoContent, text

LEMMA ContentSound ==
  ASSUME NEW p, NEW c, NEW size \in Nat
  PROVE  Sound(p, Content(c, size))
<1>1. HeadLen \in Nat
  BY LengthAssumption
<1>2. Head_ \in ByteSeq /\ Bytes("map", size) \in ByteSeq
  BY <1>1, BytesType DEF Head_, Source
<1>3. Head_ \o Bytes("map", size) \in ByteSeq
  BY <1>2, ConcatProperties DEF ByteSeq
<1>4. QED
  BY <1>2, <1>3 DEF Sound, Content

LEMMA FileSound ==
  ASSUME NEW p, NEW c, NEW kind, NEW r \in FileResponse(c, kind)
  PROVE  Sound(p, r)
<1> DEFINE final == IF kind \in {"dir", "missing"} THEN 404
                    ELSE IF kind = "hidden" THEN 403 ELSE c
           size == IF final = 200 /\ kind = "empty" THEN 0 ELSE FileLen
<1>1. size \in Nat
  BY LengthAssumption
<1>2. r \in AddContent_(final, size)
  BY DEF FileResponse
<1> HIDE DEF final, size
<1>3. \/ r = NoContent(final, size, "null") \/ r = NoContent(final, size, "FAILED")
      \/ r = Content(final, size)
  BY <1>2 DEF AddContent_
<1>4. QED
  BY <1>1, <1>3, NoContentSound, ContentSound

LEMMA ResponseSound ==
  ASSUME NEW p, NEW r \in Responses(p)
  PROVE  Sound(p, r)
<1>1. PICK path \in Paths(p) :
        r \in IF path = "/rank/top" THEN {Ranking}
              ELSE UNION {FileResponse(IF p.ok THEN 200 ELSE 400, kind) : kind \in KindsOf(path)}
  BY DEF Responses
<1>2. CASE path = "/rank/top"
  <2>1. p.line = "rank"
    BY <1>1, <1>2 DEF Paths
  <2>2. QED
    BY <1>1, <1>2, <2>1, RankingSound
<1>3. CASE path # "/rank/top"
  <2>1. PICK kind \in KindsOf(path) : r \in FileResponse(IF p.ok THEN 200 ELSE 400, kind)
    BY <1>1, <1>3
  <2>2. QED
    BY <2>1, FileSound
<1>4. QED
  BY <1>2, <1>3

-------------------------------------------------------------------------------
(* The invariant.                                                           *)

\* OnProcess establishes it from nothing but types.
LEMMA OnProcessInv ==
  ASSUME IInv, NEW buff, OnProcess(buff)
  PROVE  IInv'
<1> USE DEF ByteSeq
<1>e. <<>> \in ByteSeq
  BY EmptySeq
<1>1. CASE buff = <<>>
  <2>1. /\ stage' = "in" /\ mmFile' = "null" /\ iov' = iov /\ got' = <<>> /\ promise' = <<>>
    BY <1>1 DEF OnProcess
  <2>2. QED
    BY <1>e, <2>1 DEF IInv, MappingCovers
<1>2. CASE buff # <<>>
  <2>1. PICK r \in Responses(request') :
          /\ stage' = "out" /\ got' = <<>>
          /\ mmFile' = r.mmFile /\ promise' = r.promise
          /\ iov' = <<r.writeBuff, r.file>>
    BY <1>2 DEF OnProcess
  <2>2. Sound(request', r)
    BY <2>1, ResponseSound
  <2>3. iov'[1] = r.writeBuff /\ iov'[2] = r.file /\ iov' \in ByteSeq \X ByteSeq
    BY <2>1, <2>2 DEF Sound
  <2>4. MappingCovers'
    BY <2>1, <2>2, <2>3 DEF MappingCovers, Sound
  <2>5. request'.line # "rank" => got' \o Remainder' = promise'
    <3>1. request'.line # "rank" => Remainder' = promise'
      BY <2>1, <2>2, <2>3 DEF Sound, Remainder
    <3>2. promise' \in Seq(Byte)
      BY <2>1, <2>2 DEF Sound
    <3>3. QED
      BY <2>1, <3>1, <3>2, ConcatEmptySeq
  <2>6. QED
    BY <1>e, <2>1, <2>2, <2>3, <2>4, <2>5 DEF IInv, Sound
<1>3. QED
  BY <1>1, <1>2

\* Close keeps what was sent and drops the mapping.
LEMMA CloseInv == ASSUME IInv, Close PROVE IInv'
  BY DEF IInv, Close, MappingCovers, reading

\* One writev: what has been sent moves from the front of the remainder to the client.
LEMMA SendInv ==
  ASSUME IInv, NEW n, Send(n)
  PROVE  IInv'
<1> DEFINE s == iov[1]
           t == iov[2]
<1>t. /\ s \in Seq(Byte) /\ t \in Seq(Byte) /\ iov = <<s, t>>
      /\ got \in Seq(Byte) /\ promise \in Seq(Byte)
      /\ Len(s) \in Nat /\ Len(t) \in Nat
  BY LenProperties DEF IInv, ByteSeq
<1>s. /\ stage = "out" /\ n \in 1..Sendable /\ n \in Nat \ {0}
      /\ got' = got \o SubSeq(s \o t, 1, n) /\ Advance(n)
      /\ request' = request /\ promise' = promise
      /\ \/ stage' = "sent" /\ Len(iov'[1] \o iov'[2]) = 0 /\ mmFile' = mmFile
         \/ stage' = "out" /\ mmFile' = mmFile
         \/ stage' = "closed" /\ mmFile' = "null"
  <2>1. Sendable \in Nat
    BY <1>t DEF Sendable
  <2>2. n \in Nat \ {0} /\ request' = request
    BY <2>1 DEF Send, reading
  <2>3. \/ stage' = "sent" /\ Len(iov'[1] \o iov'[2]) = 0 /\ mmFile' = mmFile
        \/ stage' = "out" /\ mmFile' = mmFile
        \/ stage' = "closed" /\ mmFile' = "null"
    <3> DEFINE left == Len(iov'[1] \o iov'[2])
    <3>1. IF left = 0 THEN stage' = "sent" /\ UNCHANGED mmFile
          ELSE IF isET \/ left > LowWater THEN stage' = "out" /\ UNCHANGED mmFile
          ELSE stage' = "closed" /\ mmFile' = "null"
      BY DEF Send
    <3> HIDE DEF left
    <3>2. QED
      BY <3>1 DEF left
  <2>4. QED
    BY <2>2, <2>3 DEF Send, Unsent
<1> HIDE DEF s, t
\* Whichever entry writev stops in, both stay sequences of bytes, the second loses bytes
\* only from its front, and the client gets what the remainder loses.
<1>1. /\ iov' \in Seq(Byte) \X Seq(Byte)
      /\ SubSeq(s \o t, 1, n) \in Seq(Byte)
      /\ \A i \in 1..Len(iov'[2]) : \E j \in 1..Len(t) : iov'[2][i] = t[j]
      /\ SubSeq(s \o t, 1, n) \o (iov'[1] \o iov'[2]) = s \o t
      /\ n <= Len(s) => SubSeq(s \o t, 1, n) \o iov'[1] = s
      /\ n > Len(s) => n <= Len(s) + Len(t)
                      /\ (mmFile = "map" \/ request.line = "rank")
  <2>1. CASE n <= Len(s)
    <3>1. n \in 1..Len(s)
      BY <1>t, <1>s, <2>1
    <3>2. iov' = <<SubSeq(s, n + 1, Len(s)), t>>
      BY <1>t, <1>s, <2>1 DEF Advance, s, t
    <3>3. iov'[1] = SubSeq(s, n + 1, Len(s)) /\ iov'[2] = t
      BY <3>2
    <3>4. /\ SubSeq(s \o t, 1, n) \in Seq(Byte) /\ iov'[1] \in Seq(Byte)
          /\ SubSeq(s \o t, 1, n) \o iov'[1] = s
          /\ SubSeq(s \o t, 1, n) \o (iov'[1] \o iov'[2]) = s \o t
      <4> DEFINE left == SubSeq(s, n + 1, Len(s))
                 sent == SubSeq(s \o t, 1, n)
      <4>1. sent \in Seq(Byte) /\ left \in Seq(Byte) /\ sent \o left = s /\ sent \o (left \o t) = s \o t
        BY ZenonT(30), <1>t, <3>1, SplitFirst
      <4> HIDE DEF left, sent
      <4>2. iov'[1] = left /\ iov'[2] = t
        BY <3>3 DEF left
      <4>3. QED
        BY <4>1, <4>2 DEF sent
    <3>5. iov' \in Seq(Byte) \X Seq(Byte)
      BY <1>t, <3>2, <3>3, <3>4
    <3>6. ~(n > Len(s))
      BY <1>t, <1>s, <2>1
    <3>7. QED
      BY <3>3, <3>4, <3>5, <3>6
  <2>2. CASE n > Len(s)
    <3>1. n <= Len(s) + Len(t) /\ (mmFile = "map" \/ request.line = "rank")
      BY <1>t, <1>s, <2>2 DEF Sendable, s, t
    <3>2. n \in (Len(s) + 1)..(Len(s) + Len(t))
      BY <1>t, <1>s, <2>2, <3>1
    <3>3. iov' = <<<<>>, SubSeq(t, n - Len(s) + 1, Len(t))>>
      BY <1>t, <1>s, <2>2 DEF Advance, s, t
    <3>4. iov'[1] = <<>> /\ iov'[2] = SubSeq(t, n - Len(s) + 1, Len(t))
      BY <3>3
    <3>5. /\ SubSeq(s \o t, 1, n) \in Seq(Byte) /\ iov'[2] \in Seq(Byte)
          /\ SubSeq(s \o t, 1, n) \o (iov'[1] \o iov'[2]) = s \o t
          /\ \A i \in 1..Len(iov'[2]) : \E j \in 1..Len(t) : iov'[2][i] = t[j]
      <4> DEFINE left == SubSeq(t, n - Len(s) + 1, Len(t))
                 sent == SubSeq(s \o t, 1, n)
      <4>1. /\ sent \in Seq(Byte) /\ left \in Seq(Byte) /\ sent \o (<<>> \o left) = s \o t
            /\ \A i \in 1..Len(left) : \E j \in 1..Len(t) : left[i] = t[j]
        BY <1>t, <3>2, SplitSecond
      <4> HIDE DEF left, sent
      <4>2. iov'[1] = <<>> /\ iov'[2] = left
        BY <3>4 DEF left
      <4>3. QED
        BY <4>1, <4>2 DEF sent
    <3>6. iov' \in Seq(Byte) \X Seq(Byte)
      BY <3>3, <3>4, <3>5, EmptySeq
    <3>7. ~(n <= Len(s))
      BY <1>t, <1>s, <2>2
    <3>8. QED
      BY <3>1, <3>5, <3>6, <3>7
  <2>3. n <= Len(s) \/ n > Len(s)
    BY <1>t, <1>s
  <2>4. QED
    BY <2>1, <2>2, <2>3
<1>2. got' \in Seq(Byte) /\ promise' \in Seq(Byte)
  BY <1>t, <1>s, <1>1, ConcatProperties
<1>3. MappingCovers'
  BY <1>s, <1>1 DEF IInv, MappingCovers, t
\* Together with what is left the client's bytes are what they were.
<1>4. ASSUME request.line # "rank", stage' # "closed"
      PROVE  got' \o Remainder' = promise
  <2> DEFINE sent == SubSeq(s \o t, 1, n)
  <2>1. got \o Remainder = promise /\ mmFile' = mmFile
    BY <1>s, <1>4 DEF IInv
  <2>2. Remainder' \in Seq(Byte) /\ sent \o Remainder' = Remainder
    <3>1. CASE mmFile = "map"
      <4>1. Remainder = s \o t /\ Remainder' = iov'[1] \o iov'[2]
        BY <2>1, <3>1 DEF Remainder, s, t
      <4>2. QED
        BY <1>1, <4>1, ConcatProperties
    <3>2. CASE mmFile # "map"
      <4>1. Remainder = s \o <<>> /\ Remainder' = iov'[1] \o <<>>
        BY <2>1, <3>2 DEF Remainder, s
      <4>2. n <= Len(s)
        BY <1>t, <1>s, <1>1, <1>4, <3>2
      <4>3. iov'[1] \in Seq(Byte)
        BY <1>1
      <4>4. QED
        BY <1>t, <1>1, <4>1, <4>2, <4>3, ConcatEmptySeq
    <3>3. QED
      BY <3>1, <3>2
  <2>3. got' \o Remainder' = got \o (sent \o Remainder')
    <3>1. sent \in Seq(Byte) /\ got' = got \o sent
      BY <1>s, <1>1
    <3> HIDE DEF sent
    <3>2. QED
      BY ZenonT(30), <1>t, <2>2, <3>1, Reassociate
  <2>4. QED
    BY <2>1, <2>2, <2>3
\* Nothing is left when it is over.
<1>5. ASSUME request.line # "rank", stage' = "sent"
      PROVE  got' = promise
  <2>1. iov'[1] \in Seq(Byte) /\ iov'[2] \in Seq(Byte) /\ Len(iov'[1] \o iov'[2]) = 0
    BY <1>s, <1>1, <1>5
  <2>2. iov'[1] \o iov'[2] = <<>>
    <3>1. iov'[1] \o iov'[2] \in Seq(Byte)
      BY <2>1, ConcatProperties
    <3>2. QED
      BY <2>1, <3>1, EmptySeq
  <2>3. iov'[1] = <<>> /\ iov'[2] = <<>>
    BY <2>1, <2>2, ConcatEqualIffEmpty
  <2>4. Remainder' = <<>>
    <3>1. <<>> \o <<>> = <<>>
      BY EmptySeq, ConcatEmptySeq
    <3>2. QED
      BY <2>3, <3>1 DEF Remainder
  <2>5. QED
    BY <1>2, <1>4, <1>5, <2>4, ConcatEmptySeq
<1>6. QED
  BY <1>s, <1>1, <1>2, <1>3, <1>4, <1>5 DEF IInv, ByteSeq

-------------------------------------------------------------------------------
(* The theorems.                                                            *)

\* What the client has got and what it can still get are the response as it was made,
\* in every reachable state.
THEOREM ResponseKept == Spec => []IInv
<1>1. Init => IInv
  <2>1. <<>> \in ByteSeq
    BY EmptySeq DEF ByteSeq
  <2>2. QED
    BY <2>1 DEF Init, IInv, MappingCovers
<1>2. IInv /\ [Next]_vars => IInv'
  <2> SUFFICES ASSUME IInv, [Next]_vars PROVE IInv'
    OBVIOUS
  <2>1. CASE \E r \in Requests : Ask(r)
    BY <2>1 DEF IInv, Ask, MappingCovers, Remainder, reading, response
  <2>2. CASE Reads
    BY <2>2, OnProcessInv DEF Reads, Read
  <2>3. CASE \E n \in 1..Len(Unsent) : Send(n)
    BY <2>3, SendInv
  <2>4. CASE SendFails \/ HangUp
    BY <2>4, CloseInv DEF SendFails, HangUp
  <2>5. CASE Sent
    BY <2>5, OnProcessInv, CloseInv DEF Sent
  <2>6. CASE UNCHANGED vars
    BY <2>6 DEF IInv, MappingCovers, Remainder, vars, input, reading, response
  <2>7. QED
    BY <2>1, <2>2, <2>3, <2>4, <2>5, <2>6 DEF Next
<1>3. QED
  BY <1>1, <1>2, PTL DEF Spec

\* The client gets the header and then the bytes that it announces, in order, and all of
\* them before the response counts as sent.
THEOREM ResponsesFramed == Spec => []Framed
<1>1. IInv => Framed
  <2> SUFFICES ASSUME IInv, stage \in {"out", "sent"}, request.line # "rank"
               PROVE  IsPrefix(got, promise) /\ (stage = "sent" => got = promise)
    BY DEF Framed
  <2> DEFINE rest == IF stage = "out" THEN Remainder ELSE <<>>
  <2>1. got \in Seq(Byte) /\ promise \in Seq(Byte) /\ iov[1] \in Seq(Byte) /\ iov[2] \in Seq(Byte)
    BY DEF IInv, ByteSeq
  <2>2. rest \in Seq(Byte) /\ got \o rest = promise
    BY <2>1, EmptySeq, ConcatProperties, ConcatEmptySeq DEF IInv, Remainder
  <2> HIDE DEF rest
  <2>3. IsPrefix(got, promise)
    <3>1. /\ Len(got) \in Nat /\ Len(rest) \in Nat /\ Len(promise) = Len(got) + Len(rest)
      BY <2>1, <2>2, LenProperties, ConcatProperties
    <3>2. SubSeq(promise, 1, Len(got)) = SubSeq(got, 1, Len(got))
      <4>1. CASE Len(got) = 0
        BY <4>1, SubSeqEmpty
      <4>2. CASE Len(got) # 0
        <5>1. Len(got) \in 1..Len(got)
          BY <3>1, <4>2
        <5>2. QED
          BY <2>1, <2>2, <5>1, CutFirst
      <4>3. QED
        BY <4>1, <4>2
    <3>3. QED
      BY <3>1, <3>2 DEF IsPrefix
  <2>4. QED
    BY <2>3 DEF IInv
<1>2. QED
  BY <1>1, ResponseKept, PTL

\* writev reads mapped memory only, and no mapping outlives its response.
THEOREM MappingsExact == Spec => []MappingCovers
<1>1. IInv => MappingCovers
  BY DEF IInv
<1>2. QED
  BY <1>1, ResponseKept, PTL

-------------------------------------------------------------------------------
(* What parse makes of the buffer.                                          *)

\* A set of natural numbers that is not empty has a least element.
LEMMA Least ==
  ASSUME NEW T \in SUBSET Nat, T # {}
  PROVE  \E x \in T : \A y \in T : x <= y
<1> DEFINE R == OpToRel(<, Nat)
<1>1. \A x, y \in Nat : y < x => <<y, x>> \in R
  BY DEF OpToRel
<1>2. \E x \in T : \A y \in T : ~ (<<y, x>> \in R)
  <2>1. IsWellFoundedOn(R, Nat)
    BY NatLessThanWellFounded
  <2> HIDE DEF R
  <2>2. QED
    BY <2>1, WFMin
<1> HIDE DEF R
<1>3. PICK x \in T : \A y \in T : ~ (<<y, x>> \in R)
  BY <1>2
<1>4. \A y \in T : x <= y
  <2> TAKE y \in T
  <2>1. x \in Nat /\ y \in Nat
    OBVIOUS
  <2>2. ~(y < x)
    BY <1>1, <1>3, <2>1, Zenon
  <2>3. QED
    BY <2>1, <2>2
<1>5. QED
  BY <1>4

\* What holds of 0, and of k whenever it holds of k - 1, holds up to n.
LEMMA Rounds ==
  ASSUME NEW n \in Nat, NEW T, 0 \in T, \A k \in 1..n : k - 1 \in T => k \in T
  PROVE  \A k \in 0..n : k \in T
<1> SUFFICES ASSUME \E k \in 0..n : k \notin T PROVE FALSE
  OBVIOUS
<1> DEFINE B == {k \in 0..n : k \notin T}
<1>1. B \in SUBSET Nat /\ B # {}
  OBVIOUS
<1>2. PICK x \in B : \A y \in B : x <= y
  BY <1>1, Least
<1>3. x \in 1..n /\ x - 1 \notin B /\ x - 1 \in 0..n
  BY <1>2
<1>4. QED
  BY <1>2, <1>3

Parsed ==
  [state : {"REQUEST_LINE", "HEADERS", "BODY", "FINISH"}, line : Text,
   headers : SUBSET Header, body : Text \cup {"none"}, ok : BOOLEAN, stop : BOOLEAN,
   left : Seq(Piece)]

LEMMA FreshTyped == ASSUME NEW buff \in Seq(Piece) PROVE Fresh(buff) \in Parsed
  BY DEF Fresh, Parsed, Text

\* parse is so many turns of its loop.
LEMMA ParseTurns ==
  ASSUME NEW buff \in Seq(Piece)
  PROVE  \E s : /\ s[0] = Fresh(buff)
                /\ \A n \in 1..Len(buff) : s[n] = Round(s[n - 1])
                /\ Parse(buff) = s[Len(buff)]
<1> DEFINE P(s, m) == s = [n \in 0..m |-> IF n = 0 THEN Fresh(buff) ELSE Round(s[n - 1])]
           T == {m \in 0..Len(buff) : \E s : P(s, m)}
<1>0. Len(buff) \in Nat
  OBVIOUS
<1>1. 0 \in T
  <2> DEFINE g == [n \in 0..0 |-> Fresh(buff)]
  <2>1. P(g, 0)
    OBVIOUS
  <2> HIDE DEF P, g
  <2>2. QED
    BY <1>0, <2>1
<1>2. ASSUME NEW m \in 1..Len(buff), m - 1 \in T PROVE m \in T
  <2>1. PICK s : P(s, m - 1)
    BY <1>2
  <2> DEFINE g == [n \in 0..m |-> IF n < m THEN s[n] ELSE Round(s[m - 1])]
  <2>2. P(g, m)
    BY <1>0, <2>1
  <2> HIDE DEF P, g
  <2>3. QED
    BY <1>0, <2>2
<1>3. \E s : P(s, Len(buff))
  <2> HIDE DEF P
  <2>1. \A m \in 0..Len(buff) : m \in T
    BY <1>0, <1>1, <1>2, Rounds
  <2>2. QED
    BY <1>0, <2>1
<1> DEFINE s == CHOOSE s : P(s, Len(buff))
<1>4. P(s, Len(buff))
  <2> HIDE DEF P
  <2>1. QED
    BY <1>3
<1>5. Parse(buff) = s[Len(buff)]
  BY DEF Parse
<1>6. s[0] = Fresh(buff) /\ \A n \in 1..Len(buff) : s[n] = Round(s[n - 1])
  <2> HIDE DEF s
  <2>1. QED
    BY <1>0, <1>4
<1> HIDE DEF s, P
<1>7. QED
  BY <1>5, <1>6

LEMMA FirstPiece ==
  ASSUME NEW buff \in Seq(Piece), buff # <<>>
  PROVE  /\ Head(buff).text \in Text /\ Head(buff).ended \in BOOLEAN /\ Head(buff) = buff[1]
         /\ Tail(buff) \in Seq(Piece) /\ Len(Tail(buff)) = Len(buff) - 1 /\ Len(buff) \in Nat \ {0}
         /\ \A i \in 1..(Len(buff) - 1) : Tail(buff)[i] = buff[i + 1]
<1>1. Head(buff) \in Piece /\ Head(buff) = buff[1] /\ Len(buff) \in Nat \ {0}
  OBVIOUS
<1>2. Tail(buff) \in Seq(Piece) /\ Len(Tail(buff)) = Len(buff) - 1
  OBVIOUS
<1>3. \A i \in 1..(Len(buff) - 1) : Tail(buff)[i] = buff[i + 1]
  BY <1>1
<1>4. QED
  BY <1>1, <1>2, <1>3 DEF Piece

\* One line handled: the buffer stays, headers are found in the headers only.
LEMMA HandleStep ==
  ASSUME NEW p \in Parsed, NEW text \in Text, p.state # "FINISH", ~p.stop
  PROVE  LET q == Handle(p, text)
         IN /\ q \in Parsed /\ q.left = p.left
            /\ p.state = "REQUEST_LINE" => q.headers = p.headers
            /\ p.state = "REQUEST_LINE" => q.stop \/ q.state = "HEADERS"
            /\ p.state # "REQUEST_LINE" => ~q.stop /\ q.state # "REQUEST_LINE"
<1>1. CASE p.state = "REQUEST_LINE"
  <2>1. Handle(p, text) = ParseRequestLine_(p, text)
    BY <1>1 DEF Handle
  <2>2. QED
    BY ZenonT(30), <1>1, <2>1 DEF ParseRequestLine_, Parsed, Text, RequestLine
<1>2. CASE p.state = "HEADERS"
  <2>1. Handle(p, text) = ParseHeader_(p, text)
    BY <1>2 DEF Handle
  <2>2. QED
    BY ZenonT(30), <1>2, <2>1 DEF ParseHeader_, Parsed
<1>3. CASE p.state = "BODY"
  <2>1. Handle(p, text) = ParseBody_(p, text)
    BY <1>3 DEF Handle
  <2>2. QED
    BY <1>3, <2>1 DEF ParseBody_, Parsed
<1>4. QED
  BY <1>1, <1>2, <1>3 DEF Parsed

\* Past the request line a line has been removed, or the loop is over.
Taken(buff, p) ==
  /\ p \in Parsed /\ Len(p.left) <= Len(buff)
  /\ p.headers # {} => Len(p.left) < Len(buff)
  /\ p.state # "REQUEST_LINE" => p.stop \/ Len(p.left) < Len(buff)

LEMMA TurnTakes ==
  ASSUME NEW buff \in Seq(Piece), NEW p, Taken(buff, p)
  PROVE  Taken(buff, Round(p))
<1>0. p \in Parsed /\ p.left \in Seq(Piece) /\ Len(buff) \in Nat /\ Len(p.left) \in Nat
  BY DEF Taken, Parsed
<1>1. CASE p.stop \/ p.left = <<>> \/ p.state = "FINISH"
  BY <1>1 DEF Round
<1>2. CASE ~(p.stop \/ p.left = <<>> \/ p.state = "FINISH")
  <2> DEFINE h == Head(p.left)
             q == Handle(p, h.text)
  <2>1. /\ h.text \in Text /\ h.ended \in BOOLEAN /\ Tail(p.left) \in Seq(Piece)
        /\ Len(Tail(p.left)) = Len(p.left) - 1
    BY <1>0, <1>2, FirstPiece
  <2>2. Round(p) = IF q.stop THEN q ELSE IF h.ended THEN [q EXCEPT !.left = Tail(@)]
                                        ELSE [q EXCEPT !.stop = TRUE]
    BY <1>2 DEF Round
  <2>3. /\ q \in Parsed /\ q.left = p.left
        /\ p.state = "REQUEST_LINE" => q.headers = p.headers
        /\ p.state = "REQUEST_LINE" => q.stop \/ q.state = "HEADERS"
        /\ p.state # "REQUEST_LINE" => ~q.stop /\ q.state # "REQUEST_LINE"
    BY <1>0, <1>2, <2>1, HandleStep
  <2> HIDE DEF q, h
  <2>4. CASE q.stop
    <3>1. p.state = "REQUEST_LINE" /\ q.headers = p.headers
      BY <2>3, <2>4
    <3>2. QED
      BY <1>0, <2>2, <2>3, <2>4, <3>1 DEF Taken
  <2>5. CASE ~q.stop /\ h.ended
    <3>1. Round(p) = [q EXCEPT !.left = Tail(p.left)]
      BY <2>2, <2>3, <2>5
    <3>2. /\ Round(p) \in Parsed /\ Round(p).left = Tail(p.left)
      BY <2>1, <2>3, <3>1 DEF Parsed
    <3>3. Len(Round(p).left) < Len(buff)
      BY <1>0, <2>1, <3>2 DEF Taken
    <3>4. Len(Round(p).left) <= Len(buff)
      BY <1>0, <2>1, <3>2 DEF Taken
    <3>5. QED
      BY <3>2, <3>3, <3>4 DEF Taken
  <2>6. CASE ~q.stop /\ ~h.ended
    <3>1. Round(p) = [q EXCEPT !.stop = TRUE]
      BY <2>2, <2>6
    <3>2. /\ Round(p) \in Parsed /\ Round(p).left = p.left /\ Round(p).stop
          /\ Round(p).headers = q.headers
      BY <2>3, <3>1 DEF Parsed
    <3>3. Round(p).headers # {} => Len(p.left) < Len(buff)
      BY <1>2, <2>3, <3>2 DEF Taken
    <3>4. QED
      BY <3>2, <3>3 DEF Taken
  <2>7. QED
    BY <2>4, <2>5, <2>6
<1>3. QED
  BY <1>1, <1>2

\* parse removes a line whenever it finds a header.
LEMMA ParseTakes ==
  ASSUME NEW buff \in Seq(Piece)
  PROVE  Taken(buff, Parse(buff))
<1>0. Len(buff) \in Nat
  OBVIOUS
<1>1. PICK s : /\ s[0] = Fresh(buff)
               /\ \A n \in 1..Len(buff) : s[n] = Round(s[n - 1])
               /\ Parse(buff) = s[Len(buff)]
  BY ParseTurns
<1> DEFINE T == {n \in 0..Len(buff) : Taken(buff, s[n])}
<1>2. 0 \in T
  <2>1. Fresh(buff) \in Parsed
    BY FreshTyped
  <2>2. Taken(buff, Fresh(buff))
    BY <1>0, <2>1 DEF Fresh, Taken
  <2>3. QED
    BY <1>0, <1>1, <2>2
<1>3. \A n \in 1..Len(buff) : n - 1 \in T => n \in T
  BY <1>1, TurnTakes
<1>4. \A n \in 0..Len(buff) : n \in T
  <2> HIDE DEF T
  <2>1. QED
    BY <1>0, <1>2, <1>3, Rounds
<1>5. QED
  BY <1>0, <1>1, <1>4

-------------------------------------------------------------------------------
(* A request that is complete.                                              *)

LEMMA ArrivedIs ==
  ASSUME NEW r \in Seq(Text)
  PROVE  /\ Arrived(r) \in Seq(Piece) /\ Len(Arrived(r)) = Len(r) /\ Len(r) \in Nat
         /\ \A i \in 1..Len(r) : Arrived(r)[i] = Whole(r[i]) /\ r[i] \in Text
<1>1. Len(r) \in Nat /\ \A i \in 1..Len(r) : r[i] \in Text /\ Whole(r[i]) \in Piece
  BY DEF Whole, Piece
<1>2. QED
  BY <1>1 DEF Arrived

\* A line other than a form ends with CRLF.
LEMMA WholeEnded ==
  ASSUME NEW text, text # "body" PROVE Whole(text).text = text /\ Whole(text).ended
<1>1. Whole(text).ended = (text # "body")
  BY DEF Whole
<1>2. Whole(text).ended = TRUE
  BY <1>1
<1>3. QED
  BY <1>2 DEF Whole

\* Line n of a bodiless request was handled, and it was not the last one.
Reading(r, n, p) ==
  /\ p \in Parsed /\ p.state = "HEADERS" /\ p.line = r[1] /\ p.ok /\ ~p.stop
  /\ p.headers = Header \cap {r[i] : i \in 1..n}
  /\ Len(p.left) = Len(r) - n
  /\ \A i \in 1..(Len(r) - n) : p.left[i] = Whole(r[n + i])

LEMMA BodilessLong ==
  ASSUME NEW r \in Seq(Text), Bodiless(r) PROVE Len(r) \in Nat /\ Len(r) >= 2
<1>1. r # <<>> /\ r[1] # r[Len(r)]
  BY DEF Bodiless, RequestLine
<1>2. Len(r) \in Nat /\ Len(r) # 0
  BY <1>1, EmptySeq, LenProperties
<1>3. Len(r) # 1
  BY <1>1
<1>4. ASSUME NEW k \in Nat, k # 0, k # 1 PROVE k >= 2
  BY <1>4
<1>5. QED
  BY ONLY <1>2, <1>3, <1>4

LEMMA FirstTurn ==
  ASSUME NEW r \in Seq(Text), Bodiless(r)
  PROVE  Reading(r, 1, Round(Fresh(Arrived(r))))
<1> DEFINE buff == Arrived(r)
           p == Fresh(buff)
           q == ParseRequestLine_(p, r[1])
<1>1. /\ buff \in Seq(Piece) /\ Len(buff) = Len(r) /\ Len(r) \in Nat /\ Len(r) >= 2
      /\ \A i \in 1..Len(r) : buff[i] = Whole(r[i]) /\ r[i] \in Text
  BY ArrivedIs, BodilessLong
<1>2. r[1] \in RequestLine /\ r[1] # "body" /\ r[1] \notin Header
  BY DEF Bodiless, RequestLine, Header
<1>3. buff # <<>> /\ Head(buff) = Whole(r[1])
  BY <1>1
<1>4. /\ Tail(buff) \in Seq(Piece) /\ Len(Tail(buff)) = Len(r) - 1
      /\ \A i \in 1..(Len(r) - 1) : Tail(buff)[i] = buff[i + 1]
  BY <1>1, <1>3, FirstPiece
<1> HIDE DEF buff
<1>5. p \in Parsed /\ p.state = "REQUEST_LINE" /\ p.left = buff /\ ~p.stop /\ p.headers = {} /\ p.ok
  BY <1>1 DEF Fresh, Parsed, Text
<1>6. Round(p) = [q EXCEPT !.left = Tail(buff)]
  <2> HIDE DEF p
  <2>1. Handle(p, r[1]) = q
    BY <1>5 DEF Handle
  <2>2. q = [p EXCEPT !.line = r[1], !.state = "HEADERS"]
    BY <1>2 DEF ParseRequestLine_
  <2>3. ~q.stop /\ q.left = buff
    BY <1>5, <2>2 DEF Parsed
  <2> HIDE DEF q
  <2>4. Head(p.left).text = r[1] /\ Head(p.left).ended
    BY <1>2, <1>3, <1>5, WholeEnded
  <2>5. QED
    BY <1>3, <1>5, <2>1, <2>3, <2>4 DEF Round
<1>7. Round(p) = [p EXCEPT !.line = r[1], !.state = "HEADERS", !.left = Tail(buff)]
  <2> HIDE DEF p
  <2>1. QED
    BY <1>2, <1>5, <1>6 DEF ParseRequestLine_, Parsed
<1> HIDE DEF p, q
<1>8. {r[i] : i \in 1..1} = {r[1]} /\ r[1] \in Text
  BY <1>1
<1>9. /\ Round(p) \in Parsed /\ Round(p).state = "HEADERS" /\ Round(p).line = r[1]
      /\ Round(p).ok /\ ~Round(p).stop /\ Round(p).headers = {} /\ Round(p).left = Tail(buff)
  BY <1>4, <1>5, <1>7, <1>8 DEF Parsed
<1>10. \A i \in 1..(Len(r) - 1) : Round(p).left[i] = Whole(r[1 + i])
  BY <1>1, <1>4, <1>9
<1>11. QED
  BY <1>2, <1>4, <1>8, <1>9, <1>10 DEF Reading, p, buff

\* Any turn after it: the next line is a header or the last one.
LEMMA HeaderTurn ==
  ASSUME NEW r \in Seq(Text), Bodiless(r), NEW n \in 1..(Len(r) - 1), NEW p, Reading(r, n, p)
  PROVE  /\ n < Len(r) - 1 => Reading(r, n + 1, Round(p))
         /\ n = Len(r) - 1 =>
              /\ Round(p) \in Parsed /\ Round(p).state = "FINISH" /\ Round(p).left = <<>>
              /\ Round(p).ok /\ Round(p).line = r[1]
              /\ Round(p).headers = Header \cap {r[i] : i \in 1..Len(r)}
<1> DEFINE text == r[n + 1]
           q == ParseHeader_(p, text)
           u == Round(p)
<1>1. /\ Len(r) \in Nat /\ n \in Nat /\ n + 1 \in 1..Len(r) /\ text \in Text
      /\ n + 1 \in 2..Len(r)
  BY BodilessLong
<1>2. /\ p \in Parsed /\ p.left \in Seq(Piece) /\ p.left # <<>> /\ ~p.stop /\ p.state = "HEADERS"
      /\ Len(p.left) = Len(r) - n /\ p.left[1] = Whole(text)
  <2>1. p \in Parsed /\ p.left \in Seq(Piece) /\ Len(p.left) = Len(r) - n
    BY DEF Reading, Parsed
  <2>2. p.left # <<>>
    BY <1>1, <2>1
  <2>3. p.left[1] = Whole(text)
    BY <1>1 DEF Reading
  <2>4. QED
    BY <2>1, <2>2, <2>3 DEF Reading
<1>3. /\ Head(p.left) = Whole(text)
      /\ Tail(p.left) \in Seq(Piece) /\ Len(Tail(p.left)) = Len(r) - (n + 1)
      /\ \A i \in 1..(Len(r) - (n + 1)) : Tail(p.left)[i] = Whole(r[(n + 1) + i])
  <2>1. /\ Head(p.left) = p.left[1] /\ Tail(p.left) \in Seq(Piece)
        /\ Len(Tail(p.left)) = Len(p.left) - 1
        /\ \A i \in 1..(Len(p.left) - 1) : Tail(p.left)[i] = p.left[i + 1]
    BY <1>2, FirstPiece
  <2>2. \A i \in 1..(Len(r) - n) : p.left[i] = Whole(r[n + i])
    BY DEF Reading
  <2>3. \A i \in 1..(Len(r) - (n + 1)) : Tail(p.left)[i] = Whole(r[(n + 1) + i])
    <3> TAKE i \in 1..(Len(r) - (n + 1))
    <3>1. i + 1 \in 1..(Len(r) - n) /\ n + (i + 1) = (n + 1) + i /\ i \in 1..(Len(p.left) - 1)
      BY <1>1, <1>2
    <3>2. QED
      BY <2>1, <2>2, <3>1
  <2>4. Len(Tail(p.left)) = Len(r) - (n + 1)
    BY <1>1, <1>2, <2>1
  <2>5. Head(p.left) = Whole(text)
    BY <1>2, <2>1
  <2>6. QED
    BY <2>1, <2>3, <2>4, <2>5
<1>4. text # "body" /\ (text = "" <=> n = Len(r) - 1)
  <2>1. CASE n = Len(r) - 1
    <3>1. text = r[Len(r)]
      BY <1>1, <2>1
    <3>2. text = ""
      BY <3>1 DEF Bodiless
    <3> HIDE DEF text
    <3>3. QED
      BY <2>1, <3>2
  <2>2. CASE n # Len(r) - 1
    <3>1. n + 1 \in 2..(Len(r) - 1)
      BY <1>1, <2>2
    <3>2. text \in Header
      BY <3>1 DEF Bodiless
    <3> HIDE DEF text
    <3>3. QED
      BY <2>2, <3>2 DEF Header
  <2>3. QED
    BY <2>1, <2>2
<1>5. /\ q \in Parsed /\ ~q.stop /\ q.left = p.left /\ q.line = p.line /\ q.ok = p.ok
      /\ q.headers = p.headers \cup (Header \cap {text})
      /\ q.state = IF text # "" THEN "HEADERS" ELSE IF Len(p.left) = 1 THEN "FINISH" ELSE "BODY"
  BY <1>2 DEF ParseHeader_, Parsed
<1>6. u = [q EXCEPT !.left = Tail(p.left)]
  <2>1. Handle(p, text) = q
    BY <1>2 DEF Handle
  <2> HIDE DEF q
  <2>2. Head(p.left).text = text /\ Head(p.left).ended
    <3> HIDE DEF text
    <3>1. QED
      BY <1>3, <1>4, WholeEnded
  <2> HIDE DEF text
  <2>3. QED
    BY <1>2, <1>5, <2>1, <2>2 DEF Round
<1> HIDE DEF q, u
<1>7. /\ u \in Parsed /\ u.left = Tail(p.left) /\ u.stop = q.stop /\ u.line = q.line
      /\ u.ok = q.ok /\ u.headers = q.headers /\ u.state = q.state
  BY <1>3, <1>5, <1>6 DEF Parsed
<1>8. u.headers = Header \cap {r[i] : i \in 1..(n + 1)}
  <2>1. {r[i] : i \in 1..(n + 1)} = {r[i] : i \in 1..n} \cup {text}
    <3>1. 1..(n + 1) = 1..n \cup {n + 1}
      BY <1>1
    <3>2. QED
      BY <3>1
  <2>2. p.headers = Header \cap {r[i] : i \in 1..n}
    BY DEF Reading
  <2>3. QED
    BY <1>5, <1>7, <2>1, <2>2
<1>9. ASSUME n < Len(r) - 1 PROVE Reading(r, n + 1, u)
  <2>1. u.state = "HEADERS"
    <3>0. n # Len(r) - 1
      BY <1>1, <1>9
    <3> HIDE DEF text
    <3>1. text # ""
      BY <1>4, <3>0
    <3>2. QED
      BY <1>5, <1>7, <3>1
  <2>2. u.line = r[1] /\ u.ok /\ ~u.stop
    BY <1>5, <1>7 DEF Reading
  <2>3. Len(u.left) = Len(r) - (n + 1)
    BY <1>3, <1>7
  <2>4. \A i \in 1..(Len(r) - (n + 1)) : u.left[i] = Whole(r[(n + 1) + i])
    BY <1>3, <1>7
  <2>5. QED
    BY <1>7, <1>8, <2>1, <2>2, <2>3, <2>4 DEF Reading
<1>10. ASSUME n = Len(r) - 1
       PROVE  /\ u.state = "FINISH" /\ u.left = <<>> /\ u.ok /\ u.line = r[1]
              /\ u.headers = Header \cap {r[i] : i \in 1..Len(r)}
  <2>1. Len(p.left) = 1 /\ Len(Tail(p.left)) = 0 /\ n + 1 = Len(r)
    BY <1>1, <1>2, <1>3, <1>10
  <2>2. u.state = "FINISH"
    BY <1>4, <1>5, <1>7, <1>10, <2>1
  <2>3. u.left = <<>>
    BY <1>3, <1>7, <2>1, EmptySeq
  <2>4. u.ok /\ u.line = r[1]
    BY <1>5, <1>7 DEF Reading
  <2>5. QED
    BY <1>8, <2>1, <2>2, <2>3, <2>4
<1>11. QED
  BY <1>7, <1>9, <1>10 DEF u

\* parse takes the whole of it, finds nothing wrong, and keeps what it says of the
\* connection.
LEMMA ParseWhole ==
  ASSUME NEW r \in Seq(Text), Bodiless(r)
  PROVE  LET p == Parse(Arrived(r))
         IN /\ p.left = <<>> /\ p.ok /\ p.line = r[1]
            /\ p.headers = Header \cap {r[i] : i \in 1..Len(r)}
<1> DEFINE last == Len(r) - 1
<1>1. /\ Arrived(r) \in Seq(Piece) /\ Len(Arrived(r)) = Len(r) /\ Len(r) \in Nat
      /\ last \in Nat /\ last >= 1
  BY ArrivedIs, BodilessLong
<1>2. PICK s : /\ s[0] = Fresh(Arrived(r))
               /\ \A n \in 1..Len(r) : s[n] = Round(s[n - 1])
               /\ Parse(Arrived(r)) = s[Len(r)]
  BY <1>1, ParseTurns
<1> DEFINE T == {n \in 0..last : n = 0 \/ Reading(r, n, s[n])}
<1>3. ASSUME NEW n \in 1..last, n - 1 \in T PROVE n \in T
  <2>1. n \in 1..Len(r) /\ s[n] = Round(s[n - 1])
    BY <1>1, <1>2
  <2>2. CASE n = 1
    BY <1>1, <1>2, <2>1, <2>2, FirstTurn
  <2>3. CASE n # 1
    <3>1. n - 1 \in 1..(Len(r) - 1) /\ n - 1 < Len(r) - 1 /\ (n - 1) + 1 = n
      BY <1>1, <2>3
    <3>2. Reading(r, n - 1, s[n - 1])
      BY <1>3, <2>3, <3>1
    <3>3. Reading(r, (n - 1) + 1, Round(s[n - 1]))
      BY <3>1, <3>2, HeaderTurn
    <3>4. QED
      BY <2>1, <3>1, <3>3
  <2>4. QED
    BY <2>2, <2>3
<1>4. Reading(r, last, s[last])
  <2>1. 0 \in T
    BY <1>1
  <2>2. \A n \in 0..last : n \in T
    <3> HIDE DEF T, last
    <3>1. QED
      BY <1>1, <1>3, <2>1, Rounds
  <2>3. QED
    BY <1>1, <2>2
<1>5. last \in 1..(Len(r) - 1) /\ s[Len(r)] = Round(s[last])
  BY <1>1, <1>2
<1>6. QED
  BY <1>2, <1>4, <1>5, HeaderTurn

-------------------------------------------------------------------------------
(* The buffer of a connection.                                              *)

\* What is read from the network are pieces of what was sent.
LEMMA ReadGives ==
  ASSUME coming \in Seq(Text), readBuff \in Seq(Piece), Reads
  PROVE  coming' \in Seq(Text) /\ \E buff \in Seq(Piece) : OnProcess(buff)
<1>1. Len(coming) \in Nat /\ \A i \in 1..Len(coming) : coming[i] \in Text
  OBVIOUS
<1>2. PICK k \in 0..Len(coming) :
        \/ Read(k, <<>>)
        \/ k < Len(coming) /\ \E piece \in CutOf(coming[k + 1]) : Read(k, <<piece>>)
  BY DEF Reads
<1>3. \E c \in Seq(Piece) : Read(k, c)
  <2>1. CASE Read(k, <<>>)
    <3>1. <<>> \in Seq(Piece)
      OBVIOUS
    <3>2. QED
      BY <2>1, <3>1, Zenon
  <2>2. CASE k < Len(coming) /\ \E piece \in CutOf(coming[k + 1]) : Read(k, <<piece>>)
    <3>1. PICK piece \in CutOf(coming[k + 1]) : Read(k, <<piece>>)
      BY <2>2
    <3>2. coming[k + 1] \in Text
      BY <1>1, <2>2
    <3>3. piece \in Piece
      <4> DEFINE text == coming[k + 1]
      <4>1. PICK left \in {"junk"} \cup (IF text \in RequestLine THEN {text, "get10", "bad"} ELSE {})
                               \cup (IF text \in Header THEN {text, "other"} ELSE {}) :
              piece = [text |-> left, ended |-> FALSE]
        BY DEF CutOf
      <4> HIDE DEF text
      <4>2. left \in Text
        BY DEF Text, RequestLine, Header
      <4>3. QED
        BY <4>1, <4>2 DEF Piece
    <3>4. <<piece>> \in Seq(Piece)
      BY <3>3
    <3>5. QED
      BY <3>1, <3>4
  <2>3. QED
    BY <1>2, <2>1, <2>2
<1>4. PICK c \in Seq(Piece) : Read(k, c)
  BY <1>3
<1>5. SubSeq(coming, k + 1, Len(coming)) \in Seq(Text) /\ SubSeq(coming, 1, k) \in Seq(Text)
  <2>1. \A i \in (k + 1)..Len(coming) : coming[i] \in Text
    BY <1>1
  <2>2. \A i \in 1..k : coming[i] \in Text
    BY <1>1
  <2>3. QED
    BY <1>1, <2>1, <2>2, SubSeqProperties
<1>6. Arrived(SubSeq(coming, 1, k)) \in Seq(Piece)
  BY <1>5, ArrivedIs
<1>7. readBuff \o Arrived(SubSeq(coming, 1, k)) \o c \in Seq(Piece)
  <2> DEFINE arrived == Arrived(SubSeq(coming, 1, k))
  <2>1. arrived \in Seq(Piece)
    BY <1>6
  <2> HIDE DEF arrived
  <2>2. readBuff \o arrived \in Seq(Piece)
    BY <2>1
  <2>3. (readBuff \o arrived) \o c \in Seq(Piece)
    BY <2>2
  <2>4. QED
    BY <2>3 DEF arrived
<1>8. /\ coming' = SubSeq(coming, k + 1, Len(coming))
      /\ OnProcess(readBuff \o Arrived(SubSeq(coming, 1, k)) \o c)
  BY <1>4 DEF Read
<1>9. QED
  BY <1>5, <1>7, <1>8

\* A request that parse finds nothing wrong with is not answered 400.
LEMMA NotRefused ==
  ASSUME NEW p, p.ok, NEW r \in Responses(p) PROVE r.code # 400
<1>1. PICK path \in Paths(p) :
        r \in IF path = "/rank/top" THEN {Ranking}
              ELSE UNION {FileResponse(IF p.ok THEN 200 ELSE 400, kind) : kind \in KindsOf(path)}
  BY DEF Responses
<1>2. CASE path = "/rank/top"
  BY <1>1, <1>2 DEF Ranking
<1>3. CASE path # "/rank/top"
  <2>1. PICK kind \in KindsOf(path) : r \in FileResponse(200, kind)
    BY <1>1, <1>3
  <2> DEFINE final == IF kind \in {"dir", "missing"} THEN 404
                      ELSE IF kind = "hidden" THEN 403 ELSE 200
             size == IF final = 200 /\ kind = "empty" THEN 0 ELSE FileLen
  <2>2. r \in AddContent_(final, size)
    BY <2>1 DEF FileResponse
  <2>3. final # 400
    OBVIOUS
  <2> HIDE DEF final, size
  <2>4. r.code = final
    BY <2>2 DEF AddContent_, NoContent, Content
  <2>5. QED
    BY <2>3, <2>4
<1>4. QED
  BY <1>2, <1>3

\* The inductive invariant: the properties and what is in the two buffers.
Spent ==
  /\ coming \in Seq(Text) /\ readBuff \in Seq(Piece)
  /\ BufferSpent /\ WholeAnswered

LEMMA OnProcessSpent ==
  ASSUME NEW buff \in Seq(Piece), OnProcess(buff)
  PROVE  readBuff' \in Seq(Piece) /\ BufferSpent' /\ WholeAnswered'
<1>1. CASE buff = <<>>
  BY <1>1 DEF OnProcess, BufferSpent, WholeAnswered
<1>2. CASE buff # <<>>
  <2>1. /\ stage' = "out" /\ given' = buff /\ request' = Parse(buff)
        /\ readBuff' = request'.left
        /\ \E r \in Responses(request') : code' = r.code
    BY <1>2 DEF OnProcess
  <2>2. Taken(buff, request')
    BY <2>1, ParseTakes
  <2>3. readBuff' \in Seq(Piece)
    BY <2>1, <2>2 DEF Taken, Parsed
  <2>4. BufferSpent'
    <3>1. IsKeepAlive(request') => request'.headers # {}
      BY DEF IsKeepAlive
    <3>2. IsKeepAlive(request') => Len(readBuff') < Len(given')
      BY <2>1, <2>2, <3>1 DEF Taken
    <3>3. QED
      BY <2>1, <3>2 DEF BufferSpent
  <2>5. ASSUME NEW r \in Requests, Bodiless(r), buff = Arrived(r)
        PROVE  /\ readBuff' = <<>> /\ code' # 400
               /\ IsKeepAlive(request') <=> "keep" \in ToSet(r) /\ r[1] # "get10"
    <3>1. r \in Seq(Text)
      BY RequestAssumption
    <3>2. /\ request'.left = <<>> /\ request'.ok /\ request'.line = r[1]
          /\ request'.headers = Header \cap {r[i] : i \in 1..Len(r)}
      BY <2>1, <2>5, <3>1, ParseWhole
    <3>3. ToSet(r) = {r[i] : i \in 1..Len(r)}
      BY <3>1 DEF ToSet
    <3>4. "keep" \in request'.headers <=> "keep" \in ToSet(r)
      BY <3>2, <3>3 DEF Header
    <3>5. code' # 400
      BY <2>1, <3>2, NotRefused
    <3>6. QED
      BY <2>1, <3>2, <3>4, <3>5 DEF IsKeepAlive
  <2>6. WholeAnswered'
    BY <2>1, <2>5 DEF WholeAnswered
  <2>7. QED
    BY <2>3, <2>4, <2>6
<1>3. QED
  BY <1>1, <1>2

\* Between two calls of process nothing touches the buffer, and writing ends before the
\* connection waits for input again.
LEMMA SpentKept ==
  ASSUME Spent, UNCHANGED <<reading, code>>, stage' # "in" \/ stage = "in",
         stage' = "out" => stage = "out", coming' \in Seq(Text)
  PROVE  Spent'
  BY DEF Spent, BufferSpent, WholeAnswered, reading

LEMMA SpentStep == Spent /\ [Next]_vars => Spent'
<1> SUFFICES ASSUME Spent, [Next]_vars PROVE Spent'
  OBVIOUS
<1> USE DEF Spent
<1>1. CASE Reads
  BY <1>1, ReadGives, OnProcessSpent
<1>2. CASE \E r \in Requests : Ask(r)
  <2>1. PICK r \in Requests : Ask(r)
    BY <1>2
  <2>2. coming \o r \in Seq(Text)
    BY RequestAssumption
  <2>3. QED
    BY <2>1, <2>2, SpentKept DEF Ask, response
<1>3. CASE \E n \in 1..Len(Unsent) : Send(n)
  <2>1. PICK n : Send(n)
    BY <1>3
  <2>2. stage = "out" /\ UNCHANGED <<reading, code, coming>> /\ stage' # "in"
    BY <2>1 DEF Send, input
  <2>3. QED
    BY <2>2, SpentKept
<1>4. CASE SendFails \/ HangUp \/ (Sent /\ ~IsKeepAlive(request))
  <2>1. Close
    BY <1>4 DEF SendFails, HangUp, Sent
  <2>2. QED
    BY <2>1, SpentKept DEF Close, input
<1>5. CASE Sent /\ IsKeepAlive(request)
  <2>1. OnProcess(readBuff) /\ UNCHANGED coming
    BY <1>5 DEF Sent, input
  <2>2. QED
    BY <2>1, OnProcessSpent
<1>6. CASE UNCHANGED vars
  BY <1>6, SpentKept DEF vars, input, response
<1>7. QED
  BY <1>1, <1>2, <1>3, <1>4, <1>5, <1>6 DEF Next

LEMMA BuffersSpent == Spec => []Spent
<1>1. Init => Spent
  BY DEF Init, Spent, BufferSpent, WholeAnswered
<1>2. QED
  BY <1>1, SpentStep, PTL DEF Spec

\* A connection that waits has nothing left to read, and one that is kept alive has
\* less to read after each answer, whatever the clients send and wherever it is cut.
THEOREM NothingStranded == Spec => []BufferSpent
<1>1. Spent => BufferSpent
  BY DEF Spent
<1>2. QED
  BY <1>1, BuffersSpent, PTL

\* A whole request without a body, with any number of headers in any order, is read to
\* its end, accepted, and keeps the connection exactly if it may.
THEOREM WholeUnderstood == Spec => []WholeAnswered
<1>1. Spent => WholeAnswered
  BY DEF Spent
<1>2. QED
  BY <1>1, BuffersSpent, PTL

-------------------------------------------------------------------------------
(* Types.                                                                   *)

\* Where the conjuncts of TypeOK come from; the others are in IInv and Spent.
Typed ==
  /\ asked \in 0..MaxReq /\ given \in Seq(Piece) /\ request \in Parsed
  /\ code \in {-1, 200, 400, 403, 404}
  /\ mmFile \in {"null", "map", "FAILED"} /\ leaked \in BOOLEAN
  /\ writeBuff \in ByteSeq

LEMMA CodeIs ==
  ASSUME NEW p, NEW r \in Responses(p) PROVE r.code \in {200, 400, 403, 404}
<1>1. PICK path \in Paths(p) :
        r \in IF path = "/rank/top" THEN {Ranking}
              ELSE UNION {FileResponse(IF p.ok THEN 200 ELSE 400, kind) : kind \in KindsOf(path)}
  BY DEF Responses
<1>2. CASE path = "/rank/top"
  BY <1>1, <1>2 DEF Ranking
<1>3. CASE path # "/rank/top"
  <2> DEFINE c == IF p.ok THEN 200 ELSE 400
  <2>1. PICK kind \in KindsOf(path) : r \in FileResponse(c, kind)
    BY <1>1, <1>3
  <2>2. c \in {200, 400}
    OBVIOUS
  <2> HIDE DEF c
  <2> DEFINE final == IF kind \in {"dir", "missing"} THEN 404
                      ELSE IF kind = "hidden" THEN 403 ELSE c
             size == IF final = 200 /\ kind = "empty" THEN 0 ELSE FileLen
  <2>3. r \in AddContent_(final, size)
    BY <2>1 DEF FileResponse
  <2>4. final \in {200, 400, 403, 404}
    BY <2>2
  <2> HIDE DEF final, size
  <2>5. r.code = final
    BY <2>3 DEF AddContent_, NoContent, Content
  <2>6. QED
    BY <2>4, <2>5
<1>4. QED
  BY <1>2, <1>3

LEMMA OnProcessTyped ==
  ASSUME Typed, NEW buff \in Seq(Piece), OnProcess(buff), UNCHANGED asked
  PROVE  Typed'
<1>1. CASE buff = <<>>
  <2>1. <<>> \in ByteSeq
    BY EmptySeq DEF ByteSeq
  <2>2. /\ given' = buff /\ request' = Fresh(buff) /\ mmFile' = "null" /\ writeBuff' = <<>>
        /\ UNCHANGED <<code, leaked>>
    BY <1>1 DEF OnProcess
  <2>3. request' \in Parsed
    BY <2>2, FreshTyped
  <2>4. QED
    BY <2>1, <2>2, <2>3 DEF Typed
<1>2. CASE buff # <<>>
  <2>1. PICK r \in Responses(request') :
          /\ given' = buff /\ request' = Parse(buff)
          /\ code' = r.code /\ mmFile' = r.mmFile /\ writeBuff' = r.writeBuff
          /\ leaked' = (leaked \/ r.mmFile = "FAILED")
    BY <1>2 DEF OnProcess
  <2>2. Sound(request', r) /\ r.code \in {200, 400, 403, 404} /\ request' \in Parsed
    BY <2>1, ResponseSound, CodeIs, ParseTakes DEF Taken
  <2>3. leaked' \in BOOLEAN
    BY <2>1
  <2>4. QED
    BY <2>1, <2>2, <2>3 DEF Typed, Sound
<1>3. QED
  BY <1>1, <1>2

LEMMA AdvanceTyped ==
  ASSUME writeBuff \in ByteSeq, NEW n \in Nat, Advance(n) PROVE writeBuff' \in ByteSeq
<1>1. Len(writeBuff) \in Nat /\ \A i \in (n + 1)..Len(writeBuff) : writeBuff[i] \in Byte
  BY ElementOfSeq, LenProperties DEF ByteSeq
<1>2. SubSeq(writeBuff, n + 1, Len(writeBuff)) \in ByteSeq /\ <<>> \in ByteSeq
  BY <1>1, SubSeqProperties, EmptySeq DEF ByteSeq
<1>3. QED
  BY <1>2 DEF Advance

LEMMA TypedStep == Spent /\ IInv /\ Typed /\ [Next]_vars => Typed'
<1> SUFFICES ASSUME Spent, IInv, Typed, [Next]_vars PROVE Typed'
  OBVIOUS
<1>1. CASE Reads
  <2>1. coming \in Seq(Text) /\ readBuff \in Seq(Piece)
    BY DEF Spent
  <2>2. PICK buff \in Seq(Piece) : OnProcess(buff)
    BY <1>1, <2>1, ReadGives
  <2>3. UNCHANGED asked
    BY <1>1 DEF Reads, Read
  <2>4. QED
    BY <2>2, <2>3, OnProcessTyped
<1>2. CASE \E r \in Requests : Ask(r)
  BY <1>2, RequestAssumption DEF Typed, Ask, reading, response
<1>3. CASE \E n \in 1..Len(Unsent) : Send(n)
  <2>1. Len(Unsent) \in Nat
    BY ConcatProperties, LenProperties DEF IInv, ByteSeq, Unsent
  <2>2. PICK n \in Nat : Send(n)
    BY <1>3, <2>1
  <2>3. writeBuff' \in ByteSeq
    BY <2>2, AdvanceTyped DEF Send, Typed
  <2>4. mmFile' = mmFile \/ mmFile' = "null"
    <3> DEFINE left == Len(iov'[1] \o iov'[2])
    <3>1. IF left = 0 THEN stage' = "sent" /\ UNCHANGED mmFile
          ELSE IF isET \/ left > LowWater THEN stage' = "out" /\ UNCHANGED mmFile
          ELSE stage' = "closed" /\ mmFile' = "null"
      BY <2>2 DEF Send
    <3> HIDE DEF left
    <3>2. QED
      BY <3>1
  <2>5. UNCHANGED <<asked, given, request, code, leaked>>
    BY <2>2 DEF Send, input, reading
  <2>6. QED
    BY <2>3, <2>4, <2>5 DEF Typed
<1>4. CASE SendFails \/ HangUp \/ (Sent /\ ~IsKeepAlive(request))
  BY <1>4 DEF SendFails, HangUp, Sent, Close, Typed, input, reading
<1>5. CASE Sent /\ IsKeepAlive(request)
  <2>1. OnProcess(readBuff) /\ UNCHANGED asked /\ readBuff \in Seq(Piece)
    BY <1>5 DEF Sent, input, Spent
  <2>2. QED
    BY <2>1, OnProcessTyped
<1>6. CASE UNCHANGED vars
  BY <1>6 DEF vars, input, reading, response, Typed
<1>7. QED
  BY <1>1, <1>2, <1>3, <1>4, <1>5, <1>6 DEF Next

\* Every variable keeps its type: pieces of lines in the buffers, a request as parse can
\* leave it, a code that the server knows.
THEOREM TypeCorrect == Spec => []TypeOK
<1>1. Init => Typed
  <2> SUFFICES ASSUME Init PROVE Typed
    OBVIOUS
  <2>1. <<>> \in ByteSeq /\ <<>> \in Seq(Piece)
    BY EmptySeq DEF ByteSeq
  <2>2. Fresh(<<>>) \in Parsed
    BY <2>1, FreshTyped
  <2>3. request \in Parsed /\ given \in Seq(Piece) /\ writeBuff \in ByteSeq
    BY <2>1, <2>2 DEF Init
  <2>4. asked \in 0..MaxReq
    BY RequestAssumption DEF Init
  <2>5. code \in {-1, 200, 400, 403, 404} /\ mmFile \in {"null", "map", "FAILED"}
    BY DEF Init
  <2>6. leaked \in BOOLEAN
    BY DEF Init
  <2>7. QED
    BY <2>3, <2>4, <2>5, <2>6 DEF Typed
<1>2. Typed /\ Spent /\ IInv => TypeOK
  BY DEF Typed, Spent, IInv, TypeOK, Parsed
<1>3. QED
  BY <1>1, <1>2, TypedStep, BuffersSpent, ResponseKept, PTL DEF Spec
===============================================================================
