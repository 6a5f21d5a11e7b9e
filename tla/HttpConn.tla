------------------------------- MODULE HttpConn --------------------------------
(***************************************************************************)
(* One connection from request to response: code/http/httpconn.cpp and     *)
(* httpresponse.cpp, with httprequest.cpp from HttpRequest, and the        *)
(* handlers of webserver.cpp that call them.  ReactorProofs shows that     *)
(* one thread at a time serves a connection, so a handler is one action,   *)
(* except that write is one action per writev.                             *)
(*                                                                         *)
(* The bytes of a response are counted and told apart by where they come   *)
(* from, <<source, position>>; an iovec is the sequence of bytes it covers.*)
(***************************************************************************)
EXTENDS HttpRequest, SequencesExt

CONSTANTS
  Requests,   \* what a client may send: sequences of lines
  MaxReq,     \* bound: requests over one connection
  Cuts,       \* the network may deliver a part of a line
  Files,      \* kinds of what stat finds: "page", "empty", "dir", "missing", "hidden"
  OpenFails,  \* open may fail on a file that stat has found
  MmapFails,  \* mmap may fail on a file that is not empty
  HeadLen,    \* bytes of a status line and a header
  FileLen,    \* bytes of a page
  ErrorLen,   \* bytes of what ErrorContent writes
  BodyLen,    \* bytes of the ranking
  LowWater,   \* the 10240 of HttpConn::write
  isET        \* HttpConn::isET

ASSUME RequestAssumption == Requests \subseteq Seq(Text) /\ MaxReq \in Nat

ASSUME LengthAssumption ==
  /\ {HeadLen, FileLen, ErrorLen, BodyLen} \subseteq Nat \ {0}
  /\ LowWater \in Nat

ASSUME EnvironmentAssumption ==
  /\ Files \subseteq {"page", "empty", "dir", "missing", "hidden"} /\ "dir" \in Files
  /\ {Cuts, OpenFails, MmapFails, isET} \subseteq BOOLEAN

VARIABLES
  stage,      \* "closed", waiting for "in" or "out" events, or "sent": write is over
  asked,      \* requests the client has sent
  coming,     \* lines sent and not read
  readBuff,   \* readBuff_, as pieces
  given,      \* what the buffer had when parse was last called
  request,    \* request_ after that
  code,       \* response_.code_
  mmFile,     \* response_.mmFile_: "null", "map" or MAP_"FAILED"
  writeBuff,  \* readable part of writeBuff_
  iov,        \* iov_, as the bytes that each entry covers
  leaked,     \* AddContent_ has left a file open
  got,        \* bytes of this response the client has got
  promise     \* the header and as many bytes as it announces

input == <<asked, coming>>
reading == <<readBuff, given, request>>
response == <<code, mmFile, writeBuff, iov, leaked, promise>>
vars == <<stage, input, reading, response, got>>

Source == {"head", "map", "body", "error", "null", "FAILED"}
Byte == Source \X (Nat \ {0})
Bytes(source, n) == [i \in 1..n |-> <<source, i>>]

\* ToWriteBytes() > 0 is iov[1] \o iov[2] # <<>>.
Unsent == iov[1] \o iov[2]

\* AddClient_ has called init.  It leaves the iovec and the response of the last client
\* of this HttpConn as they are, but nothing looks at them before process sets them.
Init ==
  /\ stage = "in"
  /\ asked = 0
  /\ coming = <<>>
  /\ readBuff = <<>>
  /\ given = <<>>
  /\ request = Fresh(<<>>)
  /\ code = -1
  /\ mmFile = "null"
  /\ writeBuff = <<>>
  /\ iov = <<<<>>, <<>>>>
  /\ leaked = FALSE
  /\ got = <<>>
  /\ promise = <<>>

-------------------------------------------------------------------------------
(* The response.                                                            *)

Head_ == Bytes("head", HeadLen)

\* The ranking: MakeResponse appends it to the header, and process covers it with
\* the second entry of the iovec too.
Ranking ==
  [code |-> 200, mmFile |-> "null", promise |-> Head_ \o Bytes("body", BodyLen),
   writeBuff |-> Head_ \o Bytes("body", BodyLen), file |-> Bytes("body", BodyLen)]

\* AddContent_ has no file to send; what the second entry covers is not there.  After
\* a failed mmap it returns without closing the file.
NoContent(c, size, base) ==
  [code |-> c, mmFile |-> base, promise |-> Head_ \o Bytes("error", ErrorLen),
   writeBuff |-> Head_ \o Bytes("error", ErrorLen), file |-> Bytes(base, size)]

Content(c, size) ==
  [code |-> c, mmFile |-> "map", promise |-> Head_ \o Bytes("map", size),
   writeBuff |-> Head_, file |-> Bytes("map", size)]

\* AddContent_, for a page or an error page of this size.
AddContent_(c, size) ==
  (IF OpenFails THEN {NoContent(c, size, "null")} ELSE {})
  \cup (IF MmapFails \/ size = 0 THEN {NoContent(c, size, "FAILED")} ELSE {})
  \cup (IF size > 0 THEN {Content(c, size)} ELSE {})

\* MakeResponse without a body: c is the code from process, and an error page, which
\* is always there, takes the place of the file.
FileResponse(c, kind) ==
  LET final == IF kind \in {"dir", "missing"} THEN 404
               ELSE IF kind = "hidden" THEN 403 ELSE c
  IN AddContent_(final, IF final = 200 /\ kind = "empty" THEN 0 ELSE FileLen)

\* srcDir itself is a directory, the welcome and the error page are pages.
KindsOf(path) ==
  CASE path = "" -> {"dir"}
    [] path = "page" -> Files
    [] OTHER -> {"page"}

\* process from Init to MakeResponse, for what parse found.
Responses(p) ==
  UNION {IF path = "/rank/top" THEN {Ranking}
         ELSE UNION {FileResponse(IF p.ok THEN 200 ELSE 400, kind) : kind \in KindsOf(path)}
         : path \in Paths(p)}

\* Mutant: process waits for the rest of an incomplete request, although parse has
\* removed what it has seen.
Bug_OnProcessWaits(buff) ==
  /\ given' = buff
  /\ request' = IF buff = <<>> THEN Fresh(buff) ELSE Parse(buff)
  /\ readBuff' = request'.left
  /\ IF buff = <<>> \/ (request'.ok /\ request'.state # "FINISH")
       THEN /\ stage' = "in" /\ mmFile' = "null" /\ writeBuff' = <<>>
            /\ UNCHANGED <<code, iov, leaked, promise, got>>
       ELSE /\ stage' = "out" /\ got' = <<>>
            /\ \E r \in Responses(request') :
                 /\ code' = r.code /\ mmFile' = r.mmFile /\ writeBuff' = r.writeBuff
                 /\ iov' = <<r.writeBuff, r.file>> /\ promise' = r.promise
                 /\ leaked' = (leaked \/ r.mmFile = "FAILED")

\* OnProcess: process, and the registration for what comes next.
OnProcess(buff) ==
  \/ /\ buff = <<>>
     /\ stage' = "in"
     /\ given' = buff
     /\ readBuff' = buff
     /\ request' = Fresh(buff)
     /\ mmFile' = "null"
     /\ writeBuff' = <<>>
     /\ got' = <<>> /\ promise' = <<>>
     /\ UNCHANGED <<code, iov, leaked>>
  \/ /\ buff # <<>>
     /\ stage' = "out"
     /\ given' = buff
     /\ request' = Parse(buff)
     /\ readBuff' = request'.left
     /\ \E r \in Responses(request') :
          /\ code' = r.code
          /\ mmFile' = r.mmFile
          /\ writeBuff' = r.writeBuff
          /\ iov' = <<r.writeBuff, r.file>>
          /\ leaked' = (leaked \/ r.mmFile = "FAILED")
          /\ promise' = r.promise
     /\ got' = <<>>

-------------------------------------------------------------------------------
(* The client and the handlers.                                             *)

Ask(r) ==
  /\ stage # "closed"
  /\ asked < MaxReq
  /\ asked' = asked + 1
  /\ coming' = coming \o r
  /\ UNCHANGED <<stage, reading, response, got>>

\* A form is sent without a CRLF after it.
Whole(text) == [text |-> text, ended |-> text # "body"]
Arrived(texts) == [i \in 1..Len(texts) |-> Whole(texts[i])]

\* What a cut leaves of a line: all of it but the CRLF, a version, HTTP/ or a value cut
\* short, or too little to mean anything.
CutOf(text) ==
  {[text |-> t, ended |-> FALSE] : t \in {"junk"}
     \cup (IF text \in RequestLine THEN {text, "get10", "bad"} ELSE {})
     \cup (IF text \in Header THEN {text, "other"} ELSE {})}

\* OnRead_ gets the first k lines that were sent, and c of the next.
Read(k, c) ==
  /\ stage = "in"
  /\ k > 0 \/ c # <<>>
  /\ coming' = SubSeq(coming, k + 1, Len(coming))
  /\ OnProcess(readBuff \o Arrived(SubSeq(coming, 1, k)) \o c)
  /\ UNCHANGED asked

Reads ==
  \E k \in 0..Len(coming) :
    \/ Read(k, <<>>)
    \/ /\ Cuts /\ k < Len(coming)
       /\ \E piece \in CutOf(coming[k + 1]) : Read(k, <<piece>>)

\* Mutant: Close leaves the mapping to the destructor.
Bug_CloseKeepsMapping ==
  /\ stage' = "closed"
  /\ UNCHANGED <<input, reading, response, got>>

\* Close unmaps the file and leaves the rest as it is.
Close ==
  /\ stage' = "closed"
  /\ mmFile' = "null"
  /\ UNCHANGED <<input, reading, code, writeBuff, iov, leaked, promise, got>>

\* writev can send what is in memory: all of it, or only the first entry.
Sendable == Len(iov[1]) + (IF mmFile = "map" \/ request.line = "rank"
                             THEN Len(iov[2]) ELSE 0)

\* Mutant: the second entry moves by all that was sent.
Bug_AdvanceTooFar(n) ==
  IF n > Len(iov[1])
    THEN /\ iov' = <<<<>>, SubSeq(iov[2], n + 1, Len(iov[2]))>>
         /\ writeBuff' = IF iov[1] # <<>> THEN <<>> ELSE writeBuff
    ELSE /\ iov' = [iov EXCEPT ![1] = SubSeq(@, n + 1, Len(@))]
         /\ writeBuff' = SubSeq(writeBuff, n + 1, Len(writeBuff))

\* The adjustment after writev has sent n bytes.
Advance(n) ==
  IF n > Len(iov[1])
    THEN /\ iov' = <<<<>>, SubSeq(iov[2], n - Len(iov[1]) + 1, Len(iov[2]))>>
         /\ writeBuff' = IF iov[1] # <<>> THEN <<>> ELSE writeBuff
    ELSE /\ iov' = [iov EXCEPT ![1] = SubSeq(@, n + 1, Len(@))]
         /\ writeBuff' = SubSeq(writeBuff, n + 1, Len(writeBuff))

\* OnWrite_, one writev of write: it goes on, or waits for the next event, as long as
\* something is left; level-triggered it may end with up to LowWater bytes left.
Send(n) ==
  /\ stage = "out"
  /\ n \in 1..Sendable
  /\ got' = got \o SubSeq(Unsent, 1, n)
  /\ Advance(n)
  /\ LET left == Len(iov'[1] \o iov'[2])
     IN IF left = 0 THEN stage' = "sent" /\ UNCHANGED mmFile
        ELSE IF isET \/ left > LowWater THEN stage' = "out" /\ UNCHANGED mmFile
        ELSE stage' = "closed" /\ mmFile' = "null"
  /\ UNCHANGED <<input, reading, code, leaked, promise>>

\* writev fails: the peer is gone, or nothing is left that can be sent.
SendFails == stage = "out" /\ Close

\* OnWrite_ after the last byte.
Sent ==
  /\ stage = "sent"
  /\ IF IsKeepAlive(request) THEN OnProcess(readBuff) /\ UNCHANGED input ELSE Close

\* The client hangs up or its timer expires.
HangUp == stage = "in" /\ Close

Next ==
  \/ Reads \/ SendFails \/ Sent \/ HangUp
  \/ \E r \in Requests : Ask(r)
  \/ \E n \in 1..Len(Unsent) : Send(n)

Spec == Init /\ [][Next]_vars

-------------------------------------------------------------------------------
(* Properties.                                                             *)

ByteSeq == Seq(Byte)

TypeOK ==
  /\ stage \in {"closed", "in", "out", "sent"}
  /\ asked \in 0..MaxReq
  /\ coming \in Seq(Text)
  /\ readBuff \in Seq(Piece) /\ given \in Seq(Piece)
  /\ request.state \in {"REQUEST_LINE", "HEADERS", "BODY", "FINISH"}
  /\ request.left \in Seq(Piece) /\ request.headers \subseteq Header
  /\ code \in {-1, 200, 400, 403, 404}
  /\ mmFile \in {"null", "map", "FAILED"}
  /\ leaked \in BOOLEAN
  /\ {writeBuff, iov[1], iov[2], got, promise} \subseteq ByteSeq

\* The client gets the header and then exactly the bytes that it announces, in order,
\* however often writev stops short, and nothing else before the response counts as
\* sent (httpconn.cpp:76).  The ranking is the exception: see AnnouncedSent.
Framed ==
  stage \in {"out", "sent"} /\ request.line # "rank" =>
    /\ IsPrefix(got, promise)
    /\ stage = "sent" => got = promise

\* The same for all responses.  httpresponse.cpp:150 says that for a body passed in,
\* its Content-length is written directly: the client is told the length of what follows.
AnnouncedSent == IsPrefix(got, promise)

\* What writev may still read is mapped, and a connection that waits for a request or is
\* closed holds no mapping, whatever open, mmap and the peer did (httpresponse.cpp:192).
MappingCovers ==
  /\ stage = "out" => \A i \in 1..Len(iov[2]) : iov[2][i][1] = "map" => mmFile = "map"
  /\ stage \in {"closed", "in"} => mmFile = "null"

\* What is left to send and can be sent.
Remainder == iov[1] \o (IF mmFile = "map" THEN iov[2] ELSE <<>>)

\* The inductive invariant behind Framed and MappingCovers: what the client has and what
\* it can still get make up the promise.
IInv ==
  /\ stage \in {"closed", "in", "out", "sent"}
  /\ iov \in ByteSeq \X ByteSeq /\ got \in ByteSeq /\ promise \in ByteSeq
  /\ MappingCovers
  /\ stage = "out" /\ request.line # "rank" => got \o Remainder = promise
  /\ stage = "sent" /\ request.line # "rank" => got = promise

\* A file that AddContent_ opens is closed again (httpresponse.cpp:186).
NoFileLeftOpen == ~leaked

\* Nothing is left in the buffer of a connection that waits for input, where no event
\* would bring it up, and a connection is kept only after parse removed a line from the
\* buffer, so that requests sent together are answered finitely often (webserver.cpp:259).
BufferSpent ==
  /\ stage = "in" => readBuff = <<>>
  /\ stage = "out" /\ IsKeepAlive(request) => Len(readBuff) < Len(given)

\* A request line, headers and the empty line that ends them.
Bodiless(r) ==
  /\ r # <<>> /\ r[1] \in RequestLine /\ r[Len(r)] = ""
  /\ \A i \in 2..(Len(r) - 1) : r[i] \in Header

\* A well-formed request that needs no body and arrives at once, alone, is consumed to
\* the end, is not answered 400, and keeps the connection if and only if it asks for it
\* and speaks HTTP/1.1 (httprequest.cpp:26, 56).
WholeAnswered ==
  \A r \in Requests :
    stage = "out" /\ Bodiless(r) /\ given = Arrived(r) =>
      /\ readBuff = <<>>
      /\ code # 400
      /\ IsKeepAlive(request) <=> "keep" \in ToSet(r) /\ r[1] # "get10"

\* httprequest.cpp:66 says that parse leaves its loop at a line that is not complete to go
\* on at the next epoll event: nothing is answered before the line is complete.
UnendedWaits ==
  stage = "out" => \A i \in 1..Len(given) : given[i].ended \/ given[i].text = "body"

\* webserver.cpp:259 says that after a response the connection gets ready for the next
\* request: a form that was answered is not taken for a request again.
NextRequestWaits == [][stage = "sent" /\ coming = <<>> => stage' # "out"]_vars

================================================================================
