------------------------------ MODULE HttpRequest ------------------------------
(***************************************************************************)
(* code/http/httprequest.cpp: what HttpRequest::parse makes of the read    *)
(* buffer.  The buffer is a sequence of lines; the last one may lack its   *)
(* CRLF, because the rest has not arrived or because it is a body.  A line *)
(* is one of the few texts that parse treats in different ways.            *)
(***************************************************************************)
EXTENDS Integers, Sequences

\* Request lines: GET of a page in HTTP/1.1 and in another version, POST of the
\* login or the registration form, GET of /rank/top.
RequestLine == {"get", "get10", "post", "rank"}

\* Connection: keep-alive, Content-Type: application/x-www-form-urlencoded, any other.
Header == {"keep", "form", "other"}

\* "" is the line that ends the header, "body" a form with a name and a password,
\* "bad" a request line without HTTP/, "junk" a text of fewer than three words.
Text == RequestLine \cup Header \cup {"", "body", "bad", "junk"}

Piece == [text : Text, ended : BOOLEAN]

\* HttpRequest after Init; left is the readable part of the buffer, and stop says
\* that parse has left its loop.
Fresh(buff) ==
  [state |-> "REQUEST_LINE", line |-> "junk", headers |-> {}, body |-> "none",
   ok |-> TRUE, stop |-> FALSE, left |-> buff]

\* "bad" leaves a method and a path behind, "junk" neither.
ParseRequestLine_(p, text) ==
  IF text \in RequestLine
    THEN [p EXCEPT !.line = text, !.state = "HEADERS"]
    ELSE [p EXCEPT !.line = IF text = "bad" THEN "bad" ELSE "junk",
                   !.ok = FALSE, !.stop = TRUE]

\* The empty line ends the request if nothing follows it in the buffer.
ParseHeader_(p, text) ==
  [p EXCEPT !.headers = @ \cup (Header \cap {text}),
            !.state = IF text # "" THEN "HEADERS"
                      ELSE IF Len(p.left) = 1 THEN "FINISH" ELSE "BODY"]

ParseBody_(p, text) == [p EXCEPT !.body = text, !.state = "FINISH"]

\* What one turn of the loop does with the next line before the buffer moves on.
Handle(p, text) ==
  CASE p.state = "REQUEST_LINE" -> ParseRequestLine_(p, text)
    [] p.state = "HEADERS" -> ParseHeader_(p, text)
    [] p.state = "BODY" -> ParseBody_(p, text)

\* One turn of the loop in parse.  A line without CRLF is handled like any other,
\* but it is not removed, and parse leaves its loop.
Round(p) ==
  IF p.stop \/ p.left = <<>> \/ p.state = "FINISH" THEN p
  ELSE LET q == Handle(p, Head(p.left).text)
       IN IF q.stop THEN q
          ELSE IF Head(p.left).ended THEN [q EXCEPT !.left = Tail(@)]
          ELSE [q EXCEPT !.stop = TRUE]

\* parse, for a buffer that is not empty: each turn removes a line or is the last.
Parse(buff) ==
  LET after[n \in 0..Len(buff)] ==
        IF n = 0 THEN Fresh(buff) ELSE Round(after[n - 1])
  IN after[Len(buff)]

\* Mutant: the version does not count.
Bug_IsKeepAlive(p) == "keep" \in p.headers

IsKeepAlive(p) == "keep" \in p.headers /\ p.line # "get10"

\* ParsePost_ has looked at a form.
Verifies(p) == p.line = "post" /\ "form" \in p.headers /\ p.body # "none"

\* The page asked for.  UserVerify refuses a form without name or password, and
\* answers as it likes otherwise.
Paths(p) ==
  CASE p.line = "junk" -> {""}
    [] p.ok /\ p.line = "rank" -> {"/rank/top"}
    [] Verifies(p) /\ p.body = "body" -> {"/welcome.html", "/error.html"}
    [] Verifies(p) /\ p.body # "body" -> {"/error.html"}
    [] OTHER -> {"page"}

================================================================================
