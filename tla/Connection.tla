----------------------------- MODULE Connection -----------------------------
(***************************************************************************)
(* One server connection (gurtd/src/main.rs handle_conn): the plaintext    *)
(* handshake, the TLS upgrade and the loop of requests, each parsed by     *)
(* read_request (gurt-api/src/http_like.rs) from whatever chunks the       *)
(* socket delivers.  The client sends its next message once it has the     *)
(* answer to the last one; it may stop in the middle of one.               *)
(***************************************************************************)
EXTENDS Framing

CONSTANTS Heads,         \* request heads a client may send, all ending a head
          Hellos,        \* messages it may open the connection with
          MaxMessage,    \* MAX_MESSAGE_BYTES
          MaxHandshake,  \* MAX_HANDSHAKE_BYTES
          Chunk,         \* bound: bytes of a read
          MaxRequests    \* bound: requests of a connection

ASSUME ConnectionAssumption ==
    /\ MaxMessage \in Nat /\ MaxHandshake \in Nat
    /\ Chunk \in Nat \ {0} /\ MaxRequests \in Nat

\* What a client sends before a body is one head and no more: it ends with the
\* only end of head in it.
ASSUME ClientAssumption ==
    \A head \in Heads \cup Hellos :
        head \in Seq(Bytes) /\ head # <<>> /\ HeadEnd(head) = Len(head)

VARIABLES stage,       \* "handshake", "tls", "head", "body", "reply" or "closed"
          wire,        \* bytes sent and not read yet
          eof,         \* whether the client has closed its side
          requests,    \* how many requests were sent
          sent,        \* history: the bytes of the last one
          answers,     \* how many were answered
          answer,      \* history: the outcome of the last one, until the next is sent
          buf,         \* the bytes read for the message at hand
          searchFrom,  \* where the scan for the end of the head resumes
          headEnd,     \* length of the head, once found
          body         \* the bytes of the body read so far

vars == <<stage, wire, eof, requests, sent, answers, answer, buf, searchFrom, headEnd, body>>
client == <<eof, requests, sent>>
outcome == <<answers, answer>>
reader == <<buf, searchFrom, headEnd, body>>

Codes == {"Ok", "BadRequest", "RequestEntityTooLarge", "InternalServerError"}
Ok(b) == [code |-> "Ok", body |-> b]
Error(code) == [code |-> code, body |-> <<>>]

TypeOK ==
    /\ stage \in {"handshake", "tls", "head", "body", "reply", "closed"}
    /\ wire \in Seq(Bytes) /\ eof \in BOOLEAN
    /\ requests \in 0..MaxRequests /\ sent \in Seq(Bytes)
    /\ answers \in 0..requests + 1
    /\ answer \in [code : Codes \cup {"none"}, body : Seq(Bytes)]
    /\ buf \in Seq(Bytes)
    /\ searchFrom \in 0..MaxMessage
    /\ headEnd \in 0..Len(buf)
    /\ body \in Seq(Bytes)
    /\ stage = "head" => searchFrom = Len(buf)

AsksClose(head) == "c" \in InSeq(head)

Init ==
    /\ stage = "handshake"
    /\ wire \in Hellos
    /\ eof = FALSE
    /\ requests = 0 /\ sent = <<>>
    /\ answers = 0 /\ answer = Error("none")
    /\ buf = <<>> /\ searchFrom = 0 /\ headEnd = 0 /\ body = <<>>

Answer(a) == answers' = answers + 1 /\ answer' = a
Reset == buf' = <<>> /\ searchFrom' = 0 /\ headEnd' = 0 /\ body' = <<>>
Close == stage' = "closed" /\ Reset

-----------------------------------------------------------------------------
(* The client.                                                             *)

BodyOf(head) == [i \in 1..ContentLength(head) |-> "b"]

\* The next request is sent when every one before it was answered, whole or
\* cut short by the end of the stream.
SendRequest(head) ==
    /\ stage = "head"
    /\ ~eof
    /\ requests = answers /\ requests < MaxRequests
    /\ requests' = requests + 1
    /\ answer' = Error("none")
    /\ LET message == head \o BodyOf(head) IN
       \E n \in 1..Len(message) :
          /\ eof' = (n < Len(message))
          /\ wire' = wire \o SubSeq(message, 1, n)
          /\ sent' = SubSeq(message, 1, n)
    /\ UNCHANGED <<stage, answers, reader>>

HangUp ==
    /\ stage # "closed"
    /\ ~eof
    /\ eof' = TRUE
    /\ UNCHANGED <<stage, wire, requests, sent, outcome, reader>>

-----------------------------------------------------------------------------
(* The handshake.                                                          *)

\* A read delivers some of the bytes on the wire.
Reads == 1..(IF Len(wire) < Chunk THEN Len(wire) ELSE Chunk)

\* read_and_respond_handshake: what follows the head is dropped with buf.
ReadHandshake ==
    /\ stage = "handshake"
    /\ \E n \in Reads :
          /\ wire' = From(wire, n + 1)
          /\ LET got == buf \o SubSeq(wire, 1, n) IN
             IF Len(got) > MaxHandshake THEN Close
             ELSE IF HeadEnd(got) = 0 THEN
                buf' = got /\ UNCHANGED <<stage, searchFrom, headEnd, body>>
             ELSE IF "h" \in InSeq(StartLine(got)) THEN stage' = "tls" /\ Reset
             ELSE Close
    /\ UNCHANGED <<client, outcome>>

\* The upgrade succeeds, or fails or yields an older TLS version.
UpgradeToTls ==
    /\ stage = "tls"
    /\ stage' \in {"head", "closed"}
    /\ UNCHANGED <<wire, client, outcome, reader>>

-----------------------------------------------------------------------------
(* read_request, and what the loop does with its result.                   *)

\* An error code is answered and ends the connection.
Fail(code) == Answer(Error(code)) /\ Close

\* The scan of find(&buf[start..]): from where it stopped, less an overlap.
ScanFrom(got, start) ==
    LET rel == HeadEnd(From(got, start + 1)) IN IF rel = 0 THEN 0 ELSE start + rel

\* Mutant: the overlap is a byte short.
ScanShort(got, from) == ScanFrom(got, IF from < 2 THEN 0 ELSE from - 2)
Scan(got, from) == ScanFrom(got, IF from < 3 THEN 0 ELSE from - 3)

\* What follows the head is the start of the body if there is to be one, and
\* dropped otherwise.
Rest(got, end) ==
    IF ContentLength(SubSeq(got, 1, end)) = 0 THEN <<>> ELSE From(got, end + 1)

HeadRead(got, end) ==
    IF ~WellFormed(SubSeq(got, 1, end)) THEN Fail("BadRequest")
    ELSE IF /\ ContentLength(SubSeq(got, 1, end)) > 0
            /\ end + ContentLength(SubSeq(got, 1, end)) > MaxMessage
         THEN Fail("RequestEntityTooLarge")
    ELSE /\ stage' = "body" /\ buf' = got /\ headEnd' = end
         /\ body' = Rest(got, end)
         /\ UNCHANGED <<searchFrom, outcome>>

ReadHead ==
    /\ stage = "head"
    /\ \E n \in Reads :
          /\ wire' = From(wire, n + 1)
          /\ LET got == buf \o SubSeq(wire, 1, n)
                 end == Scan(got, searchFrom)
             IN
             IF Len(got) > MaxMessage THEN Fail("RequestEntityTooLarge")
             ELSE IF end # 0 THEN HeadRead(got, end)
             ELSE /\ buf' = got /\ searchFrom' = Len(got)
                  /\ UNCHANGED <<stage, outcome, headEnd, body>>
    /\ UNCHANGED client

Head1 == SubSeq(buf, 1, headEnd)
Missing == ContentLength(Head1) - Len(body)

ReadBody ==
    /\ stage = "body"
    /\ Missing > 0
    /\ \E n \in Reads :
          /\ wire' = From(wire, n + 1)
          /\ LET got == body \o SubSeq(wire, 1, n) IN
             IF headEnd + Len(got) > MaxMessage THEN Fail("RequestEntityTooLarge")
             ELSE body' = got /\ UNCHANGED <<stage, outcome, buf, searchFrom, headEnd>>
    /\ UNCHANGED client

\* The body is complete, or the stream ended in it, which is accepted.
RequestRead ==
    /\ stage = "body"
    /\ Missing <= 0 \/ (eof /\ wire = <<>>)
    /\ stage' = "reply"
    /\ body' = IF Missing < 0 THEN SubSeq(body, 1, ContentLength(Head1)) ELSE body
    /\ UNCHANGED <<wire, client, outcome, buf, searchFrom, headEnd>>

\* Mutant: buf survives the request.
ReplyKeepsBuffer ==
    /\ stage = "reply"
    /\ Answer(Ok(body))
    /\ stage' = IF AsksClose(Head1) THEN "closed" ELSE "head"
    /\ searchFrom' = Len(buf)
    /\ UNCHANGED <<wire, client, buf, headEnd, body>>

\* The router's response is written; connection: close ends the loop, and so
\* does a failed write.
Reply ==
    /\ stage = "reply"
    /\ Answer(Ok(body))
    /\ stage' \in IF AsksClose(Head1) THEN {"closed"} ELSE {"head", "closed"}
    /\ Reset
    /\ UNCHANGED <<wire, client>>

\* The stream ends outside a body.
EndOfStream ==
    /\ eof /\ wire = <<>>
    /\ \/ stage = "handshake" /\ Close /\ UNCHANGED outcome
       \/ stage = "head" /\ Fail("BadRequest")
    /\ UNCHANGED <<wire, client>>

\* A read fails; in the request loop that is answered before the end.
ReadError ==
    /\ \/ stage = "handshake" /\ Close /\ UNCHANGED outcome
       \/ stage \in {"head", "body"} /\ Fail("InternalServerError")
    /\ UNCHANGED <<wire, client>>

\* No whole request within 30 s; the handshake has no timeout.
Timeout ==
    /\ stage \in {"head", "body"}
    /\ Close
    /\ UNCHANGED <<wire, client, outcome>>

ServerStep ==
    \/ ReadHandshake \/ UpgradeToTls \/ ReadHead \/ ReadBody \/ RequestRead
    \/ Reply \/ EndOfStream \/ ReadError \/ Timeout

Next == (\E head \in Heads : SendRequest(head)) \/ HangUp \/ ServerStep

Spec == Init /\ [][Next]_vars

-----------------------------------------------------------------------------
\* The outcome of a request, from its bytes alone.  It is a choice for one case
\* only: a malformed start line in a message over the limit.
Deserved(s) ==
    LET end == HeadEnd(s)
        head == SubSeq(s, 1, end)
    IN
    IF end = 0 \/ end > MaxMessage
    THEN {Error(IF Len(s) > MaxMessage THEN "RequestEntityTooLarge" ELSE "BadRequest")}
    ELSE IF ~WellFormed(head)
    THEN {Error("BadRequest"), Error(IF Len(s) > MaxMessage THEN "RequestEntityTooLarge" ELSE "BadRequest")}
    ELSE IF ContentLength(head) > 0 /\ end + ContentLength(head) > MaxMessage
    THEN {Error("RequestEntityTooLarge")}
    ELSE {Ok(From(s, end + 1))}

\* Reading in chunks makes no difference: however the socket cuts the bytes,
\* each request gets the outcome a parse of its whole bytes gives, in order,
\* unless a read failed.  A body cut short by the end of the stream is accepted
\* as it is, and a stream that ends between requests is answered BadRequest.
ChunksDoNotMatter ==
    answer.code # "none" =>
        answer \in {Error("InternalServerError")} \cup
            (IF answers = requests THEN Deserved(sent) ELSE {Error("BadRequest")})

\* Keep-alive keeps the framing: when a request was answered nothing of it is
\* left, in buf or on the wire, to be taken for the start of the next one.
\* (For clients that wait for the answer: bytes sent ahead may be dropped.)
NothingLeftOver ==
    stage = "head" /\ requests = answers => buf = <<>> /\ body = <<>> /\ wire = <<>>
=============================================================================
