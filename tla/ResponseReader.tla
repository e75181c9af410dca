--------------------------- MODULE ResponseReader ---------------------------
(***************************************************************************)
(* How clients read a response: read_response (gurtd/src/indexing/fetch.rs),*)
(* which the crawl uses, and read_response_like (crawler/client.rs).  A    *)
(* stream is what their reads return: the chunks the socket delivers, the  *)
(* ones among them that come only after the idle timeout, and how it ends: *)
(* closed ("eof"), with a read error ("error"), or never ("silence").      *)
(***************************************************************************)
EXTENDS Framing, FiniteSetsExt

CONSTANT MaxMessage  \* MAX_MESSAGE_BYTES

ASSUME ResponseAssumption == MaxMessage \in Nat

Ok(body) == [ok |-> TRUE, body |-> body]
Err == [ok |-> FALSE, body |-> <<>>]

\* What the first n reads have returned.
Read(chunks, n) ==
    LET got[k \in 0..n] == IF k = 0 THEN <<>> ELSE got[k - 1] \o chunks[k] IN got[n]
Sent(stream) == Read(stream.chunks, Len(stream.chunks))

\* The read after which the loop for the head ends, 0 if it never does.
HeadRead(chunks) ==
    LET ends == {n \in DOMAIN chunks :
                    Len(Read(chunks, n)) > MaxMessage \/ HeadEnd(Read(chunks, n)) # 0}
    IN  IF ends = {} THEN 0 ELSE Min(ends)

\* Mutant: the loop reads on when it has what was announced.
EnoughAndMore(size, len) == size > len

Enough(size, len) == size >= len

\* The loop for a body of len bytes behind a head of end bytes, which came with
\* the first n reads.  A body that ends early is accepted.
ReadLength(stream, n, end, len) ==
    LET Size(m) == Len(Read(stream.chunks, m))
        ends == {m \in n..Len(stream.chunks) : Enough(Size(m) - end, len) \/ Size(m) > MaxMessage}
    IN  IF end + len > MaxMessage THEN Err
        ELSE IF ends = {}
        THEN IF stream.ending = "eof" THEN Ok(From(Sent(stream), end + 1)) ELSE Err
        ELSE IF Size(Min(ends)) > MaxMessage THEN Err
        ELSE Ok(SubSeq(Sent(stream), end + 1, end + len))

\* The last read before the stream falls idle.
LastRead(stream, n) ==
    LET late == {m \in DOMAIN stream.chunks : m > n /\ m \in stream.late} IN
    IF late = {} THEN Len(stream.chunks) ELSE Min(late) - 1

\* The loop for a body of unknown length: an error, the end and silence end it
\* alike.
ReadUntilIdle(stream, n, end) ==
    LET got == Read(stream.chunks, LastRead(stream, n)) IN
    IF Len(got) > MaxMessage THEN Err ELSE Ok(From(got, end + 1))

\* The head among the first n reads, and whether it is accepted.
ResponseHead(chunks, n) == SubSeq(Read(chunks, n), 1, HeadEnd(Read(chunks, n)))
HeadAccepted(chunks, n) ==
    n # 0 /\ Len(Read(chunks, n)) <= MaxMessage /\ WellFormed(ResponseHead(chunks, n))

\* Silence ends a read by the timeout of the fetch.
ReadResponse(stream) ==
    LET n == HeadRead(stream.chunks)
        head == ResponseHead(stream.chunks, n)
    IN  IF ~HeadAccepted(stream.chunks, n) THEN Err
        ELSE IF Announces(head) THEN ReadLength(stream, n, Len(head), ContentLength(head))
        ELSE ReadUntilIdle(stream, n, Len(head))

\* The crawler's client reads no body that is not announced.  It has no timeout,
\* so this is not defined on a stream that falls silent.
ReadResponseLike(stream) ==
    LET n == HeadRead(stream.chunks)
        head == ResponseHead(stream.chunks, n)
    IN  IF ~HeadAccepted(stream.chunks, n) THEN Err
        ELSE IF ContentLength(head) = 0 THEN Ok(<<>>)
        ELSE ReadLength(stream, n, Len(head), ContentLength(head))

-----------------------------------------------------------------------------
\* What a response should be read as, from all bytes that were sent.
Whole(stream) ==
    LET all == Sent(stream)
        end == HeadEnd(all)
        head == SubSeq(all, 1, end)
        rest == From(all, end + 1)
    IN  IF end = 0 \/ ~WellFormed(head) THEN Err
        ELSE IF ~Announces(head) THEN IF Len(all) > MaxMessage THEN Err ELSE Ok(rest)
        ELSE IF end + ContentLength(head) > MaxMessage THEN Err
        ELSE IF Len(rest) >= ContentLength(head) THEN Ok(SubSeq(rest, 1, ContentLength(head)))
        ELSE IF stream.ending = "eof" THEN Ok(rest)
        ELSE Err

IsPrefixOf(s, t) == Len(s) <= Len(t) /\ s = SubSeq(t, 1, Len(s))
=============================================================================
