--------------------------- MODULE CrawlerClient ---------------------------
(***************************************************************************)
(* The crawler's client (gurtd/src/crawler/client.rs): fetch_once goes     *)
(* through the steps of one request, fetch_with_retries repeats it.  What  *)
(* the network and the server do is an attempt's script: the outcome of    *)
(* each step, should the client come to it.                                *)
(*                                                                         *)
(* Connecting and writing are under a timeout of their own, reading is     *)
(* not.  Both flushes are left out: their results are not looked at.       *)
(***************************************************************************)
EXTENDS Sequences, FiniteSetsExt

Steps == <<"connect", "hello", "handshake", "request", "answer">>

\* What can happen at each step; "stuck" is a step that does not end.
ReadErrors == {"Io", "Connection", "InvalidMessage"}
Outcomes(step) ==
    CASE step = "connect" -> {"ok", "Connection", "InvalidMessage", "stuck"}
      [] step \in {"hello", "request"} -> {"ok", "error", "stuck"}
      [] step = "handshake" -> {"ok", "other code", "stuck"} \cup ReadErrors
      [] step = "answer" -> {"ok", "stuck"} \cup ReadErrors

Never == "never returns"

\* What a step's outcome makes of the attempt, "ok" if it goes on.  Writes that
\* fail are dropped like those that succeed: let _ takes them before the ?.
StepResult(step, outcome) ==
    CASE outcome = "stuck" -> IF step \in {"handshake", "answer"} THEN Never ELSE "Timeout"
      [] outcome = "error" -> "ok"
      [] outcome = "other code" -> "InvalidMessage"
      [] OTHER -> outcome

\* fetch_once: the first step that does not go on decides.
FetchOnce(script) ==
    LET result(n) == StepResult(Steps[n], script[Steps[n]])
        ended == {n \in DOMAIN Steps : result(n) # "ok"}
    IN  IF ended = {} THEN "ok" ELSE result(Min(ended))

\* Mutant: a malformed answer is asked for again.
RetriedEvenInvalid == {"Connection", "Timeout", "Io", "InvalidMessage"}

Retried == {"Connection", "Timeout", "Io"}

\* fetch_with_retries: what it returns and the attempts it made.
FetchWithRetries(scripts, retries) ==
    LET from[n \in 1..retries + 1] ==
            LET result == FetchOnce(scripts[n]) IN
            IF result \in Retried /\ n <= retries THEN from[n + 1]
            ELSE [result |-> result, made |-> n]
    IN  from[1]
=============================================================================
