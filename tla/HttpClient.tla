----------------------------- MODULE HttpClient -----------------------------
(***************************************************************************)
(* HttpClient of rustic-core (http/http.rs): what a POST comes to, from    *)
(* what the network and the server did with it.  Operators only; the       *)
(* modules of the clients extend this one.                                 *)
(*                                                                         *)
(* A reply says whether the exchange succeeded (`sent`), its status, and   *)
(* whether its body arrived whole; the body is a sequence of lines: the    *)
(* answer, another JSON object ("other"), or something that is not data.   *)
(* A body that is no event stream has one line.  An outcome is [ok, value] *)
(* with the value of the body, or the variant of HttpError.                *)
(***************************************************************************)
EXTENDS Naturals, SequencesExt

Replies == {reply \in [sent   : {"yes", "timeout", "connect", "broken"},
                       status : Nat, events : BOOLEAN,
                       lines  : Seq({"answer", "other", "event"}), whole : BOOLEAN] :
              reply.events \/ Len(reply.lines) <= 1}

Ok(value)  == [ok |-> TRUE, value |-> value]
Err(error) == [ok |-> FALSE, value |-> error]

\* send().await: nothing was answered.
SendError(reply) == CASE reply.sent = "timeout" -> Err("Timeout")
                      [] reply.sent = "connect" -> Err("NetworkError")
                      [] OTHER                  -> Err("Other")

\* The errors whose body is read first, which may fail in turn.
WithBody(reply, error) == Err(IF reply.whole THEN error ELSE "NetworkError")

StatusError(reply) == CASE reply.status = 400          -> WithBody(reply, "InvalidRequest")
                        [] reply.status \in {401, 403} -> Err("AuthenticationFailed")
                        [] reply.status = 429          -> Err("RateLimited")
                        [] reply.status = 503          -> Err("ServiceUnavailable")
                        [] OTHER                       -> WithBody(reply, "Other")

IsData(line) == line # "event"

\* The first data line of an event stream, 0 without one; the others are dropped.
FirstData(lines) == SelectInSeq(lines, IsData)

\* What is to be decoded, and what comes of it.
Decoded(reply, answer) ==
  LET i == IF reply.events THEN FirstData(reply.lines) ELSE 1
  IN  IF i \in DOMAIN reply.lines /\ reply.lines[i] = "answer" THEN Ok(answer) ELSE Err("Other")

\* post_request_with_headers, and post_request, which drops the headers.
PostRequest(reply, answer) ==
  IF reply.sent # "yes" THEN SendError(reply)
  ELSE IF reply.status \notin 200..299 THEN StatusError(reply)
  ELSE IF ~ reply.whole THEN Err("NetworkError")
  ELSE Decoded(reply, answer)

\* post_notification: the body does not matter, and most errors are one.
PostNotification(reply) ==
  IF reply.sent # "yes" THEN SendError(reply)
  ELSE IF reply.status \in 200..299 THEN Ok("notified")
  ELSE IF reply.status = 400 THEN WithBody(reply, "InvalidRequest")
  ELSE WithBody(reply, "Other")
=============================================================================
