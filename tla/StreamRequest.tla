---------------------------- MODULE StreamRequest ----------------------------
(***************************************************************************)
(* arn::core::net: one request to a provider's server with its retries     *)
(* (execute_stream_with_retry around stream_post, and execute_with_retry   *)
(* around a plain GET), under a cancellation flag that another thread may  *)
(* raise at any moment.                                                    *)
(*                                                                         *)
(* The request fires the actions of RequestStep; a caller (ModelProvider)  *)
(* begins it and takes the result at step "done" or "threw".               *)
(***************************************************************************)
EXTENDS SseDecoder

CONSTANTS
    MaxAttempts,    \* max_attempts
    Bodies          \* 2xx bodies a server may send, as symbols of SseDecoder

ASSUME RequestAssumption ==
    /\ MaxAttempts \in Nat \ {0}
    /\ \A body \in Bodies : body \in Seq(Symbols)

VARIABLES
    mode,               \* "stream": stream_post, "get": Client::Get
    step,               \* where the request is
    attempt,            \* 0-based, as in the code
    response,           \* how the current attempt ended
    body,               \* what the server still has to send
    pending,            \* SseDecoder::pending_
    received_event,     \* the flag shared by all attempts
    events,             \* events handed to on_event, over all attempts
    cancelled,          \* *cancel_requested
    fed,                \* history: bytes pushed in the current attempt
    shown,              \* history: attempts that delivered an event
    late                \* history: attempts begun with the flag already up

requestVars == <<mode, step, attempt, response, body, pending, received_event, events,
                 fed, shown, late>>

\* "ok" is any 2xx, "busy" a retryable status, "quota" a 429 whose body has a
\* hard quota marker, "refused" any other status; the last two are a null
\* result, Error::Read apart from the rest.
Statuses == {"ok", "busy", "quota", "refused"}
Errors == {"read", "transport"}

RequestTypeOK ==
    /\ mode \in {"none", "stream", "get"}
    /\ step \in {"idle", "send", "receive", "judge", "backoff", "done", "threw"}
    /\ attempt \in 0..MaxAttempts - 1
    /\ response \in {"none"} \cup Statuses \cup Errors
    /\ body \in Seq(Symbols)
    /\ pending \in Seq(Symbols)
    /\ received_event \in BOOLEAN
    /\ events \in Seq(Seq(Symbols))
    /\ cancelled \in BOOLEAN
    /\ fed \in Seq(Symbols)
    /\ shown \subseteq 0..MaxAttempts - 1
    /\ late \in 0..2

RequestInit ==
    /\ mode = "none"
    /\ step = "idle"
    /\ attempt = 0
    /\ response = "none"
    /\ body = <<>>
    /\ pending = <<>>
    /\ received_event = FALSE
    /\ events = <<>>
    /\ cancelled = FALSE
    /\ fed = <<>>
    /\ shown = {}
    /\ late = 0

\* The caller's locals are fresh: no text, no calls, no event received.
BeginRequest(m) ==
    /\ mode' = m
    /\ step' = "send"
    /\ UNCHANGED <<attempt, response, body, pending, received_event, events, fed, shown, late>>

\* The caller's locals are gone.
EndRequest ==
    /\ mode' = "none"
    /\ step' = "idle"
    /\ attempt' = 0
    /\ response' = "none"
    /\ body' = <<>>
    /\ pending' = <<>>
    /\ received_event' = FALSE
    /\ events' = <<>>
    /\ fed' = <<>>
    /\ shown' = {}
    /\ late' = 0

-----------------------------------------------------------------------------
(* stream_post() and Client::Get(): one attempt *)

BeginAttempt == late' = IF cancelled /\ late < 2 THEN late + 1 ELSE late

\* on_progress, the first thing an attempt does, throws.
WaitingThrows ==
    /\ step = "send"
    /\ mode = "stream"
    /\ step' = "threw"
    /\ UNCHANGED <<mode, attempt, response, body, pending, received_event, events, fed,
                   shown, late, cancelled>>

\* The server sends its headers with a 2xx status; a new decoder waits for b.
Accepted(b) ==
    /\ step = "send"
    /\ mode = "stream"
    /\ BeginAttempt
    /\ body' = b
    /\ pending' = <<>>
    /\ fed' = <<>>
    /\ step' = "receive"
    /\ UNCHANGED <<mode, attempt, response, received_event, events, shown, cancelled>>

\* The attempt ends without a 2xx stream: an error status whose body, if the
\* flag let it through, is now in error_body, or no response at all.  A GET
\* may end in any way.
Answered(r) ==
    /\ step = "send"
    /\ mode = "stream" => r # "ok"
    /\ BeginAttempt
    /\ response' = r
    /\ step' = "judge"
    /\ UNCHANGED <<mode, attempt, body, pending, received_event, events, fed, shown, cancelled>>

\* on_event for each event of out.
Deliver(out) ==
    /\ events' = events \o out.events
    /\ pending' = out.pending
    /\ received_event' = (received_event \/ out.events # <<>>)
    /\ shown' = IF out.events = <<>> THEN shown ELSE shown \cup {attempt}

\* content_receiver gets the next n symbols.
Receive(n) ==
    /\ step = "receive"
    /\ ~cancelled
    /\ n \in 1..Len(body)
    /\ Deliver(Push(pending, SubSeq(body, 1, n)))
    /\ fed' = fed \o SubSeq(body, 1, n)
    /\ body' = SubSeq(body, n + 1, Len(body))
    /\ UNCHANGED <<mode, step, attempt, response, late, cancelled>>

\* The connection breaks, the idle timeout passes, cancel_active_request() stops
\* the client, or content_receiver or progress refuses to go on: a null result,
\* and no finish().
Interrupted(r) ==
    /\ step = "receive"
    /\ r \in Errors
    /\ response' = r
    /\ step' = "judge"
    /\ UNCHANGED <<mode, attempt, body, pending, received_event, events, fed, shown, late, cancelled>>

\* The body ends and the decoder is flushed.
Complete ==
    /\ step = "receive"
    /\ body = <<>>
    /\ Deliver(Finish(pending))
    /\ response' = "ok"
    /\ step' = "judge"
    /\ UNCHANGED <<mode, attempt, body, fed, late, cancelled>>

-----------------------------------------------------------------------------
(* The retry loops *)

should_retry(r) == r \in {"busy"} \cup Errors

NextAttemptForgets(a) == a
NextAttempt(a) == a + 1

GivesUpLate == attempt >= MaxAttempts
GivesUp == attempt + 1 >= MaxAttempts

\* Why the loop returns the response it has instead of waiting for another.
ReturnsDespiteEvents ==
    \/ cancelled
    \/ ~should_retry(response)
    \/ GivesUp
    \/ mode = "stream" /\ response = "read"
ReturnsDespiteFlag ==
    \/ ~should_retry(response)
    \/ GivesUp
    \/ mode = "stream" /\ (received_event \/ response = "read")
Returns ==
    \/ cancelled
    \/ ~should_retry(response)
    \/ GivesUp
    \/ mode = "stream" /\ (received_event \/ response = "read")

JudgeReturns ==
    /\ step = "judge"
    /\ Returns
    /\ step' = "done"
    /\ UNCHANGED <<mode, attempt, response, body, pending, received_event, events, fed,
                   shown, late, cancelled>>

JudgeRetries ==
    /\ step = "judge"
    /\ ~Returns
    /\ step' = "backoff"
    /\ UNCHANGED <<mode, attempt, response, body, pending, received_event, events, fed,
                   shown, late, cancelled>>

\* on_progress, called for an exhausted quota and before a wait, throws.
NoticeThrows ==
    /\ step = "judge"
    /\ mode = "stream"
    /\ Returns => response = "quota"
    /\ step' = "threw"
    /\ UNCHANGED <<mode, attempt, response, body, pending, received_event, events, fed,
                   shown, late, cancelled>>

\* A slice of the wait finds the flag up.
WaitCancelled ==
    /\ step = "backoff"
    /\ cancelled
    /\ step' = "done"
    /\ UNCHANGED <<mode, attempt, response, body, pending, received_event, events, fed,
                   shown, late, cancelled>>

\* The deadline passes.  The flag may have gone up after the last slice, and a
\* Retry-After of zero seconds has no slice at all.
WaitOver ==
    /\ step = "backoff"
    /\ attempt' = NextAttempt(attempt)
    /\ step' = "send"
    /\ UNCHANGED <<mode, response, body, pending, received_event, events, fed, shown, late,
                   cancelled>>

RequestStep ==
    \/ WaitingThrows
    \/ \E b \in Bodies : Accepted(b)
    \/ \E r \in Statuses \cup Errors : Answered(r)
    \/ \E n \in 1..Len(body) : Receive(n)
    \/ \E r \in Errors : Interrupted(r)
    \/ Complete
    \/ JudgeReturns
    \/ JudgeRetries
    \/ NoticeThrows
    \/ WaitCancelled
    \/ WaitOver

-----------------------------------------------------------------------------
(* Properties of a request *)

\* A request never shows two answers: at most one of its attempts delivers
\* events, however the attempts before and after it end ("never replay a
\* partially printed answer", execute_stream_with_retry).
OneAnswerShown == \A a, b \in shown : a = b

\* A stream was received to its end, and nobody has looked at the result yet.
Completed == response = "ok" /\ mode = "stream" /\ step = "judge"

\* What was parsed is what the bytes of the answering attempt say, read line
\* by line, wherever the network cut them into chunks.  When the body is
\* complete, a tail that begins with its data line counts as one more event, and
\* any other tail is handed over as it stands, which LastEventRead is about
\* (SseDecoder::push, finish, and the accumulators that outlive an attempt).
ChunkingIrrelevant ==
    IF Completed
    THEN events = IF TailIsData(fed) THEN Dispatched(Closed(fed))
                  ELSE Append(Dispatched(fed), TailOf(fed))
    ELSE step \in {"send", "receive", "judge", "backoff"} => events = Dispatched(fed)

\* If only the last blank line is missing for one more event, finish() delivers
\* that event ("processes any final event", docs/streaming-and-cancellation.md).
LastEventRead ==
    Completed /\ Dispatched(Closed(fed)) # Dispatched(fed) => events = Dispatched(Closed(fed))

\* Once the flag is up at most one more attempt goes out: the one whose wait
\* or check had just passed (the checks of the two retry loops).
CancelStopsAttempts == late <= 1
=============================================================================
