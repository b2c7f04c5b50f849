------------------------- MODULE ModelProviderProofs -------------------------
(***************************************************************************)
(* What TLAPS proves of ModelProvider and of the request under each of its *)
(* turns, for any bodies a server may send, any cut of them into chunks,   *)
(* any number of attempts, prompts and rounds, and any documents.          *)
(***************************************************************************)
EXTENDS ModelProvider, SseDecoderProofs, FiniteSetTheorems

\* A request is under way exactly in a turn or a listing.
RequestInPhase ==
    /\ phase \in {"request", "listing"} <=> step # "idle"
    /\ phase = "request" => mode = "stream"
    /\ step = "receive" => mode = "stream"
    /\ step \in {"idle", "send", "receive", "judge", "backoff", "done", "threw"}

\* Only the attempt in progress, the last one, may have shown something.
ShownByLast ==
    /\ received_event \in BOOLEAN
    /\ shown \subseteq {attempt}
    /\ received_event = FALSE \/ mode # "stream" => shown = {}
    /\ step \in {"idle", "send", "backoff"} => shown = {}

\* An attempt begun with the flag up is followed by no other.
LateIsLast ==
    /\ cancelled \in BOOLEAN
    /\ late \in {0, 1}
    /\ late = 1 => cancelled = TRUE
    /\ step \in {"idle", "send", "backoff"} => late = 0

\* A stream counts as answered once it was received to the end.
AnsweredIsWhole ==
    mode = "stream" /\ step \in {"judge", "backoff", "done"} /\ response = "ok" => body = <<>>

RequestInv == RequestInPhase /\ ShownByLast /\ LateIsLast /\ AnsweredIsWhole

\* Every step of a request keeps its attempts apart.
LEMMA StepOfRequest == RequestInv /\ RequestStep /\ UNCHANGED providerVars => RequestInv'
<1> SUFFICES ASSUME RequestInv, RequestStep, UNCHANGED providerVars PROVE RequestInv'
  OBVIOUS
<1> USE DEF RequestInv, RequestInPhase, ShownByLast, LateIsLast, AnsweredIsWhole, providerVars
<1>1. CASE WaitingThrows
  BY <1>1 DEF WaitingThrows
<1>2. ASSUME NEW b \in Bodies, Accepted(b) PROVE RequestInv'
  BY <1>2 DEF Accepted, BeginAttempt
<1>3. ASSUME NEW r \in Statuses \cup Errors, Answered(r) PROVE RequestInv'
  BY <1>3 DEF Answered, BeginAttempt
<1>4. ASSUME NEW n \in 1..Len(body), Receive(n) PROVE RequestInv'
  BY <1>4 DEF Receive, Deliver
<1>5. ASSUME NEW r \in Errors, Interrupted(r) PROVE RequestInv'
  BY <1>5 DEF Interrupted, Errors
<1>6. CASE Complete
  BY <1>6 DEF Complete, Deliver
<1>7. CASE JudgeReturns \/ NoticeThrows
  BY <1>7 DEF JudgeReturns, NoticeThrows
<1>8. CASE JudgeRetries
  BY <1>8 DEF JudgeRetries, Returns
<1>9. CASE WaitCancelled \/ WaitOver
  BY <1>9 DEF WaitCancelled, WaitOver
<1> QED
  BY <1>1, <1>2, <1>3, <1>4, <1>5, <1>6, <1>7, <1>8, <1>9 DEF RequestStep

\* So does every step of the provider around it.
LEMMA StepOfProvider == RequestInv /\ [Next]_vars => RequestInv'
<1> SUFFICES ASSUME RequestInv, [Next]_vars PROVE RequestInv'
  OBVIOUS
<1>1. CASE Request
  BY <1>1, StepOfRequest DEF Request
<1> USE DEF RequestInv, RequestInPhase, ShownByLast, LateIsLast, AnsweredIsWhole, requestVars,
        providerVars, catalogueVars
<1>2. CASE Prompt
  <2>1. RequestInPhase'
    BY <1>2 DEF Prompt, PromptWith
  <2>2. ShownByLast'
    BY <1>2 DEF Prompt, PromptWith
  <2>3. late' = 0 /\ late' # 1
    BY <1>2 DEF Prompt, PromptWith
  <2>4. LateIsLast'
    BY <1>2, <2>3, Zenon DEF Prompt, PromptWith
  <2>5. AnsweredIsWhole'
    BY <1>2 DEF Prompt, PromptWith
  <2> QED
    BY <2>1, <2>2, <2>4, <2>5
<1>8. CASE ListModels
  BY <1>8 DEF ListModels, BeginRequest
<1>9. CASE ListRefused \/ ResetSession
  BY <1>9 DEF ListRefused, ResetSession
<1>3. CASE Cancel
  BY <1>3 DEF Cancel
<1>4. CASE StartTurn \/ ContinueTurn \/ RefuseTurn \/ AbandonTurn \/ ToolsThrow \/ EnterCancelled
  BY <1>4 DEF StartTurn, ContinueTurn, RefuseTurn, AbandonTurn, ToolsThrow, EnterCancelled
<1>5. CASE EnterRequest
  BY <1>5 DEF EnterRequest, BeginRequest
<1>6. CASE TurnFails \/ TurnAnswered \/ TurnThrows \/ \E document \in Documents : Listed(document)
  BY <1>6 DEF TurnFails, TurnAnswered, TurnThrows, Listed, EndRequest
<1>7. CASE UNCHANGED vars
  BY <1>7 DEF vars
<1> QED
  BY <1>1, <1>2, <1>3, <1>4, <1>5, <1>6, <1>7, <1>8, <1>9 DEF Next, TurnStep

\* The retry loops keep the attempts of a request apart: only the last one may
\* have delivered events, and only one was begun after the cancellation.
THEOREM AttemptsApart == Spec => []RequestInv
<1>1. Init => RequestInv
  <2> USE DEF Init, RequestInit, RequestInv, RequestInPhase, ShownByLast, LateIsLast, AnsweredIsWhole
  <2> SUFFICES ASSUME Init PROVE RequestInv
    OBVIOUS
  <2>1. RequestInPhase
    OBVIOUS
  <2>2. ShownByLast
    OBVIOUS
  <2>3. late # 1
    BY SMT
  <2>4. LateIsLast
    BY <2>3, Zenon
  <2>5. AnsweredIsWhole
    OBVIOUS
  <2> QED
    BY <2>1, <2>2, <2>4, <2>5
<1> QED
  BY <1>1, StepOfProvider, PTL DEF Spec

\* execute_stream_with_retry never replays a partially printed answer.
THEOREM NeverReplayed == Spec => []OneAnswerShown
<1>1. RequestInv => OneAnswerShown
  BY DEF RequestInv, ShownByLast, OneAnswerShown
<1> QED
  BY <1>1, AttemptsApart, PTL

\* The retry loops look at the flag after every attempt and while they wait.
THEOREM CancelStops == Spec => []CancelStopsAttempts
<1>1. RequestInv => CancelStopsAttempts
  BY DEF RequestInv, LateIsLast, CancelStopsAttempts
<1> QED
  BY <1>1, AttemptsApart, PTL

\* execute_turn_request() records an answer only when the attempt that showed it
\* received its stream to the end.
THEOREM RecordedWhole == Spec => RecordedAnswerIsWhole
<1>1. RequestInv /\ [Next]_vars =>
          [phase = "request" /\ messages' # messages => body = <<>> /\ shown \subseteq {attempt}]_vars
  <2> SUFFICES ASSUME RequestInv, Next, phase = "request", messages' # messages
               PROVE  body = <<>> /\ shown \subseteq {attempt}
    OBVIOUS
  <2>1. TurnAnswered
    BY DEF Next, TurnStep, Request, providerVars, Prompt, PromptWith, ListModels, ListRefused, ResetSession, Cancel,
        StartTurn, ContinueTurn, RefuseTurn, AbandonTurn, ToolsThrow, EnterRequest, EnterCancelled,
        TurnFails, TurnThrows, Listed
  <2> QED
    BY <2>1 DEF TurnAnswered, NotAnswered, RequestInv, RequestInPhase, ShownByLast, AnsweredIsWhole
<1> QED
  BY <1>1, AttemptsApart, PTL DEF Spec, RecordedAnswerIsWhole

-----------------------------------------------------------------------------
(* What the decoder delivers *)

\* The events of an attempt are those of the bytes it was fed, and what is left
\* is pending; an attempt that is not answered yet starts from nothing.
StreamTyped ==
    /\ body \in Seq(Symbols) /\ fed \in Seq(Symbols) /\ pending \in Seq(Symbols)
    /\ events \in Seq(Seq(Symbols))

FedIsShown ==
    /\ received_event = FALSE => events = <<>>
    /\ mode # "stream" => events = <<>>
    /\ step \in {"idle", "send", "backoff"} => events = <<>> /\ Dispatched(fed) = <<>>
    /\ step = "receive" => /\ events = Extract[StripCr[fed]].events
                           /\ pending = Extract[StripCr[fed]].pending
    /\ step = "judge" => ChunkingIrrelevant

StreamInv == StreamTyped /\ FedIsShown

\* A chunk leaves events and a pending_ that the next one can join ...
LEMMA PushTyped ==
  ASSUME NEW p \in Seq(Symbols), NEW bytes \in Seq(Symbols)
  PROVE  Push(p, bytes).events \in Seq(Seq(Symbols)) /\ Push(p, bytes).pending \in Seq(Symbols)
<1>1. StripCr[bytes] \in Seq(Symbols)
  BY StripCrClean, Alphabets
<1>2. p \o StripCr[bytes] \in Seq(Symbols)
  BY <1>1
<1> QED
  BY <1>2, ExtractIs DEF Push, Extracted

\* ... and so does the end of the stream.
LEMMA FinishTyped ==
  ASSUME NEW p \in Seq(Symbols)
  PROVE  Finish(p).events \in Seq(Seq(Symbols)) /\ Finish(p).pending \in Seq(Symbols)
<1>1. <<"nl", "nl">> \in Seq(Symbols) /\ <<>> \in Seq(Symbols)
  BY Alphabets
<1>2. <<p>> \in Seq(Seq(Symbols)) /\ <<>> \in Seq(Seq(Symbols))
  OBVIOUS
<1> QED
  BY <1>1, <1>2, PushTyped DEF Finish

\* Before the first chunk there is nothing to dispatch.
LEMMA NothingFed == Dispatched(<<>>) = <<>> /\ Extract[StripCr[<<>>]] = [events |-> <<>>, pending |-> <<>>]
<1>1. <<>> \in Seq(Symbols) /\ BlankLines(<<>>) = {}
  BY DEF BlankLines
<1>2. Extract[StripCr[<<>>]] = [events |-> <<>>, pending |-> <<>>]
  BY <1>1, StripCrIs, ExtractIs
<1>3. Dispatched(<<>>) = <<>>
  BY ReadIs DEF Dispatched, Fresh
<1> QED
  BY <1>2, <1>3

\* A chunk adds the events that its bytes complete.
LEMMA ReceiveKeepsStream ==
  ASSUME RequestInv, StreamInv, NEW n \in 1..Len(body), Receive(n)
  PROVE  StreamInv'
<1> DEFINE chunk == SubSeq(body, 1, n)
           out == Push(pending, chunk)
<1>1. /\ step = "receive" /\ step' = step /\ mode' = mode
      /\ events' = events \o out.events /\ pending' = out.pending
      /\ received_event' = (received_event \/ out.events # <<>>)
      /\ fed' = fed \o chunk /\ body' = SubSeq(body, n + 1, Len(body))
  BY DEF Receive, Deliver
<1>2. /\ body \in Seq(Symbols) /\ fed \in Seq(Symbols) /\ pending \in Seq(Symbols)
      /\ events \in Seq(Seq(Symbols)) /\ mode = "stream" /\ received_event \in BOOLEAN
      /\ events = Extract[StripCr[fed]].events /\ pending = Extract[StripCr[fed]].pending
  BY <1>1 DEF StreamInv, StreamTyped, FedIsShown, RequestInv, RequestInPhase, ShownByLast
<1>3. chunk \in Seq(Symbols) /\ SubSeq(body, n + 1, Len(body)) \in Seq(Symbols)
  <2>1. n \in Int /\ n + 1 \in Int /\ Len(body) \in Int /\ 1 \in Int
    BY <1>2
  <2>2. \A i \in 1..n : body[i] \in Symbols
    BY <1>2
  <2>3. \A i \in n + 1..Len(body) : body[i] \in Symbols
    BY <1>2
  <2> QED
    BY <2>1, <2>2, <2>3, SubSeqProperties
<1> HIDE DEF chunk
<1>4. out.events \in Seq(Seq(Symbols)) /\ out.pending \in Seq(Symbols)
  BY <1>2, <1>3, PushTyped
<1>5. /\ Extract[StripCr[fed \o chunk]].events = events \o out.events
      /\ Extract[StripCr[fed \o chunk]].pending = out.pending
  BY <1>2, <1>3, ChunksDoNotMatter
<1> HIDE DEF out
<1>6. fed \o chunk \in Seq(Symbols) /\ events \o out.events \in Seq(Seq(Symbols))
  BY <1>2, <1>3, <1>4
<1>7. StreamTyped'
  BY <1>1, <1>3, <1>4, <1>6 DEF StreamTyped
<1>8. received_event' = FALSE => events' = <<>>
  <2>1. <<>> \o <<>> = <<>>
    OBVIOUS
  <2> QED
    BY <1>1, <1>2, <2>1 DEF StreamInv, FedIsShown
<1>9. FedIsShown'
  BY <1>1, <1>2, <1>5, <1>8 DEF FedIsShown
<1> QED
  BY <1>7, <1>9 DEF StreamInv

\* The end of the stream adds the tail.
LEMMA CompleteKeepsStream ==
  ASSUME RequestInv, StreamInv, Complete
  PROVE  StreamInv'
<1> DEFINE out == Finish(pending)
<1>1. /\ step = "receive" /\ step' = "judge" /\ mode' = mode /\ response' = "ok"
      /\ events' = events \o out.events /\ pending' = out.pending
      /\ received_event' = (received_event \/ out.events # <<>>)
      /\ fed' = fed /\ body' = body
  BY DEF Complete, Deliver
<1>2. /\ body \in Seq(Symbols) /\ fed \in Seq(Symbols) /\ pending \in Seq(Symbols)
      /\ events \in Seq(Seq(Symbols)) /\ mode = "stream" /\ received_event \in BOOLEAN
      /\ events = Extract[StripCr[fed]].events /\ pending = Extract[StripCr[fed]].pending
  BY <1>1 DEF StreamInv, StreamTyped, FedIsShown, RequestInv, RequestInPhase, ShownByLast
<1>3. out.events \in Seq(Seq(Symbols)) /\ out.pending \in Seq(Symbols)
  BY <1>2, FinishTyped
<1>4. events \o out.events = IF TailIsData(fed) THEN Dispatched(Closed(fed))
                             ELSE Append(Dispatched(fed), TailOf(fed))
  BY <1>2, FinishReadsTail
<1> HIDE DEF out
<1>6. events \o out.events \in Seq(Seq(Symbols))
  BY <1>2, <1>3
<1>7. StreamTyped'
  BY <1>1, <1>2, <1>3, <1>6 DEF StreamTyped
<1>8. received_event' = FALSE => events' = <<>>
  <2>1. <<>> \o <<>> = <<>>
    OBVIOUS
  <2> QED
    BY <1>1, <1>2, <2>1 DEF StreamInv, FedIsShown
<1>9. ChunkingIrrelevant'
  BY <1>1, <1>2, <1>4 DEF ChunkingIrrelevant, Completed, Dispatched, Closed, TailIsData, TailOf
<1>10. FedIsShown'
  BY <1>1, <1>2, <1>8, <1>9 DEF FedIsShown
<1> QED
  BY <1>7, <1>10 DEF StreamInv

\* No step of a request loses, repeats or reorders what its stream says.
LEMMA RequestKeepsStream ==
  ASSUME RequestInv, StreamInv, RequestStep
  PROVE  StreamInv'
<1>0. StreamTyped /\ FedIsShown /\ received_event \in BOOLEAN
  BY DEF StreamInv, RequestInv, ShownByLast
<1>1. CASE WaitingThrows
  BY <1>0, <1>1 DEF WaitingThrows, StreamInv, StreamTyped, FedIsShown
<1>2. ASSUME NEW b \in Bodies, Accepted(b) PROVE StreamInv'
  <2>1. /\ b \in Seq(Symbols) /\ <<>> \in Seq(Symbols)
    BY RequestAssumption DEF RequestAssumption
  <2>2. StreamTyped'
    BY <1>0, <1>2, <2>1 DEF Accepted, StreamTyped
  <2>3. /\ events' = <<>> /\ fed' = <<>> /\ pending' = <<>> /\ step' = "receive"
        /\ received_event' = received_event /\ mode' = mode
    BY <1>0, <1>2 DEF Accepted, FedIsShown
  <2>4. FedIsShown'
    BY <2>3, NothingFed DEF FedIsShown
  <2> QED
    BY <2>2, <2>4 DEF StreamInv
<1>3. ASSUME NEW r \in Statuses \cup Errors, Answered(r) PROVE StreamInv'
  BY <1>0, <1>3 DEF Answered, StreamInv, StreamTyped, FedIsShown, ChunkingIrrelevant, Completed
<1>4. ASSUME NEW n \in 1..Len(body), Receive(n) PROVE StreamInv'
  BY <1>4, ReceiveKeepsStream
<1>5. ASSUME NEW r \in Errors, Interrupted(r) PROVE StreamInv'
  <2>1. step = "receive" /\ r # "ok" /\ response' = r /\ step' = "judge"
        /\ UNCHANGED <<mode, body, pending, received_event, events, fed>>
    BY <1>5 DEF Interrupted, Errors
  <2>2. events = Dispatched(fed)
    BY <1>0, <2>1, PushReadsLines DEF StreamTyped, FedIsShown
  <2>3. ChunkingIrrelevant'
    BY <2>1, <2>2 DEF ChunkingIrrelevant, Completed, Dispatched
  <2> QED
    BY <1>0, <2>1, <2>3 DEF StreamInv, StreamTyped, FedIsShown
<1>6. CASE Complete
  BY <1>6, CompleteKeepsStream
<1>7. CASE JudgeReturns \/ NoticeThrows \/ WaitCancelled
  BY <1>0, <1>7 DEF JudgeReturns, NoticeThrows, WaitCancelled, StreamInv, StreamTyped, FedIsShown
<1>8. CASE JudgeRetries
  <2>1. /\ step = "judge" /\ step' = "backoff" /\ ~Returns
        /\ UNCHANGED <<mode, response, body, pending, received_event, events, fed>>
    BY <1>8 DEF JudgeRetries
  <2>2. response # "ok" /\ (mode = "stream" => received_event = FALSE)
    BY <1>0, <2>1 DEF Returns, should_retry, Errors
  <2>3. events = <<>>
    BY <1>0, <2>2 DEF FedIsShown
  <2>4. Dispatched(fed) = <<>>
    BY <1>0, <2>1, <2>2, <2>3 DEF FedIsShown, ChunkingIrrelevant, Completed
  <2> QED
    BY <1>0, <2>1, <2>3, <2>4 DEF StreamInv, StreamTyped, FedIsShown
<1>9. CASE WaitOver
  BY <1>0, <1>9 DEF WaitOver, StreamInv, StreamTyped, FedIsShown
<1> QED
  BY <1>1, <1>2, <1>3, <1>4, <1>5, <1>6, <1>7, <1>8, <1>9 DEF RequestStep

\* Nothing but the chunks of the attempt under way changes what was decoded.
LEMMA StepOfStream == RequestInv /\ StreamInv /\ [Next]_vars => StreamInv'
<1> SUFFICES ASSUME RequestInv, StreamInv, [Next]_vars PROVE StreamInv'
  OBVIOUS
<1>0. StreamTyped /\ FedIsShown
  BY DEF StreamInv
<1>1. CASE Request
  BY <1>1, RequestKeepsStream DEF Request
<1>2. CASE TurnFails \/ TurnAnswered \/ TurnThrows \/ \E document \in Documents : Listed(document)
  <2>1. /\ step' = "idle" /\ mode' = "none" /\ events' = <<>> /\ fed' = <<>> /\ body' = <<>>
        /\ pending' = <<>>
    BY <1>2 DEF TurnFails, TurnAnswered, TurnThrows, Listed, EndRequest
  <2>2. <<>> \in Seq(Symbols) /\ <<>> \in Seq(Seq(Symbols))
    OBVIOUS
  <2>3. FedIsShown'
    BY <2>1, NothingFed DEF FedIsShown
  <2> QED
    BY <2>1, <2>2, <2>3 DEF StreamInv, StreamTyped
<1>3. CASE EnterRequest \/ ListModels
  <2>1. step = "idle"
    BY <1>3 DEF EnterRequest, ListModels, RequestInv, RequestInPhase
  <2>2. /\ step' = "send" /\ UNCHANGED <<body, pending, received_event, events, fed>>
    BY <1>3 DEF EnterRequest, ListModels, BeginRequest
  <2> QED
    BY <1>0, <2>1, <2>2 DEF StreamInv, StreamTyped, FedIsShown
<1>4. ASSUME UNCHANGED requestVars PROVE StreamInv'
  BY <1>0, <1>4 DEF requestVars, StreamInv, StreamTyped, FedIsShown, ChunkingIrrelevant, Completed
<1>5. CASE Prompt \/ ListRefused \/ ResetSession \/ Cancel \/ StartTurn \/ ContinueTurn \/ RefuseTurn
           \/ AbandonTurn \/ ToolsThrow \/ EnterCancelled \/ UNCHANGED vars
  BY <1>4, <1>5 DEF Prompt, PromptWith, ListRefused, ResetSession, Cancel, StartTurn, ContinueTurn, RefuseTurn,
      AbandonTurn, ToolsThrow, EnterCancelled, vars
<1> QED
  BY <1>1, <1>2, <1>3, <1>5 DEF Next, TurnStep

\* In every state the decoder of the attempt under way holds what the bytes it
\* was fed say, in the types the parsers need (stream_post and its on_chunk).
THEOREM StreamKept == Spec => []StreamInv
<1>1. Init => StreamInv
  <2> SUFFICES ASSUME Init PROVE StreamInv
    OBVIOUS
  <2>1. <<>> \in Seq(Symbols) /\ <<>> \in Seq(Seq(Symbols))
    OBVIOUS
  <2> QED
    BY <2>1, NothingFed DEF Init, RequestInit, StreamInv, StreamTyped, FedIsShown
<1>2. RequestInv /\ StreamInv /\ [Next]_vars => StreamInv'
  BY StepOfStream
<1> QED
  BY <1>1, <1>2, AttemptsApart, PTL DEF Spec

\* Whatever the network does to the stream of an attempt, and however many
\* attempts there were, the provider parses what the lines of the bytes it
\* received say; of a stream without its last blank line it parses the last event
\* too if that begins with its data line, and else the bare tail (SseDecoder::push
\* and finish under stream_post).
THEOREM ChunksDoNotShow == Spec => []ChunkingIrrelevant
<1>1. StreamInv => ChunkingIrrelevant
  <2> SUFFICES ASSUME StreamInv, step # "judge" PROVE ChunkingIrrelevant
    BY DEF StreamInv, FedIsShown
  <2>1. step = "receive" => events = Dispatched(fed)
    BY PushReadsLines DEF StreamInv, StreamTyped, FedIsShown
  <2> QED
    BY <2>1 DEF StreamInv, FedIsShown, ChunkingIrrelevant, Completed
<1> QED
  BY <1>1, StreamKept, PTL

\* A body is fed from its first symbol to its last.
FedOfBody ==
    /\ step = "receive" => fed \o body \in Bodies
    /\ Completed => fed \in Bodies

\* A chunk moves symbols from the front of what is to come.
LEMMA ReceiveKeepsBody ==
  ASSUME StreamInv, FedOfBody, NEW n \in 1..Len(body), Receive(n)
  PROVE  FedOfBody'
<1> DEFINE chunk == SubSeq(body, 1, n)
           more == SubSeq(body, n + 1, Len(body))
<1>1. /\ step = "receive" /\ step' = "receive"
      /\ fed' = fed \o chunk /\ body' = more
  BY DEF Receive
<1>2. body \in Seq(Symbols) /\ fed \in Seq(Symbols) /\ fed \o body \in Bodies
  BY <1>1 DEF StreamInv, StreamTyped, FedOfBody
<1>3. chunk \in Seq(Symbols) /\ more \in Seq(Symbols) /\ chunk \o more = body
  <2>1. n \in Nat /\ n <= Len(body) /\ Len(body) \in Nat
    BY <1>2
  <2>2. chunk \in Seq(Symbols) /\ Len(chunk) = n /\ \A i \in 1..n : chunk[i] = body[i]
    BY <1>2, <2>1
  <2>3. /\ more \in Seq(Symbols) /\ Len(more) = Len(body) - n
        /\ \A i \in 1..Len(body) - n : more[i] = body[n + i]
    BY <1>2, <2>1
  <2> HIDE DEF chunk, more
  <2>4. chunk \o more \in Seq(Symbols) /\ Len(chunk \o more) = Len(body)
    <3>1. chunk \o more \in Seq(Symbols) /\ Len(chunk \o more) = Len(chunk) + Len(more)
      BY <2>2, <2>3
    <3>2. n + (Len(body) - n) = Len(body)
      BY <2>1
    <3> QED
      BY <2>2, <2>3, <3>1, <3>2
  <2>5. ASSUME NEW i \in 1..Len(chunk \o more) PROVE (chunk \o more)[i] = body[i]
    <3>1. CASE i <= n
      BY <2>1, <2>2, <2>3, <2>4, <3>1
    <3>2. CASE i > n
      <4>1. i - n \in 1..Len(body) - n /\ n + (i - n) = i
        BY <2>1, <2>4, <3>2
      <4>2. (chunk \o more)[i] = more[i - n]
        BY <2>1, <2>2, <2>3, <2>4, <3>2
      <4> QED
        BY <2>3, <4>1, <4>2
    <3> QED
      BY <2>1, <2>4, <3>1, <3>2
  <2> QED
    BY <1>2, <2>2, <2>3, <2>4, <2>5, SeqEqual
<1> HIDE DEF chunk, more
<1>4. (fed \o chunk) \o more = fed \o body
  BY <1>2, <1>3, SymbolsAssociate
<1> QED
  BY <1>1, <1>2, <1>4 DEF FedOfBody, Completed

\* Every other step leaves it to the attempt, or begins one.
LEMMA StepOfBody == RequestInv /\ StreamInv /\ FedOfBody /\ [Next]_vars => FedOfBody'
<1> SUFFICES ASSUME RequestInv, StreamInv, FedOfBody, [Next]_vars PROVE FedOfBody'
  OBVIOUS
<1> USE DEF FedOfBody, Completed
<1>1. ASSUME RequestStep PROVE FedOfBody'
  <2>1. CASE WaitingThrows \/ JudgeReturns \/ JudgeRetries \/ NoticeThrows \/ WaitCancelled \/ WaitOver
    BY <2>1 DEF WaitingThrows, JudgeReturns, JudgeRetries, NoticeThrows, WaitCancelled, WaitOver
  <2>2. ASSUME NEW b \in Bodies, Accepted(b) PROVE FedOfBody'
    <3>1. b \in Seq(Symbols) /\ <<>> \o b = b
      BY RequestAssumption DEF RequestAssumption
    <3> QED
      BY <2>2, <3>1 DEF Accepted
  <2>3. ASSUME NEW r \in Statuses \cup Errors, Answered(r) PROVE FedOfBody'
    BY <2>3 DEF Answered
  <2>4. ASSUME NEW n \in 1..Len(body), Receive(n) PROVE FedOfBody'
    BY <2>4, ReceiveKeepsBody
  <2>5. ASSUME NEW r \in Errors, Interrupted(r) PROVE FedOfBody'
    BY <2>5 DEF Interrupted, Errors
  <2>6. CASE Complete
    <3>1. step = "receive" /\ step' = "judge" /\ body = <<>> /\ fed' = fed
      BY <2>6 DEF Complete
    <3>2. fed \o <<>> = fed
      BY DEF StreamInv, StreamTyped
    <3> QED
      BY <3>1, <3>2
  <2> QED
    BY <1>1, <2>1, <2>2, <2>3, <2>4, <2>5, <2>6 DEF RequestStep
<1>2. CASE TurnFails \/ TurnAnswered \/ TurnThrows \/ \E document \in Documents : Listed(document)
  BY <1>2 DEF TurnFails, TurnAnswered, TurnThrows, Listed, EndRequest
<1>3. CASE EnterRequest \/ ListModels
  BY <1>3 DEF EnterRequest, ListModels, BeginRequest
<1>4. ASSUME UNCHANGED requestVars PROVE FedOfBody'
  BY <1>4 DEF requestVars
<1>5. CASE Prompt \/ ListRefused \/ ResetSession \/ Cancel \/ StartTurn \/ ContinueTurn \/ RefuseTurn
           \/ AbandonTurn \/ ToolsThrow \/ EnterCancelled \/ UNCHANGED vars
  BY <1>4, <1>5 DEF Prompt, PromptWith, ListRefused, ResetSession, Cancel, StartTurn, ContinueTurn, RefuseTurn,
      AbandonTurn, ToolsThrow, EnterCancelled, vars
<1> QED
  BY <1>1, <1>2, <1>3, <1>5 DEF Next, TurnStep, Request

\* If the server begins every last event with its data line, finish() delivers
\* the last event, terminated or not; the run provider_last_event shows what
\* becomes of one that begins with another field or with a newline.
DataFirst(b) == TailIsData(b) \/ Dispatched(Closed(b)) = Dispatched(b)
THEOREM LastEventReadIfDataFirst ==
  ASSUME \A b \in Bodies : DataFirst(b) PROVE Spec => []LastEventRead
<1>1. Init => FedOfBody
  BY DEF Init, RequestInit, FedOfBody, Completed
<1>2. RequestInv /\ StreamInv /\ FedOfBody /\ [Next]_vars => FedOfBody'
  BY StepOfBody
<1>3. ChunkingIrrelevant /\ FedOfBody => LastEventRead
  BY DEF ChunkingIrrelevant, FedOfBody, LastEventRead, DataFirst
<1> QED
  BY <1>1, <1>2, <1>3, AttemptsApart, StreamKept, ChunksDoNotShow, PTL DEF Spec

-----------------------------------------------------------------------------
(* Types *)

\* What an answer is made of is a sequence, however many events it came in.
LEMMA PartsTyped == \A event \in Seq(Symbols) : PartsOf[event] \in Seq(Symbols)
<1> DEFINE kinds == {"text", "call1", "call2", "badcall"}
           unfold(f, e) == IF e = <<>> THEN <<>>
                         ELSE IF Last(e) \in kinds THEN Append(f[Front(e)], Last(e))
                         ELSE f[Front(e)]
           add == [vx \in Seq(Symbols) \X Symbols |-> IF vx[2] \in kinds THEN Append(vx[1], vx[2]) ELSE vx[1]]
<1>1. add \in [Seq(Symbols) \X Symbols -> Seq(Symbols)] /\ <<>> \in Seq(Symbols)
  <2>1. ASSUME NEW v \in Seq(Symbols), NEW x \in Symbols PROVE Append(v, x) \in Seq(Symbols)
    OBVIOUS
  <2>2. <<>> \in Seq(Symbols)
    OBVIOUS
  <2> HIDE DEF kinds
  <2> QED
    BY <2>1, <2>2
<1>2. PICK f \in [Seq(Symbols) -> Seq(Symbols)] : Accumulates(f, Symbols, <<>>, add)
  <2> HIDE DEF add
  <2> QED
    BY <1>1, AppendRecursion
<1> HIDE DEF kinds
<1>3. ASSUME NEW e \in Seq(Symbols) PROVE f[e] = unfold(f, e)
  <2>1. CASE e # <<>>
    <3>1. Front(e) \in Seq(Symbols) /\ Last(e) \in Symbols
      BY <2>1, FrontAndLast
    <3>2. <<f[Front(e)], Last(e)>> \in Seq(Symbols) \X Symbols
      BY <3>1
    <3> QED
      BY <1>2, <2>1, <3>2 DEF Accumulates
  <2> QED
    BY <1>2, <2>1 DEF Accumulates
<1>4. f = [e \in Seq(Symbols) |-> unfold(f, e)]
  BY <1>3
<1>5. PartsOf = [e \in Seq(Symbols) |-> unfold(PartsOf, e)]
  BY <1>4 DEF PartsOf, kinds
<1> DEFINE S == {e \in Seq(Symbols) : PartsOf[e] \in Seq(Symbols)}
<1>6. <<>> \in S
  <2>1. <<>> \in Seq(Symbols)
    OBVIOUS
  <2> QED
    BY <1>5, <2>1
<1>7. ASSUME NEW e \in Seq(Symbols), NEW x \in Symbols, e \in S PROVE Append(e, x) \in S
  <2>1. /\ Append(e, x) \in Seq(Symbols) /\ Append(e, x) # <<>>
        /\ Front(Append(e, x)) = e /\ Last(Append(e, x)) = x
    BY FrontOfAppend
  <2>2. PartsOf[Append(e, x)] = IF x \in kinds THEN Append(PartsOf[e], x) ELSE PartsOf[e]
    BY <1>5, <2>1
  <2>3. PartsOf[e] \in Seq(Symbols)
    BY <1>7
  <2>4. PartsOf[Append(e, x)] \in Seq(Symbols)
    BY <2>2, <2>3
  <2> QED
    BY <2>1, <2>4
<1> HIDE DEF S
<1>8. Seq(Symbols) \subseteq S
  BY <1>6, <1>7, AppendInduction
<1> QED
  BY <1>8 DEF S

\* What the parsers make of events is a sequence of their parts.
LEMMA AnswerTyped == \A seen \in Seq(Seq(Symbols)) : AllParts[seen] \in Seq(Symbols)
<1> DEFINE Event1 == Seq(Symbols)
           unfold(f, s) == IF s = <<>> THEN <<>> ELSE f[Front(s)] \o Parts(Last(s))
           add == [vx \in Event1 \X Event1 |-> vx[1] \o Parts(vx[2])]
<1>0. ASSUME NEW e \in Event1 PROVE Parts(e) \in Event1
  BY PartsTyped DEF Parts
<1>1. ASSUME NEW v \in Event1, NEW w \in Event1 PROVE v \o w \in Event1
  OBVIOUS
<1>2. <<>> \in Event1
  OBVIOUS
<1>a. AllParts = CHOOSE f : f = [s \in Seq(Event1) |-> unfold(f, s)]
  BY DEF AllParts
<1> HIDE DEF Event1
<1>3. add \in [Event1 \X Event1 -> Event1]
  BY <1>0, <1>1
<1>4. PICK f \in [Seq(Event1) -> Event1] : Accumulates(f, Event1, <<>>, add)
  <2> HIDE DEF add
  <2> QED
    BY <1>2, <1>3, AppendRecursion
<1>5. ASSUME NEW s \in Seq(Event1) PROVE f[s] = unfold(f, s)
  <2>1. CASE s # <<>>
    <3>1. Front(s) \in Seq(Event1) /\ Last(s) \in Event1
      BY <2>1, FrontAndLast
    <3>2. <<f[Front(s)], Last(s)>> \in Event1 \X Event1
      BY <3>1
    <3> QED
      BY <1>4, <2>1, <3>2 DEF Accumulates
  <2> QED
    BY <1>4, <2>1 DEF Accumulates
<1>6. f = [s \in Seq(Event1) |-> unfold(f, s)]
  BY <1>5
<1>7. AllParts = [s \in Seq(Event1) |-> unfold(AllParts, s)]
  BY <1>6, <1>a
<1> DEFINE S == {s \in Seq(Event1) : AllParts[s] \in Event1}
<1>8. <<>> \in S
  <2>1. <<>> \in Seq(Event1)
    OBVIOUS
  <2> QED
    BY <1>2, <1>7, <2>1
<1>9. ASSUME NEW s \in Seq(Event1), NEW x \in Event1, s \in S PROVE Append(s, x) \in S
  <2>1. /\ Append(s, x) \in Seq(Event1) /\ Append(s, x) # <<>>
        /\ Front(Append(s, x)) = s /\ Last(Append(s, x)) = x
    BY FrontOfAppend
  <2>2. AllParts[Append(s, x)] = AllParts[s] \o Parts(x)
    BY <1>7, <2>1
  <2>3. AllParts[s] \in Event1
    BY <1>9
  <2> QED
    BY <1>0, <1>1, <2>1, <2>2, <2>3
<1> HIDE DEF S
<1>10. Seq(Event1) \subseteq S
  BY <1>8, <1>9, AppendInduction
<1>11. \A s \in Seq(Event1) : AllParts[s] \in Event1
  BY <1>10 DEF S
<1> QED
  BY <1>11 DEF Event1

\* An answer makes some number of calls.
LEMMA CallsCounted == events \in Seq(Seq(Symbols)) => CallCount \in Nat
<1> SUFFICES ASSUME events \in Seq(Seq(Symbols)) PROVE CallCount \in Nat
  OBVIOUS
<1> DEFINE calls == {i \in 1..Len(Answer) : Answer[i] # "text"}
<1>1. Len(Answer) \in Nat
  BY AnswerTyped DEF Answer
<1>2. IsFiniteSet(1..Len(Answer)) /\ calls \in SUBSET (1..Len(Answer))
  <2>1. 1 \in Int /\ Len(Answer) \in Int
    BY <1>1
  <2> QED
    BY <2>1, FS_Interval
<1> HIDE DEF calls
<1>3. IsFiniteSet(calls)
  BY <1>2, FS_Subset
<1>4. Cardinality(calls) \in Nat
  BY <1>3, FS_CardinalityType
<1> QED
  BY <1>4 DEF CallCount, calls

\* The attempts of a request stay within their budget.
AttemptTyped ==
    /\ mode \in {"none", "stream", "get"}
    /\ attempt \in 0..MaxAttempts - 1
    /\ response \in {"none"} \cup Statuses \cup Errors
    /\ step = "backoff" => attempt + 1 < MaxAttempts

\* A retry is made only while another attempt is left.
LEMMA StepOfAttempts == AttemptTyped /\ [Next]_vars => AttemptTyped'
<1> SUFFICES ASSUME AttemptTyped, [Next]_vars PROVE AttemptTyped'
  OBVIOUS
<1> USE RequestAssumption DEF RequestAssumption, AttemptTyped
<1>1. CASE Request
  <2>1. CASE JudgeRetries
    BY <2>1 DEF JudgeRetries, Returns, GivesUp
  <2>2. CASE WaitOver
    BY <2>2 DEF WaitOver, NextAttempt
  <2>3. ASSUME NEW r \in Statuses \cup Errors, Answered(r) PROVE AttemptTyped'
    BY <2>3 DEF Answered
  <2>4. ASSUME NEW r \in Errors, Interrupted(r) PROVE AttemptTyped'
    BY <2>4 DEF Interrupted
  <2>5. CASE Complete
    BY <2>5 DEF Complete, Statuses
  <2>6. CASE WaitingThrows \/ JudgeReturns \/ NoticeThrows \/ WaitCancelled
             \/ (\E b \in Bodies : Accepted(b)) \/ (\E n \in 1..Len(body) : Receive(n))
    BY <2>6 DEF WaitingThrows, JudgeReturns, NoticeThrows, WaitCancelled, Accepted, Receive
  <2> QED
    BY <1>1, <2>1, <2>2, <2>3, <2>4, <2>5, <2>6 DEF Request, RequestStep
<1>2. CASE TurnFails \/ TurnAnswered \/ TurnThrows \/ \E document \in Documents : Listed(document)
  BY <1>2 DEF TurnFails, TurnAnswered, TurnThrows, Listed, EndRequest
<1>3. CASE EnterRequest \/ ListModels
  BY <1>3 DEF EnterRequest, ListModels, BeginRequest
<1>4. CASE Prompt \/ ListRefused \/ ResetSession \/ Cancel \/ StartTurn \/ ContinueTurn \/ RefuseTurn
           \/ AbandonTurn \/ ToolsThrow \/ EnterCancelled \/ UNCHANGED vars
  BY <1>4 DEF Prompt, PromptWith, ListRefused, ResetSession, Cancel, StartTurn, ContinueTurn, RefuseTurn,
      AbandonTurn, ToolsThrow, EnterCancelled, vars, requestVars
<1> QED
  BY <1>1, <1>2, <1>3, <1>4 DEF Next, TurnStep

\* trim_history() keeps the newest n messages, the system message
\* counted among them.
LEMMA TrimIs ==
  ASSUME NEW h \in Seq(Message), NEW n \in 1..MaxEntries, Len(h) > n
  PROVE  \E keep \in {0, 1} :
            /\ keep = 1 <=> h[1].role = "system"
            /\ Trim(h, n) \in Seq(Message) /\ Len(Trim(h, n)) = n
            /\ keep = 1 => Trim(h, n)[1] = h[1]
            /\ \A i \in keep + 1..n : Trim(h, n)[i] = h[i + (Len(h) - n)]
<1> DEFINE keep == IF h # <<>> /\ h[1].role = "system" THEN 1 ELSE 0
           excess == Len(h) - n
           head == SubSeq(h, 1, keep)
           rest == SubSeq(h, keep + excess + 1, Len(h))
<1>1. /\ n \in Nat /\ n >= 1 /\ Len(h) \in Nat /\ excess \in Nat /\ excess >= 1
      /\ Len(h) = n + excess /\ h # <<>> /\ \A i \in 1..Len(h) : h[i] \in Message
  BY ProviderAssumption DEF ProviderAssumption
<1>2. Trim(h, n) = head \o rest
  <2>1. ~(Len(h) - n <= 0)
    BY <1>1
  <2> QED
    BY <2>1, Zenon DEF Trim
<1>3. keep \in {0, 1} /\ (keep = 1 <=> h[1].role = "system")
  BY <1>1
<1> HIDE DEF keep, excess
<1>4. head \in Seq(Message) /\ Len(head) = keep /\ (keep = 1 => head[1] = h[1])
  <2>1. 1 \in Int /\ keep \in Int /\ \A i \in 1..keep : h[i] \in Message
    BY <1>1, <1>3
  <2>2. /\ head \in Seq(Message)
        /\ Len(head) = IF 1 <= keep THEN keep - 1 + 1 ELSE 0
        /\ \A i \in 1..keep - 1 + 1 : head[i] = h[1 + i - 1]
    BY <2>1, SubSeqProperties
  <2> HIDE DEF head
  <2> QED
    BY <1>3, <2>2
<1>5. /\ rest \in Seq(Message) /\ Len(rest) = n - keep
      /\ \A i \in 1..n - keep : rest[i] = h[i + keep + excess]
  <2>1. keep + excess + 1 \in Int /\ Len(h) \in Int /\ \A i \in keep + excess + 1..Len(h) : h[i] \in Message
    BY <1>1, <1>3
  <2>2. /\ rest \in Seq(Message)
        /\ Len(rest) = IF keep + excess + 1 <= Len(h) THEN Len(h) - (keep + excess + 1) + 1 ELSE 0
        /\ \A i \in 1..Len(h) - (keep + excess + 1) + 1 : rest[i] = h[keep + excess + 1 + i - 1]
    BY <2>1, SubSeqProperties
  <2> HIDE DEF rest
  <2>3. Len(rest) = n - keep
    BY <1>1, <1>3, <2>2
  <2>4. ASSUME NEW i \in 1..n - keep PROVE rest[i] = h[i + keep + excess]
    <3>1. i \in 1..Len(h) - (keep + excess + 1) + 1 /\ keep + excess + 1 + i - 1 = i + keep + excess
      BY <1>1, <1>3
    <3> QED
      BY <2>2, <3>1
  <2> QED
    BY <2>2, <2>3, <2>4
<1> HIDE DEF head, rest
<1>6. /\ head \o rest \in Seq(Message) /\ Len(head \o rest) = n
      /\ \A i \in 1..keep : (head \o rest)[i] = head[i]
      /\ \A i \in keep + 1..n : (head \o rest)[i] = rest[i - keep]
  <2>1. /\ head \o rest \in Seq(Message) /\ Len(head \o rest) = Len(head) + Len(rest)
        /\ \A i \in 1..Len(head) + Len(rest) :
              (head \o rest)[i] = IF i <= Len(head) THEN head[i] ELSE rest[i - Len(head)]
    <3>1. \A u, v \in Seq(Message) :
              /\ u \o v \in Seq(Message) /\ Len(u \o v) = Len(u) + Len(v)
              /\ \A i \in 1..Len(u) + Len(v) :
                    (u \o v)[i] = IF i <= Len(u) THEN u[i] ELSE v[i - Len(u)]
      BY ConcatProperties
    <3> QED
      BY <1>4, <1>5, <3>1
  <2>2. Len(head) + Len(rest) = n
    BY <1>1, <1>3, <1>4, <1>5
  <2> QED
    BY <1>1, <1>3, <1>4, <2>1, <2>2
<1>7. keep = 1 => Trim(h, n)[1] = h[1]
  BY <1>2, <1>4, <1>6
<1>8. ASSUME NEW i \in keep + 1..n PROVE Trim(h, n)[i] = h[i + (Len(h) - n)]
  <2>1. i - keep \in 1..n - keep /\ (i - keep) + keep + excess = i + (Len(h) - n)
    BY <1>1, <1>3
  <2> QED
    BY <1>2, <1>5, <1>6, <2>1
<1> QED
  BY <1>2, <1>3, <1>6, <1>7, <1>8

\* trim_history() leaves a conversation of at most n messages.
LEMMA TrimTyped ==
  ASSUME NEW h \in Seq(Message), NEW n \in 1..MaxEntries
  PROVE  Trim(h, n) \in Seq(Message) /\ Len(Trim(h, n)) \in Nat /\ Len(Trim(h, n)) <= n
<1>1. n \in Nat /\ Len(h) \in Nat
  BY ProviderAssumption DEF ProviderAssumption
<1>2. CASE Len(h) <= n
  <2>1. Trim(h, n) = h
    BY <1>1, <1>2 DEF Trim
  <2> QED
    BY <1>1, <1>2, <2>1
<1>3. CASE Len(h) > n
  BY <1>1, <1>3, TrimIs
<1> QED
  BY <1>1, <1>2, <1>3

\* A prompt has at most MaxRounds + 1 answers, and no other request is made
\* when the last of them has calls.
TurnTyped ==
    /\ kind \in Kinds
    /\ instruction \in BOOLEAN
    /\ phase \in {"idle", "start", "enter", "request", "tools", "listing"}
    /\ outcome \in {"none", "ok", "failed", "cancelled", "threw"}
    /\ prompts \in 0..MaxPrompts
    /\ asked \in Seq(Nat)
    /\ phase = "start" => asked = <<>>
    /\ phase \in {"start", "enter", "request"} => Len(asked) <= MaxRounds
    /\ phase = "tools" => asked # <<>> /\ Len(asked) <= MaxRounds + 1

\* Turns and answers keep the rounds of a prompt within their limit.
LEMMA StepOfTurns == StreamTyped /\ TurnTyped /\ [Next]_vars => TurnTyped'
<1> SUFFICES ASSUME StreamTyped, TurnTyped, [Next]_vars PROVE TurnTyped'
  OBVIOUS
<1>0. MaxRounds \in Nat /\ MaxPrompts \in Nat /\ Len(asked) \in Nat
  BY ProviderAssumption DEF ProviderAssumption, TurnTyped
<1> USE <1>0 DEF TurnTyped
<1>1. CASE Prompt
  <2>1. <<>> \in Seq(Nat) /\ Len(<<>>) = 0
    OBVIOUS
  <2> QED
    BY <1>1, <2>1 DEF Prompt, PromptWith
<1>2. CASE TurnAnswered
  <2>1. CallCount \in Nat
    BY CallsCounted DEF StreamTyped
  <2>2. /\ asked' = Append(asked, CallCount) /\ phase' \in {"tools", "idle"} /\ phase = "request"
        /\ outcome' \in {"ok", "failed"} /\ UNCHANGED <<kind, instruction, prompts>>
    BY <1>2 DEF TurnAnswered
  <2>3. asked' \in Seq(Nat) /\ asked' # <<>> /\ Len(asked') = Len(asked) + 1
    BY <2>1, <2>2, AppendProperties
  <2> QED
    BY <2>2, <2>3
<1>3. CASE StartTurn \/ ContinueTurn \/ RefuseTurn \/ AbandonTurn \/ ToolsThrow \/ EnterRequest
           \/ EnterCancelled
  BY <1>3 DEF StartTurn, ContinueTurn, RefuseTurn, AbandonTurn, ToolsThrow, EnterRequest, EnterCancelled
<1>4. CASE TurnFails \/ TurnThrows \/ ListModels \/ ListRefused \/ ResetSession
           \/ \E document \in Documents : Listed(document)
  BY <1>4 DEF TurnFails, TurnThrows, ListModels, ListRefused, ResetSession, Listed
<1>5. CASE Cancel \/ Request \/ UNCHANGED vars
  BY <1>5 DEF Cancel, Request, vars, providerVars
<1> QED
  BY <1>1, <1>2, <1>3, <1>4, <1>5 DEF Next, TurnStep

\* What is added to a conversation: messages of the current prompt and round.
LEMMA StartedTyped ==
  ASSUME TurnTyped, phase = "start", messages \in Seq(Message)
  PROVE  Started(messages, prompts) \in Seq(Message)
<1>1. System \in Message /\ User(prompts) \in Message
  BY ProviderAssumption DEF ProviderAssumption, TurnTyped, System, User, Message
<1> QED
  BY <1>1 DEF Started

\* A response to a call of the last answer.
AnswersRound(m) == m.role = "tool" /\ m.prompt = prompts /\ m.round = Len(asked)

\* The responses to an answer are tool messages of its prompt and round.
LEMMA ResponsesTyped ==
  ASSUME TurnTyped, phase = "tools", Len(asked) <= MaxRounds
  PROVE  /\ Responses(kind, prompts, Len(asked), Last(asked)) \in Seq(Message)
         /\ \A i \in 1..Len(Responses(kind, prompts, Len(asked), Last(asked))) :
               AnswersRound(Responses(kind, prompts, Len(asked), Last(asked))[i])
<1> DEFINE n == Last(asked)
           tool(i) == Tool(prompts, Len(asked), i)
<1>a. asked \in Seq(Nat) /\ asked # <<>> /\ prompts \in 0..MaxPrompts
  BY DEF TurnTyped
<1>b. \A s \in Seq(Nat) : s # <<>> => Last(s) \in Nat
  BY FrontAndLast
<1>1. n \in Nat /\ Len(asked) \in Nat /\ asked # <<>>
  BY <1>a, <1>b
<1>2. ASSUME NEW i \in Nat PROVE tool(i) \in Message /\ AnswersRound(tool(i))
  BY <1>1 DEF TurnTyped, Tool, Message, AnswersRound
<1> HIDE DEF n, tool
<1> DEFINE more == [i \in 1..n |-> tool(i)]
<1>3. more \in Seq(Message) /\ Len(more) = n /\ \A i \in 1..n : more[i] = tool(i)
  BY <1>1, <1>2
<1>4. \A i \in 1..Len(more) : AnswersRound(more[i])
  BY <1>1, <1>2, <1>3
<1>5. /\ <<tool(n)>> \in Seq(Message)
      /\ \A i \in 1..Len(<<tool(n)>>) : AnswersRound(<<tool(n)>>[i])
  BY <1>1, <1>2
<1>6. Responses(kind, prompts, Len(asked), n) \in {more, <<tool(n)>>}
  BY DEF Responses, tool
<1> HIDE DEF more
<1>7. /\ Responses(kind, prompts, Len(asked), n) \in Seq(Message)
      /\ \A i \in 1..Len(Responses(kind, prompts, Len(asked), n)) :
            AnswersRound(Responses(kind, prompts, Len(asked), n)[i])
  BY <1>3, <1>4, <1>5, <1>6
<1> QED
  BY <1>7 DEF n

\* An answer is a message of the next round.
LEMMA AnswerMessageTyped ==
  ASSUME StreamTyped, TurnTyped, phase = "request"
  PROVE  Assistant(prompts, Len(asked) + 1, CallCount) \in Message
<1>1. CallCount \in Nat
  BY CallsCounted DEF StreamTyped
<1> QED
  BY <1>1, ProviderAssumption DEF ProviderAssumption, TurnTyped, Assistant, Message

\* What is known of the models are flags and claims of documents.
ConversationTyped ==
    /\ messages \in Seq(Message)
    /\ \A model \in DOMAIN capabilities : capabilities[model] \in BOOLEAN
    /\ offered \in BOOLEAN
    /\ said \subseteq Claims

\* Every operation leaves a conversation of messages.
LEMMA StepOfConversation ==
    StreamTyped /\ TurnTyped /\ ConversationTyped /\ [Next]_vars => ConversationTyped'
<1> SUFFICES ASSUME StreamTyped, TurnTyped, ConversationTyped, [Next]_vars PROVE ConversationTyped'
  OBVIOUS
<1> USE DEF ConversationTyped
<1>1. CASE Prompt
  <2> SUFFICES ASSUME NEW n \in 1..MaxEntries, PromptWith(n) PROVE ConversationTyped'
    BY <1>1 DEF Prompt
  <2> QED
    BY TrimTyped DEF PromptWith, catalogueVars
<1>2. CASE StartTurn
  BY <1>2, StartedTyped DEF StartTurn, catalogueVars
<1>3. CASE ContinueTurn
  <2> DEFINE more == Responses(kind, prompts, Len(asked), Last(asked))
  <2>1. more \in Seq(Message) /\ messages' = messages \o more
    BY <1>3, ResponsesTyped DEF ContinueTurn, Continued
  <2> HIDE DEF more
  <2>2. messages' \in Seq(Message)
    BY <2>1
  <2> QED
    BY <1>3, <2>2 DEF ContinueTurn, catalogueVars
<1>4. CASE TurnAnswered
  BY <1>4, AnswerMessageTyped, AppendProperties DEF TurnAnswered
<1>5. CASE EnterRequest
  <2>1. OffersTools \in BOOLEAN
    BY DEF OffersTools, SupportsTools
  <2> QED
    BY <1>5, <2>1 DEF EnterRequest
<1>6. ASSUME NEW document \in Documents, Listed(document) PROVE ConversationTyped'
  <2>1. \A item \in document.items : item.tools \in Claims
    BY ProviderAssumption DEF ProviderAssumption
  <2>2. said' \subseteq Claims
    BY <1>6, <2>1 DEF Listed, Usable
  <2>3. \A model \in DOMAIN capabilities' : capabilities'[model] \in BOOLEAN
    BY <1>6 DEF Listed, Learned, Tables
  <2> QED
    BY <1>6, <2>2, <2>3 DEF Listed
<1>7. CASE ResetSession
  BY <1>7 DEF ResetSession, catalogueVars
<1>8. CASE RefuseTurn \/ AbandonTurn \/ ToolsThrow \/ EnterCancelled \/ TurnFails \/ TurnThrows
           \/ ListModels \/ ListRefused
  BY <1>8 DEF RefuseTurn, AbandonTurn, ToolsThrow, EnterCancelled, TurnFails, TurnThrows, ListModels,
      ListRefused, catalogueVars
<1>9. CASE Cancel \/ Request \/ UNCHANGED vars
  BY <1>9 DEF Cancel, Request, vars, providerVars
<1> QED
  BY <1>1, <1>2, <1>3, <1>4, <1>5, <1>6, <1>7, <1>8, <1>9 DEF Next, TurnStep

TypeInv == AttemptTyped /\ TurnTyped /\ ConversationTyped

\* The parts of the inductive invariant hold in every state: who may have shown
\* something, what was decoded, and the types (all operations of a provider).
THEOREM Typed == Spec => [](RequestInv /\ StreamInv /\ TypeInv)
<1>1. Init => TypeInv
  <2> SUFFICES ASSUME Init PROVE TypeInv
    OBVIOUS
  <2>1. AttemptTyped
    BY RequestAssumption DEF RequestAssumption, Init, RequestInit, AttemptTyped
  <2>2. TurnTyped
    BY ProviderAssumption DEF ProviderAssumption, Init, TurnTyped
  <2>3. ConversationTyped
    <3>1. <<>> \in Seq(Message)
      OBVIOUS
    <3>2. DOMAIN [model \in {} |-> TRUE] = {}
      OBVIOUS
    <3>3. messages = <<>> /\ capabilities = [model \in {} |-> TRUE] /\ offered = FALSE /\ said = {}
          /\ outcome = "none"
      BY DEF Init
    <3> QED
      BY <3>1, <3>2, <3>3 DEF ConversationTyped
  <2> QED
    BY <2>1, <2>2, <2>3 DEF TypeInv
<1>2. StreamInv /\ TypeInv /\ [Next]_vars => TypeInv'
  BY StepOfAttempts, StepOfTurns, StepOfConversation DEF TypeInv, StreamInv
<1> QED
  BY <1>1, <1>2, AttemptsApart, StreamKept, PTL DEF Spec

\* Whatever a server sends, every variable keeps its type, no conversation or
\* count leaves its range, and no request is attempted more than MaxAttempts
\* times (the two retry loops, trim_history, the parsers of a stream).
THEOREM TypeCorrect == Spec => []TypeOK
<1>1. RequestInv /\ StreamInv /\ TypeInv => TypeOK
  <2> SUFFICES ASSUME RequestInv, StreamInv, TypeInv PROVE TypeOK
    OBVIOUS
  <2>1. /\ step \in {"idle", "send", "receive", "judge", "backoff", "done", "threw"}
        /\ received_event \in BOOLEAN /\ cancelled \in BOOLEAN /\ late \in {0, 1}
        /\ shown \subseteq {attempt}
    BY DEF RequestInv, RequestInPhase, ShownByLast, LateIsLast
  <2>2. shown \subseteq 0..MaxAttempts - 1 /\ late \in 0..2
    BY <2>1 DEF TypeInv, AttemptTyped
  <2>3. RequestTypeOK
    BY <2>1, <2>2 DEF RequestTypeOK, StreamInv, StreamTyped, TypeInv, AttemptTyped
  <2> QED
    BY <2>3 DEF TypeOK, TypeInv, TurnTyped, ConversationTyped
<1> QED
  BY <1>1, Typed, PTL

-----------------------------------------------------------------------------
(* What a turn knows of its model *)

\* The table says of Model what the last listing that succeeded said.
TableFollows ==
    IF SupportsTools(capabilities, Model) THEN said # {"no"} ELSE "no" \in said

CatalogueInv ==
    /\ kind = "openrouter" => TableFollows
    /\ phase = "request" /\ kind = "openrouter" => (offered <=> SupportsTools(capabilities, Model))

\* No step lets the table and the listings disagree, nor changes the table
\* under a turn that was built from it.
LEMMA StepOfCatalogue == CatalogueInv /\ [Next]_vars => CatalogueInv'
<1> SUFFICES ASSUME CatalogueInv, [Next]_vars PROVE CatalogueInv'
  OBVIOUS
<1> USE DEF CatalogueInv
<1>t. UNCHANGED <<capabilities, said>> => (TableFollows <=> TableFollows')
  BY DEF TableFollows
<1>1. ASSUME UNCHANGED <<kind, capabilities, said>>, UNCHANGED <<phase, offered>> \/ phase' # "request"
      PROVE  CatalogueInv'
  BY <1>1, <1>t
<1>2. CASE EnterRequest
  BY <1>2, <1>t DEF EnterRequest, OffersTools
<1>3. ASSUME NEW document \in Documents, Listed(document) PROVE CatalogueInv'
  <2>1. phase' = "idle" /\ kind' = kind
    BY <1>3 DEF Listed
  <2>2. CASE kind = "openrouter" /\ Learns(document)
    <3>1. /\ capabilities' \in Tables(document)
          /\ said' = {item.tools : item \in {i \in Usable("openrouter", document) : i.id = Model}}
      BY <1>3, <2>2 DEF Listed, Learned
    <3>2. CASE Model \in DOMAIN capabilities'
      <4>1. PICK item \in Usable("openrouter", document) :
                item.id = Model /\ capabilities'[Model] = TakesTools(item)
        BY <3>1, <3>2 DEF Tables
      <4>2. item.tools \in said'
        BY <3>1, <4>1
      <4> QED
        BY <2>1, <3>2, <4>1, <4>2 DEF TableFollows, SupportsTools, TakesTools
    <3>3. CASE Model \notin DOMAIN capabilities'
      <4>1. ~\E item \in Usable("openrouter", document) : item.id = Model
        BY <3>1, <3>3 DEF Tables
      <4>2. said' = {}
        BY <3>1, <4>1
      <4> QED
        BY <2>1, <3>3, <4>2 DEF TableFollows, SupportsTools
    <3> QED
      BY <3>2, <3>3
  <2>3. CASE ~(kind = "openrouter" /\ Learns(document))
    BY <1>3, <1>t, <2>1, <2>3 DEF Listed, Learned
  <2> QED
    BY <2>2, <2>3
<1>4. CASE Request \/ Cancel \/ ResetSession \/ ListRefused \/ ListModels \/ Prompt
  BY <1>1, <1>4 DEF Request, Cancel, providerVars, ResetSession, ListRefused, ListModels, Prompt, PromptWith, catalogueVars
<1>5. CASE StartTurn \/ ContinueTurn \/ RefuseTurn \/ AbandonTurn \/ ToolsThrow \/ EnterCancelled
           \/ TurnFails \/ TurnAnswered \/ TurnThrows
  BY <1>1, <1>5 DEF StartTurn, ContinueTurn, RefuseTurn, AbandonTurn, ToolsThrow, EnterCancelled,
      TurnFails, TurnAnswered, TurnThrows, catalogueVars
<1>6. CASE UNCHANGED vars
  BY <1>1, <1>6 DEF vars, providerVars
<1> QED
  BY <1>2, <1>3, <1>4, <1>5, <1>6 DEF Next, TurnStep

\* OpenRouter's payload offers the tools unless the last listing that succeeded
\* denied them to the model, whatever failed or was cancelled since.
THEOREM ToolsFollow == Spec => []ToolsFollowTheCatalogue
<1>1. Init => CatalogueInv
  BY DEF Init, CatalogueInv, TableFollows, SupportsTools
<1>2. CatalogueInv => ToolsFollowTheCatalogue
  BY DEF CatalogueInv, TableFollows, ToolsFollowTheCatalogue
<1> QED
  BY <1>1, <1>2, StepOfCatalogue, PTL DEF Spec

==============================================================================
