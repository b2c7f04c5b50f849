----------------------------- MODULE SseDecoder -----------------------------
(***************************************************************************)
(* arn::core::net::SseDecoder, as functions on the bytes of a stream.      *)
(*                                                                         *)
(* A stream is a sequence of symbols: "data" stands for the five bytes     *)
(* that open a data line, "nl" and "cr" for the line ends, and a member of *)
(* Pieces for a piece of payload.  A chunk may end between any two         *)
(* symbols; as the decoder looks at nothing before a blank line, a chunk   *)
(* that ends inside one is the same as a chunk that ends before it.        *)
(***************************************************************************)
EXTENDS Naturals, Sequences, SequencesExt

CONSTANT Pieces     \* what a stream is made of, apart from line ends and prefixes

Symbols == {"data", "nl", "cr"} \cup Pieces

\* push() appends every byte but transport-level carriage returns.
StripCr[bytes \in Seq(Symbols)] ==
    IF bytes = <<>> THEN <<>>
    ELSE IF Last(bytes) = "cr" THEN StripCr[Front(bytes)]
    ELSE Append(StripCr[Front(bytes)], Last(bytes))

\* Where pending_.find("\n\n") may match.
BlankLines(s) == {i \in 1..Len(s) - 1 : s[i] = "nl" /\ s[i + 1] = "nl"}

LineEnds(event) == {i \in 1..Len(event) : event[i] = "nl"}

\* A data line without its prefix joins data, after a newline if that is not
\* empty.
Collect(data, line) ==
    IF line = <<>> \/ line[1] # "data" THEN data
    ELSE IF data = <<>> THEN Tail(line)
    ELSE data \o <<"nl">> \o Tail(line)

\* What the loop over the lines of an event has collected after the last one.
DataOf[event \in Seq(Symbols)] ==
    IF LineEnds(event) = {} THEN Collect(<<>>, event)
    ELSE LET end == Max(LineEnds(event))
         IN Collect(DataOf[SubSeq(event, 1, end - 1)], SubSeq(event, end + 1, Len(event)))

\* The loop of push(): cut off one event after the other.
Extract[pending \in Seq(Symbols)] ==
    IF BlankLines(pending) = {} THEN [events |-> <<>>, pending |-> pending]
    ELSE LET end == Min(BlankLines(pending))
             data == DataOf[SubSeq(pending, 1, end - 1)]
             more == Extract[SubSeq(pending, end + 2, Len(pending))]
         IN [events |-> (IF data = <<>> THEN <<>> ELSE <<data>>) \o more.events,
             pending |-> more.pending]

Push(pending, bytes) == Extract[pending \o StripCr[bytes]]

\* finish(): a tail of data lines is one more event, any other tail is handed
\* over as it is.
FinishDropsTail(pending) == [events |-> <<>>, pending |-> <<>>]
Finish(pending) ==
    IF pending = <<>> THEN [events |-> <<>>, pending |-> <<>>]
    ELSE IF pending[1] = "data" THEN Push(pending, <<"nl", "nl">>)
    ELSE [events |-> <<pending>>, pending |-> <<>>]

-----------------------------------------------------------------------------
(* The reference: the event stream standard reads lines, not buffers. *)

\* One symbol later: an empty line dispatches the data collected so far.
ReadSymbol(state, symbol) ==
    IF symbol = "cr" THEN state
    ELSE IF symbol # "nl" THEN [state EXCEPT !.line = Append(@, symbol)]
    ELSE IF state.line = <<>> THEN
        [line |-> <<>>, data |-> <<>>,
         events |-> IF state.data = <<>> THEN state.events ELSE Append(state.events, state.data)]
    ELSE IF state.line[1] = "data" THEN
        [state EXCEPT !.line = <<>>,
                      !.data = IF @ = <<>> THEN Tail(state.line)
                               ELSE @ \o <<"nl">> \o Tail(state.line)]
    ELSE [state EXCEPT !.line = <<>>]

Read[bytes \in Seq(Symbols)] ==
    IF bytes = <<>> THEN [line |-> <<>>, data |-> <<>>, events |-> <<>>]
    ELSE ReadSymbol(Read[Front(bytes)], Last(bytes))

\* The events of a stream, up to its last blank line.
Dispatched(bytes) == Read[bytes].events

\* The same stream with the blank line its server left out, and what there is of
\* its last event without it.
Closed(bytes) == bytes \o <<"nl", "nl">>
TailOf(bytes) == Extract[StripCr[bytes]].pending

\* The tail is an event by its first line, or there is none.
TailIsData(bytes) == TailOf(bytes) = <<>> \/ TailOf(bytes)[1] = "data"
=============================================================================
