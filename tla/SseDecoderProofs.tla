-------------------------- MODULE SseDecoderProofs --------------------------
(***************************************************************************)
(* What TLAPS proves of SseDecoder: for every stream, and however it is    *)
(* cut into chunks, push() hands over the events that a line-by-line       *)
(* reader finds in it.                                                     *)
(***************************************************************************)
EXTENDS SseDecoder, RecursionLemmas

Clean == Symbols \ {"cr"}            \* what is left of a stream in pending_
InLine == Symbols \ {"cr", "nl"}     \* what a line is made of

\* Lines are written in fewer symbols than pending_, and pending_ in fewer than
\* the stream.
LEMMA Alphabets ==
    /\ Seq(InLine) \subseteq Seq(Clean) /\ Seq(Clean) \subseteq Seq(Symbols)
    /\ InLine \subseteq Clean /\ Clean \subseteq Symbols
    /\ "nl" \in Clean /\ <<"nl">> \in Seq(Clean) /\ <<"nl", "nl">> \in Seq(Clean)
    /\ <<>> \in Seq(InLine)
<1>1. InLine \subseteq Clean /\ Clean \subseteq Symbols /\ "nl" \in Clean
  <2>1. "nl" \in Symbols /\ "nl" # "cr"
    BY DEF Symbols
  <2>2. "nl" \in Clean
    BY <2>1 DEF Clean
  <2>3. InLine \subseteq Clean /\ Clean \subseteq Symbols
    BY DEF InLine, Clean
  <2> QED
    BY <2>2, <2>3
<1> HIDE DEF InLine, Clean
<1>2. Seq(InLine) \subseteq Seq(Clean) /\ Seq(Clean) \subseteq Seq(Symbols)
  BY <1>1, SeqMonotonic
<1>3. <<"nl">> \in Seq(Clean) /\ <<"nl", "nl">> \in Seq(Clean) /\ <<>> \in Seq(InLine)
  BY <1>1
<1> QED
  BY <1>1, <1>2, <1>3

\* Joining pieces of a stream is associative ...
LEMMA SymbolsAssociate == \A u, v, w \in Seq(Symbols) : (u \o v) \o w = u \o (v \o w)
  BY ConcatAssociative

\* ... and so is joining what they dispatched.
LEMMA EventsAssociate == \A u, v, w \in Seq(Seq(Symbols)) : (u \o v) \o w = u \o (v \o w)
<1> DEFINE E == Seq(Symbols)
<1> HIDE DEF E
<1>1. \A u, v, w \in Seq(E) : (u \o v) \o w = u \o (v \o w)
  BY ConcatAssociative
<1> QED
  BY <1>1 DEF E

-----------------------------------------------------------------------------
(* The recursive definitions define functions. *)

\* The carriage returns go, one byte after the other.
LEMMA StripCrIs ==
    /\ StripCr[<<>>] = <<>>
    /\ \A s \in Seq(Symbols), x \in Symbols :
          StripCr[Append(s, x)] = IF x = "cr" THEN StripCr[s] ELSE Append(StripCr[s], x)
<1> DEFINE body(f, s) == IF s = <<>> THEN <<>>
                         ELSE IF Last(s) = "cr" THEN f[Front(s)]
                         ELSE Append(f[Front(s)], Last(s))
           step == [vx \in Seq(Symbols) \X Symbols |-> IF vx[2] = "cr" THEN vx[1] ELSE Append(vx[1], vx[2])]
<1>1. step \in [Seq(Symbols) \X Symbols -> Seq(Symbols)] /\ <<>> \in Seq(Symbols)
  <2>1. ASSUME NEW v \in Seq(Symbols), NEW x \in Symbols PROVE Append(v, x) \in Seq(Symbols)
    OBVIOUS
  <2>2. <<>> \in Seq(Symbols)
    OBVIOUS
  <2> QED
    BY <2>1, <2>2
<1>2. PICK f \in [Seq(Symbols) -> Seq(Symbols)] : Accumulates(f, Symbols, <<>>, step)
  <2> HIDE DEF step
  <2> QED
    BY <1>1, AppendRecursion
<1>3. ASSUME NEW s \in Seq(Symbols) PROVE f[s] = body(f, s)
  <2>1. CASE s # <<>>
    <3>1. Front(s) \in Seq(Symbols) /\ Last(s) \in Symbols
      BY <2>1, FrontAndLast
    <3>2. <<f[Front(s)], Last(s)>> \in Seq(Symbols) \X Symbols
      BY <3>1
    <3> QED
      BY <1>2, <2>1, <3>2 DEF Accumulates
  <2> QED
    BY <1>2, <2>1 DEF Accumulates
<1>4. f = [s \in Seq(Symbols) |-> body(f, s)]
  BY <1>3
<1>5. StripCr = [s \in Seq(Symbols) |-> body(StripCr, s)]
  BY <1>4 DEF StripCr
<1>6. StripCr[<<>>] = <<>>
  <2>1. <<>> \in Seq(Symbols)
    OBVIOUS
  <2> QED
    BY <1>5, <2>1
<1>7. ASSUME NEW s \in Seq(Symbols), NEW x \in Symbols
      PROVE  StripCr[Append(s, x)] = IF x = "cr" THEN StripCr[s] ELSE Append(StripCr[s], x)
  <2>1. /\ Append(s, x) \in Seq(Symbols) /\ Append(s, x) # <<>>
        /\ Front(Append(s, x)) = s /\ Last(Append(s, x)) = x
    BY FrontOfAppend
  <2> QED
    BY <1>5, <2>1
<1> QED
  BY <1>6, <1>7

\* What is left has no carriage return.
LEMMA StripCrClean == \A s \in Seq(Symbols) : StripCr[s] \in Seq(Clean)
<1> DEFINE S == {s \in Seq(Symbols) : StripCr[s] \in Seq(Clean)}
<1>1. <<>> \in S
  <2>1. <<>> \in Seq(Symbols) /\ <<>> \in Seq(Clean)
    OBVIOUS
  <2> QED
    BY <2>1, StripCrIs
<1>2. ASSUME NEW s \in Seq(Symbols), NEW x \in Symbols, s \in S PROVE Append(s, x) \in S
  <2>1. Append(s, x) \in Seq(Symbols)
    OBVIOUS
  <2>2. x # "cr" => Append(StripCr[s], x) \in Seq(Clean)
    BY <1>2 DEF Clean
  <2> QED
    BY <1>2, <2>1, <2>2, StripCrIs
<1> HIDE DEF S
<1>3. Seq(Symbols) \subseteq S
  BY <1>1, <1>2, AppendInduction
<1> QED
  BY <1>3 DEF S

\* Chunks may be stripped one by one.
LEMMA StripCrOfConcat ==
  ASSUME NEW a \in Seq(Symbols)
  PROVE  \A b \in Seq(Symbols) : StripCr[a \o b] = StripCr[a] \o StripCr[b]
<1> DEFINE S == {b \in Seq(Symbols) : StripCr[a \o b] = StripCr[a] \o StripCr[b]}
<1>0. StripCr[a] \in Seq(Symbols)
  BY StripCrClean, Alphabets
<1>1. <<>> \in S
  <2>1. <<>> \in Seq(Symbols) /\ a \o <<>> = a /\ StripCr[a] \o <<>> = StripCr[a]
    BY <1>0
  <2> QED
    BY <2>1, StripCrIs
<1>2. ASSUME NEW b \in Seq(Symbols), NEW x \in Symbols, b \in S PROVE Append(b, x) \in S
  <2>1. Append(b, x) \in Seq(Symbols) /\ a \o b \in Seq(Symbols) /\ a \o Append(b, x) = Append(a \o b, x)
    BY ConcatWithAppend
  <2>2. StripCr[b] \in Seq(Symbols)
    BY StripCrClean, Alphabets
  <2>3. StripCr[a] \o Append(StripCr[b], x) = Append(StripCr[a] \o StripCr[b], x)
    <3>1. \A u, v \in Seq(Symbols) : u \o Append(v, x) = Append(u \o v, x)
      BY ConcatWithAppend
    <3> QED
      BY <1>0, <2>2, <3>1
  <2> QED
    BY <1>2, <2>1, <2>3, StripCrIs
<1> HIDE DEF S
<1>3. Seq(Symbols) \subseteq S
  BY <1>1, <1>2, AppendInduction
<1> QED
  BY <1>3 DEF S

-----------------------------------------------------------------------------
(* The reader *)

ReaderState == [line : Seq(Symbols), data : Seq(Symbols), events : Seq(Seq(Symbols))]
Fresh == [line |-> <<>>, data |-> <<>>, events |-> <<>>]

\* One symbol leads from one state of the reader to another.
LEMMA ReadSymbolTyped ==
  ASSUME NEW v \in ReaderState, NEW x \in Symbols
  PROVE  ReadSymbol(v, x) \in ReaderState
<1>1. v.line \in Seq(Symbols) /\ v.data \in Seq(Symbols) /\ v.events \in Seq(Seq(Symbols))
  BY DEF ReaderState
<1>2. <<>> \in Seq(Symbols) /\ <<"nl">> \in Seq(Symbols)
  BY Alphabets
<1>3. /\ Append(v.line, x) \in Seq(Symbols)
      /\ Append(v.events, v.data) \in Seq(Seq(Symbols))
  BY <1>1
<1>4. v.line # <<>> => Tail(v.line) \in Seq(Symbols)
  BY <1>1
<1>5. v.line # <<>> => v.data \o <<"nl">> \o Tail(v.line) \in Seq(Symbols)
  <2>1. v.data \o <<"nl">> \in Seq(Symbols)
    BY <1>1, <1>2
  <2> QED
    BY <1>4, <2>1
<1>6. CASE x = "cr"
  BY <1>6 DEF ReadSymbol
<1>7. CASE x # "cr" /\ x # "nl"
  BY <1>1, <1>3, <1>7 DEF ReadSymbol, ReaderState
<1>8. CASE x = "nl" /\ v.line = <<>>
  BY <1>1, <1>2, <1>3, <1>8 DEF ReadSymbol, ReaderState
<1>9. CASE x = "nl" /\ v.line # <<>>
  BY <1>1, <1>2, <1>4, <1>5, <1>9 DEF ReadSymbol, ReaderState
<1> QED
  BY <1>6, <1>7, <1>8, <1>9

\* The reader reads one symbol after the other.
LEMMA ReadIs ==
    /\ Read[<<>>] = Fresh
    /\ \A s \in Seq(Symbols), x \in Symbols : Read[Append(s, x)] = ReadSymbol(Read[s], x)
<1> DEFINE body(f, s) == IF s = <<>> THEN [line |-> <<>>, data |-> <<>>, events |-> <<>>]
                         ELSE ReadSymbol(f[Front(s)], Last(s))
           step == [vx \in ReaderState \X Symbols |-> ReadSymbol(vx[1], vx[2])]
<1>0. Fresh \in ReaderState
  <2>1. <<>> \in Seq(Symbols) /\ <<>> \in Seq(Seq(Symbols))
    OBVIOUS
  <2> QED
    BY <2>1 DEF Fresh, ReaderState
<1>1. step \in [ReaderState \X Symbols -> ReaderState]
  BY ReadSymbolTyped
<1>2. PICK f \in [Seq(Symbols) -> ReaderState] : Accumulates(f, Symbols, Fresh, step)
  <2> HIDE DEF step
  <2> QED
    BY <1>0, <1>1, AppendRecursion
<1>3. ASSUME NEW s \in Seq(Symbols) PROVE f[s] = body(f, s)
  <2>1. CASE s # <<>>
    <3>1. Front(s) \in Seq(Symbols) /\ Last(s) \in Symbols
      BY <2>1, FrontAndLast
    <3>2. <<f[Front(s)], Last(s)>> \in ReaderState \X Symbols
      BY <3>1
    <3>3. step[<<f[Front(s)], Last(s)>>] = ReadSymbol(f[Front(s)], Last(s))
      BY <3>2
    <3>4. f[s] = step[<<f[Front(s)], Last(s)>>]
      <4> HIDE DEF step
      <4> QED
        BY <1>2, <2>1 DEF Accumulates
    <3> QED
      BY <2>1, <3>3, <3>4
  <2>2. CASE s = <<>>
    BY <1>2, <2>2 DEF Accumulates, Fresh
  <2> QED
    BY <2>1, <2>2
<1>4. f = [s \in Seq(Symbols) |-> body(f, s)]
  BY <1>3
<1>5. Read = [s \in Seq(Symbols) |-> body(Read, s)]
  BY <1>4 DEF Read
<1>6. Read[<<>>] = Fresh
  <2>1. <<>> \in Seq(Symbols)
    OBVIOUS
  <2> QED
    BY <1>5, <2>1 DEF Fresh
<1>7. ASSUME NEW s \in Seq(Symbols), NEW x \in Symbols
      PROVE  Read[Append(s, x)] = ReadSymbol(Read[s], x)
  <2>1. /\ Append(s, x) \in Seq(Symbols) /\ Append(s, x) # <<>>
        /\ Front(Append(s, x)) = s /\ Last(Append(s, x)) = x
    BY FrontOfAppend
  <2> QED
    BY <1>5, <2>1
<1> QED
  BY <1>6, <1>7

\* The reader of lines is in one of its states after any symbols.
LEMMA ReadTyped == \A s \in Seq(Symbols) : Read[s] \in ReaderState
<1> DEFINE S == {s \in Seq(Symbols) : Read[s] \in ReaderState}
<1>1. <<>> \in S
  <2>1. <<>> \in Seq(Symbols) /\ <<>> \in Seq(Seq(Symbols))
    OBVIOUS
  <2>2. Fresh \in ReaderState
    BY <2>1 DEF Fresh, ReaderState
  <2> QED
    BY <2>1, <2>2, ReadIs
<1>2. ASSUME NEW s \in Seq(Symbols), NEW x \in Symbols, s \in S PROVE Append(s, x) \in S
  <2>1. Append(s, x) \in Seq(Symbols)
    OBVIOUS
  <2> QED
    BY <1>2, <2>1, ReadIs, ReadSymbolTyped
<1> HIDE DEF S
<1>3. Seq(Symbols) \subseteq S
  BY <1>1, <1>2, AppendInduction
<1> QED
  BY <1>3 DEF S

\* A carriage return tells the reader nothing.
LEMMA ReadStripped == \A s \in Seq(Symbols) : Read[StripCr[s]] = Read[s]
<1> DEFINE S == {s \in Seq(Symbols) : Read[StripCr[s]] = Read[s]}
<1>1. <<>> \in S
  <2>1. <<>> \in Seq(Symbols)
    OBVIOUS
  <2> QED
    BY <2>1, StripCrIs
<1>2. ASSUME NEW s \in Seq(Symbols), NEW x \in Symbols, s \in S PROVE Append(s, x) \in S
  <2>1. Append(s, x) \in Seq(Symbols) /\ StripCr[s] \in Seq(Symbols)
    BY StripCrClean, Alphabets
  <2>2. CASE x = "cr"
    <3>1. Read[Append(s, x)] = Read[s]
      BY <2>2, ReadIs DEF ReadSymbol
    <3> QED
      BY <1>2, <2>1, <2>2, <3>1, StripCrIs
  <2>3. CASE x # "cr"
    <3>1. Read[Append(StripCr[s], x)] = ReadSymbol(Read[StripCr[s]], x)
      BY <2>1, ReadIs
    <3> QED
      BY <1>2, <2>1, <2>3, <3>1, StripCrIs, ReadIs
  <2> QED
    BY <2>2, <2>3
<1> HIDE DEF S
<1>3. Seq(Symbols) \subseteq S
  BY <1>1, <1>2, AppendInduction
<1> QED
  BY <1>3 DEF S

\* The symbols of a line only collect.
LEMMA ReadLine ==
  ASSUME NEW a \in Seq(Symbols)
  PROVE  \A l \in Seq(InLine) :
            /\ Read[a \o l].line = Read[a].line \o l
            /\ Read[a \o l].data = Read[a].data
            /\ Read[a \o l].events = Read[a].events
<1> DEFINE Good(l) == /\ Read[a \o l].line = Read[a].line \o l
                      /\ Read[a \o l].data = Read[a].data
                      /\ Read[a \o l].events = Read[a].events
           S == {l \in Seq(InLine) : Good(l)}
<1>0. Read[a] \in ReaderState /\ Read[a].line \in Seq(Symbols)
  BY ReadTyped DEF ReaderState
<1>1. <<>> \in S
  <2>1. <<>> \in Seq(InLine) /\ a \o <<>> = a /\ Read[a].line \o <<>> = Read[a].line
    BY <1>0
  <2> QED
    BY <2>1
<1>2. ASSUME NEW l \in Seq(InLine), NEW x \in InLine, l \in S PROVE Append(l, x) \in S
  <2>1. l \in Seq(Symbols) /\ x \in Symbols /\ Append(l, x) \in Seq(InLine) /\ x # "cr" /\ x # "nl"
    BY Alphabets DEF InLine
  <2>2. \A u, v \in Seq(Symbols) : u \o Append(v, x) = Append(u \o v, x) /\ u \o v \in Seq(Symbols)
    BY <2>1, ConcatWithAppend
  <2>3. Read[a \o Append(l, x)] = ReadSymbol(Read[a \o l], x)
    BY <2>1, <2>2, ReadIs
  <2>4. ReadSymbol(Read[a \o l], x) = [Read[a \o l] EXCEPT !.line = Append(@, x)]
    BY <2>1 DEF ReadSymbol
  <2>5. Read[a \o l] \in ReaderState
    BY <2>1, <2>2, ReadTyped
  <2>6. /\ Read[a \o Append(l, x)].line = Append(Read[a \o l].line, x)
        /\ Read[a \o Append(l, x)].data = Read[a \o l].data
        /\ Read[a \o Append(l, x)].events = Read[a \o l].events
    BY <2>3, <2>4, <2>5 DEF ReaderState
  <2>7. Append(Read[a].line \o l, x) = Read[a].line \o Append(l, x)
    BY <1>0, <2>1, <2>2
  <2>8. Good(l)
    BY <1>2
  <2>9. Good(Append(l, x))
    BY <2>6, <2>7, <2>8
  <2> QED
    BY <2>1, <2>9
<1> HIDE DEF S
<1>3. Seq(InLine) \subseteq S
  BY <1>1, <1>2, AppendInduction
<1> QED
  BY <1>3 DEF S

\* What the reader dispatches depends on its line and its data only, and
\* nothing else depends on what it dispatched before.
Emitted(v, x) == IF x = "nl" /\ v.line = <<>> /\ v.data # <<>> THEN <<v.data>> ELSE <<>>

\* The line and the data decide how reading goes on.
LEMMA ReadSymbolFields ==
  ASSUME NEW v \in ReaderState, NEW w \in ReaderState, NEW x \in Symbols,
         v.line = w.line, v.data = w.data
  PROVE  /\ ReadSymbol(v, x).line = ReadSymbol(w, x).line
         /\ ReadSymbol(v, x).data = ReadSymbol(w, x).data
         /\ ReadSymbol(v, x).events = v.events \o Emitted(v, x)
         /\ Emitted(v, x) = Emitted(w, x) /\ Emitted(v, x) \in Seq(Seq(Symbols))
<1>1. v.events \in Seq(Seq(Symbols)) /\ v.data \in Seq(Symbols) /\ v.events \o <<>> = v.events
  BY DEF ReaderState
<1>2. Emitted(v, x) = Emitted(w, x) /\ Emitted(v, x) \in Seq(Seq(Symbols))
  BY <1>1 DEF Emitted
<1>3. CASE x = "cr"
  BY <1>1, <1>2, <1>3 DEF ReadSymbol, Emitted
<1>4. CASE x # "cr" /\ x # "nl"
  BY <1>1, <1>2, <1>4 DEF ReadSymbol, Emitted, ReaderState
<1>5. CASE x = "nl" /\ v.line = <<>>
  <2>1. Append(v.events, v.data) = v.events \o <<v.data>>
    BY <1>1, AppendIsConcat
  <2> QED
    BY <1>1, <1>2, <1>5, <2>1 DEF ReadSymbol, Emitted
<1>6. CASE x = "nl" /\ v.line # <<>>
  BY <1>1, <1>2, <1>6 DEF ReadSymbol, Emitted, ReaderState
<1> QED
  BY <1>3, <1>4, <1>5, <1>6

\* After a blank line the reader starts afresh, but for what it dispatched.
LEMMA ReadOn ==
  ASSUME NEW a \in Seq(Symbols), Read[a].line = <<>>, Read[a].data = <<>>
  PROVE  \A b \in Seq(Symbols) : Read[a \o b].events = Read[a].events \o Read[b].events
<1> DEFINE Good(b) == /\ Read[a \o b].line = Read[b].line
                      /\ Read[a \o b].data = Read[b].data
                      /\ Read[a \o b].events = Read[a].events \o Read[b].events
           S == {b \in Seq(Symbols) : Good(b)}
<1>0. Read[a].events \in Seq(Seq(Symbols))
  BY ReadTyped DEF ReaderState
<1>1. <<>> \in S
  <2>1. <<>> \in Seq(Symbols) /\ a \o <<>> = a /\ Read[a].events \o <<>> = Read[a].events
    BY <1>0
  <2>2. Read[<<>>].line = <<>> /\ Read[<<>>].data = <<>> /\ Read[<<>>].events = <<>>
    BY ReadIs DEF Fresh
  <2>3. Good(<<>>)
    BY <2>1, <2>2
  <2> QED
    BY <2>1, <2>3
<1>2. ASSUME NEW b \in Seq(Symbols), NEW x \in Symbols, b \in S PROVE Append(b, x) \in S
  <2>1. a \o Append(b, x) = Append(a \o b, x) /\ a \o b \in Seq(Symbols) /\ Append(b, x) \in Seq(Symbols)
    BY ConcatWithAppend
  <2>2. Read[Append(a \o b, x)] = ReadSymbol(Read[a \o b], x) /\ Read[Append(b, x)] = ReadSymbol(Read[b], x)
    BY <2>1, ReadIs
  <2>3. Read[a \o b] \in ReaderState /\ Read[b] \in ReaderState
    BY <2>1, ReadTyped
  <2>4. Good(b)
    BY <1>2
  <2>5. /\ ReadSymbol(Read[a \o b], x).line = ReadSymbol(Read[b], x).line
        /\ ReadSymbol(Read[a \o b], x).data = ReadSymbol(Read[b], x).data
        /\ ReadSymbol(Read[a \o b], x).events = Read[a \o b].events \o Emitted(Read[b], x)
        /\ ReadSymbol(Read[b], x).events = Read[b].events \o Emitted(Read[b], x)
        /\ Emitted(Read[b], x) \in Seq(Seq(Symbols))
    BY <2>3, <2>4, ReadSymbolFields
  <2>6. Read[b].events \in Seq(Seq(Symbols))
    BY <2>3 DEF ReaderState
  <2>7. \A e \in Seq(Seq(Symbols)) :
            (Read[a].events \o Read[b].events) \o e = Read[a].events \o (Read[b].events \o e)
    BY <1>0, <2>6, EventsAssociate
  <2>8. Good(Append(b, x))
    BY <2>1, <2>2, <2>4, <2>5, <2>7
  <2> QED
    BY <2>1, <2>8
<1> HIDE DEF S
<1>3. Seq(Symbols) \subseteq S
  BY <1>1, <1>2, AppendInduction
<1> QED
  BY <1>3 DEF S

-----------------------------------------------------------------------------
(* The decoder *)

LEMMA CollectTyped ==
  ASSUME NEW data \in Seq(Symbols), NEW line \in Seq(Symbols)
  PROVE  Collect(data, line) \in Seq(Symbols)
<1>1. <<"nl">> \in Seq(Symbols)
  BY Alphabets
<1>2. line # <<>> => Tail(line) \in Seq(Symbols)
  OBVIOUS
<1>3. line # <<>> => data \o <<"nl">> \o Tail(line) \in Seq(Symbols)
  <2>1. data \o <<"nl">> \in Seq(Symbols)
    BY <1>1
  <2> QED
    BY <1>2, <2>1
<1> QED
  BY <1>2, <1>3 DEF Collect

\* The last newline of an event, and what stands on its two sides.
LEMMA LastLineEnd ==
  ASSUME NEW e \in Seq(Symbols), LineEnds(e) # {}
  PROVE  /\ Max(LineEnds(e)) \in LineEnds(e) /\ \A i \in LineEnds(e) : i <= Max(LineEnds(e))
         /\ Max(LineEnds(e)) \in 1..Len(e)
         /\ SubSeq(e, 1, Max(LineEnds(e)) - 1) \in Seq(Symbols)
         /\ Len(SubSeq(e, 1, Max(LineEnds(e)) - 1)) < Len(e)
         /\ SubSeq(e, Max(LineEnds(e)) + 1, Len(e)) \in Seq(Symbols)
<1> DEFINE m == Max(LineEnds(e))
<1>1. Len(e) \in Nat /\ LineEnds(e) \in SUBSET (1..Len(e))
  BY DEF LineEnds
<1>2. m \in LineEnds(e) /\ \A i \in LineEnds(e) : i <= m
  BY <1>1, MaxOfSome
<1>3. m \in 1..Len(e)
  BY <1>1, <1>2
<1> HIDE DEF m
<1>4. SubSeq(e, 1, m - 1) \in Seq(Symbols) /\ Len(SubSeq(e, 1, m - 1)) = m - 1
  <2>1. m - 1 \in Int /\ \A i \in 1..m - 1 : e[i] \in Symbols
    BY <1>3
  <2>2. SubSeq(e, 1, m - 1) \in Seq(Symbols) /\ Len(SubSeq(e, 1, m - 1)) = IF 1 <= m - 1 THEN m - 1 - 1 + 1 ELSE 0
    BY <2>1, SubSeqProperties
  <2> QED
    BY <1>3, <2>2
<1>5. SubSeq(e, m + 1, Len(e)) \in Seq(Symbols)
  <2>1. m + 1 \in Int /\ Len(e) \in Int /\ \A i \in m + 1..Len(e) : e[i] \in Symbols
    BY <1>3
  <2> QED
    BY <2>1, SubSeqProperties
<1> QED
  BY <1>2, <1>3, <1>4, <1>5 DEF m

\* The data of an event is collected line by line.
LEMMA DataOfIs ==
    \A e \in Seq(Symbols) :
        /\ DataOf[e] \in Seq(Symbols)
        /\ LineEnds(e) = {} => DataOf[e] = Collect(<<>>, e)
        /\ LineEnds(e) # {} =>
              DataOf[e] = Collect(DataOf[SubSeq(e, 1, Max(LineEnds(e)) - 1)],
                                  SubSeq(e, Max(LineEnds(e)) + 1, Len(e)))
<1> DEFINE body(f, e) ==
               IF LineEnds(e) = {} THEN Collect(<<>>, e)
               ELSE LET end == Max(LineEnds(e))
                    IN Collect(f[SubSeq(e, 1, end - 1)], SubSeq(e, end + 1, Len(e)))
           rank == [e \in Seq(Symbols) |-> Len(e)]
           stop == {e \in Seq(Symbols) : LineEnds(e) = {}}
           base == [e \in Seq(Symbols) |-> Collect(<<>>, e)]
           next == [e \in Seq(Symbols) |-> SubSeq(e, 1, Max(LineEnds(e)) - 1)]
           combine == [ev \in Seq(Symbols) \X Seq(Symbols) |->
                         IF LineEnds(ev[1]) = {} THEN <<>>
                         ELSE Collect(ev[2], SubSeq(ev[1], Max(LineEnds(ev[1])) + 1, Len(ev[1])))]
<1>1. rank \in [Seq(Symbols) -> Nat] /\ stop \in SUBSET Seq(Symbols)
  OBVIOUS
<1>2. base \in [Seq(Symbols) -> Seq(Symbols)]
  <2>1. <<>> \in Seq(Symbols)
    OBVIOUS
  <2> QED
    BY <2>1, CollectTyped
<1>3. combine \in [Seq(Symbols) \X Seq(Symbols) -> Seq(Symbols)]
  <2>1. <<>> \in Seq(Symbols)
    OBVIOUS
  <2>2. ASSUME NEW e \in Seq(Symbols), NEW v \in Seq(Symbols), LineEnds(e) # {}
        PROVE  Collect(v, SubSeq(e, Max(LineEnds(e)) + 1, Len(e))) \in Seq(Symbols)
    BY <2>2, CollectTyped, LastLineEnd
  <2> QED
    BY <2>1, <2>2
<1>4. \A e \in Seq(Symbols) \ stop : next[e] \in Seq(Symbols) /\ rank[next[e]] < rank[e]
  BY LastLineEnd
<1>5. PICK f \in [Seq(Symbols) -> Seq(Symbols)] : Obeys(f, Seq(Symbols), stop, base, next, combine)
  <2> HIDE DEF rank, stop, base, next, combine
  <2> QED
    BY <1>1, <1>2, <1>3, <1>4, MeasureRecursion
<1>6. ASSUME NEW e \in Seq(Symbols) PROVE f[e] = body(f, e)
  <2>1. CASE LineEnds(e) = {}
    BY <1>5, <2>1 DEF Obeys
  <2>2. CASE LineEnds(e) # {}
    <3>1. f[e] = combine[<<e, f[next[e]]>>]
      <4>1. e \notin stop
        BY <2>2
      <4> HIDE DEF combine, next, stop
      <4> QED
        BY <1>5, <4>1 DEF Obeys
    <3>2. next[e] \in Seq(Symbols) /\ next[e] = SubSeq(e, 1, Max(LineEnds(e)) - 1)
      BY <2>2, LastLineEnd
    <3>3. <<e, f[next[e]]>> \in Seq(Symbols) \X Seq(Symbols)
      BY <3>2
    <3> QED
      BY <2>2, <3>1, <3>2, <3>3
  <2> QED
    BY <2>1, <2>2
<1>7. f = [e \in Seq(Symbols) |-> body(f, e)]
  BY <1>6
<1>8. DataOf = [e \in Seq(Symbols) |-> body(DataOf, e)]
  BY <1>7 DEF DataOf
<1> DEFINE S == {e \in Seq(Symbols) : DataOf[e] \in Seq(Symbols)}
<1>9. ASSUME NEW e \in Seq(Symbols), \A d \in Seq(Symbols) : Len(d) < Len(e) => d \in S PROVE e \in S
  <2>1. CASE LineEnds(e) = {}
    <3>1. DataOf[e] = Collect(<<>>, e) /\ <<>> \in Seq(Symbols)
      BY <1>8, <2>1
    <3>2. DataOf[e] \in Seq(Symbols)
      BY <3>1, CollectTyped
    <3> QED
      BY <3>2
  <2>2. CASE LineEnds(e) # {}
    <3>1. DataOf[e] = Collect(DataOf[SubSeq(e, 1, Max(LineEnds(e)) - 1)],
                              SubSeq(e, Max(LineEnds(e)) + 1, Len(e)))
      BY <1>8, <2>2
    <3>2. DataOf[SubSeq(e, 1, Max(LineEnds(e)) - 1)] \in Seq(Symbols)
      BY <1>9, <2>2, LastLineEnd
    <3>3. DataOf[e] \in Seq(Symbols)
      BY <2>2, <3>1, <3>2, CollectTyped, LastLineEnd
    <3> QED
      BY <3>3
  <2> QED
    BY <2>1, <2>2
<1> HIDE DEF S
<1>10. Seq(Symbols) \subseteq S
  BY <1>9, LengthInduction
<1> QED
  BY <1>8, <1>10 DEF S

\* The first blank line of what is pending, and what stands on its two sides.
LEMMA FirstBlankLine ==
  ASSUME NEW p \in Seq(Symbols), BlankLines(p) # {}
  PROVE  /\ Min(BlankLines(p)) \in BlankLines(p) /\ \A i \in BlankLines(p) : Min(BlankLines(p)) <= i
         /\ Min(BlankLines(p)) \in 1..Len(p) - 1
         /\ SubSeq(p, 1, Min(BlankLines(p)) - 1) \in Seq(Symbols)
         /\ SubSeq(p, Min(BlankLines(p)) + 2, Len(p)) \in Seq(Symbols)
         /\ Len(SubSeq(p, Min(BlankLines(p)) + 2, Len(p))) < Len(p)
<1> DEFINE m == Min(BlankLines(p))
<1>1. Len(p) \in Nat /\ BlankLines(p) \in SUBSET (1..Len(p) - 1) /\ BlankLines(p) \in SUBSET Nat
  BY DEF BlankLines
<1>2. m \in BlankLines(p) /\ \A i \in BlankLines(p) : m <= i
  BY <1>1, MinOfSome
<1>3. m \in 1..Len(p) - 1
  BY <1>1, <1>2
<1> HIDE DEF m
<1>4. SubSeq(p, 1, m - 1) \in Seq(Symbols)
  <2>1. 1 \in Int /\ m - 1 \in Int /\ \A i \in 1..m - 1 : p[i] \in Symbols
    BY <1>3
  <2> QED
    BY <2>1, SubSeqProperties
<1>5. SubSeq(p, m + 2, Len(p)) \in Seq(Symbols) /\ Len(SubSeq(p, m + 2, Len(p))) < Len(p)
  <2>1. m + 2 \in Int /\ Len(p) \in Int /\ \A i \in m + 2..Len(p) : p[i] \in Symbols
    BY <1>3
  <2>2. /\ SubSeq(p, m + 2, Len(p)) \in Seq(Symbols)
        /\ Len(SubSeq(p, m + 2, Len(p))) = IF m + 2 <= Len(p) THEN Len(p) - (m + 2) + 1 ELSE 0
    BY <2>1, SubSeqProperties
  <2> QED
    BY <1>3, <2>2
<1> QED
  BY <1>2, <1>3, <1>4, <1>5 DEF m

Extracted == [events : Seq(Seq(Symbols)), pending : Seq(Symbols)]

\* An event without data is none.
Event(data) == IF data = <<>> THEN <<>> ELSE <<data>>

\* Events are cut off one after the other.
LEMMA ExtractIs ==
    \A p \in Seq(Symbols) :
        /\ Extract[p] \in Extracted
        /\ BlankLines(p) = {} => Extract[p] = [events |-> <<>>, pending |-> p]
        /\ BlankLines(p) # {} =>
              /\ Extract[p].events = Event(DataOf[SubSeq(p, 1, Min(BlankLines(p)) - 1)])
                                        \o Extract[SubSeq(p, Min(BlankLines(p)) + 2, Len(p))].events
              /\ Extract[p].pending = Extract[SubSeq(p, Min(BlankLines(p)) + 2, Len(p))].pending
<1> DEFINE body(f, p) ==
               IF BlankLines(p) = {} THEN [events |-> <<>>, pending |-> p]
               ELSE LET end == Min(BlankLines(p))
                        data == DataOf[SubSeq(p, 1, end - 1)]
                        more == f[SubSeq(p, end + 2, Len(p))]
                    IN [events |-> (IF data = <<>> THEN <<>> ELSE <<data>>) \o more.events,
                        pending |-> more.pending]
           one(p) == Event(DataOf[SubSeq(p, 1, Min(BlankLines(p)) - 1)])
           rank == [p \in Seq(Symbols) |-> Len(p)]
           stop == {p \in Seq(Symbols) : BlankLines(p) = {}}
           base == [p \in Seq(Symbols) |-> [events |-> <<>>, pending |-> p]]
           next == [p \in Seq(Symbols) |-> SubSeq(p, Min(BlankLines(p)) + 2, Len(p))]
           combine == [pv \in Seq(Symbols) \X Extracted |->
                         IF BlankLines(pv[1]) = {} THEN [events |-> <<>>, pending |-> <<>>]
                         ELSE [events |-> one(pv[1]) \o pv[2].events, pending |-> pv[2].pending]]
<1>1. rank \in [Seq(Symbols) -> Nat] /\ stop \in SUBSET Seq(Symbols)
  OBVIOUS
<1>2. base \in [Seq(Symbols) -> Extracted]
  BY DEF Extracted
<1>e. ASSUME NEW p \in Seq(Symbols), BlankLines(p) # {}, NEW v \in Extracted
      PROVE  [events |-> one(p) \o v.events, pending |-> v.pending] \in Extracted
  <2>1. v.events \in Seq(Seq(Symbols)) /\ v.pending \in Seq(Symbols)
    BY DEF Extracted
  <2>2. DataOf[SubSeq(p, 1, Min(BlankLines(p)) - 1)] \in Seq(Symbols)
    BY <1>e, FirstBlankLine, DataOfIs
  <2>3. one(p) \in Seq(Seq(Symbols))
    BY <2>2 DEF Event
  <2> HIDE DEF one
  <2>4. one(p) \o v.events \in Seq(Seq(Symbols))
    BY <2>1, <2>3
  <2> QED
    BY <2>1, <2>4 DEF Extracted
<1>3. combine \in [Seq(Symbols) \X Extracted -> Extracted]
  <2>1. [events |-> <<>>, pending |-> <<>>] \in Extracted
    <3>1. <<>> \in Seq(Symbols) /\ <<>> \in Seq(Seq(Symbols))
      OBVIOUS
    <3> QED
      BY <3>1 DEF Extracted
  <2> HIDE DEF one
  <2> QED
    BY <1>e, <2>1
<1>4. \A p \in Seq(Symbols) \ stop : next[p] \in Seq(Symbols) /\ rank[next[p]] < rank[p]
  BY FirstBlankLine
<1>5. PICK f \in [Seq(Symbols) -> Extracted] : Obeys(f, Seq(Symbols), stop, base, next, combine)
  <2> HIDE DEF rank, stop, base, next, combine
  <2> QED
    BY <1>1, <1>2, <1>3, <1>4, MeasureRecursion
<1>6. ASSUME NEW p \in Seq(Symbols) PROVE f[p] = body(f, p)
  <2>1. CASE BlankLines(p) = {}
    BY <1>5, <2>1 DEF Obeys
  <2>2. CASE BlankLines(p) # {}
    <3>1. f[p] = combine[<<p, f[next[p]]>>]
      <4>1. p \notin stop
        BY <2>2
      <4> HIDE DEF combine, next, stop
      <4> QED
        BY <1>5, <4>1 DEF Obeys
    <3>2. next[p] \in Seq(Symbols) /\ next[p] = SubSeq(p, Min(BlankLines(p)) + 2, Len(p))
      BY <2>2, FirstBlankLine
    <3>3. <<p, f[next[p]]>> \in Seq(Symbols) \X Extracted
      BY <3>2
    <3> QED
      BY <2>2, <3>1, <3>2, <3>3 DEF Event
  <2> QED
    BY <2>1, <2>2
<1>7. f = [p \in Seq(Symbols) |-> body(f, p)]
  BY <1>6
<1>8. Extract = [p \in Seq(Symbols) |-> body(Extract, p)]
  BY <1>7 DEF Extract
<1>9. ASSUME NEW p \in Seq(Symbols), BlankLines(p) # {}
      PROVE  Extract[p] = [events |-> one(p) \o Extract[SubSeq(p, Min(BlankLines(p)) + 2, Len(p))].events,
                           pending |-> Extract[SubSeq(p, Min(BlankLines(p)) + 2, Len(p))].pending]
  BY <1>8, <1>9 DEF Event
<1>10. ASSUME NEW p \in Seq(Symbols), BlankLines(p) = {}
       PROVE  Extract[p] = [events |-> <<>>, pending |-> p]
  BY <1>8, <1>10
<1> DEFINE S == {p \in Seq(Symbols) : Extract[p] \in Extracted}
<1>11. ASSUME NEW p \in Seq(Symbols), \A d \in Seq(Symbols) : Len(d) < Len(p) => d \in S PROVE p \in S
  <2>1. CASE BlankLines(p) = {}
    <3>1. <<>> \in Seq(Seq(Symbols))
      OBVIOUS
    <3>2. [events |-> <<>>, pending |-> p] \in Extracted
      BY <3>1 DEF Extracted
    <3>3. Extract[p] = [events |-> <<>>, pending |-> p]
      BY <1>10, <2>1
    <3> QED
      BY <3>2, <3>3
  <2>2. CASE BlankLines(p) # {}
    <3>1. Extract[SubSeq(p, Min(BlankLines(p)) + 2, Len(p))] \in Extracted
      BY <1>11, <2>2, FirstBlankLine
    <3>2. Extract[p] \in Extracted
      BY <1>9, <1>e, <2>2, <3>1
    <3> QED
      BY <3>2
  <2> QED
    BY <2>1, <2>2
<1> HIDE DEF S
<1>12. Seq(Symbols) \subseteq S
  BY <1>11, LengthInduction
<1>13. \A p \in Seq(Symbols) : Extract[p] \in Extracted
  BY <1>12 DEF S
<1>14. ASSUME NEW p \in Seq(Symbols), BlankLines(p) # {}
       PROVE  /\ Extract[p].events = one(p) \o Extract[SubSeq(p, Min(BlankLines(p)) + 2, Len(p))].events
              /\ Extract[p].pending = Extract[SubSeq(p, Min(BlankLines(p)) + 2, Len(p))].pending
  <2> DEFINE r == SubSeq(p, Min(BlankLines(p)) + 2, Len(p))
  <2>1. Extract[p] = [events |-> one(p) \o Extract[r].events, pending |-> Extract[r].pending]
    BY <1>8, <1>14 DEF Event
  <2> HIDE DEF one, r
  <2>2. Extract[p].events = one(p) \o Extract[r].events /\ Extract[p].pending = Extract[r].pending
    BY <2>1
  <2> QED
    BY <2>2 DEF r
<1> QED
  <2> TAKE p \in Seq(Symbols)
  <2>1. BlankLines(p) = {} => Extract[p] = [events |-> <<>>, pending |-> p]
    BY <1>10
  <2> QED
    BY <1>13, <1>14, <2>1

-----------------------------------------------------------------------------
(* A buffer, event by event and line by line *)

\* An event with more than one line is an event and its last line.
LEMMA LastLine ==
  ASSUME NEW e \in Seq(Clean), LineEnds(e) # {}
  PROVE  \E u \in Seq(Clean), l \in Seq(InLine) :
             /\ e = Append(u, "nl") \o l
             /\ Len(u) < Len(e)
             /\ DataOf[e] = Collect(DataOf[u], l)
<1> DEFINE m == Max(LineEnds(e))
           u == SubSeq(e, 1, m - 1)
           l == SubSeq(e, m + 1, Len(e))
<1>0. e \in Seq(Symbols)
  BY Alphabets
<1>1. /\ m \in 1..Len(e) /\ e[m] = "nl"
      /\ \A i \in 1..Len(e) : e[i] = "nl" => i <= m
  BY <1>0, LastLineEnd DEF LineEnds
<1>2. DataOf[e] = Collect(DataOf[u], l)
  BY <1>0, DataOfIs
<1> HIDE DEF m
<1>3. /\ u \in Seq(Clean) /\ Len(u) = m - 1
      /\ l \in Seq(Clean) /\ Len(l) = Len(e) - m
      /\ e = Append(u, "nl") \o l
  <2>1. /\ u \in Seq(Clean) /\ Len(u) = m - 1
        /\ l \in Seq(Clean) /\ Len(l) = Len(e) - m
        /\ e = Append(u, e[m]) \o l
    BY <1>1, CutAt
  <2> QED
    BY <1>1, <2>1
<1> HIDE DEF u, l
<1>4. l \in Seq(InLine)
  <2>1. "nl" \in Clean
    BY Alphabets
  <2>2. \A i \in 1..Len(l) : e[Len(u) + 1 + i] = l[i]
    <3>1. \A i \in 1..Len(l) : (Append(u, "nl") \o l)[Len(u) + 1 + i] = l[i]
      BY <1>3, <2>1, JoinAt
    <3> QED
      BY <1>3, <3>1
  <2>3. ASSUME NEW i \in 1..Len(l) PROVE l[i] \in InLine
    <3>1. Len(u) + 1 + i \in 1..Len(e) /\ Len(u) + 1 + i > m
      BY <1>1, <1>3
    <3>2. l[i] # "nl"
      BY <1>1, <2>2, <3>1
    <3>3. l[i] \in Clean
      BY <1>3
    <3> QED
      BY <3>2, <3>3 DEF Clean, InLine
  <2> QED
    BY <1>3, <2>3, SeqOfElements
<1>5. Len(u) < Len(e)
  BY <1>1, <1>3
<1> QED
  BY <1>2, <1>3, <1>4, <1>5

\* A buffer with a blank line is an event, the blank line and the rest.
LEMMA FirstEvent ==
  ASSUME NEW A \in SUBSET Symbols, NEW p \in Seq(A), BlankLines(p) # {}
  PROVE  \E e \in Seq(A), r \in Seq(A) :
             /\ p = Append(Append(e, "nl"), "nl") \o r
             /\ "nl" \in A
             /\ BlankLines(Append(e, "nl")) = {}
             /\ Len(r) < Len(p)
<1> DEFINE m == Min(BlankLines(p))
           n == m + 1
           w == SubSeq(p, 1, n - 1)
           r == SubSeq(p, n + 1, Len(p))
<1>0. p \in Seq(Symbols)
  <2>1. \A q \in Seq(A) : q \in Seq(Symbols)
    BY SeqMonotonic
  <2> QED
    BY <2>1
<1>1. /\ m \in 1..Len(p) - 1 /\ p[m] = "nl" /\ p[m + 1] = "nl"
      /\ \A i \in 1..Len(p) - 1 : p[i] = "nl" /\ p[i + 1] = "nl" => m <= i
  BY <1>0, FirstBlankLine DEF BlankLines
<1> HIDE DEF m
<1>2. /\ n \in 1..Len(p) /\ m \in Nat /\ m >= 1 /\ n - 1 = m /\ Len(p) \in Nat
      /\ p[n] = "nl" /\ n = m + 1
  BY <1>1
<1> HIDE DEF n
<1>3. /\ w \in Seq(A) /\ Len(w) = m
      /\ r \in Seq(A) /\ Len(r) < Len(p)
      /\ p = Append(w, "nl") \o r
  <2>1. /\ w \in Seq(A) /\ Len(w) = n - 1
        /\ r \in Seq(A) /\ Len(r) = Len(p) - n
        /\ p = Append(w, p[n]) \o r
    BY <1>2, CutAt
  <2> HIDE DEF w, r
  <2>2. Len(w) = m /\ Len(r) < Len(p)
    BY <1>2, <2>1
  <2> QED
    BY <1>2, <2>1, <2>2
<1> HIDE DEF w, r
<1>4. "nl" \in A
  BY <1>2
<1>5. \A i \in 1..m : p[i] = w[i]
  <2>1. \A i \in 1..Len(w) : (Append(w, "nl") \o r)[i] = w[i]
    BY <1>3, <1>4, JoinAt
  <2> QED
    BY <1>3, <2>1
<1>6. BlankLines(w) = {}
  <2> SUFFICES ASSUME NEW i \in BlankLines(w) PROVE FALSE
    OBVIOUS
  <2>1. i \in 1..m - 1 /\ w[i] = "nl" /\ w[i + 1] = "nl"
    BY <1>3 DEF BlankLines
  <2>2. i \in 1..m /\ i + 1 \in 1..m /\ i \in 1..Len(p) - 1 /\ ~(m <= i)
    BY <1>2, <2>1
  <2>3. p[i] = w[i] /\ p[i + 1] = w[i + 1]
    BY <1>5, <2>2
  <2> QED
    BY <1>1, <2>1, <2>2, <2>3
<1>7. Front(w) \in Seq(A) /\ w = Append(Front(w), "nl")
  <2>1. w # <<>>
    BY <1>2, <1>3
  <2>2. Front(w) \in Seq(A) /\ w = Append(Front(w), Last(w))
    BY <1>3, <2>1, FrontAndLast
  <2>3. Last(w) = w[m] /\ m \in 1..m
    BY <1>2, <1>3 DEF Last
  <2> HIDE DEF Front, Last
  <2> QED
    BY <1>1, <1>5, <2>2, <2>3
<1> QED
  BY <1>3, <1>4, <1>6, <1>7

\* The first event is the first one handed over.
LEMMA ExtractOne ==
  ASSUME NEW e \in Seq(Symbols), NEW r \in Seq(Symbols), BlankLines(Append(e, "nl")) = {}
  PROVE  /\ Extract[Append(Append(e, "nl"), "nl") \o r].events = Event(DataOf[e]) \o Extract[r].events
         /\ Extract[Append(Append(e, "nl"), "nl") \o r].pending = Extract[r].pending
<1> DEFINE w == Append(e, "nl")
           c == Append(w, "nl") \o r
           k == Len(e) + 1
<1>0. "nl" \in Symbols
  BY DEF Symbols
<1>1. /\ w \in Seq(Symbols) /\ Len(w) = k
      /\ \A i \in 1..Len(e) : w[i] = e[i]
      /\ w[k] = "nl"
  BY <1>0, AppendProperties
<1>2. k \in Nat /\ k >= 1 /\ k - 1 = Len(e)
  OBVIOUS
<1> HIDE DEF w, k
<1>3. /\ c \in Seq(Symbols)
      /\ Len(c) = k + 1 + Len(r) /\ Len(r) \in Nat
      /\ \A i \in 1..k : c[i] = w[i]
      /\ c[k + 1] = "nl"
      /\ SubSeq(c, k + 2, Len(c)) = r
  <2>1. \A u, v \in Seq(Symbols), x \in Symbols :
            /\ Append(u, x) \o v \in Seq(Symbols)
            /\ Len(Append(u, x) \o v) = Len(u) + 1 + Len(v)
            /\ \A i \in 1..Len(u) : (Append(u, x) \o v)[i] = u[i]
            /\ (Append(u, x) \o v)[Len(u) + 1] = x
            /\ SubSeq(Append(u, x) \o v, Len(u) + 2, Len(Append(u, x) \o v)) = v
    BY JoinAt
  <2>2. /\ c \in Seq(Symbols)
        /\ Len(c) = Len(w) + 1 + Len(r)
        /\ \A i \in 1..Len(w) : c[i] = w[i]
        /\ c[Len(w) + 1] = "nl"
        /\ SubSeq(c, Len(w) + 2, Len(c)) = r
    BY <1>0, <1>1, <2>1
  <2> HIDE DEF c
  <2> QED
    BY <1>1, <2>2
<1> HIDE DEF c
<1>4. k \in BlankLines(c)
  <2>1. k \in 1..Len(c) - 1 /\ k \in 1..k
    BY <1>2, <1>3
  <2> QED
    BY <1>1, <1>3, <2>1 DEF BlankLines
<1>5. ASSUME NEW i \in BlankLines(c) PROVE k <= i
  <2> SUFFICES ASSUME i < k PROVE FALSE
    <3>1. i \in Nat
      BY DEF BlankLines
    <3> QED
      BY <1>2, <3>1
  <2>1. i \in 1..k - 1 /\ i \in 1..k /\ i + 1 \in 1..k /\ c[i] = "nl" /\ c[i + 1] = "nl"
    BY <1>2 DEF BlankLines
  <2>2. w[i] = "nl" /\ w[i + 1] = "nl"
    BY <1>3, <2>1
  <2>3. i \in BlankLines(w)
    BY <1>1, <2>1, <2>2 DEF BlankLines
  <2> QED
    BY <2>3 DEF w
<1>6. Min(BlankLines(c)) = k
  <2>1. BlankLines(c) \in SUBSET Nat
    BY DEF BlankLines
  <2>2. Min(BlankLines(c)) \in BlankLines(c) /\ Min(BlankLines(c)) <= k
    BY <1>4, <2>1, MinOfSome
  <2>3. k <= Min(BlankLines(c)) /\ Min(BlankLines(c)) \in Nat
    BY <1>5, <2>1, <2>2
  <2> QED
    BY <1>2, <2>2, <2>3
<1>7. SubSeq(c, 1, k - 1) = e
  <2>1. ASSUME NEW i \in 1..Len(e) PROVE c[i] = e[i]
    <3>1. i \in 1..k
      BY <1>2
    <3> QED
      BY <1>1, <1>3, <3>1
  <2>2. SubSeq(c, 1, Len(e)) = e
    BY <1>3, <2>1, StartsWith
  <2> QED
    BY <1>2, <2>2
<1>8. /\ Extract[c].events = Event(DataOf[SubSeq(c, 1, k - 1)]) \o Extract[SubSeq(c, k + 2, Len(c))].events
      /\ Extract[c].pending = Extract[SubSeq(c, k + 2, Len(c))].pending
  BY <1>3, <1>4, <1>6, ExtractIs
<1>9. /\ Extract[c].events = Event(DataOf[e]) \o Extract[r].events
      /\ Extract[c].pending = Extract[r].pending
  BY <1>3, <1>7, <1>8
<1> QED
  BY <1>9 DEF c, w

-----------------------------------------------------------------------------
(* The decoder and the reader agree *)

\* A newline ends the line that was read: its payload joins the data.
LEMMA ReadLineEnd ==
  ASSUME NEW v \in ReaderState
  PROVE  /\ ReadSymbol(v, "nl").line = <<>>
         /\ v.line # <<>> => /\ ReadSymbol(v, "nl").data = Collect(v.data, v.line)
                             /\ ReadSymbol(v, "nl").events = v.events
         /\ v.line = <<>> => /\ ReadSymbol(v, "nl").data = <<>>
                             /\ ReadSymbol(v, "nl").events = v.events \o Event(v.data)
<1>1. v.events \in Seq(Seq(Symbols)) /\ v.data \in Seq(Symbols) /\ v.events \o <<>> = v.events
  BY DEF ReaderState
<1>2. CASE v.line = <<>>
  <2>1. Append(v.events, v.data) = v.events \o <<v.data>>
    BY <1>1, AppendIsConcat
  <2> QED
    BY <1>1, <1>2, <2>1 DEF ReadSymbol, Event
<1>3. CASE v.line # <<>>
  BY <1>1, <1>3 DEF ReadSymbol, Collect, ReaderState
<1> QED
  BY <1>2, <1>3

\* Read to the end of its last line, an event without a blank line is all in
\* the reader's data.
LEMMA ReadEvent ==
    \A e \in Seq(Clean) : BlankLines(Append(e, "nl")) = {} =>
        /\ Read[Append(e, "nl")].line = <<>>
        /\ Read[Append(e, "nl")].data = DataOf[e]
        /\ Read[Append(e, "nl")].events = <<>>
        /\ Read[e].events = <<>>
<1> DEFINE Good(e) == /\ Read[Append(e, "nl")].line = <<>>
                      /\ Read[Append(e, "nl")].data = DataOf[e]
                      /\ Read[Append(e, "nl")].events = <<>>
                      /\ Read[e].events = <<>>
           S == {e \in Seq(Clean) : BlankLines(Append(e, "nl")) = {} => Good(e)}
<1>1. ASSUME NEW e \in Seq(Clean), \A d \in Seq(Clean) : Len(d) < Len(e) => d \in S,
             BlankLines(Append(e, "nl")) = {}
      PROVE  Good(e)
  <2>0. e \in Seq(Symbols) /\ "nl" \in Symbols /\ "nl" \in Clean
    BY Alphabets
  <2>1. Read[Append(e, "nl")] = ReadSymbol(Read[e], "nl") /\ Read[e] \in ReaderState
    BY <2>0, ReadIs, ReadTyped
  <2>2. CASE LineEnds(e) = {}
    <3>1. e \in Seq(InLine)
      <4>1. ASSUME NEW i \in 1..Len(e) PROVE e[i] \in InLine
        <5>1. e[i] # "nl" /\ e[i] \in Clean
          BY <2>2 DEF LineEnds
        <5> QED
          BY <5>1 DEF Clean, InLine
      <4> QED
        BY <4>1, SeqOfElements
    <3>2. <<>> \in Seq(Symbols) /\ <<>> \o e = e
      BY <2>0
    <3>3. Read[<<>>].line = <<>> /\ Read[<<>>].data = <<>> /\ Read[<<>>].events = <<>>
      BY ReadIs DEF Fresh
    <3>4. Read[e].line = e /\ Read[e].data = <<>> /\ Read[e].events = <<>>
      BY <3>1, <3>2, <3>3, ReadLine
    <3>5. DataOf[e] = Collect(<<>>, e)
      BY <2>0, <2>2, DataOfIs
    <3>6. CASE e = <<>>
      <4>1. ReadSymbol(Read[e], "nl").line = <<>> /\ ReadSymbol(Read[e], "nl").data = <<>>
        BY <2>0, <2>1, <3>4, <3>6, ReadLineEnd
      <4>2. ReadSymbol(Read[e], "nl").events = <<>>
        BY <3>4, <3>6 DEF ReadSymbol
      <4>3. DataOf[e] = <<>>
        BY <3>5, <3>6 DEF Collect
      <4> QED
        BY <2>1, <3>4, <4>1, <4>2, <4>3
    <3>7. CASE e # <<>>
      <4>1. /\ ReadSymbol(Read[e], "nl").line = <<>>
            /\ ReadSymbol(Read[e], "nl").data = Collect(Read[e].data, Read[e].line)
            /\ ReadSymbol(Read[e], "nl").events = Read[e].events
        BY <2>0, <2>1, <3>4, <3>7, ReadLineEnd
      <4> QED
        BY <2>1, <3>4, <3>5, <4>1
    <3> QED
      BY <3>6, <3>7
  <2>3. CASE LineEnds(e) # {}
    <3>1. PICK u \in Seq(Clean), l \in Seq(InLine) :
              /\ e = Append(u, "nl") \o l
              /\ Len(u) < Len(e)
              /\ DataOf[e] = Collect(DataOf[u], l)
      BY <2>3, LastLine
    <3> DEFINE w == Append(u, "nl")
    <3>2. w \in Seq(Clean) /\ l \in Seq(Clean) /\ w \in Seq(Symbols) /\ l \in Seq(Symbols)
      BY <2>0, Alphabets
    <3>3. e[Len(w)] = "nl" /\ \A i \in 1..Len(w) : e[i] = w[i]
      BY <2>0, <3>1, <3>2
    <3>4. Len(w) \in Nat /\ Len(w) >= 1 /\ Len(e) = Len(w) + Len(l) /\ Len(l) \in Nat
      BY <3>1, <3>2
    <3> DEFINE f == Append(e, "nl")
    <3>5. Len(f) = Len(e) + 1 /\ f[Len(e) + 1] = "nl" /\ \A i \in 1..Len(e) : f[i] = e[i]
      BY <2>0, AppendProperties
    <3> HIDE DEF w, f
    <3>6. BlankLines(f) = {}
      BY <1>1 DEF f
    <3>7. BlankLines(w) = {}
      <4> SUFFICES ASSUME NEW i \in BlankLines(w) PROVE FALSE
        OBVIOUS
      <4>1. i \in 1..Len(w) - 1 /\ w[i] = "nl" /\ w[i + 1] = "nl"
        BY DEF BlankLines
      <4>2. i \in 1..Len(w) /\ i + 1 \in 1..Len(w) /\ i \in 1..Len(e) /\ i + 1 \in 1..Len(e) /\ i \in 1..Len(f) - 1
        BY <3>4, <3>5, <4>1
      <4>3. f[i] = "nl" /\ f[i + 1] = "nl"
        BY <3>3, <3>5, <4>1, <4>2
      <4>4. i \in BlankLines(f)
        BY <4>2, <4>3 DEF BlankLines
      <4> QED
        BY <3>6, <4>4
    <3>8. l # <<>>
      <4> SUFFICES ASSUME l = <<>> PROVE FALSE
        OBVIOUS
      <4>1. Len(e) = Len(w)
        BY <3>4
      <4>2. Len(e) \in 1..Len(e) /\ Len(e) \in 1..Len(f) - 1
        BY <3>4, <3>5, <4>1
      <4>3. f[Len(e)] = "nl" /\ f[Len(e) + 1] = "nl"
        BY <3>3, <3>5, <4>1, <4>2
      <4>4. Len(e) \in BlankLines(f)
        BY <4>2, <4>3 DEF BlankLines
      <4> QED
        BY <3>6, <4>4
    <3>9. /\ Read[w].line = <<>>
          /\ Read[w].data = DataOf[u]
          /\ Read[w].events = <<>>
      BY <1>1, <3>1, <3>7 DEF w
    <3>10. <<>> \o l = l
      BY <3>2
    <3>11. Read[e].line = l /\ Read[e].data = DataOf[u] /\ Read[e].events = <<>>
      <4>1. /\ Read[w \o l].line = Read[w].line \o l
            /\ Read[w \o l].data = Read[w].data
            /\ Read[w \o l].events = Read[w].events
        BY <3>2, ReadLine
      <4>2. w \o l = e
        BY <3>1 DEF w
      <4> QED
        BY <3>9, <3>10, <4>1, <4>2
    <3>12. /\ ReadSymbol(Read[e], "nl").line = <<>>
           /\ ReadSymbol(Read[e], "nl").data = Collect(Read[e].data, Read[e].line)
           /\ ReadSymbol(Read[e], "nl").events = Read[e].events
      BY <2>1, <3>2, <3>8, <3>11, ReadLineEnd
    <3> QED
      BY <2>1, <3>1, <3>11, <3>12
  <2> QED
    BY <2>2, <2>3
<1>2. ASSUME NEW e \in Seq(Clean), \A d \in Seq(Clean) : Len(d) < Len(e) => d \in S PROVE e \in S
  <2> HIDE DEF Good
  <2> QED
    BY <1>1, <1>2
<1> HIDE DEF S
<1>3. Seq(Clean) \subseteq S
  BY <1>2, LengthInduction
<1> QED
  BY <1>3 DEF S

\* Where there is no blank line nothing is dispatched.
LEMMA ReadNothing ==
  ASSUME NEW p \in Seq(Clean), BlankLines(p) = {}
  PROVE  Read[p].events = <<>>
<1>0. p \in Seq(Symbols) /\ "nl" \in Symbols
  BY Alphabets
<1>1. CASE BlankLines(Append(p, "nl")) = {}
  BY <1>1, ReadEvent
\* Then p ends with a newline: it is an event, read to the end of its last line.
<1>2. CASE BlankLines(Append(p, "nl")) # {}
  <2> DEFINE f == Append(p, "nl")
  <2>1. f \in Seq(Symbols) /\ Len(f) = Len(p) + 1 /\ \A i \in 1..Len(p) : f[i] = p[i]
    BY <1>0, AppendProperties
  <2> HIDE DEF f
  <2>2. PICK i \in BlankLines(f) : TRUE
    BY <1>2 DEF f
  <2>3. i \in 1..Len(p) /\ f[i] = "nl" /\ f[i + 1] = "nl" /\ Len(p) \in Nat
    BY <2>1 DEF BlankLines
  <2>4. i = Len(p)
    <3> SUFFICES ASSUME i # Len(p) PROVE FALSE
      OBVIOUS
    <3>1. i \in 1..Len(p) - 1 /\ i + 1 \in 1..Len(p)
      BY <2>3
    <3>2. i \in BlankLines(p)
      BY <2>1, <2>3, <3>1 DEF BlankLines
    <3> QED
      BY <3>2
  <2>5. p # <<>> /\ p[Len(p)] = "nl"
    BY <2>1, <2>3, <2>4
  <2>6. Front(p) \in Seq(Clean) /\ p = Append(Front(p), "nl")
    <3>1. Front(p) \in Seq(Clean) /\ p = Append(Front(p), Last(p)) /\ Last(p) = p[Len(p)]
      BY <2>5, FrontAndLast DEF Last
    <3> QED
      BY <2>5, <3>1
  <2> HIDE DEF Front
  <2> QED
    BY <2>6, ReadEvent
<1> QED
  BY <1>1, <1>2

\* The decoder hands over what the reader dispatches.
LEMMA ExtractReads == \A p \in Seq(Clean) : Extract[p].events = Read[p].events
<1> DEFINE S == {p \in Seq(Clean) : Extract[p].events = Read[p].events}
<1>1. ASSUME NEW p \in Seq(Clean), \A q \in Seq(Clean) : Len(q) < Len(p) => q \in S PROVE p \in S
  <2>0. p \in Seq(Symbols)
    BY Alphabets
  <2>1. CASE BlankLines(p) = {}
    <3>1. Extract[p] = [events |-> <<>>, pending |-> p]
      BY <2>0, <2>1, ExtractIs
    <3>2. Read[p].events = <<>>
      BY <2>1, ReadNothing
    <3> QED
      BY <3>1, <3>2
  <2>2. CASE BlankLines(p) # {}
    <3>0. Clean \in SUBSET Symbols
      BY DEF Clean
    <3>1. PICK e \in Seq(Clean), r \in Seq(Clean) :
              /\ p = Append(Append(e, "nl"), "nl") \o r
              /\ "nl" \in Clean
              /\ BlankLines(Append(e, "nl")) = {}
              /\ Len(r) < Len(p)
      BY <2>2, <3>0, FirstEvent
    <3> DEFINE w == Append(e, "nl")
               c == Append(w, "nl")
    <3>2. /\ e \in Seq(Symbols) /\ r \in Seq(Symbols) /\ "nl" \in Symbols
          /\ w \in Seq(Symbols) /\ c \in Seq(Symbols)
      BY <3>1, Alphabets
    <3>3. Extract[p].events = Event(DataOf[e]) \o Extract[r].events
      BY <3>1, <3>2, ExtractOne
    <3>4. Read[w].line = <<>> /\ Read[w].data = DataOf[e] /\ Read[w].events = <<>>
      BY <3>1, ReadEvent
    <3> HIDE DEF w
    <3>5. Read[c] = ReadSymbol(Read[w], "nl") /\ Read[w] \in ReaderState
      BY <3>2, ReadIs, ReadTyped
    <3>6. <<>> \in Seq(Symbols) /\ Event(DataOf[e]) \in Seq(Seq(Symbols))
      <4>1. DataOf[e] \in Seq(Symbols)
        BY <3>2, DataOfIs
      <4> QED
        BY <4>1 DEF Event
    <3>7. <<>> \o Event(DataOf[e]) = Event(DataOf[e])
      BY <3>6
    <3>8. Read[c].line = <<>> /\ Read[c].data = <<>> /\ Read[c].events = Event(DataOf[e])
      BY <3>4, <3>5, <3>6, <3>7, ReadLineEnd
    <3>9. Read[c \o r].events = Read[c].events \o Read[r].events
      BY <3>2, <3>8, ReadOn
    <3>10. Extract[r].events = Read[r].events
      BY <1>1, <3>1
    <3>11. p = c \o r
      BY <3>1 DEF w
    <3> QED
      BY <3>3, <3>8, <3>9, <3>10, <3>11
  <2> QED
    BY <2>1, <2>2
<1> HIDE DEF S
<1>2. Seq(Clean) \subseteq S
  BY <1>1, LengthInduction
<1> QED
  BY <1>2 DEF S

-----------------------------------------------------------------------------
(* Chunks *)

\* What a buffer hands over is the same when its end comes later.
LEMMA ExtractConcat ==
  ASSUME NEW b \in Seq(Symbols)
  PROVE  \A a \in Seq(Symbols) :
            /\ Extract[a \o b].events = Extract[a].events \o Extract[Extract[a].pending \o b].events
            /\ Extract[a \o b].pending = Extract[Extract[a].pending \o b].pending
<1> DEFINE Good(a) ==
             /\ Extract[a \o b].events = Extract[a].events \o Extract[Extract[a].pending \o b].events
             /\ Extract[a \o b].pending = Extract[Extract[a].pending \o b].pending
           S == {a \in Seq(Symbols) : Good(a)}
<1>1. ASSUME NEW a \in Seq(Symbols), \A q \in Seq(Symbols) : Len(q) < Len(a) => q \in S PROVE Good(a)
  <2>1. CASE BlankLines(a) = {}
    <3>1. Extract[a] = [events |-> <<>>, pending |-> a]
      BY <2>1, ExtractIs
    <3>2. Extract[a].events = <<>> /\ Extract[a].pending = a
      BY <3>1
    <3>3. a \o b \in Seq(Symbols)
      OBVIOUS
    <3>4. Extract[a \o b].events \in Seq(Seq(Symbols))
      BY <3>3, ExtractIs DEF Extracted
    <3>5. <<>> \o Extract[a \o b].events = Extract[a \o b].events
      BY <3>4
    <3> QED
      BY <3>2, <3>5
  <2>2. CASE BlankLines(a) # {}
    <3>0. Symbols \in SUBSET Symbols
      OBVIOUS
    <3>1. PICK e \in Seq(Symbols), r \in Seq(Symbols) :
              /\ a = Append(Append(e, "nl"), "nl") \o r
              /\ "nl" \in Symbols
              /\ BlankLines(Append(e, "nl")) = {}
              /\ Len(r) < Len(a)
      BY <2>2, <3>0, FirstEvent
    <3> DEFINE c == Append(Append(e, "nl"), "nl")
               rest == Extract[r].pending
    <3>2. c \in Seq(Symbols)
      BY <3>1
    <3>3. a \o b = c \o (r \o b) /\ r \o b \in Seq(Symbols)
      <4>1. a = c \o r
        BY <3>1
      <4> HIDE DEF c
      <4>2. (c \o r) \o b = c \o (r \o b)
        BY <3>2, SymbolsAssociate
      <4> QED
        BY <4>1, <4>2
    <3>4. /\ Extract[c \o r].events = Event(DataOf[e]) \o Extract[r].events
          /\ Extract[c \o r].pending = Extract[r].pending
      BY <3>1, ExtractOne
    <3>5. /\ Extract[c \o (r \o b)].events = Event(DataOf[e]) \o Extract[r \o b].events
          /\ Extract[c \o (r \o b)].pending = Extract[r \o b].pending
      BY <3>1, <3>3, ExtractOne
    <3>6. a = c \o r
      BY <3>1
    <3>7. Good(r)
      BY <1>1, <3>1
    <3> HIDE DEF c
    <3>8. /\ Event(DataOf[e]) \in Seq(Seq(Symbols))
          /\ Extract[r].events \in Seq(Seq(Symbols))
          /\ rest \in Seq(Symbols)
      <4>1. DataOf[e] \in Seq(Symbols)
        BY DataOfIs
      <4>2. Event(DataOf[e]) \in Seq(Seq(Symbols))
        BY <4>1 DEF Event
      <4>3. Extract[r] \in Extracted
        BY ExtractIs
      <4> QED
        BY <4>2, <4>3 DEF Extracted
    <3>9. Extract[rest \o b].events \in Seq(Seq(Symbols))
      <4>1. rest \o b \in Seq(Symbols)
        BY <3>8
      <4>2. Extract[rest \o b] \in Extracted
        BY <4>1, ExtractIs
      <4> QED
        BY <4>2 DEF Extracted
    <3>10. (Event(DataOf[e]) \o Extract[r].events) \o Extract[rest \o b].events
              = Event(DataOf[e]) \o (Extract[r].events \o Extract[rest \o b].events)
      BY <3>8, <3>9, EventsAssociate
    <3>11. Extract[a \o b].events = Extract[a].events \o Extract[Extract[a].pending \o b].events
      BY <3>3, <3>4, <3>5, <3>6, <3>7, <3>10
    <3>12. Extract[a \o b].pending = Extract[Extract[a].pending \o b].pending
      BY <3>3, <3>4, <3>5, <3>6, <3>7
    <3> QED
      BY <3>11, <3>12
  <2> QED
    BY <2>1, <2>2
<1>2. ASSUME NEW a \in Seq(Symbols), \A q \in Seq(Symbols) : Len(q) < Len(a) => q \in S PROVE a \in S
  BY <1>1, <1>2
<1> HIDE DEF S
<1>3. Seq(Symbols) \subseteq S
  BY <1>2, LengthInduction
<1> QED
  BY <1>3 DEF S

\* Push() answers as if all the bytes so far had come in one chunk.
THEOREM ChunksDoNotMatter ==
  ASSUME NEW fed \in Seq(Symbols), NEW bytes \in Seq(Symbols)
  PROVE  LET before == Extract[StripCr[fed]]
             after == Extract[StripCr[fed \o bytes]]
         IN /\ after.events = before.events \o Push(before.pending, bytes).events
            /\ after.pending = Push(before.pending, bytes).pending
<1>1. StripCr[fed \o bytes] = StripCr[fed] \o StripCr[bytes]
  BY StripCrOfConcat
<1>2. StripCr[fed] \in Seq(Symbols) /\ StripCr[bytes] \in Seq(Symbols)
  BY StripCrClean, Alphabets
<1> DEFINE before == Extract[StripCr[fed]]
           after == Extract[StripCr[fed] \o StripCr[bytes]]
<1>3. /\ after.events = before.events \o Extract[before.pending \o StripCr[bytes]].events
      /\ after.pending = Extract[before.pending \o StripCr[bytes]].pending
  BY <1>2, ExtractConcat
<1> QED
  BY <1>1, <1>3 DEF Push

\* push() hands over, for every stream, what a reader of its lines dispatches.
THEOREM PushReadsLines ==
  ASSUME NEW bytes \in Seq(Symbols)
  PROVE  Extract[StripCr[bytes]].events = Dispatched(bytes)
<1>1. StripCr[bytes] \in Seq(Clean)
  BY StripCrClean
<1> QED
  BY <1>1, ExtractReads, ReadStripped DEF Dispatched

\* The end that finish() appends.
LEMMA TwoNewlines == Append(<<"nl">>, "nl") = <<"nl", "nl">>
<1> DEFINE s == Append(<<"nl">>, "nl")
           t == <<"nl", "nl">>
<1>1. "nl" \in Symbols /\ <<"nl">> \in Seq(Symbols) /\ Len(<<"nl">>) = 1 /\ <<"nl">>[1] = "nl"
  BY DEF Symbols
<1>2. s \in Seq(Symbols) /\ Len(s) = 2 /\ s[1] = "nl" /\ s[2] = "nl"
  BY <1>1, AppendProperties
<1>3. t \in Seq(Symbols) /\ Len(t) = 2 /\ t[1] = "nl" /\ t[2] = "nl"
  BY <1>1
<1> HIDE DEF s, t
<1>4. \A i \in 1..Len(s) : s[i] = t[i]
  BY <1>2, <1>3
<1>5. s = t
  BY <1>2, <1>3, <1>4, SeqEqual
<1> QED
  BY <1>5 DEF s, t

\* A blank line in front of everything is no event.
LEMMA BlankLineAlone == Extract[<<"nl", "nl">>].events = <<>>
<1>1. "nl" \in Symbols /\ <<>> \in Seq(Symbols) /\ Append(<<>>, "nl") = <<"nl">>
  BY DEF Symbols
<1>2. BlankLines(Append(<<>>, "nl")) = {}
  BY <1>1 DEF BlankLines
<1>3. Append(Append(<<>>, "nl"), "nl") \o <<>> = <<"nl", "nl">>
  <2>1. Append(Append(<<>>, "nl"), "nl") = <<"nl", "nl">>
    BY <1>1, TwoNewlines
  <2>2. <<"nl", "nl">> \o <<>> = <<"nl", "nl">>
    OBVIOUS
  <2> QED
    BY <2>1, <2>2
<1>4. Extract[<<"nl", "nl">>].events = Event(DataOf[<<>>]) \o Extract[<<>>].events
  BY <1>1, <1>2, <1>3, ExtractOne
<1>5. LineEnds(<<>>) = {} /\ BlankLines(<<>>) = {}
  BY DEF LineEnds, BlankLines
<1>6. DataOf[<<>>] = <<>>
  BY <1>1, <1>5, DataOfIs DEF Collect
<1>7. Extract[<<>>].events = <<>>
  <2>1. Extract[<<>>] = [events |-> <<>>, pending |-> <<>>]
    BY <1>1, <1>5, ExtractIs
  <2> QED
    BY <2>1
<1> QED
  BY <1>4, <1>6, <1>7 DEF Event

\* finish() closes the stream if what is left of it begins with a data line, as if
\* the missing blank line had come; any other tail it hands over as it stands.
THEOREM FinishReadsTail ==
  ASSUME NEW fed \in Seq(Symbols)
  PROVE  LET before == Extract[StripCr[fed]]
             out == Finish(before.pending)
         IN before.events \o out.events = IF TailIsData(fed) THEN Dispatched(Closed(fed))
                                          ELSE Append(Dispatched(fed), TailOf(fed))
<1> DEFINE before == Extract[StripCr[fed]]
           out == Finish(before.pending)
           tail == <<"nl", "nl">>
<1>1. StripCr[fed] \in Seq(Symbols) /\ tail \in Seq(Symbols) /\ fed \o tail \in Seq(Symbols)
  <2>1. StripCr[fed] \in Seq(Symbols) /\ tail \in Seq(Symbols)
    BY StripCrClean, Alphabets
  <2> HIDE DEF tail
  <2> QED
    BY <2>1
<1>2. before.events \in Seq(Seq(Symbols)) /\ before.pending \in Seq(Symbols)
  BY <1>1, ExtractIs DEF Extracted
<1>3. Dispatched(fed \o tail) = before.events \o Push(before.pending, tail).events
  <2>1. Extract[StripCr[fed \o tail]].events = Dispatched(fed \o tail)
    BY <1>1, PushReadsLines
  <2>2. Extract[StripCr[fed \o tail]].events = before.events \o Push(before.pending, tail).events
    BY <1>1, ChunksDoNotMatter
  <2> QED
    BY <2>1, <2>2
<1>4. CASE before.pending = <<>>
  <2>1. StripCr[tail] = tail
    <3>1. "nl" \in Symbols /\ <<>> \in Seq(Symbols) /\ <<"nl">> \in Seq(Symbols)
      BY DEF Symbols
    <3>2. StripCr[<<"nl">>] = <<"nl">>
      <4>1. Append(<<>>, "nl") = <<"nl">>
        OBVIOUS
      <4> QED
        BY <3>1, <4>1, StripCrIs
    <3>3. StripCr[Append(<<"nl">>, "nl")] = Append(<<"nl">>, "nl")
      BY <3>1, <3>2, StripCrIs
    <3> QED
      BY <3>3, TwoNewlines
  <2>2. <<>> \o tail = tail
    OBVIOUS
  <2>3. Push(before.pending, tail).events = <<>>
    BY <1>4, <2>1, <2>2, BlankLineAlone DEF Push
  <2>4. out.events = <<>>
    BY <1>4 DEF Finish
  <2>5. TailIsData(fed)
    BY <1>4 DEF TailIsData, TailOf
  <2> HIDE DEF before, out, tail
  <2>6. before.events \o out.events = Dispatched(fed \o tail)
    BY <1>3, <2>3, <2>4
  <2> QED
    BY <2>5, <2>6 DEF before, out, tail, Closed
<1>5. CASE before.pending # <<>> /\ before.pending[1] = "data"
  <2>1. out.events = Push(before.pending, tail).events
    BY <1>5 DEF Finish
  <2>2. TailIsData(fed)
    BY <1>5 DEF TailIsData, TailOf
  <2> QED
    BY <1>3, <2>1, <2>2 DEF Closed
<1>6. CASE before.pending # <<>> /\ before.pending[1] # "data"
  <2>1. out.events = <<before.pending>>
    BY <1>6 DEF Finish
  <2>2. ~TailIsData(fed) /\ TailOf(fed) = before.pending
    BY <1>6 DEF TailIsData, TailOf
  <2>3. before.events = Dispatched(fed)
    BY PushReadsLines
  <2> DEFINE E == Seq(Symbols)
  <2>4. before.events \in Seq(E) /\ before.pending \in E
    BY <1>2
  <2> HIDE DEF before, out, tail, E
  <2>5. before.events \o <<before.pending>> = Append(before.events, before.pending)
    BY <2>4, AppendIsConcat
  <2> QED
    BY <2>1, <2>2, <2>3, <2>5 DEF before, out
<1> QED
  BY <1>4, <1>5, <1>6
==============================================================================
