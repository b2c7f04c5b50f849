------------------------ MODULE ProviderHistoryProofs ------------------------
(***************************************************************************)
(* Proofs about the conversation of a provider (module ModelProvider): the *)
(* system message stays where it is, and a request carries the whole       *)
(* exchange of its prompt.  Both rest on the types of ModelProviderProofs  *)
(* and on what trim_history() keeps.                                       *)
(***************************************************************************)
EXTENDS ModelProviderProofs

-----------------------------------------------------------------------------
(* The system message *)

SystemFirst(history) ==
    history # <<>> => \A i \in 1..Len(history) : history[i].role = "system" <=> i = 1

\* trim_history() cuts behind the system message.
LEMMA TrimKeepsSystem ==
  ASSUME NEW h \in Seq(Message), SystemFirst(h), NEW n \in 1..MaxEntries
  PROVE  SystemFirst(Trim(h, n))
<1>1. n \in Nat /\ n >= 1 /\ Len(h) \in Nat
  BY ProviderAssumption DEF ProviderAssumption
<1>2. CASE Len(h) <= n
  <2>1. Trim(h, n) = h
    BY <1>1, <1>2 DEF Trim
  <2> QED
    BY <2>1
<1>3. CASE Len(h) > n
  <2> DEFINE cut == Len(h) - n
  <2>1. /\ Trim(h, n) \in Seq(Message) /\ Len(Trim(h, n)) = n
        /\ \E keep \in {0, 1} :
              /\ keep = 1 <=> h[1].role = "system"
              /\ keep = 1 => Trim(h, n)[1] = h[1]
              /\ \A i \in keep + 1..n : Trim(h, n)[i] = h[i + cut]
    BY <1>3, TrimIs
  <2>2. cut \in Nat /\ cut >= 1 /\ cut + n = Len(h) /\ h # <<>>
    BY <1>1, <1>3
  <2>3. \A i \in 1..Len(h) : h[i].role = "system" <=> i = 1
    BY <2>2 DEF SystemFirst
  <2> HIDE DEF cut
  <2>4. /\ Trim(h, n)[1] = h[1]
        /\ \A i \in 2..n : Trim(h, n)[i] = h[i + cut]
    BY <1>1, <2>1, <2>2, <2>3
  <2>5. ASSUME NEW i \in 1..n PROVE Trim(h, n)[i].role = "system" <=> i = 1
    <3>1. CASE i = 1
      BY <1>1, <2>2, <2>3, <2>4, <3>1
    <3>2. CASE i # 1
      <4>1. i \in 2..n /\ i + cut \in 1..Len(h) /\ i + cut # 1
        BY <1>1, <2>2, <3>2
      <4> QED
        BY <2>3, <2>4, <3>2, <4>1
    <3> QED
      BY <3>1, <3>2
  <2> QED
    BY <2>1, <2>5 DEF SystemFirst
<1> QED
  BY <1>1, <1>2, <1>3

\* What is added to a conversation that has begun is not a system message.
LEMMA AddedIsNoSystem ==
  ASSUME NEW h \in Seq(Message), SystemFirst(h), h # <<>>,
         NEW more \in Seq(Message), \A i \in 1..Len(more) : more[i].role # "system"
  PROVE  SystemFirst(h \o more) /\ h \o more # <<>>
<1>1. /\ h \o more \in Seq(Message) /\ Len(h \o more) = Len(h) + Len(more)
      /\ \A i \in 1..Len(h) : (h \o more)[i] = h[i]
      /\ \A i \in 1..Len(more) : (h \o more)[Len(h) + i] = more[i]
  OBVIOUS
<1>a. Len(h) \in Nat /\ Len(more) \in Nat /\ Len(h) >= 1
  OBVIOUS
<1>2. ASSUME NEW i \in 1..Len(h \o more), i \notin 1..Len(h)
      PROVE  (h \o more)[i].role # "system" /\ i # 1
  <2>1. i - Len(h) \in 1..Len(more) /\ Len(h) + (i - Len(h)) = i /\ i # 1
    BY <1>1, <1>2, <1>a
  <2>2. (h \o more)[i] = more[i - Len(h)]
    BY <1>1, <2>1
  <2> QED
    BY <2>1, <2>2
<1>3. \A i \in 1..Len(h) : (h \o more)[i].role = "system" <=> i = 1
  BY <1>1 DEF SystemFirst
<1>4. h \o more # <<>>
  BY <1>1, <1>a
<1> QED
  BY <1>1, <1>2, <1>3, <1>4 DEF SystemFirst

\* Nor is a single question or answer.
LEMMA OneMoreMessage ==
  ASSUME NEW h \in Seq(Message), SystemFirst(h), h # <<>>, NEW m \in Message, m.role # "system"
  PROVE  SystemFirst(h \o <<m>>) /\ h \o <<m>> # <<>>
<1>1. <<m>> \in Seq(Message) /\ \A i \in 1..Len(<<m>>) : <<m>>[i].role # "system"
  OBVIOUS
<1> QED
  BY <1>1, AddedIsNoSystem

\* Only conversations that were given an instruction, in messages_.
SystemInv ==
    instruction /\ kind # "gemini" =>
        /\ phase \in {"enter", "request", "tools"} => messages # <<>>
        /\ SystemFirst(messages)

\* No step moves, repeats or drops the system message.
LEMMA StepOfSystem == StreamInv /\ TypeInv /\ SystemInv /\ [Next]_vars => SystemInv'
<1> SUFFICES ASSUME StreamInv, TypeInv, SystemInv, [Next]_vars, instruction', kind' # "gemini"
             PROVE  SystemInv'
  BY DEF SystemInv
<1>k. UNCHANGED <<instruction, kind>>
  BY DEF Next, TurnStep, Request, providerVars, Prompt, PromptWith, ListModels, ListRefused, ResetSession, Cancel,
      StartTurn, ContinueTurn, RefuseTurn, AbandonTurn, ToolsThrow, EnterRequest, EnterCancelled,
      TurnFails, TurnAnswered, TurnThrows, Listed, vars
<1>t. messages \in Seq(Message) /\ TurnTyped /\ StreamTyped
  BY DEF TypeInv, ConversationTyped, StreamInv
<1>s. SystemFirst(messages) /\ (phase \in {"enter", "request", "tools"} => messages # <<>>)
  BY <1>k DEF SystemInv
<1> USE <1>k DEF SystemInv
<1>1. CASE Prompt
  <2>1. PICK n \in 1..MaxEntries : messages' = Trim(messages, n) /\ phase' = "start"
    BY <1>1 DEF Prompt, PromptWith
  <2> QED
    BY <1>t, <1>s, <2>1, TrimKeepsSystem
<1>2. CASE StartTurn
  <2>1. System \in Message /\ User(prompts) \in Message /\ User(prompts).role # "system"
    BY <1>t, ProviderAssumption DEF ProviderAssumption, TurnTyped, System, User, Message
  <2>2. CASE messages = <<>>
    <3>1. messages' = <<System>> \o <<User(prompts)>>
      BY <1>2, <2>2 DEF StartTurn, Started
    <3>a. <<System>> \in Seq(Message) /\ <<System>> # <<>> /\ SystemFirst(<<System>>)
      BY <2>1 DEF SystemFirst, System
    <3> QED
      BY <2>1, <3>1, <3>a, OneMoreMessage
  <2>3. CASE messages # <<>>
    <3>1. messages' = messages \o <<User(prompts)>>
      BY <1>2, <2>3 DEF StartTurn, Started
    <3> QED
      BY <1>t, <1>s, <2>1, <2>3, <3>1, OneMoreMessage
  <2> QED
    BY <2>2, <2>3
<1>3. CASE ContinueTurn
  <2> DEFINE more == Responses(kind, prompts, Len(asked), Last(asked))
  <2>1. messages' = messages \o more /\ messages # <<>> /\ phase = "tools" /\ Len(asked) <= MaxRounds
    BY <1>3, <1>s DEF ContinueTurn, Continued
  <2>2. more \in Seq(Message) /\ \A i \in 1..Len(more) : more[i].role = "tool"
    BY <1>t, <2>1, ResponsesTyped DEF AnswersRound
  <2> HIDE DEF more
  <2> QED
    BY <1>t, <1>s, <2>1, <2>2, AddedIsNoSystem
<1>4. CASE TurnAnswered
  <2> DEFINE answer == Assistant(prompts, Len(asked) + 1, CallCount)
  <2>1. answer \in Message
    BY <1>t, <1>4, AnswerMessageTyped DEF TurnAnswered
  <2>2. answer.role # "system"
    BY DEF Assistant
  <2> HIDE DEF answer
  <2>a. messages' = Append(messages, answer) /\ messages # <<>>
    BY <1>s, <1>4 DEF TurnAnswered, answer
  <2>b. \A h \in Seq(Message), m \in Message : Append(h, m) = h \o <<m>>
    OBVIOUS
  <2>3. messages' = messages \o <<answer>> /\ messages # <<>>
    BY <1>t, <2>1, <2>a, <2>b
  <2> QED
    BY <1>t, <1>s, <2>1, <2>2, <2>3, OneMoreMessage
<1>5. CASE ResetSession
  BY <1>5 DEF ResetSession, SystemFirst
<1>6. CASE EnterRequest \/ Request \/ Cancel \/ ListRefused \/ ListModels
  BY <1>s, <1>6 DEF EnterRequest, Request, Cancel, providerVars, ListRefused, ListModels
<1>7. CASE RefuseTurn \/ AbandonTurn \/ ToolsThrow \/ EnterCancelled \/ TurnFails \/ TurnThrows
           \/ \E document \in Documents : Listed(document)
  BY <1>s, <1>7 DEF RefuseTurn, AbandonTurn, ToolsThrow, EnterCancelled, TurnFails, TurnThrows, Listed
<1>8. CASE UNCHANGED vars
  BY <1>s, <1>8 DEF vars, providerVars
<1> QED
  BY <1>1, <1>2, <1>3, <1>4, <1>5, <1>6, <1>7, <1>8 DEF Next, TurnStep

\* The system message stays the first and the only one of its kind, whatever
\* the size the history is trimmed to and however turns end.
THEOREM SystemStays == Spec => []SystemKept
<1>1. Init => SystemInv
  BY DEF Init, SystemInv, SystemFirst
<1>2. SystemInv => SystemKept
  BY DEF SystemInv, SystemFirst, SystemKept
<1> QED
  BY <1>1, <1>2, StepOfSystem, Typed, PTL DEF Spec
-----------------------------------------------------------------------------
(* The exchange of a prompt *)

Entry == [role : {"system", "user", "assistant", "tool"}, prompt : Nat, round : Nat, calls : Nat]

\* The end of a sequence is a suffix of it.
LEMMA EndIsSuffix ==
  ASSUME NEW A, NEW u \in Seq(A), NEW t \in Seq(A)
  PROVE  IsSuffix(t, u \o t)
<1> DEFINE p == u \o t
<1>3. /\ p \in Seq(A) /\ Len(p) = Len(u) + Len(t) /\ Len(u) \in Nat /\ Len(t) \in Nat
      /\ \A i \in 1..Len(t) : p[Len(u) + i] = t[i]
  OBVIOUS
<1> HIDE DEF p
<1>4. /\ Reverse(t) \in Seq(A) /\ Len(Reverse(t)) = Len(t)
      /\ \A i \in 1..Len(t) : Reverse(t)[i] = t[Len(t) - i + 1]
  BY <1>3 DEF Reverse
<1>5. /\ Reverse(p) \in Seq(A) /\ Len(Reverse(p)) = Len(p)
      /\ \A i \in 1..Len(p) : Reverse(p)[i] = p[Len(p) - i + 1]
  BY <1>3 DEF Reverse
<1>6. ASSUME NEW i \in 1..Len(t) PROVE Reverse(p)[i] = Reverse(t)[i]
  <2>1. Len(t) - i + 1 \in 1..Len(t) /\ i \in 1..Len(p) /\ Len(p) - i + 1 = Len(u) + (Len(t) - i + 1)
    BY <1>3
  <2> QED
    BY <1>3, <1>4, <1>5, <2>1
<1>7. SubSeq(Reverse(p), 1, Len(t)) = Reverse(t)
  <2> HIDE DEF Reverse
  <2> QED
    BY <1>3, <1>4, <1>5, <1>6, StartsWith
<1>8. SubSeq(Reverse(t), 1, Len(t)) = Reverse(t)
  <2> HIDE DEF Reverse
  <2> QED
    BY <1>4, SubSeqFull
<1>9. IsSuffix(t, p)
  <2> HIDE DEF Reverse
  <2> QED
    BY <1>3, <1>4, <1>5, <1>7, <1>8 DEF IsSuffix, IsPrefix
<1> QED
  BY <1>9 DEF p

\* A question, an answer or a response is an entry, and so is every message.
LEMMA EntriesTyped ==
  /\ \A p, r, n \in Nat : User(p) \in Entry /\ Assistant(p, r, n) \in Entry /\ Tool(p, r, n) \in Entry
  /\ \A k \in Kinds : \A p, r, n \in Nat : Responses(k, p, r, n) \in Seq(Entry)
  /\ Seq(Message) \subseteq Seq(Entry)
<1>1. ASSUME NEW p \in Nat, NEW r \in Nat, NEW n \in Nat
      PROVE  User(p) \in Entry /\ Assistant(p, r, n) \in Entry /\ Tool(p, r, n) \in Entry
  BY DEF User, Assistant, Tool, Entry
<1>2. ASSUME NEW k \in Kinds, NEW p \in Nat, NEW r \in Nat, NEW n \in Nat
      PROVE  Responses(k, p, r, n) \in Seq(Entry)
  <2> DEFINE tool(i) == Tool(p, r, i)
             more == [i \in 1..n |-> tool(i)]
  <2>1. \A i \in Nat : tool(i) \in Entry
    BY <1>1
  <2> HIDE DEF tool
  <2>2. more \in Seq(Entry) /\ <<tool(n)>> \in Seq(Entry)
    BY <2>1
  <2>3. Responses(k, p, r, n) = IF k = "gemini" THEN <<tool(n)>> ELSE more
    BY DEF Responses, tool
  <2> HIDE DEF more
  <2> QED
    BY <2>2, <2>3
<1>3. Message \subseteq Entry
  <2> SUFFICES ASSUME NEW m \in Message PROVE m \in Entry
    OBVIOUS
  <2>1. /\ m = [role |-> m.role, prompt |-> m.prompt, round |-> m.round, calls |-> m.calls]
        /\ m.role \in {"system", "user", "assistant", "tool"} /\ m.prompt \in 0..MaxPrompts
        /\ m.round \in 0..MaxRounds + 1 /\ m.calls \in Nat
    BY DEF Message
  <2>2. MaxPrompts \in Nat /\ MaxRounds \in Nat
    BY ProviderAssumption DEF ProviderAssumption
  <2>3. m.prompt \in Nat /\ m.round \in Nat
    BY <2>1, <2>2
  <2> QED
    BY <2>1, <2>3 DEF Entry
<1>4. \A A, B : A \subseteq B => Seq(A) \subseteq Seq(B)
  OBVIOUS
<1>5. Seq(Message) \subseteq Seq(Entry)
  BY <1>3, <1>4
<1> QED
  BY <1>1, <1>2, <1>5

\* Joining is associative.
LEMMA EntriesAssociate ==
  ASSUME NEW u \in Seq(Entry), NEW v \in Seq(Entry), NEW w \in Seq(Entry)
  PROVE  (u \o v) \o w = u \o (v \o w)
OBVIOUS

\* Joining one entry is appending it, joining none changes nothing.
LEMMA EntriesJoin ==
  /\ \A u, v \in Seq(Entry) : u \o v \in Seq(Entry) /\ Len(u \o v) = Len(u) + Len(v)
  /\ \A u \in Seq(Entry) : \A m \in Entry : Append(u, m) = u \o <<m>> /\ <<m>> \in Seq(Entry)
  /\ \A u \in Seq(Entry) : u \o <<>> = u
<1>1. ASSUME NEW u \in Seq(Entry), NEW v \in Seq(Entry) PROVE u \o v \in Seq(Entry) /\ Len(u \o v) = Len(u) + Len(v)
  OBVIOUS
<1>3. ASSUME NEW u \in Seq(Entry), NEW m \in Entry PROVE Append(u, m) = u \o <<m>> /\ <<m>> \in Seq(Entry)
  OBVIOUS
<1>4. ASSUME NEW u \in Seq(Entry) PROVE u \o <<>> = u
  OBVIOUS
<1> QED
  BY <1>1, <1>3, <1>4

\* The recursion over the answers to a prompt: each answer adds its message
\* and the responses to all of its calls.
LEMMA RoundsIs ==
  ASSUME NEW k \in Kinds, NEW p \in Nat
  PROVE  /\ Rounds(k, p)[<<>>] = <<>>
         /\ \A s \in Seq(Nat) : Rounds(k, p)[s] \in Seq(Entry)
         /\ \A s \in Seq(Nat) : s # <<>> =>
               Rounds(k, p)[s] = Rounds(k, p)[Front(s)] \o <<Assistant(p, Len(s), Last(s))>>
                                   \o Responses(k, p, Len(s), Last(s))
<1> DEFINE D == Seq(Nat)
           V == Seq(Entry)
           add(s, v) == v \o <<Assistant(p, Len(s), Last(s))>> \o Responses(k, p, Len(s), Last(s))
           unfold(f, s) == IF s = <<>> THEN <<>> ELSE add(s, f[Front(s)])
           rank == [s \in D |-> Len(s)]
           base == [s \in D |-> <<>>]
           next == [s \in D |-> Front(s)]
           combine == [sv \in D \X V |-> IF sv[1] = <<>> THEN <<>> ELSE add(sv[1], sv[2])]
<1>a. Rounds(k, p) = CHOOSE f : f = [s \in D |-> unfold(f, s)]
  BY DEF Rounds
<1>0. <<>> \in D /\ <<>> \in V
  OBVIOUS
<1>1. ASSUME NEW s \in D, NEW v \in V, s # <<>> PROVE add(s, v) \in V
  <2>1. Len(s) \in Nat /\ Last(s) \in Nat
    <3>1. \A t \in Seq(Nat) : t # <<>> => Last(t) \in Nat
      BY FrontAndLast
    <3> QED
      BY <1>1, <3>1
  <2> DEFINE a == Assistant(p, Len(s), Last(s))
             more == Responses(k, p, Len(s), Last(s))
  <2>2. a \in Entry /\ more \in Seq(Entry)
    BY <2>1, EntriesTyped
  <2> HIDE DEF a, more
  <2>3. v \o <<a>> \in Seq(Entry)
    BY <2>2, EntriesJoin
  <2>4. v \o <<a>> \o more \in Seq(Entry)
    BY <2>2, <2>3, EntriesJoin
  <2> QED
    BY <2>4 DEF a, more
<1>2. rank \in [D -> Nat] /\ base \in [D -> V] /\ {<<>>} \in SUBSET D
  OBVIOUS
<1>3. combine \in [D \X V -> V]
  <2> HIDE DEF add, D, V
  <2> QED
    BY <1>0, <1>1
<1>4. \A s \in D \ {<<>>} : next[s] \in D /\ rank[next[s]] < rank[s]
  BY FrontAndLast
<1>5. PICK f \in [D -> V] : Obeys(f, D, {<<>>}, base, next, combine)
  <2> HIDE DEF rank, base, next, combine, D, V
  <2> QED
    BY <1>2, <1>3, <1>4, MeasureRecursion
<1>6. ASSUME NEW s \in D PROVE f[s] = unfold(f, s)
  <2>1. CASE s = <<>>
    BY <1>5, <2>1 DEF Obeys
  <2>2. CASE s # <<>>
    <3>1. f[s] = combine[<<s, f[next[s]]>>]
      <4> HIDE DEF combine, next, D, V
      <4> QED
        BY <1>5, <2>2 DEF Obeys
    <3>2. next[s] = Front(s) /\ Front(s) \in D
      BY <2>2, FrontAndLast
    <3>3. f[Front(s)] \in V
      BY <3>2
    <3> HIDE DEF add, D, V, next
    <3>4. <<s, f[Front(s)]>> \in D \X V
      BY <3>3
    <3>5. combine[<<s, f[Front(s)]>>] = add(s, f[Front(s)])
      BY <2>2, <3>4
    <3> QED
      BY <2>2, <3>1, <3>2, <3>5
  <2> QED
    BY <2>1, <2>2
<1>7. f = [s \in D |-> unfold(f, s)]
  <2> HIDE DEF add, D
  <2> QED
    BY <1>6
<1> DEFINE R == Rounds(k, p)
<1>8. R = [s \in D |-> unfold(R, s)]
  <2> HIDE DEF unfold, D
  <2> QED
    BY <1>7, <1>a
<1> HIDE DEF R
<1>9. R[<<>>] = <<>>
  BY <1>0, <1>8
<1>10. \A s \in D : s # <<>> => R[s] = add(s, R[Front(s)])
  <2> HIDE DEF add, D
  <2> QED
    BY <1>8
<1> DEFINE S == {s \in D : R[s] \in V}
<1>11. <<>> \in S
  BY <1>0, <1>9
<1>12. ASSUME NEW s \in D, NEW x \in Nat, s \in S PROVE Append(s, x) \in S
  <2>1. Append(s, x) \in D /\ Append(s, x) # <<>> /\ Front(Append(s, x)) = s
    BY FrontOfAppend
  <2> HIDE DEF add, D, V
  <2>2. R[Append(s, x)] = add(Append(s, x), R[s]) /\ R[s] \in V
    BY <1>10, <1>12, <2>1
  <2>3. add(Append(s, x), R[s]) \in V
    BY <1>1, <2>1, <2>2
  <2> QED
    BY <2>1, <2>2, <2>3
<1>13. Seq(Nat) \subseteq S
  <2> HIDE DEF S
  <2> QED
    BY <1>11, <1>12, AppendInduction
<1>14. \A s \in Seq(Nat) : R[s] \in Seq(Entry)
  BY <1>13
<1> QED
  BY <1>9, <1>10, <1>14 DEF R

\* The exchange up to the rounds of s.
ExchangeUpTo(s) == <<User(prompts)>> \o Rounds(kind, prompts)[s]

\* The exchange of a prompt begins with its question; every answer adds its
\* message and the responses to all of its calls.
LEMMA ExchangeIs ==
  ASSUME TurnTyped
  PROVE  /\ ExchangeUpTo(<<>>) = <<User(prompts)>>
         /\ \A s \in Seq(Nat) : ExchangeUpTo(s) \in Seq(Entry)
         /\ \A s \in Seq(Nat) : s # <<>> =>
               ExchangeUpTo(s) = ExchangeUpTo(Front(s)) \o <<Assistant(prompts, Len(s), Last(s))>>
                                   \o Responses(kind, prompts, Len(s), Last(s))
<1>1. kind \in Kinds /\ prompts \in Nat
  BY ProviderAssumption DEF ProviderAssumption, TurnTyped
<1> DEFINE R == Rounds(kind, prompts)
           question == <<User(prompts)>>
<1>2. /\ R[<<>>] = <<>>
      /\ \A s \in Seq(Nat) : R[s] \in Seq(Entry)
      /\ \A s \in Seq(Nat) : s # <<>> =>
            R[s] = R[Front(s)] \o <<Assistant(prompts, Len(s), Last(s))>>
                     \o Responses(kind, prompts, Len(s), Last(s))
  BY <1>1, RoundsIs
<1>3. \A s : ExchangeUpTo(s) = question \o R[s]
  BY DEF ExchangeUpTo
<1>4. question \in Seq(Entry)
  BY <1>1, EntriesTyped
<1> HIDE DEF R, question
<1>5. ExchangeUpTo(<<>>) = question
  BY <1>2, <1>3, <1>4, EntriesJoin
<1>6. \A s \in Seq(Nat) : ExchangeUpTo(s) \in Seq(Entry)
  BY <1>2, <1>3, <1>4, EntriesJoin
<1>7. ASSUME NEW s \in Seq(Nat), s # <<>>
      PROVE  ExchangeUpTo(s) = ExchangeUpTo(Front(s)) \o <<Assistant(prompts, Len(s), Last(s))>>
                                 \o Responses(kind, prompts, Len(s), Last(s))
  <2> DEFINE a == Assistant(prompts, Len(s), Last(s))
             more == Responses(kind, prompts, Len(s), Last(s))
  <2>a. \A t \in Seq(Nat) : t # <<>> => Front(t) \in Seq(Nat) /\ Last(t) \in Nat
    BY FrontAndLast
  <2>1. Front(s) \in Seq(Nat) /\ Last(s) \in Nat /\ Len(s) \in Nat
    BY <1>7, <2>a
  <2>2. a \in Entry /\ more \in Seq(Entry)
    BY <1>1, <2>1, EntriesTyped
  <2>3. R[s] = R[Front(s)] \o <<a>> \o more /\ R[Front(s)] \in Seq(Entry)
    BY <1>2, <1>7, <2>1
  <2> HIDE DEF a, more
  <2>4. <<a>> \in Seq(Entry) /\ R[Front(s)] \o <<a>> \in Seq(Entry)
    BY <2>2, <2>3, EntriesJoin
  <2>5. question \o (R[Front(s)] \o <<a>> \o more) = (question \o (R[Front(s)] \o <<a>>)) \o more
    BY <1>4, <2>2, <2>4, EntriesAssociate
  <2>6. question \o (R[Front(s)] \o <<a>>) = (question \o R[Front(s)]) \o <<a>>
    BY <1>4, <2>3, <2>4, EntriesAssociate
  <2>7. ExchangeUpTo(s) = ExchangeUpTo(Front(s)) \o <<a>> \o more
    BY <1>3, <2>3, <2>5, <2>6
  <2> QED
    BY <2>7 DEF a, more
<1> QED
  BY <1>5, <1>6, <1>7 DEF question

\* Earlier is what a conversation keeps of earlier prompts.
FollowedBy(s, history) ==
    \E earlier \in Seq(Entry) : Len(earlier) <= MaxEntries /\ history = earlier \o s

\* From its trim to the last answer of a prompt, the conversation is what the
\* trim left followed by the exchange so far.
HistoryInv ==
    /\ phase = "start" => Len(messages) <= MaxEntries
    /\ phase \in {"enter", "request"} => FollowedBy(ExchangeUpTo(asked), messages)
    /\ phase = "tools" =>
          FollowedBy(ExchangeUpTo(Front(asked)) \o <<Assistant(prompts, Len(asked), Last(asked))>>,
                     messages)

\* Every step keeps it: an answer and the responses to its calls only join the
\* end, and nothing is trimmed between the question and the last answer.
LEMMA StepOfHistory == StreamInv /\ TypeInv /\ HistoryInv /\ [Next]_vars => HistoryInv'
<1> SUFFICES ASSUME StreamInv, TypeInv, HistoryInv, [Next]_vars PROVE HistoryInv'
  OBVIOUS
<1>t. /\ messages \in Seq(Message) /\ messages \in Seq(Entry) /\ TurnTyped /\ StreamTyped
      /\ kind \in Kinds /\ prompts \in Nat /\ asked \in Seq(Nat) /\ Len(asked) \in Nat
      /\ MaxEntries \in Nat /\ MaxEntries >= 1
  BY EntriesTyped, ProviderAssumption
     DEF ProviderAssumption, TypeInv, ConversationTyped, StreamInv, TurnTyped
<1>1. CASE Prompt
  <2>1. PICK n \in 1..MaxEntries : messages' = Trim(messages, n) /\ phase' = "start"
    BY <1>1 DEF Prompt, PromptWith
  <2> QED
    BY <1>t, <2>1, TrimTyped DEF HistoryInv
<1>2. CASE StartTurn
  <2> DEFINE earlier == IF messages = <<>> /\ instruction /\ kind # "gemini" THEN <<System>> ELSE messages
  <2>1. messages' = earlier \o <<User(prompts)>> /\ phase = "start" /\ phase' = "enter"
        /\ UNCHANGED <<asked, kind, prompts>>
    BY <1>2 DEF StartTurn, Started
  <2>2. asked = <<>> /\ Len(messages) <= MaxEntries
    BY <1>t, <2>1 DEF TurnTyped, HistoryInv
  <2>3. <<System>> \in Seq(Entry) /\ Len(<<System>>) = 1
    BY DEF System, Entry
  <2>4. earlier \in Seq(Entry) /\ Len(earlier) <= MaxEntries
    BY <1>t, <2>2, <2>3
  <2> HIDE DEF earlier
  <2>5. ExchangeUpTo(asked) = <<User(prompts)>>
    BY <1>t, <2>2, ExchangeIs
  <2>6. ExchangeUpTo(asked)' = ExchangeUpTo(asked)
    BY <2>1 DEF ExchangeUpTo
  <2>7. FollowedBy(ExchangeUpTo(asked), messages)'
    BY <2>1, <2>4, <2>5, <2>6 DEF FollowedBy
  <2> QED
    BY <2>1, <2>7 DEF HistoryInv
<1>3. CASE ContinueTurn
  <2> DEFINE a == Assistant(prompts, Len(asked), Last(asked))
             more == Responses(kind, prompts, Len(asked), Last(asked))
             before == ExchangeUpTo(Front(asked))
  <2>1. messages' = messages \o more /\ phase = "tools" /\ phase' = "enter"
        /\ UNCHANGED <<asked, kind, prompts>>
    BY <1>3 DEF ContinueTurn, Continued
  <2>2. asked # <<>>
    BY <1>t, <2>1 DEF TurnTyped
  <2>a. \A t \in Seq(Nat) : t # <<>> => Front(t) \in Seq(Nat) /\ Last(t) \in Nat
    BY FrontAndLast
  <2>3. Front(asked) \in Seq(Nat) /\ Last(asked) \in Nat
    BY <1>t, <2>2, <2>a
  <2>4. a \in Entry /\ more \in Seq(Entry) /\ before \in Seq(Entry)
    BY <1>t, <2>3, EntriesTyped, ExchangeIs
  <2>5. ExchangeUpTo(asked) = before \o <<a>> \o more
    BY <1>t, <2>2, ExchangeIs
  <2>6. PICK earlier \in Seq(Entry) : Len(earlier) <= MaxEntries /\ messages = earlier \o (before \o <<a>>)
    BY <2>1 DEF HistoryInv, FollowedBy
  <2> HIDE DEF a, more, before
  <2>7. before \o <<a>> \in Seq(Entry)
    BY <2>4, EntriesJoin
  <2>b. (earlier \o (before \o <<a>>)) \o more = earlier \o (before \o <<a>> \o more)
    BY <2>4, <2>7, EntriesAssociate
  <2>8. messages' = earlier \o (before \o <<a>> \o more)
    BY <2>1, <2>6, <2>b
  <2>9. ExchangeUpTo(asked)' = ExchangeUpTo(asked)
    BY <2>1 DEF ExchangeUpTo
  <2>10. FollowedBy(ExchangeUpTo(asked), messages)'
    BY <2>5, <2>6, <2>8, <2>9 DEF FollowedBy
  <2> QED
    BY <2>1, <2>10 DEF HistoryInv
<1>4. CASE TurnAnswered
  <2> DEFINE a == Assistant(prompts, Len(asked) + 1, CallCount)
  <2>1. messages' = Append(messages, a) /\ phase = "request" /\ phase' \in {"tools", "idle"}
        /\ asked' = Append(asked, CallCount) /\ UNCHANGED <<kind, prompts>>
    BY <1>4 DEF TurnAnswered
  <2>2. CallCount \in Nat
    BY <1>t, CallsCounted DEF StreamTyped
  <2>3. a \in Entry /\ ExchangeUpTo(asked) \in Seq(Entry)
    BY <1>t, <2>2, EntriesTyped, ExchangeIs
  <2>4. PICK earlier \in Seq(Entry) : Len(earlier) <= MaxEntries /\ messages = earlier \o ExchangeUpTo(asked)
    BY <2>1 DEF HistoryInv, FollowedBy
  <2>a. \A s \in Seq(Nat), n \in Nat : Front(Append(s, n)) = s /\ Last(Append(s, n)) = n
    BY FrontOfAppend
  <2>5. Front(asked') = asked /\ Last(asked') = CallCount /\ Len(asked') = Len(asked) + 1
    BY <1>t, <2>1, <2>2, <2>a
  <2>6. (ExchangeUpTo(Front(asked)) \o <<Assistant(prompts, Len(asked), Last(asked))>>)'
          = ExchangeUpTo(asked) \o <<a>>
    BY <2>1, <2>5 DEF ExchangeUpTo
  <2> HIDE DEF a
  <2>b. Append(messages, a) = messages \o <<a>> /\ <<a>> \in Seq(Entry)
    BY <1>t, <2>3, EntriesJoin
  <2>c. (earlier \o ExchangeUpTo(asked)) \o <<a>> = earlier \o (ExchangeUpTo(asked) \o <<a>>)
    BY <2>3, <2>b, EntriesAssociate
  <2>7. messages' = earlier \o (ExchangeUpTo(asked) \o <<a>>)
    BY <2>1, <2>4, <2>b, <2>c
  <2>8. FollowedBy(ExchangeUpTo(Front(asked)) \o <<Assistant(prompts, Len(asked), Last(asked))>>, messages)'
    BY <2>4, <2>6, <2>7 DEF FollowedBy
  <2> QED
    BY <2>1, <2>8 DEF HistoryInv
<1>5. CASE EnterRequest
  <2>1. phase = "enter" /\ phase' = "request" /\ UNCHANGED <<messages, asked, kind, prompts>>
    BY <1>5 DEF EnterRequest
  <2> QED
    BY <2>1 DEF HistoryInv, FollowedBy, ExchangeUpTo
<1>6. CASE Request \/ Cancel \/ ListRefused \/ UNCHANGED vars
  <2>1. UNCHANGED <<messages, phase, asked, kind, prompts>>
    BY <1>6 DEF Request, Cancel, ListRefused, vars, providerVars
  <2> QED
    BY <2>1 DEF HistoryInv, FollowedBy, ExchangeUpTo
<1>7. CASE RefuseTurn \/ AbandonTurn \/ ToolsThrow \/ EnterCancelled \/ TurnFails \/ TurnThrows
           \/ ListModels \/ ResetSession \/ \E document \in Documents : Listed(document)
  <2>1. phase' \in {"idle", "listing"}
    BY <1>7 DEF RefuseTurn, AbandonTurn, ToolsThrow, EnterCancelled, TurnFails, TurnThrows, ListModels,
        ResetSession, Listed
  <2> QED
    BY <2>1 DEF HistoryInv
<1> QED
  BY <1>1, <1>2, <1>3, <1>4, <1>5, <1>6, <1>7 DEF Next, TurnStep

\* Whatever was trimmed, every request carries the question of its prompt and
\* every call with every response to it, behind at most MaxEntries messages of
\* earlier prompts (trim_history, start_turn, continue_turn): however many
\* rounds, calls and prompts there are.
THEOREM RequestsAreComplete == Spec => []RequestIsComplete
<1>1. Init => HistoryInv
  BY DEF Init, HistoryInv
<1>2. TypeInv /\ HistoryInv => RequestIsComplete
  <2> SUFFICES ASSUME TypeInv, HistoryInv, phase = "request" PROVE RequestIsComplete
    BY DEF RequestIsComplete
  <2>1. TurnTyped /\ asked \in Seq(Nat) /\ MaxEntries \in Nat
    BY ProviderAssumption DEF ProviderAssumption, TypeInv, TurnTyped
  <2>2. Exchange = ExchangeUpTo(asked) /\ Exchange \in Seq(Entry)
    BY <2>1, ExchangeIs DEF Exchange, ExchangeUpTo
  <2>3. PICK earlier \in Seq(Entry) : Len(earlier) <= MaxEntries /\ messages = earlier \o Exchange
    BY <2>2 DEF HistoryInv, FollowedBy
  <2>4. IsSuffix(Exchange, messages)
    BY <2>2, <2>3, EndIsSuffix
  <2>5. Len(messages) = Len(earlier) + Len(Exchange) /\ Len(earlier) \in Nat /\ Len(Exchange) \in Nat
    BY <2>2, <2>3, EntriesJoin
  <2> QED
    BY <2>1, <2>3, <2>4, <2>5 DEF RequestIsComplete
<1> QED
  BY <1>1, <1>2, StepOfHistory, Typed, PTL DEF Spec

-----------------------------------------------------------------------------
(* Calls and responses *)

Paired(history) ==
    \A i \in 1..Len(history) : history[i].role = "tool" =>
        \E j \in 1..i - 1 : /\ history[j].role = "assistant"
                            /\ history[j].prompt = history[i].prompt
                            /\ history[j].round = history[i].round

\* Responses may join a conversation that holds their calls, other messages any.
LEMMA PairedWithMore ==
  ASSUME NEW h \in Seq(Message), Paired(h), NEW more \in Seq(Message),
         \A i \in 1..Len(more) : more[i].role = "tool" =>
            \E j \in 1..Len(h) : /\ h[j].role = "assistant"
                                 /\ h[j].prompt = more[i].prompt
                                 /\ h[j].round = more[i].round
  PROVE  Paired(h \o more)
<1> DEFINE all == h \o more
<1>1. /\ Len(all) = Len(h) + Len(more) /\ Len(h) \in Nat /\ Len(more) \in Nat
      /\ \A i \in 1..Len(h) : all[i] = h[i]
      /\ \A i \in 1..Len(more) : all[Len(h) + i] = more[i]
  OBVIOUS
<1> HIDE DEF all
<1> SUFFICES ASSUME NEW i \in 1..Len(all), all[i].role = "tool"
             PROVE  \E j \in 1..i - 1 : /\ all[j].role = "assistant"
                                        /\ all[j].prompt = all[i].prompt
                                        /\ all[j].round = all[i].round
  BY DEF Paired, all
<1>2. CASE i \in 1..Len(h)
  <2>1. PICK j \in 1..i - 1 : h[j].role = "assistant" /\ h[j].prompt = h[i].prompt /\ h[j].round = h[i].round
    BY <1>1, <1>2 DEF Paired
  <2>2. j \in 1..Len(h) /\ all[j] = h[j] /\ all[i] = h[i]
    BY <1>1, <1>2
  <2> QED
    BY <2>1, <2>2
<1>3. CASE i \notin 1..Len(h)
  <2>0. i > Len(h) /\ i \in Nat /\ i <= Len(h) + Len(more)
    BY <1>1, <1>3
  <2>1. i - Len(h) \in 1..Len(more) /\ Len(h) + (i - Len(h)) = i /\ 1..Len(h) \subseteq 1..i - 1
    BY <1>1, <2>0
  <2>2. all[i] = more[i - Len(h)]
    BY <1>1, <2>1
  <2>3. PICK j \in 1..Len(h) :
            h[j].role = "assistant" /\ h[j].prompt = all[i].prompt /\ h[j].round = all[i].round
    BY <2>1, <2>2
  <2>4. j \in 1..i - 1 /\ all[j] = h[j]
    BY <1>1, <2>1
  <2> QED
    BY <2>3, <2>4
<1> QED
  BY <1>2, <1>3

\* While tools run, the conversation ends in the answer that called them.
LEMMA EndsInCalls ==
  ASSUME StreamInv, TypeInv, HistoryInv, phase = "tools"
  PROVE  /\ Len(messages) \in 1..Len(messages)
         /\ messages[Len(messages)] = Assistant(prompts, Len(asked), Last(asked))
<1> DEFINE a == Assistant(prompts, Len(asked), Last(asked))
           before == ExchangeUpTo(Front(asked))
<1>1. TurnTyped /\ asked \in Seq(Nat) /\ asked # <<>> /\ prompts \in Nat
  BY ProviderAssumption DEF ProviderAssumption, TypeInv, TurnTyped
<1>2. \A t \in Seq(Nat) : t # <<>> => Front(t) \in Seq(Nat) /\ Last(t) \in Nat
  BY FrontAndLast
<1>3. a \in Entry /\ before \in Seq(Entry)
  BY <1>1, <1>2, EntriesTyped, ExchangeIs
<1>4. PICK earlier \in Seq(Entry) : messages = earlier \o (before \o <<a>>)
  BY DEF HistoryInv, FollowedBy
<1> HIDE DEF a, before
<1>5. messages = Append(earlier \o before, a) /\ earlier \o before \in Seq(Entry)
  BY <1>3, <1>4
<1> QED
  BY <1>3, <1>5 DEF a

\* The host keeps more entries than any conversation has when a prompt begins.
CutsNothing ==
    \A max_entries \in 1..MaxEntries : PromptWith(max_entries) => Len(messages) <= max_entries

\* Only trimming parts a response from its call (docs/providers.md promises that
\* it does not): where it never cuts, every response follows the answer that
\* made its call, however turns fail, throw or are cancelled.
THEOREM PairsKeptUnlessTrimmed == Spec /\ [][CutsNothing]_vars => []PairsKept
<1>0. PairsKept <=> Paired(messages)
  BY DEF PairsKept, Paired
<1>1. Init => PairsKept
  BY DEF Init, PairsKept
<1>2. ASSUME StreamInv, TypeInv, HistoryInv, PairsKept, [Next]_vars, [CutsNothing]_vars
      PROVE  PairsKept'
  <2>t. messages \in Seq(Message) /\ TurnTyped /\ StreamTyped /\ Len(messages) \in Nat /\ MaxEntries \in Nat
    BY <1>2, ProviderAssumption DEF ProviderAssumption, TypeInv, ConversationTyped, StreamInv
  <2>p. Paired(messages)
    BY <1>0, <1>2
  <2> SUFFICES Paired(messages')
    BY DEF PairsKept, Paired
  <2>1. CASE Prompt
    <3>0. PICK n \in 1..MaxEntries : PromptWith(n)
      BY <2>1 DEF Prompt
    <3>1. Len(messages) <= n /\ messages' = Trim(messages, n)
      BY <1>2, <3>0 DEF CutsNothing, vars, providerVars, PromptWith
    <3>2. Trim(messages, n) = messages
      BY <2>t, <3>1 DEF Trim
    <3> QED
      BY <2>p, <3>1, <3>2
  <2>2. CASE StartTurn
    <3> DEFINE question == User(prompts)
    <3>1. System \in Message /\ question \in Message /\ System.role # "tool" /\ question.role # "tool"
      BY <2>t, ProviderAssumption DEF ProviderAssumption, TurnTyped, System, User, Message
    <3>2. messages' \in {messages \o <<question>>, <<System>> \o <<question>>}
      BY <2>2 DEF StartTurn, Started
    <3> HIDE DEF question
    <3>3. <<question>> \in Seq(Message) /\ \A i \in 1..Len(<<question>>) : <<question>>[i].role # "tool"
      BY <3>1
    <3>4. <<System>> \in Seq(Message) /\ Paired(<<System>>)
      BY <3>1 DEF Paired
    <3>5. Paired(messages \o <<question>>)
      BY <2>t, <2>p, <3>3, PairedWithMore
    <3>6. Paired(<<System>> \o <<question>>)
      BY <3>3, <3>4, PairedWithMore
    <3> QED
      BY <3>2, <3>5, <3>6
  <2>3. CASE ContinueTurn
    <3> DEFINE more == Responses(kind, prompts, Len(asked), Last(asked))
    <3>1. messages' = messages \o more /\ phase = "tools" /\ Len(asked) <= MaxRounds
      BY <2>3 DEF ContinueTurn, Continued
    <3>2. more \in Seq(Message) /\ \A i \in 1..Len(more) : AnswersRound(more[i])
      BY <2>t, <3>1, ResponsesTyped
    <3> HIDE DEF more
    <3>3. /\ Len(messages) \in 1..Len(messages)
          /\ messages[Len(messages)] = Assistant(prompts, Len(asked), Last(asked))
      BY <1>2, <3>1, EndsInCalls
    <3>4. /\ messages[Len(messages)].role = "assistant"
          /\ messages[Len(messages)].prompt = prompts
          /\ messages[Len(messages)].round = Len(asked)
      BY <3>3 DEF Assistant
    <3>5. Paired(messages \o more)
      BY <2>t, <2>p, <3>2, <3>3, <3>4, PairedWithMore DEF AnswersRound
    <3> QED
      BY <3>1, <3>5
  <2>4. CASE TurnAnswered
    <3> DEFINE answer == Assistant(prompts, Len(asked) + 1, CallCount)
    <3>1. messages' = Append(messages, answer) /\ phase = "request"
      BY <2>4 DEF TurnAnswered
    <3>2. answer \in Message
      BY <2>t, <3>1, AnswerMessageTyped
    <3>3. answer.role # "tool"
      BY DEF Assistant
    <3> HIDE DEF answer
    <3>4. <<answer>> \in Seq(Message) /\ \A i \in 1..Len(<<answer>>) : <<answer>>[i].role # "tool"
      BY <3>2, <3>3
    <3>5. Append(messages, answer) = messages \o <<answer>>
      BY <2>t, <3>2
    <3> QED
      BY <2>t, <2>p, <3>1, <3>4, <3>5, PairedWithMore
  <2>5. CASE ResetSession
    BY <2>5 DEF ResetSession, Paired
  <2>6. CASE EnterRequest \/ Request \/ Cancel \/ ListRefused \/ ListModels \/ UNCHANGED vars
    BY <2>p, <2>6 DEF EnterRequest, Request, Cancel, providerVars, ListRefused, ListModels, vars
  <2>7. CASE RefuseTurn \/ AbandonTurn \/ ToolsThrow \/ EnterCancelled \/ TurnFails \/ TurnThrows
             \/ \E document \in Documents : Listed(document)
    BY <2>p, <2>7 DEF RefuseTurn, AbandonTurn, ToolsThrow, EnterCancelled, TurnFails, TurnThrows, Listed
  <2> QED
    BY <1>2, <2>1, <2>2, <2>3, <2>4, <2>5, <2>6, <2>7 DEF Next, TurnStep
<1>3. Init => HistoryInv
  BY DEF Init, HistoryInv
<1> QED
  BY <1>1, <1>2, <1>3, StepOfHistory, Typed, PTL DEF Spec
==============================================================================
