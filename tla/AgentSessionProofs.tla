------------------------- MODULE AgentSessionProofs -------------------------
(***************************************************************************)
(* What TLAPS proves of AgentSession, for any number of threads, providers,*)
(* tools, tool rounds and calls per turn.                                  *)
(***************************************************************************)
EXTENDS AgentSession, TLAPS

\* Exactly the thread inside a critical section holds the mutex.
LockHeld ==
    \A t \in Threads : pc[t] \in Locked <=> mutex = t

\* The provider is set and alive, and is the owned one if there is one.
ProviderLive ==
    /\ provider \notin destroyed
    /\ owned \notin destroyed
    /\ owned # NoProvider => provider = owned
    /\ \A t \in Threads : pc[t] \in Published \cup {"entered"} => provider # NoProvider

\* active_provider_ is set exactly while a prompt is between its store and
\* its guard's destructor, and then it is the session's provider.
PublishedExactly ==
    /\ \A t \in Threads : pc[t] \in Published => active = provider
    /\ active # NoProvider => \E t \in Threads : pc[t] \in Published

\* A tool that runs answers a call of the turn that is still unanswered.
HasCall(t) ==
    /\ pc[t] = "tools" => Len(responses[t]) <= Len(calls[t])
    /\ pc[t] = "tool" => Len(responses[t]) < Len(calls[t])
ToolHasCall == \A t \in Threads : HasCall(t)

\* How far the turn loop is, in rounds and in requests.
LoopProgress ==
    \A t \in Threads :
        /\ round[t] <= MaxRounds
        /\ requests[t] <= round[t] + 1
        /\ pc[t] \in {"tools", "tool"} => requests[t] <= round[t]
        /\ pc[t] \in {"idle", "listing", "entered"} \cup Cancelling => requests[t] = 0

\* A turn or tool that ends after the flag was set is the last one.
LateIsLast ==
    \A t \in Threads :
        /\ late[t] <= 1
        /\ pc[t] \in {"idle", "listing", "entered", "request", "tool"} \cup Cancelling => late[t] = 0
        /\ pc[t] \in {"entered", "request", "tools", "tool"} => result[t] = "none"
        /\ late[t] > 0 => (pc[t] = "tools" /\ t \in raised) \/ result[t] = "cancelled"

\* A model turn is a sequence of tool names.
LEMMA CallsAreSequences ==
  ASSUME NEW turn \in Calls
  PROVE  turn \in Seq(Tools)
<1>1. PICK n \in 1..MaxCalls : turn \in [1..n -> Tools]
  BY DEF Calls
<1> QED
  BY <1>1, SessionAssumption DEF SessionAssumption

\* Changing one value of a function keeps its type.
LEMMA UpdateType ==
  ASSUME NEW S, NEW f \in [Threads -> S], NEW t \in Threads, NEW v \in S
  PROVE  [f EXCEPT ![t] = v] \in [Threads -> S]
OBVIOUS

\* Appending keeps the type of a sequence.
LEMMA AppendType ==
  ASSUME NEW S, NEW s \in Seq(S), NEW v \in S
  PROVE  Append(s, v) \in Seq(S)
OBVIOUS

\* Calls and responses keep their types; a running tool has a call to answer.
LEMMA TurnStep ==
  ASSUME TypeOK, ToolHasCall, [Next]_vars
  PROVE  TurnOK' /\ ToolHasCall'
<1> USE DEF TypeOK, TurnOK, shared, locals, ToolHasCall, HasCall
<1>1. ASSUME NEW t \in Threads, NEW p \in Providers, NEW key \in Text, ConfigureProvider(t, p, key)
      PROVE  TurnOK' /\ ToolHasCall'
  BY <1>1 DEF ConfigureProvider, MayLock, Own, Usable, Goto
<1>2. ASSUME NEW t \in Threads, NEW key \in Text, ConfigureNull(t, key)
      PROVE  TurnOK' /\ ToolHasCall'
  BY <1>2 DEF ConfigureNull, MayLock, Own
<1>3. ASSUME NEW t \in Threads, NEW p \in Providers \cup {NoProvider}, NEW key \in Text, SetProvider(t, p, key)
      PROVE  TurnOK' /\ ToolHasCall'
  BY <1>3 DEF SetProvider, MayLock, Own, Usable
<1>4. ASSUME NEW t \in Threads, (\E model \in Text : SelectModel(t, model))
               \/ (\E tools \in SUBSET Tools : SetTools(t, tools))
               \/ (\E options \in Text : SetOptions(t, options))
               \/ ResetSession(t)
      PROVE  TurnOK' /\ ToolHasCall'
  BY <1>4 DEF SelectModel, SetTools, SetOptions, ResetSession, MayLock
<1>5. ASSUME NEW t \in Threads, NEW flag \in BOOLEAN, PromptEnter(t, flag)
      PROVE  TurnOK' /\ ToolHasCall'
  BY <1>5 DEF PromptEnter, MayLock, Ready, Goto
<1>6. ASSUME NEW t \in Threads, RaiseFlag(t)
      PROVE  TurnOK' /\ ToolHasCall'
  BY <1>6 DEF RaiseFlag
<1>7. ASSUME NEW t \in Threads, NEW model \in Text, ModelsListed(t, model)
      PROVE  TurnOK' /\ ToolHasCall'
  BY <1>7 DEF ModelsListed, Goto
<1>8. ASSUME NEW t \in Threads, PromptPublish(t)
      PROVE  TurnOK' /\ ToolHasCall'
  BY <1>8 DEF PromptPublish, Publish, CountRequest, Goto
<1>9. ASSUME NEW t \in Threads, TurnCancelled(t)
      PROVE  TurnOK' /\ ToolHasCall'
  BY <1>9 DEF TurnCancelled, CountLate, Return, Goto
<1>10. ASSUME NEW t \in Threads, NEW r \in {"failed", "cancelled"}, TurnFailed(t, r)
      PROVE  TurnOK' /\ ToolHasCall'
  BY <1>10 DEF TurnFailed, Return, Goto
<1>11. ASSUME NEW t \in Threads, TurnFinal(t)
      PROVE  TurnOK' /\ ToolHasCall'
  <2>1. TurnOK'
    <3>1. <<>> \in Seq(Tools) /\ calls' = [calls EXCEPT ![t] = <<>>]
      BY <1>11 DEF TurnFinal
    <3>2. calls' \in [Threads -> Seq(Tools)]
      BY <3>1, UpdateType
    <3>3. responses' \in [Threads -> Seq(Response)]
      BY <1>11 DEF TurnFinal
    <3> QED
      BY <3>2, <3>3
  <2>2. \A u \in Threads \ {t} : HasCall(u)'
    BY <1>11 DEF TurnFinal, Return, Goto
  <2>3. HasCall(t)'
    BY <1>11 DEF TurnFinal, Return, Goto
  <2> QED
    BY <2>1, <2>2, <2>3 DEF ToolHasCall
<1>12. ASSUME NEW t \in Threads, TurnTooMany(t)
      PROVE  TurnOK' /\ ToolHasCall'
  BY <1>12 DEF TurnTooMany, Return, Goto
<1>13. ASSUME NEW t \in Threads, NEW turn \in Calls, TurnTools(t, turn)
      PROVE  TurnOK' /\ ToolHasCall'
  <2>0. turn \in Seq(Tools)
    BY CallsAreSequences
  <2>1. TurnOK'
    <3>1. turn \in Seq(Tools) /\ calls' = [calls EXCEPT ![t] = turn]
      BY <1>13, <2>0 DEF TurnTools
    <3>2. calls' \in [Threads -> Seq(Tools)]
      BY <3>1, UpdateType
    <3>3. <<>> \in Seq(Response) /\ responses' = [responses EXCEPT ![t] = <<>>]
      BY <1>13, <2>0 DEF TurnTools
    <3>4. responses' \in [Threads -> Seq(Response)]
      BY <3>3, UpdateType
    <3> QED
      BY <3>2, <3>4
  <2>2. \A u \in Threads \ {t} : HasCall(u)'
    BY <1>13 DEF TurnTools, Goto
  <2>3. HasCall(t)'
    BY <1>13, <2>0 DEF TurnTools, Goto
  <2> QED
    BY <2>1, <2>2, <2>3 DEF ToolHasCall
<1>14. ASSUME NEW t \in Threads, ToolStart(t)
      PROVE  TurnOK' /\ ToolHasCall'
  <2>1. TurnOK'
    BY <1>14 DEF ToolStart
  <2>2. \A u \in Threads \ {t} : HasCall(u)'
    BY <1>14 DEF ToolStart, AllAnswered, Goto
  <2>3. HasCall(t)'
    BY <1>14 DEF ToolStart, AllAnswered, Goto
  <2> QED
    BY <2>1, <2>2, <2>3 DEF ToolHasCall
<1>15. ASSUME NEW t \in Threads, ToolDone(t)
      PROVE  TurnOK' /\ ToolHasCall'
  <2> DEFINE r == Execute(CallInTurn(t))
  <2>0. Append(responses[t], r) \in Seq(Response)
    <3>1. r \in Response
      BY <1>15 DEF ToolDone, Execute, CallInTurn, Response
    <3> QED
      BY <3>1, AppendType
  <2>1. TurnOK'
    <3>1. calls' \in [Threads -> Seq(Tools)]
      BY <1>15 DEF ToolDone
    <3>3. Append(responses[t], r) \in Seq(Response) /\ responses' = [responses EXCEPT ![t] = Append(responses[t], r)]
      BY <1>15, <2>0 DEF ToolDone
    <3>4. responses' \in [Threads -> Seq(Response)]
      BY <3>3, UpdateType
    <3> QED
      BY <3>1, <3>4
  <2>2. \A u \in Threads \ {t} : HasCall(u)'
    BY <1>15 DEF ToolDone, Goto
  <2>3. HasCall(t)'
    BY <1>15, <2>0 DEF ToolDone, Goto
  <2> QED
    BY <2>1, <2>2, <2>3 DEF ToolHasCall
<1>16. ASSUME NEW t \in Threads, ToolsCancelled(t)
      PROVE  TurnOK' /\ ToolHasCall'
  BY <1>16 DEF ToolsCancelled, Return, Goto
<1>17. ASSUME NEW t \in Threads, ContinueTurn(t)
      PROVE  TurnOK' /\ ToolHasCall'
  BY <1>17 DEF ContinueTurn, AllAnswered, CountRequest, Goto
<1>18. ASSUME NEW t \in Threads, Unwind(t)
      PROVE  TurnOK' /\ ToolHasCall'
  BY <1>18 DEF Unwind, Return, Goto
<1>19. ASSUME NEW t \in Threads, PromptUnpublish(t)
      PROVE  TurnOK' /\ ToolHasCall'
  BY <1>19 DEF PromptUnpublish, Unpublish, Goto
<1>20. ASSUME NEW t \in Threads, PromptUnlock(t)
      PROVE  TurnOK' /\ ToolHasCall'
  <2>1. TurnOK'
    <3>1. <<>> \in Seq(Tools) /\ calls' = [calls EXCEPT ![t] = <<>>]
      BY <1>20 DEF PromptUnlock
    <3>2. calls' \in [Threads -> Seq(Tools)]
      BY <3>1, UpdateType
    <3>3. <<>> \in Seq(Response) /\ responses' = [responses EXCEPT ![t] = <<>>]
      BY <1>20 DEF PromptUnlock
    <3>4. responses' \in [Threads -> Seq(Response)]
      BY <3>3, UpdateType
    <3> QED
      BY <3>2, <3>4
  <2>2. \A u \in Threads \ {t} : HasCall(u)'
    BY <1>20 DEF PromptUnlock, Goto
  <2>3. HasCall(t)'
    BY <1>20 DEF PromptUnlock, Goto
  <2> QED
    BY <2>1, <2>2, <2>3 DEF ToolHasCall
<1>21. ASSUME NEW t \in Threads, CancelLoad(t)
      PROVE  TurnOK' /\ ToolHasCall'
  BY <1>21 DEF CancelLoad, Goto
<1>22. ASSUME NEW t \in Threads, CancelCall(t)
      PROVE  TurnOK' /\ ToolHasCall'
  BY <1>22 DEF CancelCall, Stop, Goto
<1>23. ASSUME NEW t \in Threads, CancelLocked(t)
      PROVE  TurnOK' /\ ToolHasCall'
  BY <1>23 DEF CancelLocked, Stop, Goto
<1>24. ASSUME NEW t \in Threads, CancelInCallback(t)
      PROVE  TurnOK' /\ ToolHasCall'
  BY <1>24 DEF CancelInCallback, Stop
<1>25. CASE UNCHANGED vars
  BY <1>25 DEF vars
<1> HIDE DEF TypeOK, TurnOK, shared, locals, ToolHasCall, HasCall
<1> QED
  BY <1>1, <1>2, <1>3, <1>4, <1>5, <1>6, <1>7, <1>8,
     <1>9, <1>10, <1>11, <1>12, <1>13, <1>14, <1>15, <1>16,
     <1>17, <1>18, <1>19, <1>20, <1>21, <1>22, <1>23, <1>24,
     <1>25
     DEF Next, Step, Configure

\* Every step keeps every type.
LEMMA TypeStep ==
  ASSUME TypeOK, ProviderLive, TurnOK', [Next]_vars
  PROVE  TypeOK'
<1> USE SessionAssumption DEF SessionAssumption, TypeOK, shared, locals, Text, Settings, Results,
        Published, Locked, Cancelling, ProviderLive
<1>1. ASSUME NEW t \in Threads, NEW p \in Providers, NEW key \in Text, ConfigureProvider(t, p, key)
      PROVE  TypeOK'
  BY <1>1 DEF ConfigureProvider, MayLock, Own, Usable, Goto
<1>2. ASSUME NEW t \in Threads, NEW key \in Text, ConfigureNull(t, key)
      PROVE  TypeOK'
  BY <1>2 DEF ConfigureNull, MayLock, Own
<1>3. ASSUME NEW t \in Threads, NEW p \in Providers \cup {NoProvider}, NEW key \in Text, SetProvider(t, p, key)
      PROVE  TypeOK'
  BY <1>3 DEF SetProvider, MayLock, Own, Usable
<1>4. ASSUME NEW t \in Threads, (\E model \in Text : SelectModel(t, model))
               \/ (\E tools \in SUBSET Tools : SetTools(t, tools))
               \/ (\E options \in Text : SetOptions(t, options))
               \/ ResetSession(t)
      PROVE  TypeOK'
  BY <1>4 DEF SelectModel, SetTools, SetOptions, ResetSession, MayLock
<1>5. ASSUME NEW t \in Threads, NEW flag \in BOOLEAN, PromptEnter(t, flag)
      PROVE  TypeOK'
  BY <1>5 DEF PromptEnter, MayLock, Ready, Goto
<1>6. ASSUME NEW t \in Threads, RaiseFlag(t)
      PROVE  TypeOK'
  BY <1>6 DEF RaiseFlag
<1>7. ASSUME NEW t \in Threads, NEW model \in Text, ModelsListed(t, model)
      PROVE  TypeOK'
  BY <1>7 DEF ModelsListed, Goto
<1>8. ASSUME NEW t \in Threads, PromptPublish(t)
      PROVE  TypeOK'
  BY <1>8 DEF PromptPublish, Publish, CountRequest, Goto
<1>9. ASSUME NEW t \in Threads, TurnCancelled(t)
      PROVE  TypeOK'
  BY <1>9 DEF TurnCancelled, CountLate, Return, Goto
<1>10. ASSUME NEW t \in Threads, NEW r \in {"failed", "cancelled"}, TurnFailed(t, r)
      PROVE  TypeOK'
  BY <1>10 DEF TurnFailed, Return, Goto
<1>11. ASSUME NEW t \in Threads, TurnFinal(t)
      PROVE  TypeOK'
  BY <1>11 DEF TurnFinal, Return, Goto
<1>12. ASSUME NEW t \in Threads, TurnTooMany(t)
      PROVE  TypeOK'
  BY <1>12 DEF TurnTooMany, Return, Goto
<1>13. ASSUME NEW t \in Threads, NEW turn \in Calls, TurnTools(t, turn)
      PROVE  TypeOK'
  BY <1>13 DEF TurnTools, CountRound, Exhausted, Goto
<1>14. ASSUME NEW t \in Threads, ToolStart(t)
      PROVE  TypeOK'
  BY <1>14 DEF ToolStart, Goto
<1>15. ASSUME NEW t \in Threads, ToolDone(t)
      PROVE  TypeOK'
  BY <1>15 DEF ToolDone, CountLate, Goto
<1>16. ASSUME NEW t \in Threads, ToolsCancelled(t)
      PROVE  TypeOK'
  BY <1>16 DEF ToolsCancelled, Return, Goto
<1>17. ASSUME NEW t \in Threads, ContinueTurn(t)
      PROVE  TypeOK'
  BY <1>17 DEF ContinueTurn, AllAnswered, CountRequest, Goto
<1>18. ASSUME NEW t \in Threads, Unwind(t)
      PROVE  TypeOK'
  BY <1>18 DEF Unwind, Return, Goto
<1>19. ASSUME NEW t \in Threads, PromptUnpublish(t)
      PROVE  TypeOK'
  BY <1>19 DEF PromptUnpublish, Unpublish, Goto
<1>20. ASSUME NEW t \in Threads, PromptUnlock(t)
      PROVE  TypeOK'
  BY <1>20 DEF PromptUnlock, Goto
<1>21. ASSUME NEW t \in Threads, CancelLoad(t)
      PROVE  TypeOK'
  BY <1>21 DEF CancelLoad, Goto
<1>22. ASSUME NEW t \in Threads, CancelCall(t)
      PROVE  TypeOK'
  BY <1>22 DEF CancelCall, Stop, Goto
<1>23. ASSUME NEW t \in Threads, CancelLocked(t)
      PROVE  TypeOK'
  BY <1>23 DEF CancelLocked, Stop, Goto
<1>24. ASSUME NEW t \in Threads, CancelInCallback(t)
      PROVE  TypeOK'
  BY <1>24 DEF CancelInCallback, Stop
<1>25. CASE UNCHANGED vars
  BY <1>25 DEF vars
<1> HIDE DEF SessionAssumption, TypeOK, shared, locals, Text, Settings, Results,
        Published, Locked, Cancelling, ProviderLive
<1> QED
  BY <1>1, <1>2, <1>3, <1>4, <1>5, <1>6, <1>7, <1>8,
     <1>9, <1>10, <1>11, <1>12, <1>13, <1>14, <1>15, <1>16,
     <1>17, <1>18, <1>19, <1>20, <1>21, <1>22, <1>23, <1>24,
     <1>25
     DEF Next, Step, Configure

-----------------------------------------------------------------------------
\* The parts of the invariant about the session's shared state: the mutex, the
\* provider it protects and the pointer published without it.
SharedInv == LockHeld /\ ProviderLive /\ PublishedExactly

\* The critical sections exclude each other; so the session never points at a
\* destroyed provider, and the published pointer brackets the turn loop.
LEMMA SharedStep ==
  ASSUME TypeOK, SharedInv, [Next]_vars
  PROVE  SharedInv'
<1> USE SessionAssumption DEF SessionAssumption, TypeOK, SharedInv, LockHeld, ProviderLive,
        PublishedExactly, shared, locals, Published, Locked, Cancelling
<1>1. ASSUME NEW t \in Threads, NEW p \in Providers, NEW key \in Text, ConfigureProvider(t, p, key)
      PROVE  SharedInv'
  BY <1>1 DEF ConfigureProvider, MayLock, Own, Usable, Goto
<1>2. ASSUME NEW t \in Threads, NEW key \in Text, ConfigureNull(t, key)
      PROVE  SharedInv'
  BY <1>2 DEF ConfigureNull, MayLock, Own
<1>3. ASSUME NEW t \in Threads, NEW p \in Providers \cup {NoProvider}, NEW key \in Text, SetProvider(t, p, key)
      PROVE  SharedInv'
  BY <1>3 DEF SetProvider, MayLock, Own, Usable
<1>4. ASSUME NEW t \in Threads, (\E model \in Text : SelectModel(t, model))
               \/ (\E tools \in SUBSET Tools : SetTools(t, tools))
               \/ (\E options \in Text : SetOptions(t, options))
               \/ ResetSession(t)
      PROVE  SharedInv'
  BY <1>4 DEF SelectModel, SetTools, SetOptions, ResetSession, MayLock
<1>5. ASSUME NEW t \in Threads, NEW flag \in BOOLEAN, PromptEnter(t, flag)
      PROVE  SharedInv'
  BY <1>5 DEF PromptEnter, MayLock, Ready, Goto
<1>6. ASSUME NEW t \in Threads, RaiseFlag(t)
      PROVE  SharedInv'
  BY <1>6 DEF RaiseFlag
<1>7. ASSUME NEW t \in Threads, NEW model \in Text, ModelsListed(t, model)
      PROVE  SharedInv'
  BY <1>7 DEF ModelsListed, Goto
<1>8. ASSUME NEW t \in Threads, PromptPublish(t)
      PROVE  SharedInv'
  BY <1>8 DEF PromptPublish, Publish, CountRequest, Goto
<1>9. ASSUME NEW t \in Threads, TurnCancelled(t)
      PROVE  SharedInv'
  BY <1>9 DEF TurnCancelled, CountLate, Return, Goto
<1>10. ASSUME NEW t \in Threads, NEW r \in {"failed", "cancelled"}, TurnFailed(t, r)
      PROVE  SharedInv'
  BY <1>10 DEF TurnFailed, Return, Goto
<1>11. ASSUME NEW t \in Threads, TurnFinal(t)
      PROVE  SharedInv'
  BY <1>11 DEF TurnFinal, Return, Goto
<1>12. ASSUME NEW t \in Threads, TurnTooMany(t)
      PROVE  SharedInv'
  BY <1>12 DEF TurnTooMany, Return, Goto
<1>13. ASSUME NEW t \in Threads, NEW turn \in Calls, TurnTools(t, turn)
      PROVE  SharedInv'
  BY <1>13 DEF TurnTools, CountRound, Exhausted, Goto
<1>14. ASSUME NEW t \in Threads, ToolStart(t)
      PROVE  SharedInv'
  BY <1>14 DEF ToolStart, MayRunTool, AllAnswered, Goto
<1>15. ASSUME NEW t \in Threads, ToolDone(t)
      PROVE  SharedInv'
  BY <1>15 DEF ToolDone, CountLate, Execute, CallInTurn, Goto
<1>16. ASSUME NEW t \in Threads, ToolsCancelled(t)
      PROVE  SharedInv'
  BY <1>16 DEF ToolsCancelled, Return, Goto
<1>17. ASSUME NEW t \in Threads, ContinueTurn(t)
      PROVE  SharedInv'
  BY <1>17 DEF ContinueTurn, AllAnswered, CountRequest, Goto
<1>18. ASSUME NEW t \in Threads, Unwind(t)
      PROVE  SharedInv'
  BY <1>18 DEF Unwind, Return, Goto
<1>19. ASSUME NEW t \in Threads, PromptUnpublish(t)
      PROVE  SharedInv'
  BY <1>19 DEF PromptUnpublish, Unpublish, Goto
<1>20. ASSUME NEW t \in Threads, PromptUnlock(t)
      PROVE  SharedInv'
  BY <1>20 DEF PromptUnlock, Goto
<1>21. ASSUME NEW t \in Threads, CancelLoad(t)
      PROVE  SharedInv'
  BY <1>21 DEF CancelLoad, Goto
<1>22. ASSUME NEW t \in Threads, CancelCall(t)
      PROVE  SharedInv'
  BY <1>22 DEF CancelCall, Stop, Goto
<1>23. ASSUME NEW t \in Threads, CancelLocked(t)
      PROVE  SharedInv'
  BY <1>23 DEF CancelLocked, Stop, Goto
<1>24. ASSUME NEW t \in Threads, CancelInCallback(t)
      PROVE  SharedInv'
  BY <1>24 DEF CancelInCallback, Stop
<1>25. CASE UNCHANGED vars
  BY <1>25 DEF vars
<1> HIDE DEF SessionAssumption, TypeOK, SharedInv, LockHeld, ProviderLive,
        PublishedExactly, shared, locals, Published, Locked, Cancelling
<1> QED
  BY <1>1, <1>2, <1>3, <1>4, <1>5, <1>6, <1>7, <1>8,
     <1>9, <1>10, <1>11, <1>12, <1>13, <1>14, <1>15, <1>16,
     <1>17, <1>18, <1>19, <1>20, <1>21, <1>22, <1>23, <1>24,
     <1>25
     DEF Next, Step, Configure

\* The parts about one prompt's progress: its budget and its cancellation.
PromptInv == LoopProgress /\ LateIsLast

\* Rounds and requests advance together and stop at the budget; after the flag
\* is set one turn or tool may end, and then prompt() returns.
LEMMA PromptStep ==
  ASSUME TypeOK, PromptInv, [Next]_vars
  PROVE  PromptInv'
<1> USE SessionAssumption DEF SessionAssumption, TypeOK, PromptInv, LoopProgress, LateIsLast,
        shared, locals, Published, Locked, Cancelling
<1>1. ASSUME NEW t \in Threads, NEW p \in Providers, NEW key \in Text, ConfigureProvider(t, p, key)
      PROVE  PromptInv'
  BY <1>1 DEF ConfigureProvider, MayLock, Own, Usable, Goto
<1>2. ASSUME NEW t \in Threads, NEW key \in Text, ConfigureNull(t, key)
      PROVE  PromptInv'
  BY <1>2 DEF ConfigureNull, MayLock, Own
<1>3. ASSUME NEW t \in Threads, NEW p \in Providers \cup {NoProvider}, NEW key \in Text, SetProvider(t, p, key)
      PROVE  PromptInv'
  BY <1>3 DEF SetProvider, MayLock, Own, Usable
<1>4. ASSUME NEW t \in Threads, (\E model \in Text : SelectModel(t, model))
               \/ (\E tools \in SUBSET Tools : SetTools(t, tools))
               \/ (\E options \in Text : SetOptions(t, options))
               \/ ResetSession(t)
      PROVE  PromptInv'
  BY <1>4 DEF SelectModel, SetTools, SetOptions, ResetSession, MayLock
<1>5. ASSUME NEW t \in Threads, NEW flag \in BOOLEAN, PromptEnter(t, flag)
      PROVE  PromptInv'
  BY <1>5 DEF PromptEnter, MayLock, Ready, Goto
<1>6. ASSUME NEW t \in Threads, RaiseFlag(t)
      PROVE  PromptInv'
  BY <1>6 DEF RaiseFlag
<1>7. ASSUME NEW t \in Threads, NEW model \in Text, ModelsListed(t, model)
      PROVE  PromptInv'
  BY <1>7 DEF ModelsListed, Goto
<1>8. ASSUME NEW t \in Threads, PromptPublish(t)
      PROVE  PromptInv'
  BY <1>8 DEF PromptPublish, Publish, CountRequest, Goto
<1>9. ASSUME NEW t \in Threads, TurnCancelled(t)
      PROVE  PromptInv'
  BY <1>9 DEF TurnCancelled, CountLate, Return, Goto
<1>10. ASSUME NEW t \in Threads, NEW r \in {"failed", "cancelled"}, TurnFailed(t, r)
      PROVE  PromptInv'
  BY <1>10 DEF TurnFailed, Return, Goto
<1>11. ASSUME NEW t \in Threads, TurnFinal(t)
      PROVE  PromptInv'
  BY <1>11 DEF TurnFinal, Return, Goto
<1>12. ASSUME NEW t \in Threads, TurnTooMany(t)
      PROVE  PromptInv'
  BY <1>12 DEF TurnTooMany, Return, Goto
<1>13. ASSUME NEW t \in Threads, NEW turn \in Calls, TurnTools(t, turn)
      PROVE  PromptInv'
  BY <1>13 DEF TurnTools, CountRound, Exhausted, Goto
<1>14. ASSUME NEW t \in Threads, ToolStart(t)
      PROVE  PromptInv'
  <2>1. LoopProgress'
    BY <1>14 DEF ToolStart, Goto
  <2>2. LateIsLast'
    BY <1>14 DEF ToolStart, MayRunTool, Goto
  <2> QED
    BY <2>1, <2>2
<1>15. ASSUME NEW t \in Threads, ToolDone(t)
      PROVE  PromptInv'
  BY <1>15 DEF ToolDone, CountLate, Goto
<1>16. ASSUME NEW t \in Threads, ToolsCancelled(t)
      PROVE  PromptInv'
  BY <1>16 DEF ToolsCancelled, Return, Goto
<1>17. ASSUME NEW t \in Threads, ContinueTurn(t)
      PROVE  PromptInv'
  BY <1>17 DEF ContinueTurn, MayContinue, AllAnswered, CountRequest, Goto
<1>18. ASSUME NEW t \in Threads, Unwind(t)
      PROVE  PromptInv'
  BY <1>18 DEF Unwind, Return, Goto
<1>19. ASSUME NEW t \in Threads, PromptUnpublish(t)
      PROVE  PromptInv'
  BY <1>19 DEF PromptUnpublish, Unpublish, Goto
<1>20. ASSUME NEW t \in Threads, PromptUnlock(t)
      PROVE  PromptInv'
  BY <1>20 DEF PromptUnlock, Goto
<1>21. ASSUME NEW t \in Threads, CancelLoad(t)
      PROVE  PromptInv'
  BY <1>21 DEF CancelLoad, Goto
<1>22. ASSUME NEW t \in Threads, CancelCall(t)
      PROVE  PromptInv'
  BY <1>22 DEF CancelCall, Stop, Goto
<1>23. ASSUME NEW t \in Threads, CancelLocked(t)
      PROVE  PromptInv'
  BY <1>23 DEF CancelLocked, Stop, Goto
<1>24. ASSUME NEW t \in Threads, CancelInCallback(t)
      PROVE  PromptInv'
  BY <1>24 DEF CancelInCallback, Stop
<1>25. CASE UNCHANGED vars
  BY <1>25 DEF vars
<1> HIDE DEF SessionAssumption, TypeOK, PromptInv, LoopProgress, LateIsLast,
        shared, locals, Published, Locked, Cancelling
<1> QED
  BY <1>1, <1>2, <1>3, <1>4, <1>5, <1>6, <1>7, <1>8,
     <1>9, <1>10, <1>11, <1>12, <1>13, <1>14, <1>15, <1>16,
     <1>17, <1>18, <1>19, <1>20, <1>21, <1>22, <1>23, <1>24,
     <1>25
     DEF Next, Step, Configure

-----------------------------------------------------------------------------
\* The inductive invariant of the session.  TypeOK needs ToolHasCall (the
\* response a tool appends answers an existing call) and ProviderLive (what is
\* recorded in the history is a provider); ProviderLive and PublishedExactly
\* need LockHeld (no reconfiguration between the checks and the unlock).
SessionInv ==
    /\ TypeOK
    /\ ToolHasCall
    /\ SharedInv
    /\ PromptInv

\* A new session satisfies the invariant.
LEMMA SessionInit == Init => SessionInv
<1> SUFFICES ASSUME Init PROVE SessionInv
  OBVIOUS
<1> USE SessionAssumption DEF SessionAssumption, Init
<1>1. TypeOK
  <2>1. TurnOK
    BY DEF TurnOK
  <2> QED
    BY <2>1 DEF TypeOK, Text, Settings, Results
<1>2. ToolHasCall /\ LockHeld /\ ProviderLive /\ PublishedExactly
  BY DEF ToolHasCall, HasCall, LockHeld, ProviderLive, PublishedExactly,
     Published, Locked
<1>3. LoopProgress /\ LateIsLast
  BY DEF LoopProgress, LateIsLast, Cancelling
<1> QED
  BY <1>1, <1>2, <1>3 DEF SessionInv, SharedInv, PromptInv

\* Every reachable state of the session satisfies the invariant: every method
\* keeps it, in every interleaving.
LEMMA SessionInvariant == Spec => []SessionInv
<1>1. SessionInv /\ [Next]_vars => SessionInv'
  BY TurnStep, TypeStep, SharedStep, PromptStep
     DEF SessionInv, SharedInv
<1> QED
  BY <1>1, SessionInit, PTL DEF Spec

\* All methods of the session keep its state well typed.
THEOREM SessionTypeCorrect == Spec => []TypeOK
<1>1. SessionInv => TypeOK
  BY DEF SessionInv
<1> QED
  BY <1>1, SessionInvariant, PTL

\* What the lock-free load of active_provider_ can see is the current, live
\* provider of the prompt in progress.
THEOREM PublicationSafe == Spec => []PublishedIsCurrent
<1>1. SessionInv => PublishedIsCurrent
  BY DEF SessionInv, SharedInv, TypeOK, LockHeld, ProviderLive, PublishedExactly, PublishedIsCurrent,
     Published, Locked
<1> QED
  BY <1>1, SessionInvariant, PTL

\* cancel_active_request() called from a callback of prompt() never locks the
\* mutex its own thread holds.
THEOREM ReentrantCancel == Spec => []ReentrantCancelSafe
<1>1. SessionInv => ReentrantCancelSafe
  BY DEF SessionInv, SharedInv, ProviderLive, PublishedExactly, ReentrantCancelSafe, Published
<1> QED
  BY <1>1, SessionInvariant, PTL

\* A prompt runs at most max_tool_rounds rounds and sends at most one request
\* more than that, whatever the model answers.
THEOREM BudgetHolds == Spec => []RoundBudget
<1>1. SessionInv => RoundBudget
  <2> SUFFICES ASSUME SessionInv, NEW t \in Threads
               PROVE  round[t] <= MaxRounds /\ requests[t] <= MaxRounds + 1
    BY DEF RoundBudget
  <2> QED
    BY SessionAssumption DEF SessionAssumption, SessionInv, PromptInv, TypeOK, LoopProgress
<1> QED
  BY <1>1, SessionInvariant, PTL

\* After the cancel flag is set, at most the turn or tool in progress still
\* ends, and the prompt reports the cancellation.
THEOREM CancelHolds == Spec => []CancelStopsPrompt
<1>1. SessionInv => CancelStopsPrompt
  <2> SUFFICES ASSUME SessionInv, NEW t \in Threads
               PROVE  late[t] <= 1 /\ (late[t] > 0 => result[t] \in {"none", "cancelled"})
    BY DEF CancelStopsPrompt
  <2> QED
    BY DEF SessionInv, PromptInv, LateIsLast
<1> QED
  BY <1>1, SessionInvariant, PTL

\* No other thread changes the configuration under a running prompt.
LEMMA ConfigurationStep ==
  ASSUME SessionInv, [Next]_vars, NEW u \in Threads, pc[u] \in Published \cup {"entered"}
  PROVE  UNCHANGED <<provider, owned, destroyed, settings>>
<1>1. CASE Next
  <2>1. mutex # NoThread
    BY SessionAssumption DEF SessionAssumption, SessionInv, SharedInv, LockHeld, Locked
  <2>2. \A t \in Threads : pc[t] # "listing"
    BY DEF SessionInv, SharedInv, LockHeld, Locked, Published
  <2>3. PICK t \in Threads :
            (\E flag \in BOOLEAN : PromptEnter(t, flag)) \/ RaiseFlag(t) \/ Step(t)
              \/ CancelLoad(t) \/ CancelLocked(t) \/ CancelInCallback(t)
    BY <1>1, <2>1 DEF Next, Configure, ConfigureProvider, ConfigureNull, SetProvider, SelectModel,
       SetTools, SetOptions, ResetSession, MayLock
  <2>4. CASE \E flag \in BOOLEAN : PromptEnter(t, flag)
    BY <2>4 DEF PromptEnter
  <2>5. CASE RaiseFlag(t) \/ CancelLoad(t) \/ CancelLocked(t) \/ CancelInCallback(t)
    BY <2>5 DEF RaiseFlag, CancelLoad, CancelLocked, CancelInCallback, shared
  <2>6. CASE Step(t)
    BY <2>2, <2>6 DEF Step, ModelsListed, PromptPublish, TurnCancelled, TurnFailed, TurnFinal,
       TurnTooMany, TurnTools, ToolStart, ToolDone, ToolsCancelled, ContinueTurn, Unwind,
       PromptUnpublish, PromptUnlock, CancelCall, shared
  <2> QED
    BY <2>3, <2>4, <2>5, <2>6
<1>2. CASE UNCHANGED vars
  BY <1>2 DEF vars, shared
<1> QED
  BY <1>1, <1>2

\* prompt() sees one configuration from its first check to its last request.
THEOREM ConfigurationFixed == Spec => PromptSeesOneConfiguration
<1> DEFINE A == \A t \in Threads :
              pc[t] \in Published \cup {"entered"} =>
                  UNCHANGED <<provider, owned, destroyed, settings>>
<1>1. SessionInv /\ [Next]_vars => [A]_vars
  BY ConfigurationStep
<1> QED
  BY <1>1, SessionInvariant, PTL DEF Spec, PromptSeesOneConfiguration

-----------------------------------------------------------------------------
\* Each response so far answers its call, as the registry stands.
AnswersSoFar(t) ==
    \A i \in 1..Len(responses[t]) : responses[t][i] = Execute(calls[t][i])
AnswersOf(t) ==
    /\ pc[t] \in {"tools", "tool"} => AnswersSoFar(t)
    /\ pc[t] = "request" /\ requests[t] > 1 => Len(responses[t]) = Len(calls[t]) /\ AnswersSoFar(t)
AnswersInv == \A t \in Threads : AnswersOf(t)

\* A thread that does not move keeps its answers, as no other changes the tools.
LEMMA AnswersKept ==
  ASSUME SessionInv, AnswersInv, [Next]_vars, NEW u \in Threads, pc'[u] = pc[u],
         calls'[u] = calls[u], responses'[u] = responses[u], requests'[u] = requests[u]
  PROVE  AnswersOf(u)'
<1>1. CASE pc[u] \in {"request", "tools", "tool"}
  <2>1. settings' = settings
    BY <1>1, ConfigurationStep DEF Published
  <2>2. AnswersSoFar(u) => AnswersSoFar(u)'
    BY <2>1 DEF AnswersSoFar, Execute
  <2> QED
    BY <2>2 DEF AnswersInv, AnswersOf
<1>2. CASE pc[u] \notin {"request", "tools", "tool"}
  BY <1>2 DEF AnswersOf
<1> QED
  BY <1>1, <1>2

\* No step answers a call twice, out of order or not at all.
LEMMA AnswersStep ==
  ASSUME SessionInv, AnswersInv, [Next]_vars
  PROVE  AnswersInv'
<1>t. TypeOK /\ pc \in [Threads -> {"idle"} \cup Locked \cup Cancelling]
  BY DEF SessionInv, TypeOK
<1> USE DEF shared, locals, Goto
<1>1. ASSUME NEW t \in Threads, AnswersOf(t)',
             \A u \in Threads \ {t} : /\ pc'[u] = pc[u] /\ calls'[u] = calls[u]
                                      /\ responses'[u] = responses[u] /\ requests'[u] = requests[u]
      PROVE  AnswersInv'
  BY <1>1, AnswersKept DEF AnswersInv
<1>2. ASSUME UNCHANGED <<pc, calls, responses, requests>> PROVE AnswersInv'
  BY <1>2, AnswersKept DEF AnswersInv
<1>3. ASSUME NEW t \in Threads,
             \/ \E p \in Providers, key \in Text : ConfigureProvider(t, p, key)
             \/ \E flag \in BOOLEAN : PromptEnter(t, flag)
             \/ \E model \in Text : ModelsListed(t, model)
             \/ CancelLoad(t) \/ CancelCall(t) \/ CancelLocked(t)
      PROVE  AnswersInv'
  <2>1. pc'[t] \notin {"request", "tools", "tool"}
    BY <1>t, <1>3 DEF ConfigureProvider, PromptEnter, ModelsListed, CancelLoad, CancelCall, CancelLocked
  <2>2. AnswersOf(t)'
    BY <2>1 DEF AnswersOf
  <2> QED
    BY <1>1, <1>t, <1>3, <2>2
       DEF ConfigureProvider, PromptEnter, ModelsListed, CancelLoad, CancelCall, CancelLocked
<1>4. ASSUME NEW t \in Threads,
             \/ TurnCancelled(t) \/ (\E r \in {"failed", "cancelled"} : TurnFailed(t, r))
             \/ TurnFinal(t) \/ TurnTooMany(t) \/ ToolsCancelled(t) \/ Unwind(t)
             \/ PromptUnpublish(t) \/ PromptUnlock(t)
      PROVE  AnswersInv'
  <2>1. pc'[t] \notin {"request", "tools", "tool"}
    BY <1>t, <1>4 DEF TurnCancelled, TurnFailed, TurnFinal, TurnTooMany, ToolsCancelled, Unwind,
        PromptUnpublish, PromptUnlock, Return
  <2>2. AnswersOf(t)'
    BY <2>1 DEF AnswersOf
  <2> QED
    BY <1>1, <1>t, <1>4, <2>2
       DEF TurnCancelled, TurnFailed, TurnFinal, TurnTooMany, ToolsCancelled, Unwind,
           PromptUnpublish, PromptUnlock, Return, TypeOK, TurnOK
<1>5. ASSUME NEW t \in Threads, PromptPublish(t) PROVE AnswersInv'
  <2>1. pc'[t] = "request" /\ requests'[t] = 1
    BY <1>5, SessionAssumption
       DEF SessionAssumption, PromptPublish, CountRequest, SessionInv, TypeOK, PromptInv, LoopProgress
  <2>2. AnswersOf(t)'
    BY <2>1 DEF AnswersOf
  <2> QED
    BY <1>1, <1>t, <1>5, <2>2 DEF PromptPublish, CountRequest, TypeOK
<1>6. ASSUME NEW t \in Threads, NEW turn \in Calls, TurnTools(t, turn) PROVE AnswersInv'
  <2>1. pc'[t] = "tools" /\ responses'[t] = <<>>
    BY <1>t, <1>6 DEF TurnTools, TypeOK, TurnOK
  <2>2. AnswersOf(t)'
    BY <2>1 DEF AnswersOf, AnswersSoFar
  <2> QED
    BY <1>1, <1>t, <1>6, <2>2 DEF TurnTools, TypeOK, TurnOK
<1>7. ASSUME NEW t \in Threads, ToolStart(t) \/ ContinueTurn(t) PROVE AnswersInv'
  <2>1. /\ AnswersSoFar(t) /\ settings' = settings /\ pc'[t] \in {"tool", "request"}
        /\ UNCHANGED <<calls, responses>>
        /\ pc'[t] = "request" => Len(responses[t]) = Len(calls[t])
    BY <1>t, <1>7 DEF ToolStart, ContinueTurn, AllAnswered, AnswersInv, AnswersOf
  <2>2. AnswersSoFar(t)'
    BY <2>1 DEF AnswersSoFar, Execute
  <2>3. AnswersOf(t)'
    BY <2>1, <2>2 DEF AnswersOf
  <2> QED
    BY <1>1, <1>t, <1>7, <2>3 DEF ToolStart, ContinueTurn, CountRequest, TypeOK
<1>8. ASSUME NEW t \in Threads, ToolDone(t) PROVE AnswersInv'
  <2>1. /\ AnswersSoFar(t) /\ settings' = settings /\ calls' = calls /\ pc'[t] = "tools"
        /\ responses'[t] = Append(responses[t], Execute(calls[t][Len(responses[t]) + 1]))
        /\ responses[t] \in Seq(Response)
    BY <1>t, <1>8 DEF ToolDone, CallInTurn, AnswersInv, AnswersOf, TypeOK, TurnOK
  <2>2. /\ Len(responses'[t]) = Len(responses[t]) + 1
        /\ \A i \in 1..Len(responses[t]) : responses'[t][i] = responses[t][i]
        /\ responses'[t][Len(responses[t]) + 1] = Execute(calls[t][Len(responses[t]) + 1])
    BY <2>1
  <2>3. \A name : Execute(name)' = Execute(name)
    BY <2>1 DEF Execute
  <2>4. AnswersSoFar(t)'
    BY <2>1, <2>2 DEF AnswersSoFar, Execute
  <2>5. AnswersOf(t)'
    BY <2>1, <2>4 DEF AnswersOf
  <2> QED
    BY <1>1, <1>t, <1>8, <2>5 DEF ToolDone, TypeOK, TurnOK
<1>9. ASSUME NEW t \in Threads,
             \/ \E key \in Text : ConfigureNull(t, key)
             \/ \E p \in Providers \cup {NoProvider}, key \in Text : SetProvider(t, p, key)
             \/ \E model \in Text : SelectModel(t, model)
             \/ \E tools \in SUBSET Tools : SetTools(t, tools)
             \/ \E options \in Text : SetOptions(t, options)
             \/ ResetSession(t) \/ RaiseFlag(t) \/ CancelInCallback(t)
      PROVE  AnswersInv'
  BY <1>2, <1>9 DEF ConfigureNull, SetProvider, SelectModel, SetTools, SetOptions, ResetSession,
      RaiseFlag, CancelInCallback
<1>10. CASE UNCHANGED vars
  BY <1>2, <1>10 DEF vars
<1> QED
  BY <1>3, <1>4, <1>5, <1>6, <1>7, <1>8, <1>9, <1>10 DEF Next, Step, Configure

\* continue_turn() gets exactly one response per call, in call order, and each
\* is the one the session's registry gives.
THEOREM AnswersComplete == Spec => []ResponsesAnswerCalls
<1>1. Init => AnswersInv
  BY DEF Init, AnswersInv, AnswersOf
<1>2. SessionInv /\ AnswersInv /\ [Next]_vars => AnswersInv'
  BY AnswersStep
<1>3. SessionInv /\ AnswersInv => ResponsesAnswerCalls
  BY DEF AnswersInv, AnswersOf, AnswersSoFar, ResponsesAnswerCalls
<1> QED
  BY <1>1, <1>2, <1>3, SessionInvariant, PTL DEF Spec

-----------------------------------------------------------------------------
(* What callers can do about the two runs that find a violation *)

\* The host gives the session no other provider of its own while a thread is
\* between the load of active_provider_ and the call through it.
NoSwapUnderCancel == (\E t \in Threads : pc[t] = "cancel_call") => owned' = owned

\* A provider dies only by losing the session's reference.
LEMMA DiesWhenDisowned ==
  ASSUME TypeOK, [Next]_vars, owned' = owned
  PROVE  destroyed' = destroyed
<1> USE SessionAssumption DEF SessionAssumption, TypeOK
<1>1. ASSUME NEW t \in Threads, Configure(t) PROVE destroyed' = destroyed
  <2>1. ASSUME NEW p, Own(p) PROVE destroyed' = destroyed
    BY <2>1 DEF Own
  <2>2. (\E p : Own(p)) \/ UNCHANGED destroyed
    BY <1>1 DEF Configure, ConfigureProvider, ConfigureNull, SetProvider, SelectModel, SetTools, SetOptions,
        ResetSession
  <2> QED
    BY <2>1, <2>2
<1>2. ASSUME NEW t \in Threads, Step(t) PROVE destroyed' = destroyed
  BY <1>2 DEF Step, ModelsListed, PromptPublish, TurnCancelled, TurnFailed, TurnFinal, TurnTooMany,
      TurnTools, ToolStart, ToolDone, ToolsCancelled, ContinueTurn, Unwind, PromptUnpublish,
      PromptUnlock, CancelCall, shared
<1>3. ASSUME NEW t \in Threads, NEW flag \in BOOLEAN, PromptEnter(t, flag) PROVE destroyed' = destroyed
  BY <1>3 DEF PromptEnter
<1>4. ASSUME NEW t \in Threads,
             RaiseFlag(t) \/ CancelLoad(t) \/ CancelLocked(t) \/ CancelInCallback(t)
      PROVE  destroyed' = destroyed
  BY <1>4 DEF RaiseFlag, CancelLoad, CancelLocked, CancelInCallback, shared
<1>5. CASE UNCHANGED vars
  BY <1>5 DEF vars
<1> QED
  BY <1>1, <1>2, <1>3, <1>4, <1>5 DEF Next

\* A thread comes to its call only from the load.
LEMMA TargetIsLoaded ==
  ASSUME TypeOK, [Next]_vars, NEW u \in Threads, pc'[u] = "cancel_call"
  PROVE  \/ pc[u] = "cancel_call" /\ target'[u] = target[u]
         \/ active # NoProvider /\ target'[u] = active /\ UNCHANGED shared
<1> USE DEF TypeOK, Goto
<1>1. ASSUME NEW t \in Threads, Configure(t) PROVE pc[u] = "cancel_call" /\ target'[u] = target[u]
  BY <1>1 DEF Configure, ConfigureProvider, ConfigureNull, SetProvider, SelectModel, SetTools, SetOptions,
      ResetSession, locals
<1>2. ASSUME NEW t \in Threads, Step(t) PROVE pc[u] = "cancel_call" /\ target'[u] = target[u]
  BY <1>2 DEF Step, ModelsListed, PromptPublish, TurnCancelled, TurnFailed, TurnFinal, TurnTooMany,
      TurnTools, ToolStart, ToolDone, ToolsCancelled, ContinueTurn, Unwind, PromptUnpublish,
      PromptUnlock, CancelCall, locals, Return
<1>3. ASSUME NEW t \in Threads, NEW flag \in BOOLEAN, PromptEnter(t, flag)
      PROVE  pc[u] = "cancel_call" /\ target'[u] = target[u]
  BY <1>3 DEF PromptEnter
<1>4. ASSUME NEW t \in Threads, RaiseFlag(t) \/ CancelLocked(t) \/ CancelInCallback(t)
      PROVE  pc[u] = "cancel_call" /\ target'[u] = target[u]
  BY <1>4 DEF RaiseFlag, CancelLocked, CancelInCallback, locals
<1>5. ASSUME NEW t \in Threads, CancelLoad(t)
      PROVE  \/ pc[u] = "cancel_call" /\ target'[u] = target[u]
             \/ active # NoProvider /\ target'[u] = active /\ UNCHANGED shared
  BY <1>5 DEF CancelLoad
<1>6. CASE UNCHANGED vars
  BY <1>6 DEF vars
<1> QED
  BY <1>1, <1>2, <1>3, <1>4, <1>5, <1>6 DEF Next

\* With such a host, the pointer a cancelling thread calls through is alive: it
\* was the current provider's when it was loaded (cancel_active_request).
THEOREM TargetAliveUnlessSwapped == Spec /\ [][NoSwapUnderCancel]_vars => []CancelTargetAlive
<1>1. Init => CancelTargetAlive
  BY DEF Init, CancelTargetAlive
<1>2. ASSUME SessionInv, CancelTargetAlive, [Next]_vars, [NoSwapUnderCancel]_vars
      PROVE  CancelTargetAlive'
  <2> SUFFICES ASSUME NEW u \in Threads, pc'[u] = "cancel_call" PROVE target'[u] \notin destroyed'
    BY DEF CancelTargetAlive
  <2>1. TypeOK
    BY <1>2 DEF SessionInv
  <2>2. CASE pc[u] = "cancel_call" /\ target'[u] = target[u]
    <3>1. owned' = owned
      BY <1>2, <2>2 DEF NoSwapUnderCancel, vars
    <3> QED
      BY <1>2, <2>1, <2>2, <3>1, DiesWhenDisowned DEF CancelTargetAlive
  <2>3. CASE active # NoProvider /\ target'[u] = active /\ UNCHANGED shared
    BY <1>2, <2>3 DEF SessionInv, SharedInv, ProviderLive, PublishedExactly, shared
  <2> QED
    BY <1>2, <2>1, <2>2, <2>3, TargetIsLoaded
<1> QED
  BY <1>1, <1>2, SessionInvariant, PTL DEF Spec

\* Who calls cancel_active_request() has raised the flag of the prompts it hits,
\* as AgentRuntime does.
FlagComesFirst == stopped' \subseteq stopped \cup raised'
StoppedIsFlagged == stopped \subseteq raised

\* A prompt keeps its flag until it is over.
LEMMA StoppedStaysFlagged ==
  ASSUME TypeOK, [Next]_vars, FlagComesFirst, StoppedIsFlagged
  PROVE  StoppedIsFlagged'
<1> USE DEF TypeOK, FlagComesFirst, StoppedIsFlagged
<1>1. ASSUME NEW t \in Threads, Configure(t) PROVE raised' = raised
  BY <1>1 DEF Configure, ConfigureProvider, ConfigureNull, SetProvider, SelectModel, SetTools, SetOptions,
      ResetSession, locals
<1>2. ASSUME NEW t \in Threads, Step(t), ~PromptUnlock(t) PROVE raised' = raised
  BY <1>2 DEF Step, ModelsListed, PromptPublish, TurnCancelled, TurnFailed, TurnFinal, TurnTooMany,
      TurnTools, ToolStart, ToolDone, ToolsCancelled, ContinueTurn, Unwind, PromptUnpublish,
      CancelCall, locals
<1>3. ASSUME NEW t \in Threads, PromptUnlock(t) PROVE stopped' \subseteq raised'
  BY <1>3 DEF PromptUnlock
<1>4. ASSUME NEW t \in Threads, NEW flag \in BOOLEAN, PromptEnter(t, flag) PROVE raised \subseteq raised'
  BY <1>4 DEF PromptEnter
<1>5. ASSUME NEW t \in Threads,
             RaiseFlag(t) \/ CancelLoad(t) \/ CancelLocked(t) \/ CancelInCallback(t)
      PROVE  raised \subseteq raised'
  BY <1>5 DEF RaiseFlag, CancelLoad, CancelLocked, CancelInCallback
<1>6. CASE UNCHANGED vars
  BY <1>6 DEF vars, locals
<1> QED
  BY <1>1, <1>2, <1>3, <1>4, <1>5, <1>6 DEF Next

\* A prompt whose flag is up sends no further request.
LEMMA FlaggedSendsNothing ==
  ASSUME TypeOK, [Next]_vars, NEW u \in Threads, u \in raised, pc[u] \in Published
  PROVE  requests'[u] = requests[u]
<1> USE DEF TypeOK, Published
<1>1. ASSUME NEW t \in Threads, Configure(t) PROVE requests' = requests
  BY <1>1 DEF Configure, ConfigureProvider, ConfigureNull, SetProvider, SelectModel, SetTools, SetOptions,
      ResetSession, locals
<1>2. ASSUME NEW t \in Threads, Step(t), ~PromptUnlock(t), ~PromptPublish(t), ~ContinueTurn(t)
      PROVE  requests' = requests
  BY <1>2 DEF Step, ModelsListed, TurnCancelled, TurnFailed, TurnFinal, TurnTooMany,
      TurnTools, ToolStart, ToolDone, ToolsCancelled, Unwind, PromptUnpublish, CancelCall, locals
<1>3. ASSUME NEW t \in Threads, PromptUnlock(t) \/ PromptPublish(t) \/ ContinueTurn(t)
      PROVE  requests'[u] = requests[u]
  <2>1. t # u
    BY <1>3 DEF PromptUnlock, PromptPublish, ContinueTurn, MayContinue
  <2> QED
    BY <1>3, <2>1 DEF PromptUnlock, PromptPublish, ContinueTurn, CountRequest
<1>4. ASSUME NEW t \in Threads, NEW flag \in BOOLEAN, PromptEnter(t, flag) PROVE requests' = requests
  BY <1>4 DEF PromptEnter
<1>5. ASSUME NEW t \in Threads,
             RaiseFlag(t) \/ CancelLoad(t) \/ CancelLocked(t) \/ CancelInCallback(t)
      PROVE  requests' = requests
  BY <1>5 DEF RaiseFlag, CancelLoad, CancelLocked, CancelInCallback
<1>6. CASE UNCHANGED vars
  BY <1>6 DEF vars, locals
<1> QED
  BY <1>1, <1>2, <1>3, <1>4, <1>5, <1>6 DEF Next

\* Then cancel_active_request() breaks the turn loop, as documented, also while
\* a tool runs.
THEOREM LoopBreaksIfFlagged == Spec /\ [][FlagComesFirst]_vars => CancelBreaksTurnLoop
<1> DEFINE Quiet == \A t \in Threads : t \in stopped /\ pc[t] \in Published => requests'[t] = requests[t]
<1>1. Init => StoppedIsFlagged
  BY DEF Init, StoppedIsFlagged
<1>2. SessionInv /\ StoppedIsFlagged /\ [Next]_vars /\ [FlagComesFirst]_vars => StoppedIsFlagged'
  <2>1. CASE UNCHANGED vars
    BY <2>1 DEF vars, locals, StoppedIsFlagged
  <2> QED
    BY <2>1, StoppedStaysFlagged DEF SessionInv
<1>3. SessionInv /\ StoppedIsFlagged /\ [Next]_vars => [Quiet]_vars
  BY FlaggedSendsNothing DEF SessionInv, StoppedIsFlagged
<1> QED
  BY <1>1, <1>2, <1>3, SessionInvariant, PTL DEF Spec, CancelBreaksTurnLoop
=============================================================================
