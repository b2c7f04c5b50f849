------------------------- MODULE AgentRuntimeProofs -------------------------
(***************************************************************************)
(* What TLAPS proves of AgentRuntime, for any number of threads, tools,    *)
(* tasks and permissions and any budgets.                                  *)
(***************************************************************************)
EXTENDS AgentRuntime, TLAPS

\* Who is where: in the runtime, and in its session.
PlacesTyped ==
    /\ rpc \in [Threads -> {"idle", "prepare", "register", "prompt", "callback", "detach",
                            "reset", "report", "return", "stop_load", "stop_wait"}]
    /\ pc \in [Threads -> {"idle"} \cup S!Locked \cup S!Cancelling]

\* At most one thread is in execute(), and executing says so.
SoleRun ==
    /\ \A t \in Threads : Executing(t) => executing
    /\ \A t, u \in Threads : Executing(t) /\ Executing(u) => t = u

\* active_mutex is held from the flag to the end of the session's cancellation,
\* and only while a run is attached.
CancelHolds ==
    /\ \A c \in Threads : rpc[c] \in {"stop_load", "stop_wait"} <=> active_mutex = c
    /\ active_mutex # NoThread => active_mutex \in Threads /\ attached # NoThread

\* The attached thread is the one between registration and detachment.
AttachedRuns ==
    /\ attached # NoThread => attached \in Threads
    /\ \A t \in Threads : rpc[t] \in {"prompt", "callback", "detach"} <=> attached = t

\* The session is used by the run's thread alone, but for cancellations.
Prompting(t) == rpc[t] \in {"prompt", "callback"}
SessionIsPrivate ==
    \A t \in Threads :
        /\ pc[t] \in S!Published \cup {"entered", "unlock"} => Prompting(t)
        /\ rpc[t] = "callback" => pc[t] \in {"request", "tool"}
        /\ pc[t] \in S!Cancelling <=> rpc[t] = "stop_wait"
        /\ pc[t] # "listing"

\* The provider of a run is set, and published while its prompt needs it.
ProviderInPlace ==
    \A t \in Threads :
        /\ rpc[t] = "register" \/ Prompting(t) => provider = Provider
        /\ pc[t] \in S!Published => active # NoProvider

RunInv ==
    /\ PlacesTyped /\ SoleRun /\ CancelHolds /\ AttachedRuns
    /\ SessionIsPrivate /\ ProviderInPlace

\* The history is empty from reset_session() to the first request.
FreshUntilRequest ==
    \A t \in Threads :
        rpc[t] = "register" \/ (rpc[t] = "prompt" /\ pc[t] \in {"idle", "entered"})
            => Provider \notin history

\* A cancellation in progress has raised the flag of the prompt, if there is one;
\* one that found no published provider lets the prompt make no callback.
CancelKnown ==
    active_mutex # NoThread =>
        /\ cancelled
        /\ pc[attached] \in S!Published \cup {"entered"} => attached \in raised
        /\ pc[active_mutex] = "cancel_lock" =>
              /\ rpc[attached] # "callback"
              /\ pc[attached] # "tool"
              /\ pc[attached] = "request" => muted

\* The tools on offer, and how far the call of a tool has been cleared.
ToolsFiltered ==
    /\ \A t \in Threads : rpc[t] = "register" \/ Prompting(t) => settings.tools = Exposed(task)
    /\ \A t \in Threads : Executing(t) /\ stage # "none" => Prompting(t) /\ pc[t] = "tool"
    /\ \A t \in Threads : Executing(t) /\ stage \in {"asking", "cleared", "running"} =>
          Current(t) \in settings.tools
    /\ \A t \in Threads : Executing(t) /\ stage \in {"cleared", "running"} =>
          granted \/ ~Asks(task, Current(t))

\* What a run has recorded of itself, and when it has.
RunRecord ==
    /\ outcome \in Outcomes
    /\ permission \subseteq {"needs_confirmation", "declined"}
    /\ cancelled \in BOOLEAN
    /\ \A t \in Threads : Executing(t) => (rpc[t] = "return" <=> outcome # "none")
    /\ \A t \in Threads : rpc[t] \in {"prepare", "register"} =>
          permission = {} /\ ~cancelled /\ stage = "none"
    /\ executing => \E t \in Threads : Executing(t)
    /\ ~executing => outcome = "none" /\ permission = {} /\ ~cancelled /\ stage = "none"

\* The context of a run is one that execute() was given.
RunTask == executing => task \in Tasks

\* How far the turn loop is, in rounds and in requests.
TurnProgress ==
    /\ round \in [Threads -> Nat] /\ requests \in [Threads -> Nat]
    /\ \A t \in Threads :
          /\ round[t] <= Steps - 1
          /\ requests[t] <= round[t] + 1
          /\ pc[t] \in {"tools", "tool"} => requests[t] <= round[t]
          /\ pc[t] \in {"idle", "entered"} \cup S!Cancelling => requests[t] = 0

-----------------------------------------------------------------------------
\* The initial state satisfies the invariants.
LEMMA InitRun == Init => RunInv /\ FreshUntilRequest /\ CancelKnown /\ ToolsFiltered /\ RunRecord
<1> SUFFICES ASSUME Init PROVE RunInv /\ FreshUntilRequest /\ CancelKnown /\ ToolsFiltered /\ RunRecord
  OBVIOUS
<1> USE RuntimeAssumption DEF RuntimeAssumption, Init, S!Init, Executing, Prompting
<1>1. RunInv
  BY DEF RunInv, PlacesTyped, SoleRun, CancelHolds, AttachedRuns, SessionIsPrivate, ProviderInPlace,
      S!Published, S!Locked, S!Cancelling
<1>2. FreshUntilRequest /\ CancelKnown /\ ToolsFiltered
  BY DEF FreshUntilRequest, CancelKnown, ToolsFiltered
<1>3. RunRecord
  BY DEF RunRecord, Outcomes
<1> QED
  BY <1>1, <1>2, <1>3

\* Every step keeps who runs, who cancels and what is attached.
LEMMA StepRun == RunInv /\ [Next]_vars => RunInv'
<1> SUFFICES ASSUME RunInv, [Next]_vars PROVE RunInv'
  OBVIOUS
<1> USE RuntimeAssumption DEF RuntimeAssumption, RunInv, PlacesTyped, SoleRun, CancelHolds,
        AttachedRuns, SessionIsPrivate, ProviderInPlace, Executing, Prompting, Running, Goto,
        S!Goto, S!Published, S!Locked, S!Cancelling, S!shared, S!locals, svars, rvars, runLocals
<1>1. ASSUME NEW t \in Threads, NEW k \in Tasks, Execute(t, k) PROVE RunInv'
  BY <1>1 DEF Execute
<1>2. ASSUME NEW t \in Threads, Reject(t) PROVE RunInv'
  BY <1>2 DEF Reject
<1>3. ASSUME NEW t \in Threads, Prepare(t) PROVE RunInv'
  BY <1>3 DEF Prepare, BuildSession, DropHistory
<1>4. ASSUME NEW t \in Threads, PrepareThrows(t) PROVE RunInv'
  BY <1>4 DEF PrepareThrows, BuildSession
<1>5. ASSUME NEW t \in Threads, Register(t) PROVE RunInv'
  BY <1>5 DEF Register
<1>6. ASSUME NEW t \in Threads, EnterPrompt(t) PROVE RunInv'
  BY <1>6 DEF EnterPrompt, S!PromptEnter, S!MayLock
<1>7. ASSUME NEW t \in Threads, FirstRequest(t) PROVE RunInv'
  BY <1>7 DEF FirstRequest, S!PromptPublish, S!Publish
<1>8. ASSUME NEW t \in Threads, TurnLoop(t) PROVE RunInv'
  BY <1>8 DEF TurnLoop, S!TurnCancelled, S!TurnFailed, S!TurnFinal, S!TurnTooMany, S!TurnTools,
      S!ToolsCancelled, S!ContinueTurn, S!PromptUnpublish, S!Unpublish, S!Return
<1>9. ASSUME NEW t \in Threads, LeavePrompt(t) PROVE RunInv'
  BY <1>9 DEF LeavePrompt, S!PromptUnlock
<1>10. ASSUME NEW t \in Threads, PromptThrows(t) PROVE RunInv'
  BY <1>10 DEF PromptThrows, S!Unwind, S!Return
<1>11. ASSUME NEW t \in Threads, StartTool(t) PROVE RunInv'
  BY <1>11 DEF StartTool, S!ToolStart
<1>12. ASSUME NEW t \in Threads,
              \/ SkipTool(t) \/ AskForTool(t) \/ NoNeedToAsk(t) \/ Unattended(t) \/ Approve(t)
              \/ Decline(t) \/ RunTool(t) \/ CancelledMeanwhile(t) \/ RefusedInsideTool(t)
       PROVE  RunInv'
  BY <1>12 DEF SkipTool, AskForTool, NoNeedToAsk, Unattended, Approve, Decline, RunTool,
      CancelledMeanwhile, RefusedInsideTool, Stage
<1>13. ASSUME NEW t \in Threads, FinishTool(t) PROVE RunInv'
  BY <1>13 DEF FinishTool, S!ToolDone
<1>14. ASSUME NEW t \in Threads, Detach(t) PROVE RunInv'
  BY <1>14 DEF Detach, MayDetach
<1>15. ASSUME NEW t \in Threads, ResetAfter(t) PROVE RunInv'
  BY <1>15 DEF ResetAfter, S!ResetSession, S!MayLock
<1>16. ASSUME NEW t \in Threads, ResetAfterThrows(t) PROVE RunInv'
  BY <1>16 DEF ResetAfterThrows
<1>17. ASSUME NEW t \in Threads, Report(t) PROVE RunInv'
  BY <1>17 DEF Report
<1>18. ASSUME NEW t \in Threads, ReturnFromExecute(t) PROVE RunInv'
  BY <1>18 DEF ReturnFromExecute
<1>19. ASSUME NEW c \in Threads, CancelBegin(c) PROVE RunInv'
  BY <1>19 DEF CancelBegin
<1>20. ASSUME NEW c \in Threads, StopLoad(c) PROVE RunInv'
  BY <1>20 DEF StopLoad, S!CancelLoad
<1>21. ASSUME NEW c \in Threads, StopSession(c) PROVE RunInv'
  BY <1>21 DEF StopSession, S!CancelCall, S!CancelLocked
<1>22. ASSUME NEW t \in Threads, CancelFromCallback(t) PROVE RunInv'
  BY <1>22 DEF CancelFromCallback
<1>23. ASSUME NEW t \in Threads, CallbackStops(t) PROVE RunInv'
  BY <1>23 DEF CallbackStops
<1>24. CASE UNCHANGED vars
  BY <1>24 DEF vars
<1> QED
  BY <1>1, <1>2, <1>3, <1>4, <1>5, <1>6, <1>7, <1>8, <1>9, <1>10, <1>11, <1>12, <1>13, <1>14,
     <1>15, <1>16, <1>17, <1>18, <1>19, <1>20, <1>21, <1>22, <1>23, <1>24 DEF Next, Step

\* What happens inside the session's turn loop, in the runtime's terms.
LEMMA TurnLoopEffect ==
  ASSUME NEW t \in Threads, TurnLoop(t), PlacesTyped
  PROVE  /\ UNCHANGED <<rpc, active_mutex, attached, cancelled, task, stage, granted, muted, executing>>
         /\ UNCHANGED <<settings, provider, raised, permission, outcome>>
         /\ pc[t] \in {"request", "tools", "unpublish"}
         /\ pc' = [pc EXCEPT ![t] = pc'[t]]
         /\ pc'[t] \in {"request", "tools", "unpublish", "unlock"}
         /\ history' = history \/ history' = history \cup {provider}
         /\ pc'[t] \in {"request", "tools"} => t \notin raised
BY DEF TurnLoop, PlacesTyped, Running, rvars, S!TurnCancelled, S!TurnFailed, S!TurnFinal, S!TurnTooMany,
    S!TurnTools, S!ToolsCancelled, S!ContinueTurn, S!MayContinue, S!PromptUnpublish, S!Return, S!Goto, S!shared,
    S!locals, S!Published, S!Locked, S!Cancelling

\* No step leaves something in the history of a run that has not begun.
LEMMA StepFresh == RunInv /\ FreshUntilRequest /\ [Next]_vars => FreshUntilRequest'
<1> SUFFICES ASSUME RunInv, FreshUntilRequest, [Next]_vars PROVE FreshUntilRequest'
  OBVIOUS
<1> USE RuntimeAssumption DEF RuntimeAssumption, RunInv, PlacesTyped, SoleRun, AttachedRuns,
        SessionIsPrivate, ProviderInPlace, FreshUntilRequest, Executing, Prompting, Running, Goto,
        S!Goto, S!Published, S!Locked, S!Cancelling, S!shared, S!locals, svars, rvars, runLocals
<1>1. ASSUME NEW t \in Threads, NEW k \in Tasks, Execute(t, k) PROVE FreshUntilRequest'
  BY <1>1 DEF Execute
<1>2. ASSUME NEW t \in Threads, Reject(t) PROVE FreshUntilRequest'
  BY <1>2 DEF Reject
<1>3. ASSUME NEW t \in Threads, Prepare(t) PROVE FreshUntilRequest'
  BY <1>3 DEF Prepare, BuildSession, DropHistory
<1>4. ASSUME NEW t \in Threads, PrepareThrows(t) PROVE FreshUntilRequest'
  BY <1>4 DEF PrepareThrows, BuildSession
<1>5. ASSUME NEW t \in Threads, Register(t) PROVE FreshUntilRequest'
  BY <1>5 DEF Register
<1>6. ASSUME NEW t \in Threads, EnterPrompt(t) PROVE FreshUntilRequest'
  BY <1>6 DEF EnterPrompt, S!PromptEnter, S!MayLock
<1>7. ASSUME NEW t \in Threads, FirstRequest(t) PROVE FreshUntilRequest'
  BY <1>7 DEF FirstRequest, S!PromptPublish
<1>8. ASSUME NEW t \in Threads, TurnLoop(t) PROVE FreshUntilRequest'
  BY <1>8, TurnLoopEffect
<1>9. ASSUME NEW t \in Threads, LeavePrompt(t) PROVE FreshUntilRequest'
  BY <1>9 DEF LeavePrompt, S!PromptUnlock
<1>10. ASSUME NEW t \in Threads, PromptThrows(t) \/ StartTool(t) \/ FinishTool(t) PROVE FreshUntilRequest'
  BY <1>10 DEF PromptThrows, S!Unwind, S!Return, StartTool, S!ToolStart, FinishTool, S!ToolDone
<1>12. ASSUME NEW t \in Threads,
              \/ SkipTool(t) \/ AskForTool(t) \/ NoNeedToAsk(t) \/ Unattended(t) \/ Approve(t)
              \/ Decline(t) \/ RunTool(t) \/ CancelledMeanwhile(t) \/ RefusedInsideTool(t)
       PROVE  FreshUntilRequest'
  BY <1>12 DEF SkipTool, AskForTool, NoNeedToAsk, Unattended, Approve, Decline, RunTool,
      CancelledMeanwhile, RefusedInsideTool, Stage
<1>14. ASSUME NEW t \in Threads, Detach(t) \/ Report(t) \/ ReturnFromExecute(t) PROVE FreshUntilRequest'
  BY <1>14 DEF Detach, Report, ReturnFromExecute
<1>15. ASSUME NEW t \in Threads, ResetAfter(t) \/ ResetAfterThrows(t) PROVE FreshUntilRequest'
  BY <1>15 DEF ResetAfter, S!ResetSession, ResetAfterThrows
<1>19. ASSUME NEW c \in Threads, CancelBegin(c) \/ StopLoad(c) \/ StopSession(c) PROVE FreshUntilRequest'
  BY <1>19 DEF CancelBegin, StopLoad, S!CancelLoad, StopSession, S!CancelCall, S!CancelLocked
<1>22. ASSUME NEW t \in Threads, CancelFromCallback(t) \/ CallbackStops(t) PROVE FreshUntilRequest'
  BY <1>22 DEF CancelFromCallback, CallbackStops
<1>24. CASE UNCHANGED vars
  BY <1>24 DEF vars
<1> QED
  BY <1>1, <1>2, <1>3, <1>4, <1>5, <1>6, <1>7, <1>8, <1>9, <1>10, <1>12, <1>14, <1>15, <1>19,
     <1>22, <1>24 DEF Next, Step

\* If the provider tests the flag first, a cancellation in progress stays known
\* to the prompt, which calls nobody back.
LEMMA StepCancelKnown ==
  ASSUME ProviderPolls, RunInv, CancelKnown, [Next]_vars
  PROVE  CancelKnown'
<1> USE RuntimeAssumption DEF RuntimeAssumption, RunInv, PlacesTyped, SoleRun, CancelHolds,
        AttachedRuns, SessionIsPrivate, ProviderInPlace, CancelKnown, Executing, Prompting, Running,
        Goto, S!Goto, S!Published, S!Locked, S!Cancelling, S!shared, S!locals, svars, rvars, runLocals
<1>1. ASSUME NEW t \in Threads, NEW k \in Tasks, Execute(t, k) PROVE CancelKnown'
  BY <1>1 DEF Execute
<1>2. ASSUME NEW t \in Threads, Reject(t) \/ Report(t) \/ ReturnFromExecute(t) PROVE CancelKnown'
  BY <1>2 DEF Reject, Report, ReturnFromExecute
<1>3. ASSUME NEW t \in Threads, Prepare(t) \/ PrepareThrows(t) PROVE CancelKnown'
  BY <1>3 DEF Prepare, PrepareThrows, BuildSession
<1>5. ASSUME NEW t \in Threads, Register(t) \/ Detach(t) PROVE CancelKnown'
  BY <1>5 DEF Register, Detach, MayDetach
<1>6. ASSUME NEW t \in Threads, EnterPrompt(t) PROVE CancelKnown'
  BY <1>6 DEF EnterPrompt, S!PromptEnter, S!MayLock
<1>7. ASSUME NEW t \in Threads, FirstRequest(t) PROVE CancelKnown'
  BY <1>7 DEF FirstRequest, S!PromptPublish, Muted
<1>8. ASSUME NEW t \in Threads, TurnLoop(t) PROVE CancelKnown'
  <2>1. attached = t /\ active_mutex # t
    BY <1>8 DEF TurnLoop
  <2>2. ASSUME active_mutex # NoThread
        PROVE  pc'[active_mutex] = pc[active_mutex] /\ pc'[t] \in {"unpublish", "unlock"}
    <3>1. active_mutex \in Threads /\ t \in raised
      BY <1>8, <2>1, <2>2, TurnLoopEffect
    <3> QED
      BY <1>8, <2>1, <3>1, TurnLoopEffect
  <2> QED
    BY <1>8, <2>1, <2>2, TurnLoopEffect
<1>9. ASSUME NEW t \in Threads, LeavePrompt(t) PROVE CancelKnown'
  BY <1>9 DEF LeavePrompt, S!PromptUnlock
<1>10. ASSUME NEW t \in Threads, PromptThrows(t) PROVE CancelKnown'
  BY <1>10 DEF PromptThrows, S!Unwind, S!Return
<1>11. ASSUME NEW t \in Threads, StartTool(t) PROVE CancelKnown'
  BY <1>11 DEF StartTool, S!ToolStart, S!MayRunTool
<1>12. ASSUME NEW t \in Threads,
              \/ SkipTool(t) \/ AskForTool(t) \/ NoNeedToAsk(t) \/ Unattended(t) \/ Approve(t)
              \/ Decline(t) \/ RunTool(t) \/ CancelledMeanwhile(t) \/ RefusedInsideTool(t)
       PROVE  CancelKnown'
  BY <1>12 DEF SkipTool, AskForTool, NoNeedToAsk, Unattended, Approve, Decline, RunTool,
      CancelledMeanwhile, RefusedInsideTool, Stage
<1>13. ASSUME NEW t \in Threads, FinishTool(t) PROVE CancelKnown'
  BY <1>13 DEF FinishTool, S!ToolDone
<1>15. ASSUME NEW t \in Threads, ResetAfter(t) \/ ResetAfterThrows(t) PROVE CancelKnown'
  BY <1>15 DEF ResetAfter, S!ResetSession, ResetAfterThrows
<1>19. ASSUME NEW c \in Threads, CancelBegin(c) PROVE CancelKnown'
  BY <1>19 DEF CancelBegin, Raise
<1>20. ASSUME NEW c \in Threads, StopLoad(c) PROVE CancelKnown'
  BY <1>20 DEF StopLoad, S!CancelLoad
<1>21. ASSUME NEW c \in Threads, StopSession(c) PROVE CancelKnown'
  BY <1>21 DEF StopSession
<1>22. ASSUME NEW t \in Threads, CancelFromCallback(t) \/ CallbackStops(t) PROVE CancelKnown'
  BY <1>22 DEF CancelFromCallback, CallbackStops
<1>24. CASE UNCHANGED vars
  BY <1>24 DEF vars
<1> QED
  BY <1>1, <1>2, <1>3, <1>5, <1>6, <1>7, <1>8, <1>9, <1>10, <1>11, <1>12, <1>13, <1>15, <1>19,
     <1>20, <1>21, <1>22, <1>24 DEF Next, Step

\* Tools reach the stage where they run only by way of filter and approval.
LEMMA StepTools == RunInv /\ RunRecord /\ ToolsFiltered /\ [Next]_vars => ToolsFiltered'
<1> SUFFICES ASSUME RunInv, RunRecord, ToolsFiltered, [Next]_vars PROVE ToolsFiltered'
  OBVIOUS
<1> USE RuntimeAssumption DEF RuntimeAssumption, RunInv, PlacesTyped, SoleRun, CancelHolds, AttachedRuns,
        SessionIsPrivate, Executing, Prompting, Running, Goto, S!Goto, S!Published, S!Locked,
        S!Cancelling, S!shared, S!locals, svars, rvars, runLocals, ToolsFiltered, RunRecord, Current, S!CallInTurn
<1>1. ASSUME NEW t \in Threads, NEW k \in Tasks, Execute(t, k) PROVE ToolsFiltered'
  BY <1>1 DEF Execute
<1>2. ASSUME NEW t \in Threads, Reject(t) PROVE ToolsFiltered'
  BY <1>2 DEF Reject
<1>3. ASSUME NEW t \in Threads, Prepare(t) \/ PrepareThrows(t) PROVE ToolsFiltered'
  BY <1>3 DEF Prepare, PrepareThrows, BuildSession, DropHistory, Exposed, Denied, Rejects, Decision
<1>5. ASSUME NEW t \in Threads, Register(t) PROVE ToolsFiltered'
  BY <1>5 DEF Register
<1>6. ASSUME NEW t \in Threads, EnterPrompt(t) PROVE ToolsFiltered'
  BY <1>6 DEF EnterPrompt, S!PromptEnter, S!MayLock
<1>7. ASSUME NEW t \in Threads, FirstRequest(t) PROVE ToolsFiltered'
  BY <1>7 DEF FirstRequest, S!PromptPublish
<1>8. ASSUME NEW t \in Threads, TurnLoop(t) PROVE ToolsFiltered'
  BY <1>8, TurnLoopEffect
<1>9. ASSUME NEW t \in Threads, LeavePrompt(t) PROVE ToolsFiltered'
  BY <1>9 DEF LeavePrompt, S!PromptUnlock
<1>10. ASSUME NEW t \in Threads, PromptThrows(t) PROVE ToolsFiltered'
  BY <1>10 DEF PromptThrows, S!Unwind, S!Return
<1>11. ASSUME NEW t \in Threads, StartTool(t) PROVE ToolsFiltered'
  BY <1>11 DEF StartTool, S!ToolStart
<1>12. ASSUME NEW t \in Threads, SkipTool(t) \/ AskForTool(t) \/ NoNeedToAsk(t) \/ Unattended(t)
       PROVE  ToolsFiltered'
  BY <1>12 DEF SkipTool, AskForTool, NoNeedToAsk, Unattended, Stage
<1>13. ASSUME NEW t \in Threads,
              Approve(t) \/ Decline(t) \/ RunTool(t) \/ CancelledMeanwhile(t) \/ RefusedInsideTool(t)
       PROVE  ToolsFiltered'
  BY <1>13 DEF Approve, Decline, RunTool, CancelledMeanwhile, RefusedInsideTool, Stage
<1>14. ASSUME NEW t \in Threads, FinishTool(t) PROVE ToolsFiltered'
  BY <1>14 DEF FinishTool, S!ToolDone
<1>15. ASSUME NEW t \in Threads, Detach(t) \/ Report(t) \/ ReturnFromExecute(t) PROVE ToolsFiltered'
  BY <1>15 DEF Detach, Report, ReturnFromExecute
<1>16. ASSUME NEW t \in Threads, ResetAfter(t) \/ ResetAfterThrows(t) PROVE ToolsFiltered'
  BY <1>16 DEF ResetAfter, S!ResetSession, ResetAfterThrows
<1>19. ASSUME NEW c \in Threads, CancelBegin(c) \/ StopLoad(c) \/ StopSession(c) PROVE ToolsFiltered'
  BY <1>19 DEF CancelBegin, StopLoad, S!CancelLoad, StopSession, S!CancelCall, S!CancelLocked
<1>22. ASSUME NEW t \in Threads, CancelFromCallback(t) \/ CallbackStops(t) PROVE ToolsFiltered'
  BY <1>22 DEF CancelFromCallback, CallbackStops
<1>24. CASE UNCHANGED vars
  BY <1>24 DEF vars
<1> QED
  BY <1>1, <1>2, <1>3, <1>5, <1>6, <1>7, <1>8, <1>9, <1>10, <1>11, <1>12, <1>13, <1>14, <1>15,
     <1>16, <1>19, <1>22, <1>24 DEF Next, Step

\* No step decides an outcome early or leaves a mark of a run to the next one.
LEMMA StepRecord == RunInv /\ ToolsFiltered /\ RunRecord /\ [Next]_vars => RunRecord'
<1> SUFFICES ASSUME RunInv, ToolsFiltered, RunRecord, [Next]_vars PROVE RunRecord'
  OBVIOUS
<1> USE RuntimeAssumption DEF RuntimeAssumption, RunInv, PlacesTyped, SoleRun, CancelHolds, AttachedRuns,
        SessionIsPrivate, Executing, Prompting, Running, Goto, S!Goto, S!Published, S!Locked,
        S!Cancelling, S!shared, S!locals, svars, rvars, runLocals, ToolsFiltered, RunRecord, Outcomes
<1>1. ASSUME NEW t \in Threads, NEW k \in Tasks, Execute(t, k) PROVE RunRecord'
  BY <1>1 DEF Execute
<1>2. ASSUME NEW t \in Threads, Reject(t) PROVE RunRecord'
  BY <1>2 DEF Reject
<1>3. ASSUME NEW t \in Threads, Prepare(t) \/ PrepareThrows(t) PROVE RunRecord'
  <2>1. CASE Prepare(t)
    BY <2>1 DEF Prepare, BuildSession, DropHistory
  <2>2. CASE PrepareThrows(t)
    BY <2>2 DEF PrepareThrows, BuildSession
  <2> QED
    BY <1>3, <2>1, <2>2
<1>5. ASSUME NEW t \in Threads, Register(t) PROVE RunRecord'
  BY <1>5 DEF Register
<1>6. ASSUME NEW t \in Threads, EnterPrompt(t) PROVE RunRecord'
  BY <1>6 DEF EnterPrompt
<1>7. ASSUME NEW t \in Threads, FirstRequest(t) PROVE RunRecord'
  BY <1>7 DEF FirstRequest
<1>8. ASSUME NEW t \in Threads, TurnLoop(t) PROVE RunRecord'
  BY <1>8, TurnLoopEffect
<1>9. ASSUME NEW t \in Threads, LeavePrompt(t) PROVE RunRecord'
  BY <1>9 DEF LeavePrompt
<1>10. ASSUME NEW t \in Threads, PromptThrows(t) \/ StartTool(t) \/ FinishTool(t) PROVE RunRecord'
  BY <1>10 DEF PromptThrows, StartTool, FinishTool
<1>12. ASSUME NEW t \in Threads,
              \/ SkipTool(t) \/ AskForTool(t) \/ NoNeedToAsk(t) \/ Unattended(t) \/ Approve(t)
              \/ Decline(t) \/ RunTool(t) \/ CancelledMeanwhile(t) \/ RefusedInsideTool(t)
       PROVE  RunRecord'
  BY <1>12 DEF SkipTool, AskForTool, NoNeedToAsk, Unattended, Approve, Decline, RunTool,
      CancelledMeanwhile, RefusedInsideTool, Stage
<1>14. ASSUME NEW t \in Threads, Detach(t) PROVE RunRecord'
  BY <1>14 DEF Detach
<1>15. ASSUME NEW t \in Threads, Report(t) PROVE RunRecord'
  BY <1>15 DEF Report, Outcome
<1>16. ASSUME NEW t \in Threads, ReturnFromExecute(t) PROVE RunRecord'
  BY <1>16 DEF ReturnFromExecute
<1>17. ASSUME NEW t \in Threads, ResetAfter(t) \/ ResetAfterThrows(t) PROVE RunRecord'
  <2>1. CASE ResetAfter(t)
    BY <2>1 DEF ResetAfter
  <2>2. CASE ResetAfterThrows(t)
    BY <2>2 DEF ResetAfterThrows
  <2> QED
    BY <1>17, <2>1, <2>2
<1>19. ASSUME NEW c \in Threads, CancelBegin(c) PROVE RunRecord'
  <2>1. attached \in Threads /\ Executing(attached) /\ rpc[attached] \notin {"prepare", "register"}
    BY <1>19 DEF CancelBegin
  <2> QED
    BY <1>19, <2>1 DEF CancelBegin
<1>20. ASSUME NEW c \in Threads, StopLoad(c) \/ StopSession(c) PROVE RunRecord'
  <2>1. \A t \in Threads : Executing(t)' = Executing(t) /\ (Executing(t) => rpc'[t] = rpc[t])
    BY <1>20 DEF StopLoad, StopSession
  <2>2. \A t \in Threads : rpc'[t] \in {"prepare", "register"} => rpc[t] = rpc'[t]
    BY <1>20 DEF StopLoad, StopSession
  <2>3. UNCHANGED <<executing, outcome, permission, cancelled, stage>>
    BY <1>20 DEF StopLoad, StopSession
  <2> HIDE DEF Executing, RunInv, ToolsFiltered
  <2> QED
    BY <2>1, <2>2, <2>3
<1>22. ASSUME NEW t \in Threads, CancelFromCallback(t) PROVE RunRecord'
  BY <1>22 DEF CancelFromCallback
<1>23. ASSUME NEW t \in Threads, CallbackStops(t) PROVE RunRecord'
  BY <1>23 DEF CallbackStops
<1>24. CASE UNCHANGED vars
  BY <1>24 DEF vars
<1> QED
  BY <1>1, <1>2, <1>3, <1>5, <1>6, <1>7, <1>8, <1>9, <1>10, <1>12, <1>14, <1>15, <1>16, <1>17,
     <1>19, <1>20, <1>22, <1>23, <1>24 DEF Next, Step
\* No step changes the task of a run.
LEMMA StepTask == RunInv /\ RunTask /\ [Next]_vars => RunTask'
<1> SUFFICES ASSUME RunInv, RunTask, [Next]_vars PROVE RunTask'
  OBVIOUS
<1>1. ASSUME NEW t \in Threads, NEW k \in Tasks, Execute(t, k) PROVE RunTask'
  BY <1>1 DEF Execute, RunTask
<1>2. ASSUME NEW t \in Threads, ReturnFromExecute(t) PROVE RunTask'
  BY <1>2 DEF ReturnFromExecute, RunTask
<1>3. ASSUME UNCHANGED <<task, executing>> PROVE RunTask'
  BY <1>3 DEF RunTask
<1>4. ASSUME NEW t \in Threads, ~ReturnFromExecute(t), Step(t) PROVE UNCHANGED <<task, executing>>
  BY <1>4 DEF Step, Reject, Prepare, PrepareThrows, Register, EnterPrompt, FirstRequest, TurnLoop,
      LeavePrompt, PromptThrows, StartTool, SkipTool, AskForTool, NoNeedToAsk, Unattended, Approve,
      Decline, RunTool, CancelledMeanwhile, FinishTool, Detach, ResetAfter, ResetAfterThrows, Report,
      StopLoad, StopSession, Stage, rvars, runLocals
<1>5. ASSUME NEW t \in Threads,
             RefusedInsideTool(t) \/ CancelBegin(t) \/ CancelFromCallback(t) \/ CallbackStops(t)
      PROVE  UNCHANGED <<task, executing>>
  BY <1>5 DEF RefusedInsideTool, CancelBegin, CancelFromCallback, CallbackStops, Stage, runLocals
<1>6. CASE UNCHANGED vars
  BY <1>3, <1>6 DEF vars, rvars
<1> QED
  BY <1>1, <1>2, <1>3, <1>4, <1>5, <1>6 DEF Next

\* No step overruns the turns a run may take.
LEMMA StepProgress == RunInv /\ TurnProgress /\ [Next]_vars => TurnProgress'
<1> SUFFICES ASSUME RunInv, TurnProgress, [Next]_vars PROVE TurnProgress'
  OBVIOUS
<1>s. Steps \in Nat \ {0}
  BY RuntimeAssumption DEF RuntimeAssumption, Steps
<1> USE <1>s DEF TurnProgress, RunInv, PlacesTyped, Running, S!Goto, S!Published, S!Locked,
        S!Cancelling, S!shared, S!locals
<1>1. ASSUME NEW t \in Threads, EnterPrompt(t) PROVE TurnProgress'
  BY <1>1 DEF EnterPrompt, S!PromptEnter, S!MayLock
<1>2. ASSUME NEW t \in Threads, FirstRequest(t) PROVE TurnProgress'
  BY <1>2 DEF FirstRequest, S!PromptPublish, S!CountRequest
<1>3. ASSUME NEW t \in Threads, TurnLoop(t) PROVE TurnProgress'
  <2>1. ASSUME NEW turn \in S!Calls, S!TurnTools(t, turn) PROVE TurnProgress'
    <3>1. round'[t] = round[t] + 1 /\ round'[t] <= Steps - 1
      BY <2>1 DEF S!TurnTools, S!Exhausted, S!CountRound
    <3> QED
      BY <2>1, <3>1 DEF S!TurnTools, S!CountRound
  <2>2. CASE S!ContinueTurn(t)
    BY <2>2 DEF S!ContinueTurn, S!CountRequest
  <2>3. CASE \/ S!TurnCancelled(t) \/ S!TurnFinal(t) \/ S!TurnTooMany(t)
             \/ \E r \in {"failed", "cancelled"} : S!TurnFailed(t, r)
             \/ S!ToolsCancelled(t) \/ S!PromptUnpublish(t)
    <3>1. UNCHANGED <<round, requests>> /\ pc' \in {[pc EXCEPT ![t] = "unpublish"], [pc EXCEPT ![t] = "unlock"]}
      BY <2>3 DEF S!TurnCancelled, S!TurnFinal, S!TurnTooMany, S!TurnFailed, S!ToolsCancelled,
          S!PromptUnpublish, S!Return
    <3> QED
      BY <3>1
  <2> QED
    BY <1>3, <2>1, <2>2, <2>3 DEF TurnLoop
<1>4. ASSUME NEW t \in Threads, LeavePrompt(t) PROVE TurnProgress'
  BY <1>4 DEF LeavePrompt, S!PromptUnlock
<1>5. ASSUME NEW t \in Threads, PromptThrows(t) \/ StartTool(t) \/ FinishTool(t) PROVE TurnProgress'
  BY <1>5 DEF PromptThrows, S!Unwind, S!Return, StartTool, S!ToolStart, FinishTool, S!ToolDone
<1>6. ASSUME NEW t \in Threads, StopLoad(t) \/ StopSession(t) PROVE TurnProgress'
  BY <1>6 DEF StopLoad, S!CancelLoad, StopSession, S!CancelCall, S!CancelLocked
<1>7. ASSUME UNCHANGED <<pc, round, requests>> PROVE TurnProgress'
  BY <1>7
<1>8. ASSUME NEW t \in Threads,
             \/ \E k \in Tasks : Execute(t, k)
             \/ Reject(t) \/ Prepare(t) \/ PrepareThrows(t) \/ Register(t) \/ Detach(t)
             \/ ResetAfter(t) \/ ResetAfterThrows(t) \/ Report(t) \/ ReturnFromExecute(t)
             \/ SkipTool(t) \/ AskForTool(t) \/ NoNeedToAsk(t) \/ Unattended(t) \/ Approve(t)
             \/ Decline(t) \/ RunTool(t) \/ CancelledMeanwhile(t) \/ RefusedInsideTool(t)
             \/ CancelBegin(t) \/ CancelFromCallback(t) \/ CallbackStops(t)
      PROVE  UNCHANGED <<pc, round, requests>>
  BY <1>8 DEF Execute, Reject, Prepare, PrepareThrows, BuildSession, Register, Detach, ResetAfter,
      S!ResetSession, ResetAfterThrows, Report, ReturnFromExecute, SkipTool, AskForTool, NoNeedToAsk,
      Unattended, Approve, Decline, RunTool, CancelledMeanwhile, RefusedInsideTool, Stage,
      CancelBegin, CancelFromCallback, CallbackStops, svars
<1>9. CASE UNCHANGED vars
  BY <1>7, <1>9 DEF vars, svars
<1> QED
  BY <1>1, <1>2, <1>3, <1>4, <1>5, <1>6, <1>7, <1>8, <1>9 DEF Next, Step

-----------------------------------------------------------------------------
\* A run's place in execute() is the phase its callers see.
PhaseAt(where) ==
    CASE where \in {"prepare", "register"} -> "starting"
      [] where \in {"prompt", "callback", "detach"} -> "running"
      [] where \in {"reset", "report"} -> "closing"
      [] where = "return" -> "ending"
PhaseShown ==
    /\ \A t \in Threads : Executing(t) => Phase = PhaseAt(rpc[t])
    /\ ~executing => Phase = "idle"

\* The phase follows from where the run is.
LEMMA PhaseOfRun == RunInv /\ RunRecord => PhaseShown
<1> SUFFICES ASSUME RunInv, RunRecord PROVE PhaseShown
  OBVIOUS
<1>1. ASSUME NEW t \in Threads, Executing(t) PROVE Phase = PhaseAt(rpc[t])
  BY <1>1, RuntimeAssumption DEF RuntimeAssumption, RunInv, PlacesTyped, SoleRun, AttachedRuns,
      RunRecord, Executing, Phase, PhaseAt
<1>2. ~executing => Phase = "idle"
  BY DEF Phase
<1> QED
  BY <1>1, <1>2 DEF PhaseShown

-----------------------------------------------------------------------------
\* The inductive invariant: one run, its session to itself, a clean start,
\* filtered tools and an honest record.
Inductive == RunInv /\ FreshUntilRequest /\ ToolsFiltered /\ RunRecord /\ RunTask

\* At every moment at most one thread is in execute(), the session in use is its
\* own, and cancel_active_request() holds active_mutex while it reaches into it.
THEOREM RunInvariant == Spec => []Inductive
<1>1. Init => Inductive
  BY InitRun DEF Inductive, RunTask, Init
<1>2. Inductive /\ [Next]_vars => Inductive'
  BY StepRun, StepFresh, StepTools, StepRecord, StepTask DEF Inductive
<1> QED
  BY <1>1, <1>2, PTL DEF Spec

\* The session of a run is never cancelled once SessionGuard::finish() has
\* detached it: the cancelling thread holds active_mutex until it is done.
THEOREM SessionOutlives == Spec => []SessionOutlivesCancel
<1>1. Inductive => SessionOutlivesCancel
  BY RuntimeAssumption DEF RuntimeAssumption, Inductive, RunInv, CancelHolds, AttachedRuns,
      SessionOutlivesCancel
<1> QED
  BY <1>1, RunInvariant, PTL

\* execute() resets the provider before it publishes the session, so no run sees
\* the history of the one before, even if that one's cleanup threw.
THEOREM CleanStart == Spec => []RunStartsClean
<1>1. Inductive => RunStartsClean
  BY DEF Inductive, RunInv, PlacesTyped, SessionIsPrivate, Prompting, FreshUntilRequest, RunStartsClean
<1> QED
  BY <1>1, RunInvariant, PTL

\* With a provider that tests the cancel flag before it calls back, as the
\* built-in ones do, active_mutex and the session's mutex form no circle.
THEOREM NoLockCycleIfPolling == ASSUME ProviderPolls PROVE Spec => []NoLockCycle
<1>1. Init => CancelKnown
  BY InitRun
<1>2. Inductive /\ CancelKnown /\ [Next]_vars => CancelKnown'
  BY ProviderPolls, StepCancelKnown DEF Inductive
<1>3. Inductive /\ CancelKnown => NoLockCycle
  BY RuntimeAssumption DEF RuntimeAssumption, Inductive, RunInv, CancelHolds, AttachedRuns,
      CancelKnown, NoLockCycle
<1> QED
  BY <1>1, <1>2, <1>3, RunInvariant, PTL DEF Spec

\* Whoever cancels has raised the flag of the run, and of its prompt once that is
\* entered, and whoever was hit has it still.
FlagKnown ==
    /\ active_mutex # NoThread =>
          /\ cancelled
          /\ pc[attached] \in S!Published \cup {"entered"} => attached \in raised
    /\ stopped \subseteq raised

\* No step loses the flag of a prompt that was hit, or hits one without a flag.
LEMMA StepFlag == RunInv /\ FlagKnown /\ [Next]_vars => FlagKnown'
<1> SUFFICES ASSUME RunInv, FlagKnown, [Next]_vars PROVE FlagKnown'
  OBVIOUS
<1> USE RuntimeAssumption DEF RuntimeAssumption, RunInv, PlacesTyped, SoleRun, CancelHolds,
        AttachedRuns, SessionIsPrivate, ProviderInPlace, FlagKnown, Executing, Prompting, Running,
        Goto, S!Goto, S!Published, S!Locked, S!Cancelling, S!shared, S!locals, svars, rvars, runLocals
<1>1. ASSUME NEW t \in Threads, NEW k \in Tasks, Execute(t, k) PROVE FlagKnown'
  BY <1>1 DEF Execute
<1>2. ASSUME NEW t \in Threads, Reject(t) \/ Report(t) \/ ReturnFromExecute(t) PROVE FlagKnown'
  BY <1>2 DEF Reject, Report, ReturnFromExecute
<1>3. ASSUME NEW t \in Threads, Prepare(t) \/ PrepareThrows(t) PROVE FlagKnown'
  BY <1>3 DEF Prepare, PrepareThrows, BuildSession
<1>5. ASSUME NEW t \in Threads, Register(t) \/ Detach(t) PROVE FlagKnown'
  BY <1>5 DEF Register, Detach, MayDetach
<1>6. ASSUME NEW t \in Threads, EnterPrompt(t) PROVE FlagKnown'
  BY <1>6 DEF EnterPrompt, S!PromptEnter, S!MayLock
<1>7. ASSUME NEW t \in Threads, FirstRequest(t) PROVE FlagKnown'
  BY <1>7 DEF FirstRequest, S!PromptPublish
<1>8. ASSUME NEW t \in Threads, TurnLoop(t) PROVE FlagKnown'
  <2>1. attached = t /\ stopped' = stopped
    BY <1>8 DEF TurnLoop, S!TurnCancelled, S!TurnFailed, S!TurnFinal, S!TurnTooMany, S!TurnTools,
        S!ToolsCancelled, S!ContinueTurn, S!PromptUnpublish
  <2> QED
    BY <1>8, <2>1, TurnLoopEffect
<1>9. ASSUME NEW t \in Threads, LeavePrompt(t) PROVE FlagKnown'
  BY <1>9 DEF LeavePrompt, S!PromptUnlock
<1>10. ASSUME NEW t \in Threads, PromptThrows(t) PROVE FlagKnown'
  BY <1>10 DEF PromptThrows, S!Unwind, S!Return
<1>11. ASSUME NEW t \in Threads, StartTool(t) \/ FinishTool(t) PROVE FlagKnown'
  BY <1>11 DEF StartTool, S!ToolStart, FinishTool, S!ToolDone
<1>12. ASSUME NEW t \in Threads,
              \/ SkipTool(t) \/ AskForTool(t) \/ NoNeedToAsk(t) \/ Unattended(t) \/ Approve(t)
              \/ Decline(t) \/ RunTool(t) \/ CancelledMeanwhile(t) \/ RefusedInsideTool(t)
       PROVE  FlagKnown'
  BY <1>12 DEF SkipTool, AskForTool, NoNeedToAsk, Unattended, Approve, Decline, RunTool,
      CancelledMeanwhile, RefusedInsideTool, Stage
<1>15. ASSUME NEW t \in Threads, ResetAfter(t) \/ ResetAfterThrows(t) PROVE FlagKnown'
  BY <1>15 DEF ResetAfter, S!ResetSession, ResetAfterThrows
<1>19. ASSUME NEW c \in Threads, CancelBegin(c) PROVE FlagKnown'
  BY <1>19 DEF CancelBegin, Raise
<1>20. ASSUME NEW c \in Threads, StopLoad(c) PROVE FlagKnown'
  BY <1>20 DEF StopLoad, S!CancelLoad
<1>21. ASSUME NEW c \in Threads, StopSession(c) PROVE FlagKnown'
  <2>1. active_mutex' = NoThread /\ raised' = raised
    BY <1>21 DEF StopSession, S!CancelCall, S!CancelLocked
  <2>2. stopped' \subseteq stopped \cup {t \in Threads : pc[t] \in S!Published}
    BY <1>21 DEF StopSession, S!CancelCall, S!CancelLocked, S!Stop
  <2>3. ASSUME NEW t \in Threads, pc[t] \in S!Published PROVE t \in raised
    BY <1>21, <2>3 DEF StopSession
  <2> QED
    BY <2>1, <2>2, <2>3
<1>22. ASSUME NEW t \in Threads, CancelFromCallback(t) PROVE FlagKnown'
  BY <1>22 DEF CancelFromCallback
<1>23. ASSUME NEW t \in Threads, CallbackStops(t) PROVE FlagKnown'
  <2>1. ASSUME NEW u \in Threads, pc[u] \in S!Published PROVE u = t
    BY <1>23, <2>1 DEF CallbackStops
  <2>2. stopped' \subseteq stopped \cup {u \in Threads : pc[u] \in S!Published}
    BY <1>23 DEF CallbackStops, S!Stop
  <2>3. raised' = raised \cup {t} /\ active_mutex' = NoThread
    BY <1>23 DEF CallbackStops
  <2> QED
    BY <2>1, <2>2, <2>3
<1>24. CASE UNCHANGED vars
  BY <1>24 DEF vars
<1> QED
  BY <1>1, <1>2, <1>3, <1>5, <1>6, <1>7, <1>8, <1>9, <1>10, <1>11, <1>12, <1>15, <1>19, <1>20,
     <1>21, <1>22, <1>23, <1>24 DEF Next, Step

\* A run whose flag is up asks the model for nothing more.
LEMMA FlaggedAsksNothing ==
  ASSUME RunInv, [Next]_vars, NEW u \in Threads, u \in raised, pc[u] \in S!Published
  PROVE  requests'[u] = requests[u]
<1> USE RuntimeAssumption DEF RuntimeAssumption, RunInv, PlacesTyped, AttachedRuns, SessionIsPrivate,
        Prompting, Running, S!Published, S!Locked, S!Cancelling, S!shared, S!locals, svars, rvars
<1>1. ASSUME NEW t \in Threads, NEW k \in Tasks, Execute(t, k) PROVE requests' = requests
  BY <1>1 DEF Execute
<1>2. ASSUME NEW t \in Threads,
             \/ Reject(t) \/ Report(t) \/ ReturnFromExecute(t) \/ Prepare(t) \/ PrepareThrows(t)
             \/ Register(t) \/ Detach(t) \/ ResetAfter(t) \/ ResetAfterThrows(t)
      PROVE  requests' = requests
  BY <1>2 DEF Reject, Report, ReturnFromExecute, Prepare, PrepareThrows, BuildSession, Register, Detach,
      ResetAfter, S!ResetSession, ResetAfterThrows
<1>3. ASSUME NEW t \in Threads, EnterPrompt(t) \/ PromptThrows(t) \/ StartTool(t) \/ FinishTool(t)
      PROVE  requests' = requests
  BY <1>3 DEF EnterPrompt, S!PromptEnter, PromptThrows, S!Unwind, StartTool, S!ToolStart,
      FinishTool, S!ToolDone
<1>4. ASSUME NEW t \in Threads, FirstRequest(t) \/ LeavePrompt(t) PROVE requests'[u] = requests[u]
  <2>1. t # u
    BY <1>4 DEF FirstRequest, S!PromptPublish, LeavePrompt, S!PromptUnlock
  <2> QED
    BY <1>4, <2>1 DEF FirstRequest, S!PromptPublish, S!CountRequest, LeavePrompt, S!PromptUnlock
<1>5. ASSUME NEW t \in Threads, TurnLoop(t) PROVE requests'[u] = requests[u]
  <2>1. t = u
    BY <1>5 DEF TurnLoop
  <2> QED
    BY <1>5, <2>1 DEF TurnLoop, S!TurnCancelled, S!TurnFailed, S!TurnFinal, S!TurnTooMany,
        S!TurnTools, S!ToolsCancelled, S!ContinueTurn, S!MayContinue, S!PromptUnpublish
<1>6. ASSUME NEW t \in Threads,
             \/ SkipTool(t) \/ AskForTool(t) \/ NoNeedToAsk(t) \/ Unattended(t) \/ Approve(t)
             \/ Decline(t) \/ RunTool(t) \/ CancelledMeanwhile(t) \/ RefusedInsideTool(t)
      PROVE  requests' = requests
  BY <1>6 DEF SkipTool, AskForTool, NoNeedToAsk, Unattended, Approve, Decline, RunTool,
      CancelledMeanwhile, RefusedInsideTool, Stage
<1>7. ASSUME NEW t \in Threads,
             \/ CancelBegin(t) \/ StopLoad(t) \/ StopSession(t)
             \/ CancelFromCallback(t) \/ CallbackStops(t)
      PROVE  requests' = requests
  BY <1>7 DEF CancelBegin, StopLoad, S!CancelLoad, StopSession, S!CancelCall, S!CancelLocked,
      CancelFromCallback, CallbackStops
<1>8. CASE UNCHANGED vars
  BY <1>8 DEF vars
<1> QED
  BY <1>1, <1>2, <1>3, <1>4, <1>5, <1>6, <1>7, <1>8 DEF Next, Step

\* What the session alone does not do, the runtime does: cancel_active_request()
\* ends the turn loop, because the flag it sets first is the one prompt() tests.
THEOREM CancelEndsRun == Spec => CancelEndsTurnLoop
<1> DEFINE Quiet == \A t \in Threads : t \in stopped /\ pc[t] \in S!Published =>
                       requests'[t] = requests[t]
<1>1. Init => FlagKnown
  BY RuntimeAssumption DEF RuntimeAssumption, Init, S!Init, FlagKnown
<1>2. Inductive /\ FlagKnown /\ [Next]_vars => FlagKnown'
  BY StepFlag DEF Inductive
<1>3. Inductive /\ FlagKnown /\ [Next]_vars => [Quiet]_(S!vars)
  BY FlaggedAsksNothing DEF Inductive, FlagKnown
<1> QED
  BY <1>1, <1>2, <1>3, RunInvariant, PTL DEF Spec, CancelEndsTurnLoop, S!CancelBreaksTurnLoop

\* The turn loop asks for one turn more than it runs rounds of tools, and
\* execute() allows it one round less than the tighter of the two budgets.
THEOREM BudgetHolds == Spec => []StepBudget
<1>1. Init => TurnProgress
  BY RuntimeAssumption DEF RuntimeAssumption, Init, S!Init, TurnProgress, Steps
<1>2. Inductive /\ TurnProgress /\ [Next]_vars => TurnProgress'
  BY StepProgress DEF Inductive
<1>3. TurnProgress => StepBudget
  <2> SUFFICES ASSUME TurnProgress, NEW t \in Threads
               PROVE  requests[t] <= TaskSteps /\ requests[t] <= ProfileSteps
    BY DEF StepBudget
  <2>1. Steps \in Nat /\ Steps <= TaskSteps /\ Steps <= ProfileSteps /\ requests[t] <= Steps
    BY RuntimeAssumption DEF RuntimeAssumption, Steps, TurnProgress
  <2> QED
    BY <2>1, RuntimeAssumption DEF RuntimeAssumption, TurnProgress
<1> QED
  BY <1>1, <1>2, <1>3, RunInvariant, PTL DEF Spec

\* PermissionTool and the filtered registry: whatever the profile, the task and
\* the model's calls, no tool runs that they do not permit, and none that asks
\* runs without an approval.
THEOREM PermittedOnly == Spec => []OnlyPermittedToolsRun
<1>1. Inductive => OnlyPermittedToolsRun
  <2> SUFFICES ASSUME Inductive, NEW t \in Threads, Executing(t), stage = "running"
               PROVE  LET tool == Current(t) IN
                      /\ tool \in task.profile.allowed_tools
                      /\ OpsOf[tool] # {}
                      /\ \A op \in OpsOf[tool] :
                            /\ op \in DOMAIN task.profile.permissions
                            /\ task.profile.permissions[op] # "deny"
                            /\ task.read_only => op = "read_file"
                      /\ \/ granted
                         \/ /\ tool \notin SelfAsking
                            /\ \A op \in OpsOf[tool] : task.profile.permissions[op] = "allow"
    BY DEF OnlyPermittedToolsRun
  <2> DEFINE tool == Current(t)
  <2>1. tool \in Exposed(task) /\ (granted \/ ~Asks(task, tool)) /\ task \in Tasks
    BY DEF Inductive, RunInv, SoleRun, RunTask, ToolsFiltered, Prompting, Executing
  <2>2. /\ tool \in task.profile.allowed_tools /\ tool \in Tools
        /\ OpsOf[tool] # {}
        /\ \A op \in OpsOf[tool] : ~Rejects(task, op)
    BY <2>1 DEF Exposed, Denied
  <2>3. ASSUME NEW op \in OpsOf[tool]
        PROVE  /\ op \in DOMAIN task.profile.permissions
               /\ Decision(task, op) = task.profile.permissions[op]
               /\ task.profile.permissions[op] \in PermissionDecision
               /\ Decision(task, op) # "deny"
               /\ task.read_only => op = "read_file"
    BY <2>1, <2>2, <2>3, RuntimeAssumption
       DEF RuntimeAssumption, IsTask, Rejects, Decision, decision_for
  <2> HIDE DEF tool
  <2>4. ~Asks(task, tool) =>
            /\ tool \notin SelfAsking
            /\ \A op \in OpsOf[tool] : task.profile.permissions[op] = "allow"
    BY <2>3 DEF Asks, PermissionDecision
  <2> QED
    BY <2>1, <2>2, <2>3, <2>4 DEF tool
<1> QED
  BY <1>1, RunInvariant, PTL

-----------------------------------------------------------------------------
\* Every step of the runtime is a step its callers may expect, or none they see.
LEMMA StepContract == Inductive /\ Inductive' /\ [Next]_vars => [C!Next]_(C!contract)
<1> SUFFICES ASSUME Inductive, Inductive', [Next]_vars PROVE [C!Next]_(C!contract)
  OBVIOUS
<1>p. PhaseShown /\ PhaseShown'
  <2>1. PhaseShown
    BY PhaseOfRun DEF Inductive
  <2>2. (RunInv /\ RunRecord => PhaseShown)'
    BY PhaseOfRun, PTL
  <2> QED
    BY <2>1, <2>2 DEF Inductive
<1> DEFINE quiet == UNCHANGED <<Phase, cancelled, stage = "running", permission # {}, Verdict>>
<1>q. quiet => [C!Next]_(C!contract)
  BY DEF C!contract
<1> USE <1>p, RuntimeAssumption DEF RuntimeAssumption, Inductive, RunInv, PlacesTyped, SoleRun, RunRecord,
        Executing, Goto, PhaseShown, PhaseAt, runLocals
<1> HIDE DEF quiet
<1>1. ASSUME NEW t \in Threads, NEW k \in Tasks, Execute(t, k) PROVE C!Begin
  BY <1>1 DEF Execute, C!Begin, Verdict
<1>2. ASSUME NEW t \in Threads, Reject(t) PROVE C!Refuse("failed")
  BY <1>2 DEF Reject, C!Refuse, Verdict
<1>4. ASSUME NEW t \in Threads, PrepareThrows(t) PROVE C!Refuse("threw")
  BY <1>4 DEF PrepareThrows, C!Refuse, Verdict
<1>5. ASSUME NEW t \in Threads, Register(t) PROVE C!Attach
  BY <1>5 DEF Register, C!Attach, Verdict
<1>14. ASSUME NEW t \in Threads, Detach(t) PROVE C!Detach
  BY <1>14 DEF Detach, C!Detach, Verdict, ToolsFiltered, Prompting
<1>17. ASSUME NEW t \in Threads, Report(t) PROVE C!Decide(Verdict')
  BY <1>17 DEF Report, C!Decide, C!Verdicts, Verdict, Outcome
<1>18. ASSUME NEW t \in Threads, ReturnFromExecute(t) PROVE C!Return
  BY <1>18 DEF ReturnFromExecute, C!Return, Verdict
<1>3. ASSUME NEW t \in Threads, Prepare(t) \/ ResetAfter(t) \/ ResetAfterThrows(t) PROVE quiet
  BY <1>3 DEF Prepare, ResetAfter, ResetAfterThrows, Verdict, quiet
<1>6. ASSUME NEW t \in Threads,
             EnterPrompt(t) \/ FirstRequest(t) \/ TurnLoop(t) \/ LeavePrompt(t) \/ CancelFromCallback(t)
      PROVE  quiet
  BY <1>6 DEF EnterPrompt, FirstRequest, TurnLoop, LeavePrompt, CancelFromCallback, Running,
      rvars, Verdict, quiet
<1>7. ASSUME NEW t \in Threads, StartTool(t) PROVE quiet
  BY <1>7 DEF StartTool, S!ToolStart, Running, ToolsFiltered, Verdict, quiet
<1>8. ASSUME NEW t \in Threads,
             SkipTool(t) \/ AskForTool(t) \/ NoNeedToAsk(t) \/ Approve(t) \/ CancelledMeanwhile(t)
      PROVE  quiet
  BY <1>8 DEF SkipTool, AskForTool, NoNeedToAsk, Approve, CancelledMeanwhile, Stage, Running,
      Verdict, quiet
<1>9. ASSUME NEW t \in Threads, Unattended(t) \/ Decline(t) \/ RefusedInsideTool(t) PROVE C!Block
  BY <1>9 DEF Unattended, Decline, RefusedInsideTool, Stage, Running, C!Block, Verdict
<1>10. ASSUME NEW t \in Threads, RunTool(t) PROVE C!Act
  BY <1>10 DEF RunTool, Stage, StillWanted, Running, C!Act, Verdict
<1>11. ASSUME NEW t \in Threads, PromptThrows(t) \/ FinishTool(t) PROVE C!Acted \/ quiet
  BY <1>11 DEF PromptThrows, FinishTool, Running, C!Acted, Verdict, quiet
<1>12. ASSUME NEW t \in Threads, StopLoad(t) \/ StopSession(t) PROVE quiet
  <2>1. UNCHANGED <<executing, attached, outcome, cancelled, stage, permission>>
    BY <1>12 DEF StopLoad, StopSession
  <2>2. \A u \in Threads : (rpc[u] \in {"reset", "report"}) = (rpc'[u] \in {"reset", "report"})
    BY <1>12 DEF StopLoad, StopSession
  <2> QED
    BY <2>1, <2>2 DEF Phase, Verdict, quiet
<1>13. ASSUME NEW c \in Threads, CancelBegin(c) PROVE C!Cancel
  BY <1>13 DEF CancelBegin, AttachedRuns, C!Cancel, Verdict
<1>15. ASSUME NEW t \in Threads, CallbackStops(t) PROVE C!Cancel
  BY <1>15 DEF CallbackStops, C!Cancel, Verdict
<1>19. ASSUME UNCHANGED vars PROVE quiet
  <2>1. UNCHANGED <<executing, attached, outcome, rpc, cancelled, stage, permission>>
    BY <1>19 DEF vars, rvars
  <2> QED
    BY <2>1 DEF Phase, Verdict, quiet
<1>20. ASSUME NEW v PROVE C!Refuse(v) \/ C!Decide(v) => v \in C!Verdicts
  BY DEF C!Refuse, C!Decide, C!Verdicts
<1> QED
  BY <1>1, <1>2, <1>3, <1>4, <1>5, <1>6, <1>7, <1>8, <1>9, <1>10, <1>11, <1>12, <1>13, <1>14, <1>15,
     <1>17, <1>18, <1>19, <1>20, <1>q DEF Next, Step, C!Next

\* AgentRuntime implements the contract its callers rely on: a cancelled run
\* starts no further tool and says that it was cancelled, one that was refused a
\* tool call is never completed, and nothing leaks into the next run.
THEOREM ContractImplemented == Spec => ImplementsContract
<1>1. Init => C!Init
  BY RuntimeAssumption DEF RuntimeAssumption, Init, C!Init, Phase, Verdict
<1>2. Inductive /\ Inductive' /\ [Next]_vars => [C!Next]_(C!contract)
  BY StepContract
<1> QED
  BY <1>1, <1>2, RunInvariant, PTL DEF Spec, C!Spec, ImplementsContract

-----------------------------------------------------------------------------
\* A tool that runs answers a call of the turn that is still unanswered.
ToolHasCall ==
    \A t \in Threads :
        /\ pc[t] = "tools" => Len(responses[t]) <= Len(calls[t])
        /\ pc[t] = "tool" => Len(responses[t]) < Len(calls[t])

\* A model turn is a sequence of tool names.
LEMMA TurnsAreSequences == \A turn \in S!Calls : turn \in Seq(Tools)
<1> SUFFICES ASSUME NEW turn \in S!Calls PROVE turn \in Seq(Tools)
  OBVIOUS
<1>1. PICK n \in 1..MaxCalls : turn \in [1..n -> Tools]
  BY DEF S!Calls
<1> QED
  BY <1>1, RuntimeAssumption DEF RuntimeAssumption

\* The session of a run keeps the types of the turn in progress.
LEMMA StepTurn == RunInv /\ S!TurnOK /\ ToolHasCall /\ [Next]_vars => S!TurnOK' /\ ToolHasCall'
<1> SUFFICES ASSUME RunInv, S!TurnOK, ToolHasCall, [Next]_vars PROVE S!TurnOK' /\ ToolHasCall'
  OBVIOUS
<1> USE DEF ToolHasCall, S!TurnOK, RunInv, PlacesTyped, S!Goto, S!Published, S!Locked, S!Cancelling,
        S!shared, S!locals
<1>1. ASSUME NEW t \in Threads, EnterPrompt(t) PROVE S!TurnOK' /\ ToolHasCall'
  BY <1>1 DEF EnterPrompt, S!PromptEnter, S!MayLock
<1>2. ASSUME NEW t \in Threads, FirstRequest(t) PROVE S!TurnOK' /\ ToolHasCall'
  BY <1>2 DEF FirstRequest, S!PromptPublish
<1>3. ASSUME NEW t \in Threads, TurnLoop(t) PROVE S!TurnOK' /\ ToolHasCall'
  <2>1. ASSUME NEW turn \in S!Calls, S!TurnTools(t, turn) PROVE S!TurnOK' /\ ToolHasCall'
    <3>1. turn \in Seq(Tools) /\ <<>> \in Seq(S!Response)
      BY TurnsAreSequences
    <3> QED
      BY <2>1, <3>1 DEF S!TurnTools
  <2>2. CASE S!TurnFinal(t)
    <3>1. <<>> \in Seq(Tools)
      OBVIOUS
    <3> QED
      BY <2>2, <3>1 DEF S!TurnFinal, S!Return
  <2>3. CASE \/ S!TurnCancelled(t) \/ S!TurnTooMany(t)
             \/ \E r \in {"failed", "cancelled"} : S!TurnFailed(t, r)
             \/ S!ToolsCancelled(t) \/ S!ContinueTurn(t) \/ S!PromptUnpublish(t)
    BY <2>3 DEF S!TurnCancelled, S!TurnTooMany, S!TurnFailed, S!ToolsCancelled, S!ContinueTurn,
        S!PromptUnpublish, S!Return
  <2> QED
    BY <1>3, <2>1, <2>2, <2>3 DEF TurnLoop
<1>4. ASSUME NEW t \in Threads, LeavePrompt(t) PROVE S!TurnOK' /\ ToolHasCall'
  BY <1>4 DEF LeavePrompt, S!PromptUnlock
<1>5. ASSUME NEW t \in Threads, PromptThrows(t) PROVE S!TurnOK' /\ ToolHasCall'
  BY <1>5 DEF PromptThrows, S!Unwind, S!Return
<1>6. ASSUME NEW t \in Threads, StartTool(t) PROVE S!TurnOK' /\ ToolHasCall'
  BY <1>6 DEF StartTool, S!ToolStart, S!AllAnswered
<1>7. ASSUME NEW t \in Threads, FinishTool(t) PROVE S!TurnOK' /\ ToolHasCall'
  <2>1. pc[t] = "tool" /\ S!ToolDone(t)
    BY <1>7 DEF FinishTool, S!ToolDone
  <2>2. S!CallInTurn(t) \in Tools
    BY <2>1 DEF S!CallInTurn
  <2>3. S!Execute(S!CallInTurn(t)) \in S!Response
    BY <2>2 DEF S!Execute, S!Response
  <2> QED
    BY <2>1, <2>3 DEF S!ToolDone
<1>8. ASSUME NEW t \in Threads, StopLoad(t) \/ StopSession(t) PROVE S!TurnOK' /\ ToolHasCall'
  BY <1>8 DEF StopLoad, S!CancelLoad, StopSession, S!CancelCall, S!CancelLocked
<1>9. ASSUME UNCHANGED <<pc, calls, responses>> PROVE S!TurnOK' /\ ToolHasCall'
  BY <1>9
<1>10. ASSUME NEW t \in Threads,
              \/ \E k \in Tasks : Execute(t, k)
              \/ Reject(t) \/ Prepare(t) \/ PrepareThrows(t) \/ Register(t) \/ Detach(t)
              \/ ResetAfter(t) \/ ResetAfterThrows(t) \/ Report(t) \/ ReturnFromExecute(t)
              \/ SkipTool(t) \/ AskForTool(t) \/ NoNeedToAsk(t) \/ Unattended(t) \/ Approve(t)
              \/ Decline(t) \/ RunTool(t) \/ CancelledMeanwhile(t) \/ RefusedInsideTool(t)
              \/ CancelBegin(t) \/ CancelFromCallback(t) \/ CallbackStops(t)
       PROVE  UNCHANGED <<pc, calls, responses>>
  BY <1>10 DEF Execute, Reject, Prepare, PrepareThrows, BuildSession, Register, Detach, ResetAfter,
      S!ResetSession, ResetAfterThrows, Report, ReturnFromExecute, SkipTool, AskForTool, NoNeedToAsk,
      Unattended, Approve, Decline, RunTool, CancelledMeanwhile, RefusedInsideTool, Stage,
      CancelBegin, CancelFromCallback, CallbackStops, svars
<1>11. CASE UNCHANGED vars
  BY <1>9, <1>11 DEF vars, svars
<1> QED
  BY <1>1, <1>2, <1>3, <1>4, <1>5, <1>6, <1>7, <1>8, <1>9, <1>10, <1>11 DEF Next, Step

\* The model is offered tools of the registry only.
LEMMA ExposedTools == \A k : Exposed(k) \in SUBSET Tools
BY DEF Exposed

\* Every step keeps every type.
LEMMA StepTypes == RunInv /\ TypeOK /\ S!TurnOK' /\ [Next]_vars => TypeOK'
<1> SUFFICES ASSUME RunInv, TypeOK, S!TurnOK', [Next]_vars PROVE TypeOK'
  OBVIOUS
<1> USE RuntimeAssumption DEF RuntimeAssumption, TypeOK, S!TypeOK, S!Settings, S!Text, S!Results,
        S!Published, S!Locked, S!Cancelling, S!Goto, S!shared, S!locals, Goto, Running,
        svars, rvars, runLocals
<1>1. ASSUME NEW t \in Threads, NEW k \in Tasks, Execute(t, k) PROVE TypeOK'
  BY <1>1 DEF Execute
<1>2. ASSUME NEW t \in Threads, Reject(t) PROVE TypeOK'
  BY <1>2 DEF Reject, Outcomes
<1>3. ASSUME NEW t \in Threads, Prepare(t) PROVE TypeOK'
  BY <1>3, ExposedTools DEF Prepare, BuildSession, DropHistory
<1>4. ASSUME NEW t \in Threads, PrepareThrows(t) PROVE TypeOK'
  BY <1>4, ExposedTools DEF PrepareThrows, BuildSession, Outcomes
<1>5. ASSUME NEW t \in Threads, Register(t) PROVE TypeOK'
  BY <1>5 DEF Register
<1>6. ASSUME NEW t \in Threads, EnterPrompt(t) PROVE TypeOK'
  BY <1>6 DEF EnterPrompt, S!PromptEnter, S!MayLock, S!Ready
<1>7. ASSUME NEW t \in Threads, FirstRequest(t) PROVE TypeOK'
  BY <1>7 DEF FirstRequest, Muted, S!PromptPublish, S!Publish, S!CountRequest, RunInv, ProviderInPlace, Prompting
<1>8. ASSUME NEW t \in Threads, TurnLoop(t) PROVE TypeOK'
  <2> SUFFICES S!TypeOK'
    BY <1>8 DEF TurnLoop
  <2>1. CASE S!TurnCancelled(t)
    BY <2>1 DEF S!TurnCancelled, S!CountLate, S!Return
  <2>2. ASSUME NEW r \in {"failed", "cancelled"}, S!TurnFailed(t, r) PROVE S!TypeOK'
    <3>1. result' \in [Threads -> S!Results]
      BY <2>2 DEF S!TurnFailed, S!Return
    <3>2. pc' \in [Threads -> {"idle"} \cup S!Locked \cup S!Cancelling]
      BY <2>2 DEF S!TurnFailed, S!Return
    <3> QED
      BY <2>2, <3>1, <3>2 DEF S!TurnFailed
  <2>3. CASE S!TurnFinal(t)
    <3>1. result' \in [Threads -> S!Results]
      BY <2>3 DEF S!TurnFinal, S!Return
    <3>2. pc' \in [Threads -> {"idle"} \cup S!Locked \cup S!Cancelling]
      BY <2>3 DEF S!TurnFinal, S!Return
    <3> QED
      BY <2>3, <3>1, <3>2 DEF S!TurnFinal
  <2>7. CASE S!TurnTooMany(t)
    <3>1. result' \in [Threads -> S!Results]
      BY <2>7 DEF S!TurnTooMany, S!Return
    <3>2. pc' \in [Threads -> {"idle"} \cup S!Locked \cup S!Cancelling]
      BY <2>7 DEF S!TurnTooMany, S!Return
    <3> QED
      BY <2>7, <3>1, <3>2 DEF S!TurnTooMany
  <2>4. CASE \E turn \in S!Calls : S!TurnTools(t, turn)
    BY <2>4 DEF S!TurnTools, S!CountRound
  <2>5. CASE S!ToolsCancelled(t) \/ S!PromptUnpublish(t)
    BY <2>5 DEF S!ToolsCancelled, S!PromptUnpublish, S!Unpublish, S!Return
  <2>6. CASE S!ContinueTurn(t)
    <3>1. pc' \in [Threads -> {"idle"} \cup S!Locked \cup S!Cancelling]
      BY <2>6 DEF S!ContinueTurn
    <3> QED
      BY <1>8, <2>6, <3>1 DEF S!ContinueTurn, S!CountRequest, RunInv, ProviderInPlace, Prompting, TurnLoop
  <2> QED
    BY <1>8, <2>1, <2>2, <2>3, <2>4, <2>5, <2>6, <2>7 DEF TurnLoop
<1>9. ASSUME NEW t \in Threads, LeavePrompt(t) PROVE TypeOK'
  <2>1. pc' \in [Threads -> {"idle"} \cup S!Locked \cup S!Cancelling]
    BY <1>9 DEF LeavePrompt, S!PromptUnlock
  <2>2. result' \in [Threads -> S!Results] /\ report' \in S!Results
    BY <1>9 DEF LeavePrompt, S!PromptUnlock
  <2>3. /\ round' \in [Threads -> Nat] /\ requests' \in [Threads -> Nat] /\ late' \in [Threads -> Nat]
    BY <1>9 DEF LeavePrompt, S!PromptUnlock
  <2>4. S!TypeOK'
    BY <1>9, <2>1, <2>2, <2>3 DEF LeavePrompt, S!PromptUnlock
  <2> HIDE DEF S!TypeOK
  <2> QED
    BY <1>9, <2>2, <2>4 DEF LeavePrompt
<1>10. ASSUME NEW t \in Threads, PromptThrows(t) PROVE TypeOK'
  BY <1>10 DEF PromptThrows, S!Unwind, S!Return
<1>11. ASSUME NEW t \in Threads, StartTool(t) PROVE TypeOK'
  <2>1. S!TypeOK'
    BY <1>11 DEF StartTool, S!ToolStart
  <2> QED
    BY <1>11, <2>1 DEF StartTool
<1>12. ASSUME NEW t \in Threads,
              \/ SkipTool(t) \/ AskForTool(t) \/ NoNeedToAsk(t) \/ Unattended(t) \/ Approve(t)
              \/ Decline(t) \/ RunTool(t) \/ CancelledMeanwhile(t) \/ RefusedInsideTool(t)
       PROVE  TypeOK'
  <2>1. /\ UNCHANGED <<svars, executing, active_mutex, attached, cancelled, task, rpc, muted, report, outcome>>
        /\ stage' \in {"asking", "cleared", "running", "skipped"}
    BY <1>12 DEF SkipTool, AskForTool, NoNeedToAsk, Unattended, Approve, Decline, RunTool,
        CancelledMeanwhile, RefusedInsideTool, Stage
  <2>2. permission' \in SUBSET {"needs_confirmation", "declined"} /\ granted' \in BOOLEAN
    BY <1>12 DEF SkipTool, AskForTool, NoNeedToAsk, Unattended, Approve, Decline, RunTool,
        CancelledMeanwhile, RefusedInsideTool
  <2>3. S!TypeOK'
    BY <2>1
  <2> QED
    BY <2>1, <2>2, <2>3
<1>13. ASSUME NEW t \in Threads, FinishTool(t) PROVE TypeOK'
  <2>1. pc' \in [Threads -> {"idle"} \cup S!Locked \cup S!Cancelling]
    BY <1>13 DEF FinishTool, S!ToolDone
  <2>2. late' \in [Threads -> Nat]
    BY <1>13 DEF FinishTool, S!ToolDone, S!CountLate
  <2>3. S!TypeOK'
    BY <1>13, <2>1, <2>2 DEF FinishTool, S!ToolDone
  <2> QED
    BY <1>13, <2>3 DEF FinishTool
<1>14. ASSUME NEW t \in Threads, Detach(t) PROVE TypeOK'
  BY <1>14 DEF Detach
<1>15. ASSUME NEW t \in Threads, ResetAfter(t) PROVE TypeOK'
  BY <1>15 DEF ResetAfter, S!ResetSession, S!MayLock
<1>16. ASSUME NEW t \in Threads, ResetAfterThrows(t) PROVE TypeOK'
  BY <1>16 DEF ResetAfterThrows
<1>17. ASSUME NEW t \in Threads, Report(t) PROVE TypeOK'
  BY <1>17 DEF Report, Outcome, Outcomes
<1>18. ASSUME NEW t \in Threads, ReturnFromExecute(t) PROVE TypeOK'
  BY <1>18 DEF ReturnFromExecute, Outcomes
<1>19. ASSUME NEW c \in Threads, CancelBegin(c) PROVE TypeOK'
  BY <1>19 DEF CancelBegin, Raise
<1>20. ASSUME NEW c \in Threads, StopLoad(c) PROVE TypeOK'
  BY <1>20 DEF StopLoad, S!CancelLoad
<1>21. ASSUME NEW c \in Threads, StopSession(c) PROVE TypeOK'
  BY <1>21 DEF StopSession, S!CancelCall, S!CancelLocked, S!Stop
<1>22. ASSUME NEW t \in Threads, CancelFromCallback(t) PROVE TypeOK'
  BY <1>22 DEF CancelFromCallback
<1>23. ASSUME NEW t \in Threads, CallbackStops(t) PROVE TypeOK'
  BY <1>23 DEF CallbackStops, S!Stop
<1>24. CASE UNCHANGED vars
  BY <1>24 DEF vars
<1> QED
  BY <1>1, <1>2, <1>3, <1>4, <1>5, <1>6, <1>7, <1>8, <1>9, <1>10, <1>11, <1>12, <1>13, <1>14, <1>15, <1>16, <1>17, <1>18, <1>19, <1>20, <1>21, <1>22, <1>23, <1>24 DEF Next, Step

\* Every variable of the runtime, and of the session it drives, keeps its type.
THEOREM RuntimeTypeCorrect == Spec => []TypeOK
<1>1. Init => TypeOK /\ ToolHasCall
  <2> SUFFICES ASSUME Init PROVE TypeOK /\ ToolHasCall
    OBVIOUS
  <2> USE DEF Init, S!Init
  <2>1. <<>> \in Seq(Tools) /\ <<>> \in Seq(S!Response)
    OBVIOUS
  <2>2. S!TurnOK /\ ToolHasCall
    BY <2>1 DEF S!TurnOK, ToolHasCall
  <2>3. S!TypeOK
    BY <2>2 DEF S!TypeOK, S!Settings, S!Text, S!Results
  <2>4. report \in S!Results /\ outcome \in Outcomes
    BY DEF S!Results, Outcomes
  <2> QED
    BY <2>2, <2>3, <2>4 DEF TypeOK
<1>2. Inductive /\ TypeOK /\ ToolHasCall /\ [Next]_vars => (TypeOK /\ ToolHasCall)'
  BY StepTurn, StepTypes DEF Inductive, TypeOK, S!TypeOK
<1> QED
  BY <1>1, <1>2, RunInvariant, PTL DEF Spec

-----------------------------------------------------------------------------
(* Standard agents *)

\* A registry holds each profile under its id, the standard ones as shipped.
HoldsStandard(profiles) ==
    /\ \A id \in DOMAIN profiles : profiles[id].id = id
    /\ \A id \in StandardIds : id \in DOMAIN profiles /\ profiles[id] = make_registry[id]

\* The profiles that the library ships.
LEMMA StandardProfiles ==
    /\ StandardIds = {"explorer", "planner", "coder", "reviewer"}
    /\ make_registry["coder"] = coder
    /\ \A id \in {"explorer", "planner", "reviewer"} : make_registry[id] = make_read_only_profile(id)
<1>0. DOMAIN NoProfiles = {}
  BY DEF NoProfiles
<1> DEFINE one == register_profile(NoProfiles, explorer)
           two == register_profile(one, planner)
           three == register_profile(two, coder)
<1>i. explorer.id = "explorer" /\ planner.id = "planner" /\ coder.id = "coder" /\ reviewer.id = "reviewer"
  BY DEF explorer, planner, coder, reviewer, make_read_only_profile
<1>1. DOMAIN one = {"explorer"} /\ one["explorer"] = explorer
  BY <1>0, <1>i DEF register_profile
<1> HIDE DEF one
<1>2. DOMAIN two = {"explorer", "planner"} /\ two["explorer"] = explorer /\ two["planner"] = planner
  BY <1>1, <1>i DEF register_profile
<1> HIDE DEF two
<1>3. /\ DOMAIN three = {"explorer", "planner", "coder"}
      /\ three["explorer"] = explorer /\ three["planner"] = planner /\ three["coder"] = coder
  BY <1>2, <1>i DEF register_profile
<1> HIDE DEF three
<1>4. make_registry = register_profile(three, reviewer)
  BY DEF make_registry, three, two, one
<1>5. /\ DOMAIN make_registry = {"explorer", "planner", "coder", "reviewer"}
      /\ make_registry["explorer"] = explorer /\ make_registry["planner"] = planner
      /\ make_registry["coder"] = coder /\ make_registry["reviewer"] = reviewer
  BY <1>3, <1>4, <1>i DEF register_profile
<1> QED
  BY <1>5 DEF StandardIds, explorer, planner, reviewer

\* make_registry() returns such a registry, and whatever a host registers on top
\* of it, under whatever id, leaves it one.
LEMMA RegisterKeepsStandard ==
    /\ HoldsStandard(make_registry)
    /\ \A profiles, profile :
          HoldsStandard(profiles) => HoldsStandard(register_profile(profiles, profile))
<1>1. HoldsStandard(make_registry)
  <2>1. make_registry["coder"].id = "coder"
    BY StandardProfiles DEF coder
  <2>2. \A id \in {"explorer", "planner", "reviewer"} : make_registry[id].id = id
    BY StandardProfiles DEF make_read_only_profile
  <2> QED
    BY <2>1, <2>2, StandardProfiles DEF HoldsStandard, StandardIds
<1>2. ASSUME NEW profiles, NEW profile, HoldsStandard(profiles)
      PROVE  HoldsStandard(register_profile(profiles, profile))
  BY <1>2 DEF HoldsStandard, register_profile
<1> QED
  BY <1>1, <1>2

\* Agents that a host takes by id from the standard registry, to which it may
\* have added any profiles, change nothing on their own account: the coder asks
\* for each call that writes or deletes, the others only read.
THEOREM StandardAgentsAsk ==
  ASSUME NEW profiles, HoldsStandard(profiles),
         \A k \in Tasks : k.profile.id \in StandardIds => k.profile \in find(profiles, k.profile.id)
  PROVE  Spec => []StandardAgentsMutateByApproval
<1>1. ASSUME NEW k \in Tasks, k.profile.id \in StandardIds
      PROVE  k.profile = make_registry[k.profile.id]
  BY <1>1 DEF find, HoldsStandard
<1>2. Inductive /\ OnlyPermittedToolsRun => StandardAgentsMutateByApproval
  <2> SUFFICES ASSUME Inductive, OnlyPermittedToolsRun, NEW t \in Threads, Executing(t), stage = "running",
                      task.profile.id \in StandardIds
               PROVE  \/ OpsOf[Current(t)] = {"read_file"}
                      \/ task.profile.id = "coder" /\ granted
    BY DEF StandardAgentsMutateByApproval
  <2>1. task.profile = make_registry[task.profile.id]
    BY <1>1 DEF Inductive, RunInv, SoleRun, RunTask
  <2>2. OpsOf[Current(t)] # {} /\ \A op \in OpsOf[Current(t)] : op \in DOMAIN task.profile.permissions
    BY DEF OnlyPermittedToolsRun
  <2>3. CASE task.profile.id = "coder"
    <3>1. \/ granted
          \/ \A op \in OpsOf[Current(t)] : task.profile.permissions[op] = "allow"
      BY DEF OnlyPermittedToolsRun
    <3>2. \A op \in DOMAIN coder.permissions : coder.permissions[op] = "allow" => op = "read_file"
      BY DEF coder, coder_permissions, read_only_permissions, set_decision, NoDecisions
    <3> QED
      BY <2>1, <2>2, <2>3, <3>1, <3>2, StandardProfiles
  <2>4. CASE task.profile.id # "coder"
    <3>1. DOMAIN task.profile.permissions = {"read_file"}
      BY <2>1, <2>4, StandardProfiles DEF make_read_only_profile, read_only_permissions, set_decision, NoDecisions
    <3> QED
      BY <2>2, <3>1
  <2> QED
    BY <2>3, <2>4
<1> QED
  BY <1>2, RunInvariant, PermittedOnly, PTL
=============================================================================
