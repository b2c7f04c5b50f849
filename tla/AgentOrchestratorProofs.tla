------------------------ MODULE AgentOrchestratorProofs ------------------------
(***************************************************************************)
(* What TLAPS proves of AgentOrchestrator, for any number of threads and   *)
(* any initial artifacts: who is in a call, what is published while it is, *)
(* that a cancellation never touches a runtime that is gone, that it all   *)
(* implements Workflow, and what each stage is given.                      *)
(***************************************************************************)
EXTENDS AgentOrchestrator, TLAPS

Places == {"idle", "clear", "preflight", "check", "create", "publish", "started", "run",
           "unpublish", "record", "judge", "between", "return", "cancel", "cancel_call"}

InCall(t) == pc[t] \notin {"idle", "cancel", "cancel_call"}

\* At most one thread is in a call, and executing_ says so.
SoleCall ==
    /\ pc \in [Threads -> Places]
    /\ \A t \in Threads : InCall(t) => executing
    /\ executing => \E t \in Threads : InCall(t)
    /\ \A t, u \in Threads : InCall(t) /\ InCall(u) => t = u

\* active_mutex_ is held exactly while a cancellation calls the active runtime.
CancelHolds ==
    /\ \A c \in Threads : pc[c] = "cancel_call" <=> active_mutex = c
    /\ active_mutex # NoThread => active_mutex \in Threads /\ active_runtime # 0

\* Where the stage's runtime exists, and where it is published.
Created == {"publish", "started", "run", "unpublish"}
Published == {"started", "run", "unpublish"}
RuntimeInPlace ==
    /\ mode \in {"none", "workflow", "agent"}
    /\ \A t \in Threads : pc[t] \in Created => runtime # "none"
    /\ active_runtime # 0 => active_runtime = stage /\ \E t \in Threads : pc[t] \in Published

\* One call, one cancellation, one published runtime.
CallInv == SoleCall /\ CancelHolds /\ RuntimeInPlace

\* Every step keeps one call, and its runtime in place while it is published.
LEMMA StepCall == CallInv /\ [Next]_vars => CallInv'
<1> SUFFICES ASSUME CallInv, [Next]_vars PROVE CallInv'
  OBVIOUS
<1> USE OrchestratorAssumption DEF OrchestratorAssumption, CallInv, SoleCall, CancelHolds,
        RuntimeInPlace, Places, Created, Published, InCall, Goto, Finish, inside, workflow
<1>1. ASSUME NEW t \in Threads, NEW m \in {"workflow", "agent"}, Begin(t, m) PROVE CallInv'
  BY <1>1 DEF Begin
<1>2. ASSUME NEW t \in Threads, Refused(t) PROVE CallInv'
  BY <1>2 DEF Refused
<1>3. ASSUME NEW t \in Threads, ClearCancel(t) \/ PreflightFails(t) \/ PreflightPasses(t) PROVE CallInv'
  BY <1>3 DEF ClearCancel, PreflightFails, PreflightPasses
<1>4. ASSUME NEW t \in Threads, StageCheck(t) \/ FactoryFails(t) \/ CreateRuntime(t) PROVE CallInv'
  BY <1>4 DEF StageCheck, FactoryFails, CreateRuntime
<1>5. ASSUME NEW t \in Threads, PublishRuntime(t) PROVE CallInv'
  BY <1>5 DEF PublishRuntime
<1>6. ASSUME NEW t \in Threads, StageCallbackThrows(t) \/ AgentCancelledBeforeRun(t) PROVE CallInv'
  BY <1>6 DEF StageCallbackThrows, AgentCancelledBeforeRun
<1>7. ASSUME NEW t \in Threads, CancelledBeforeRun(t) PROVE CallInv'
  BY <1>7 DEF CancelledBeforeRun
<1>8. ASSUME NEW t \in Threads, StartRun(t) PROVE CallInv'
  BY <1>8 DEF StartRun, R!Begin
<1>9. ASSUME NEW t \in Threads,
             \/ RuntimeWorks(t) \/ RuntimeMoves(t) \/ RuntimeDetaches(t)
             \/ \E v \in R!Verdicts : RuntimeEnds(t, v)
      PROVE  CallInv'
  BY <1>9 DEF RuntimeWorks, RuntimeMoves, RuntimeDetaches, RuntimeEnds, RuntimeStep, R!Act, R!Block,
      R!Attach, R!Acted, R!Detach, R!Refuse, R!Decide
<1>10. ASSUME NEW t \in Threads, RuntimeReturns(t) PROVE CallInv'
  BY <1>10 DEF RuntimeReturns, R!Return
<1>11. ASSUME NEW t \in Threads, UnpublishRuntime(t) PROVE CallInv'
  BY <1>11 DEF UnpublishRuntime, MayUnpublish
<1>12. ASSUME NEW t \in Threads, Record(t) \/ RecordThrows(t) PROVE CallInv'
  BY <1>12 DEF Record, RecordThrows
<1>13. ASSUME NEW t \in Threads, JudgeCancelled(t) \/ JudgeAgent(t) \/ JudgeStops(t) PROVE CallInv'
  BY <1>13 DEF JudgeCancelled, JudgeAgent, JudgeStops
<1>14. ASSUME NEW t \in Threads, NEW tests \in BOOLEAN, JudgeCompletes(t, tests) PROVE CallInv'
  BY <1>14 DEF JudgeCompletes
<1>15. ASSUME NEW t \in Threads, NEW s \in {"failed", "cancelled", "continuation_declined"},
              Proceed(t) \/ GiveUp(t, s)
       PROVE  CallInv'
  BY <1>15 DEF Proceed, GiveUp
<1>16. ASSUME NEW t \in Threads, Return(t) PROVE CallInv'
  BY <1>16 DEF Return, ReleaseOrchestrator
<1>17. ASSUME NEW c \in Threads, CancelStore(c) \/ CancelLock(c) PROVE CallInv'
  BY <1>17 DEF CancelStore, CancelLock
<1>18. ASSUME NEW c \in Threads, CancelCall(c) PROVE CallInv'
  BY <1>18 DEF CancelCall, R!Cancel
<1>19. CASE UNCHANGED vars
  BY <1>19 DEF vars
<1> QED
  BY <1>1, <1>2, <1>3, <1>4, <1>5, <1>6, <1>7, <1>8, <1>9, <1>10, <1>11, <1>12, <1>13, <1>14,
     <1>15, <1>16, <1>17, <1>18, <1>19 DEF Next, Step

\* At most one thread is in execute() or execute_agent(), and a published
\* runtime is that of the stage it is in.
THEOREM CallInvariant == Spec => []CallInv
<1>1. Init => CallInv
  BY OrchestratorAssumption DEF OrchestratorAssumption, Init, CallInv, SoleCall, CancelHolds,
      RuntimeInPlace, Places, Created, InCall
<1> QED
  BY <1>1, StepCall, PTL DEF Spec

\* The runtime that cancel_active_execution() calls exists and is the current
\* stage's: it is unpublished, under active_mutex_, before it is destroyed.
THEOREM RuntimeOutlives == Spec => []RuntimeOutlivesCancel
<1>1. CallInv => RuntimeOutlivesCancel
  BY OrchestratorAssumption DEF OrchestratorAssumption, CallInv, CancelHolds, RuntimeInPlace,
      Created, Published, RuntimeOutlivesCancel
<1> QED
  BY <1>1, CallInvariant, PTL

-----------------------------------------------------------------------------
(* What the call in progress has done so far. *)

NothingDone ==
    /\ stage = 0 /\ runtime = "none" /\ result = "none" /\ status = "none"
    /\ executions = <<>> /\ artifacts = {}

\* The stages before the current one have completed, and it is on record too.
RecordBefore ==
    /\ Len(executions) = stage - 1
    /\ \A i \in 1..(stage - 1) : executions[i] = "completed"
RecordNow ==
    /\ Len(executions) = stage
    /\ \A i \in 1..(stage - 1) : executions[i] = "completed"
    /\ executions[stage] = result

\* Their outputs are in the workflow, and so is its own.
OutputsBefore == Accepted = {Outputs[i] : i \in 1..(stage - 1)}
OutputsNow == Accepted = {Outputs[i] : i \in 1..stage}

Staged == {"check", "create", "publish", "started", "run", "unpublish", "record", "judge", "between"}

\* Of the stages, for the thread in the call.
StageAt(t) ==
    /\ pc[t] \in Staged =>
          /\ stage \in 1..4 /\ status = "none"
          /\ mode = "agent" => stage = 1 /\ pc[t] \notin {"check", "record", "between"}
    /\ pc[t] \in Staged \ {"judge", "between"} => RecordBefore
    /\ pc[t] \in Staged \ {"between"} => OutputsBefore
    /\ pc[t] \in {"check", "create", "publish", "started", "run"} => result = "none"
    /\ pc[t] \in {"unpublish", "record", "judge", "between"} => result \in AgentStatus
    /\ pc[t] = "judge" => IF mode = "agent" THEN RecordBefore ELSE RecordNow
    /\ pc[t] = "between" => RecordNow /\ OutputsNow /\ stage < 4 /\ result = "completed"

\* Of the runtime, the request to cancel and the ends of the call.
CallAt(t) ==
    /\ InCall(t) => mode \in {"workflow", "agent"}
    /\ pc[t] \in {"clear", "preflight"} => NothingDone
    /\ pc[t] = "clear" => heard = FALSE
    /\ PastClear(t) => heard = cancel_requested
    /\ pc[t] \in {"check", "create", "return"} => runtime = "none"
    /\ pc[t] \in {"publish", "started", "unpublish", "record", "judge", "between"} => runtime = "idle"
    /\ pc[t] = "run" => runtime \in {"starting", "running", "closing", "ending"}
    /\ pc[t] = "run" /\ runtime = "ending" => verdict \in R!Verdicts
    /\ pc[t] = "return" => status \in AgentStatus \cup {"continuation_declined"}

StageInv ==
    /\ executions \in Seq(AgentStatus)
    /\ heard \in BOOLEAN /\ cancel_requested \in BOOLEAN
    /\ ~executing => NothingDone /\ mode = "none" /\ heard = FALSE
    /\ \A t \in Threads : StageAt(t) /\ CallAt(t)

\* What concerns the call concerns only the thread in it.
LEMMA OthersAreIdle ==
  ASSUME CallInv, NEW t \in Threads, InCall(t), \A u \in Threads \ {t} : pc'[u] = pc[u],
         StageAt(t)', CallAt(t)'
  PROVE  \A u \in Threads : StageAt(u)' /\ CallAt(u)'
BY DEF CallInv, SoleCall, InCall, StageAt, CallAt, Staged, PastClear

\* An artifact that is added adds its type.
LEMMA TypesOfMore ==
  ASSUME NEW some, NEW one
  PROVE  {a.type : a \in some \cup {one}} = {a.type : a \in some} \cup {one.type}
OBVIOUS

\* The output of a stage that completed joins those of the stages before.
LEMMA OutputJoins ==
  ASSUME StageInv, NEW t \in Threads, NEW tests \in BOOLEAN, JudgeCompletes(t, tests)
  PROVE  OutputsNow'
<1>1. OutputsBefore /\ stage \in 1..4 /\ stage' = stage
  BY DEF JudgeCompletes, StageInv, StageAt, Staged
<1>2. Outputs[stage] # "test_result"
  BY <1>1 DEF Outputs
<1>3. Accepted' = Accepted \cup {Outputs[stage]}
  <2> DEFINE output == [type |-> Outputs[stage], from |-> stage]
             test == [type |-> "test_result", from |-> stage]
             with == artifacts \cup {output}
  <2>1. artifacts' = with \/ artifacts' = with \cup {test}
    BY DEF JudgeCompletes
  <2>2. output.type = Outputs[stage] /\ test.type = "test_result"
    OBVIOUS
  <2> HIDE DEF output, test
  <2>3. {a.type : a \in with} = {a.type : a \in artifacts} \cup {Outputs[stage]}
    BY <2>2, TypesOfMore
  <2> HIDE DEF with
  <2>4. {a.type : a \in with \cup {test}} = {a.type : a \in with} \cup {"test_result"}
    BY <2>2, TypesOfMore
  <2>5. {a.type : a \in artifacts'} \ {"test_result"} = {a.type : a \in with} \ {"test_result"}
    BY <2>1, <2>4
  <2> QED
    BY <1>2, <2>3, <2>5 DEF Accepted
<1> QED
  BY <1>1, <1>3 DEF OutputsBefore, OutputsNow

\* Every step keeps the record of the call true.
LEMMA StepStage == CallInv /\ StageInv /\ [Next]_vars => StageInv'
<1> SUFFICES ASSUME CallInv, StageInv, [Next]_vars PROVE StageInv'
  OBVIOUS
<1>r. /\ UNCHANGED <<stage, executions>> => (RecordBefore' <=> RecordBefore)
      /\ UNCHANGED <<stage, executions, result>> => (RecordNow' <=> RecordNow)
      /\ UNCHANGED <<stage, artifacts>> => (OutputsBefore' <=> OutputsBefore) /\ (OutputsNow' <=> OutputsNow)
      /\ UNCHANGED <<stage, runtime, result, status, executions, artifacts>> => (NothingDone' <=> NothingDone)
  <2>1. ASSUME UNCHANGED <<stage, executions>> PROVE RecordBefore' <=> RecordBefore
    BY <2>1 DEF RecordBefore
  <2>2. ASSUME UNCHANGED <<stage, executions, result>> PROVE RecordNow' <=> RecordNow
    BY <2>2 DEF RecordNow
  <2>3. ASSUME UNCHANGED <<stage, artifacts>>
        PROVE  (OutputsBefore' <=> OutputsBefore) /\ (OutputsNow' <=> OutputsNow)
    BY <2>3 DEF OutputsBefore, OutputsNow, Accepted
  <2>4. ASSUME UNCHANGED <<stage, runtime, result, status, executions, artifacts>>
        PROVE  NothingDone' <=> NothingDone
    BY <2>4 DEF NothingDone
  <2> QED
    BY <2>1, <2>2, <2>3, <2>4
<1>o. Len(Outputs) = 4 /\ LastStage = 4
  BY DEF Outputs, LastStage
<1> USE <1>r DEF Goto, Finish, inside, workflow, PastClear, Staged, AgentStatus
<1>c. pc \in [Threads -> Places]
  BY DEF CallInv, SoleCall
<1>1. ASSUME NEW t \in Threads, NEW m \in {"workflow", "agent"}, Begin(t, m) PROVE StageInv'
  BY <1>1, <1>c DEF Begin, NothingDone, StageInv, CallInv, SoleCall, StageAt, CallAt, InCall
<1>2. ASSUME NEW t \in Threads, Refused(t) PROVE StageInv'
  BY <1>2 DEF Refused, FlagOfRefused, StageInv, StageAt, CallAt, InCall
<1> USE <1>c DEF StageInv
<1>3. ASSUME NEW t \in Threads, ClearCancel(t) PROVE StageInv'
  <2>1. StageAt(t)' /\ CallAt(t)'
    BY <1>3 DEF ClearCancel, StageAt, CallAt, InCall
  <2> QED
    BY <1>3, <2>1, OthersAreIdle DEF ClearCancel, CallInv, SoleCall, InCall
<1>4. ASSUME NEW t \in Threads, PreflightFails(t) PROVE StageInv'
  <2>1. StageAt(t)' /\ CallAt(t)'
    BY <1>4 DEF PreflightFails, StageAt, CallAt, InCall
  <2> QED
    BY <1>4, <2>1, OthersAreIdle DEF PreflightFails, CallInv, SoleCall, InCall
<1>5. ASSUME NEW t \in Threads, PreflightPasses(t) PROVE StageInv'
  <2>1. RecordBefore' /\ OutputsBefore'
    BY <1>5 DEF PreflightPasses, CallAt, NothingDone, RecordBefore, OutputsBefore, Accepted
  <2>2. StageAt(t)' /\ CallAt(t)'
    BY <1>5, <2>1 DEF PreflightPasses, StageAt, CallAt, InCall, NothingDone
  <2> QED
    BY <1>5, <2>2, OthersAreIdle DEF PreflightPasses, CallInv, SoleCall, InCall
<1>6. ASSUME NEW t \in Threads, StageCheck(t) PROVE StageInv'
  <2>1. StageAt(t)' /\ CallAt(t)'
    BY <1>6 DEF StageCheck, StageAt, CallAt, InCall
  <2> QED
    BY <1>6, <2>1, OthersAreIdle DEF StageCheck, CallInv, SoleCall, InCall
<1>7. ASSUME NEW t \in Threads, FactoryFails(t) \/ CreateRuntime(t) PROVE StageInv'
  <2>1. StageAt(t)' /\ CallAt(t)'
    BY <1>7 DEF FactoryFails, CreateRuntime, StageAt, CallAt, InCall
  <2> QED
    BY <1>7, <2>1, OthersAreIdle DEF FactoryFails, CreateRuntime, InCall, CallInv, SoleCall
<1>8. ASSUME NEW t \in Threads, PublishRuntime(t) PROVE StageInv'
  <2>1. StageAt(t)' /\ CallAt(t)'
    BY <1>8 DEF PublishRuntime, StageAt, CallAt, InCall
  <2> QED
    BY <1>8, <2>1, OthersAreIdle DEF PublishRuntime, InCall
<1>9. ASSUME NEW t \in Threads, StageCallbackThrows(t) \/ AgentCancelledBeforeRun(t) PROVE StageInv'
  <2>1. StageAt(t)' /\ CallAt(t)'
    BY <1>9 DEF StageCallbackThrows, AgentCancelledBeforeRun, StageAt, CallAt, InCall
  <2> QED
    BY <1>9, <2>1, OthersAreIdle DEF StageCallbackThrows, AgentCancelledBeforeRun, InCall
<1>10. ASSUME NEW t \in Threads, CancelledBeforeRun(t) PROVE StageInv'
  <2>1. StageAt(t)' /\ CallAt(t)'
    BY <1>10 DEF CancelledBeforeRun, StageAt, CallAt, InCall
  <2> QED
    BY <1>10, <2>1, OthersAreIdle DEF CancelledBeforeRun, InCall
<1>11. ASSUME NEW t \in Threads, StartRun(t) PROVE StageInv'
  <2>1. StageAt(t)' /\ CallAt(t)'
    BY <1>11 DEF StartRun, R!Begin, StageAt, CallAt, InCall
  <2> QED
    BY <1>11, <2>1, OthersAreIdle DEF StartRun, R!Begin, InCall, CallInv, SoleCall
<1>12. ASSUME NEW t \in Threads,
              \/ RuntimeWorks(t) \/ RuntimeMoves(t) \/ RuntimeDetaches(t)
              \/ \E v \in R!Verdicts : RuntimeEnds(t, v)
       PROVE  StageInv'
  <2>1. /\ pc[t] = "run" /\ runtime' \in {"starting", "running", "closing", "ending"}
        /\ UNCHANGED <<executing, cancel_requested, pc, mode, stage, result, executions, artifacts, status, heard>>
        /\ runtime' = "ending" => verdict' \in R!Verdicts
    BY <1>12 DEF RuntimeWorks, RuntimeMoves, RuntimeDetaches, RuntimeEnds, RuntimeStep, R!Act, R!Block,
        R!Attach, R!Acted, R!Detach, R!Refuse, R!Decide, CallAt, R!Verdicts
  <2>2. StageAt(t)' /\ CallAt(t)'
    BY <2>1 DEF StageAt, CallAt, InCall
  <2> QED
    BY <2>1, <2>2, OthersAreIdle DEF InCall, CallInv, SoleCall
<1>13. ASSUME NEW t \in Threads, RuntimeReturns(t) PROVE StageInv'
  <2>1. StageAt(t)' /\ CallAt(t)'
    BY <1>13 DEF RuntimeReturns, R!Return, StageAt, CallAt, InCall, R!Verdicts
  <2> QED
    BY <1>13, <2>1, OthersAreIdle DEF RuntimeReturns, R!Return, InCall, CallInv, SoleCall
<1>14. ASSUME NEW t \in Threads, UnpublishRuntime(t) PROVE StageInv'
  <2>1. StageAt(t)' /\ CallAt(t)'
    BY <1>14 DEF UnpublishRuntime, StageAt, CallAt, InCall
  <2> QED
    BY <1>14, <2>1, OthersAreIdle DEF UnpublishRuntime, InCall
<1>15. ASSUME NEW t \in Threads, Record(t) \/ RecordThrows(t) PROVE StageInv'
  <2>1. /\ RecordBefore /\ result \in AgentStatus /\ stage \in 1..4
        /\ executions' = Append(executions, result) /\ UNCHANGED <<stage, result>>
    BY <1>15 DEF Record, RecordThrows, StageAt
  <2>3. RecordNow' /\ executions' \in Seq(AgentStatus)
    BY <2>1 DEF RecordBefore, RecordNow
  <2>2. StageAt(t)' /\ CallAt(t)'
    BY <1>15, <2>3 DEF Record, RecordThrows, StageAt, CallAt, InCall
  <2> QED
    BY <1>15, <2>2, <2>3, OthersAreIdle DEF Record, RecordThrows, InCall, CallInv, SoleCall
<1>16. ASSUME NEW t \in Threads, JudgeCancelled(t) \/ JudgeAgent(t) \/ JudgeStops(t) PROVE StageInv'
  <2>1. StageAt(t)' /\ CallAt(t)'
    BY <1>16 DEF JudgeCancelled, JudgeAgent, JudgeStops, CallInv, SoleCall, StageAt, CallAt, InCall
  <2> QED
    BY <1>16, <2>1, OthersAreIdle DEF JudgeCancelled, JudgeAgent, JudgeStops, CallInv, SoleCall, InCall
<1>17. ASSUME NEW t \in Threads, NEW tests \in BOOLEAN, JudgeCompletes(t, tests) PROVE StageInv'
  <2>1. RecordNow /\ result = "completed" /\ stage \in 1..4 /\ UNCHANGED <<stage, executions, result>>
    BY <1>17 DEF JudgeCompletes, StageAt, StageStops
  <2>3. OutputsNow'
    BY <1>17, OutputJoins
  <2>4. StageAt(t)' /\ CallAt(t)'
    BY <1>17, <1>o, <2>1, <2>3 DEF JudgeCompletes, HasNext, StageAt, CallAt, InCall
  <2> QED
    BY <1>17, <2>3, <2>4, OthersAreIdle DEF JudgeCompletes, InCall, CallInv, SoleCall
<1>18. ASSUME NEW t \in Threads, Proceed(t) PROVE StageInv'
  <2>1. RecordNow /\ OutputsNow /\ result = "completed" /\ stage \in 1..3 /\ stage' = stage + 1
        /\ UNCHANGED <<executions, artifacts>>
    BY <1>18 DEF Proceed, StageAt
  <2>2. RecordBefore'
    BY <2>1 DEF RecordNow, RecordBefore
  <2>3. OutputsBefore'
    <3>1. stage' - 1 = stage /\ Accepted' = Accepted
      BY <2>1 DEF Accepted
    <3> QED
      BY <2>1, <3>1 DEF OutputsNow, OutputsBefore
  <2>4. StageAt(t)' /\ CallAt(t)'
    BY <1>18, <2>1, <2>2, <2>3 DEF Proceed, StageAt, CallAt, InCall
  <2> QED
    BY <1>18, <2>4, OthersAreIdle DEF Proceed, InCall, CallInv, SoleCall
<1>19. ASSUME NEW t \in Threads, NEW s \in {"failed", "cancelled", "continuation_declined"}, GiveUp(t, s)
       PROVE  StageInv'
  <2>1. StageAt(t)' /\ CallAt(t)'
    BY <1>19 DEF GiveUp, StageAt, CallAt, InCall
  <2> QED
    BY <1>19, <2>1, OthersAreIdle DEF GiveUp, InCall, CallInv, SoleCall
<1>20. ASSUME NEW t \in Threads, Return(t) PROVE StageInv'
  <2>1. NothingDone' /\ mode' = "none" /\ heard' = FALSE /\ ~executing'
    BY <1>20 DEF Return, ReleaseOrchestrator, NothingDone
  <2>2. \A u \in Threads : ~InCall(u)'
    BY <1>20 DEF Return, CallInv, SoleCall, InCall
  <2>3. \A u \in Threads : StageAt(u)' /\ CallAt(u)'
    BY <2>2 DEF InCall, StageAt, CallAt
  <2>4. executions' \in Seq(AgentStatus) /\ heard' \in BOOLEAN /\ cancel_requested' \in BOOLEAN
    <3>1. <<>> \in Seq(AgentStatus)
      OBVIOUS
    <3>2. executions' = <<>> /\ heard' = FALSE /\ cancel_requested' = cancel_requested
      BY <1>20 DEF Return
    <3> QED
      BY <3>1, <3>2
  <2> QED
    BY <2>1, <2>3, <2>4
<1>21. ASSUME NEW c \in Threads, CancelStore(c) PROVE StageInv'
  <2>1. /\ UNCHANGED <<executing, runtime, verdict, mode, stage, result, executions, artifacts, status>>
        /\ pc[c] = "idle" /\ pc' = [pc EXCEPT ![c] = "cancel"]
        /\ cancel_requested' = TRUE
    BY <1>21 DEF CancelStore
  <2>2. ASSUME NEW t \in Threads, PastClear(t) PROVE heard' = TRUE
    BY <1>21, <2>2 DEF CancelStore
  <2>3. ASSUME \A t \in Threads : ~PastClear(t) PROVE heard' = heard
    BY <1>21, <2>3 DEF CancelStore
  <2>4. heard' \in BOOLEAN
    BY <2>2, <2>3
  <2>5. ASSUME ~executing' PROVE NothingDone' /\ mode' = "none" /\ heard' = FALSE
    <3>1. \A t \in Threads : ~PastClear(t)
      BY <2>1, <2>5, <1>c DEF CallInv, SoleCall, InCall, Places
    <3> QED
      BY <2>1, <2>3, <2>5, <3>1
  <2>6. ASSUME NEW t \in Threads, t # c PROVE StageAt(t)' /\ CallAt(t)'
    <3>1. pc'[t] = pc[t]
      BY <2>1, <2>6, <1>c
    <3>2. StageAt(t)'
      BY <2>1, <3>1 DEF StageAt
    <3>3. pc[t] = "clear" => heard' = FALSE
      <4>1. pc[t] = "clear" => \A u \in Threads : ~PastClear(u)
        BY <1>c DEF CallInv, SoleCall, InCall, Places
      <4> QED
        BY <2>3, <4>1 DEF CallAt
    <3>4. CallAt(t)'
      BY <2>1, <2>2, <3>1, <3>3 DEF CallAt, InCall
    <3> QED
      BY <3>2, <3>4
  <2>7. StageAt(c)' /\ CallAt(c)'
    BY <2>1, <1>c DEF StageAt, CallAt, InCall
  <2>8. executions' \in Seq(AgentStatus) /\ cancel_requested' \in BOOLEAN
    BY <2>1
  <2> QED
    BY <2>4, <2>5, <2>6, <2>7, <2>8
<1>22. ASSUME NEW c \in Threads, CancelLock(c) PROVE StageInv'
  BY <1>22 DEF CancelLock, InCall, StageAt, CallAt
<1>23. ASSUME NEW c \in Threads, CancelCall(c) PROVE StageInv'
  BY <1>23 DEF CancelCall, R!Cancel, InCall, StageAt, CallAt
<1>24. CASE UNCHANGED vars
  BY <1>24 DEF vars, StageAt, CallAt, InCall
<1> QED
  BY <1>1, <1>2, <1>3, <1>4, <1>5, <1>6, <1>7, <1>8, <1>9, <1>10, <1>11, <1>12, <1>13, <1>14, <1>15,
     <1>16, <1>17, <1>18, <1>19, <1>20, <1>21, <1>22, <1>23, <1>24 DEF Next, Step

-----------------------------------------------------------------------------
(* Refinement of Workflow *)

\* What the host is shown of a stage that is over, on record or not.
DoneAt(t) ==
    /\ pc[t] \in {"check", "create", "publish", "started", "run"} => Done = executions
    /\ pc[t] \in {"unpublish", "record"} \/ (pc[t] = "judge" /\ mode = "agent") =>
          Done = Append(executions, result)
    /\ pc[t] = "between" \/ (pc[t] = "judge" /\ mode = "workflow") => Done = executions

\* It follows from where the call is.
LEMMA DoneIs == ASSUME StageInv, NEW t \in Threads PROVE DoneAt(t)
BY DEF StageInv, StageAt, Staged, RecordBefore, RecordNow, DoneAt, Done, AgentStatus

\* Whoever is about to start a stage has a record of completed ones.
LEMMA ReadyToStart ==
  ASSUME StageInv, NEW t \in Threads, pc[t] \in {"check", "create", "publish", "started"}
  PROVE  W!Unfinished /\ W!InCall
<1>1. Done = executions
  BY DoneIs DEF DoneAt
<1>2. RecordBefore /\ OutputsBefore /\ stage \in 1..4 /\ status = "none" /\ executions \in Seq(AgentStatus)
  BY DEF StageInv, StageAt, Staged
<1>3. mode # "none" /\ runtime \in {"none", "idle"}
  BY DEF StageInv, CallAt, InCall
<1>4. Len(Outputs) = 4
  BY DEF Outputs
<1>5. W!AllCompleted /\ Len(Done) < Len(Outputs)
  BY <1>1, <1>2, <1>4 DEF RecordBefore, W!AllCompleted
<1>6. Accepted = W!OutputsOf(Len(Done))
  BY <1>1, <1>2 DEF RecordBefore, OutputsBefore, W!OutputsOf
<1> QED
  BY <1>2, <1>3, <1>5, <1>6 DEF W!Unfinished, W!UpToDate, W!InCall

\* Every step of the orchestrator is one that Workflow allows, or none it sees.
LEMMA StepWorkflow == CallInv /\ StageInv /\ StageInv' /\ [Next]_vars => [W!Next]_(W!workflow)
<1> SUFFICES ASSUME CallInv, StageInv, StageInv', [Next]_vars PROVE [W!Next]_(W!workflow)
  OBVIOUS
<1> DEFINE active == runtime \notin {"none", "idle"}
           quiet == UNCHANGED <<mode, active, Done, Accepted, heard, status>>
<1>q. quiet => [W!Next]_(W!workflow)
  BY DEF W!workflow
<1>d. /\ UNCHANGED <<mode, stage, result, executions>> => Done' = Done
      /\ result = "none" => Done = executions
      /\ artifacts' = artifacts => Accepted' = Accepted
  BY DEF Done, Accepted
<1> USE <1>d DEF Goto, Finish, inside, workflow
<1>1. ASSUME NEW t \in Threads, NEW m \in {"workflow", "agent"}, Begin(t, m) PROVE W!Begin(m)
  BY <1>1 DEF Begin, StageInv, NothingDone, Done, W!Begin
<1>2. ASSUME NEW t \in Threads,
             Refused(t) \/ ClearCancel(t) \/ PublishRuntime(t) \/ CreateRuntime(t) \/ UnpublishRuntime(t)
      PROVE  quiet
  BY <1>2 DEF Refused, ClearCancel, PublishRuntime, CreateRuntime, UnpublishRuntime, StageInv, CallAt
<1>3. ASSUME NEW t \in Threads, PreflightPasses(t) PROVE quiet
  BY <1>3 DEF PreflightPasses, StageInv, CallAt, NothingDone, Done
<1>4. ASSUME NEW t \in Threads, PreflightFails(t) PROVE W!Decide("failed")
  BY <1>4 DEF PreflightFails, StageInv, CallAt, InCall, NothingDone, W!Decide, W!InCall, W!Truthful
<1>5. ASSUME NEW t \in Threads, StageCheck(t) PROVE W!Decide("cancelled") \/ quiet
  BY <1>5, ReadyToStart DEF StageCheck, StageInv, CallAt, PastClear, W!Decide, W!InCall, W!Truthful
<1>6. ASSUME NEW t \in Threads, FactoryFails(t) PROVE W!Decide("failed")
  BY <1>6, ReadyToStart DEF FactoryFails, StageInv, CallAt, W!Decide, W!InCall, W!Truthful
<1>7. ASSUME NEW t \in Threads, StageCallbackThrows(t) \/ AgentCancelledBeforeRun(t)
      PROVE  W!Forestall(result') /\ result' \in W!Endings
  <2>1. W!Unfinished /\ W!InCall /\ Done = executions /\ RecordBefore
    BY <1>7, ReadyToStart, DoneIs
       DEF StageCallbackThrows, AgentCancelledBeforeRun, DoneAt, StageInv, StageAt, Staged
  <2>2. Done' = Append(executions, result')
    BY <1>7, <2>1, DoneIs
       DEF StageCallbackThrows, AgentCancelledBeforeRun, Done, StageInv, StageAt, Staged, RecordBefore
  <2> QED
    BY <1>7, <2>1, <2>2 DEF StageCallbackThrows, AgentCancelledBeforeRun, StageInv, CallAt, PastClear,
        W!Forestall, W!Endings
<1>8. ASSUME NEW t \in Threads, CancelledBeforeRun(t) PROVE W!Decide("cancelled")
  BY <1>8, ReadyToStart
     DEF CancelledBeforeRun, StageInv, CallAt, PastClear, W!Decide, W!InCall, W!Truthful
<1>9. ASSUME NEW t \in Threads, StartRun(t) PROVE W!Start
  BY <1>9, ReadyToStart DEF StartRun, MayStart, R!Begin, StageInv, CallAt, PastClear, W!Start
<1>10. ASSUME NEW t \in Threads,
              \/ RuntimeWorks(t) \/ RuntimeMoves(t) \/ RuntimeDetaches(t)
              \/ \E v \in R!Verdicts : RuntimeEnds(t, v)
       PROVE  quiet
  BY <1>10 DEF RuntimeWorks, RuntimeMoves, RuntimeDetaches, RuntimeEnds, RuntimeStep, R!Act, R!Block,
      R!Attach, R!Acted, R!Detach, R!Refuse, R!Decide, StageInv, CallAt
<1>11. ASSUME NEW t \in Threads, RuntimeReturns(t) PROVE W!End(result') /\ result' \in W!Endings
  <2>1. /\ runtime \notin {"none", "idle"} /\ runtime' = "idle" /\ result' \in AgentStatus
        /\ UNCHANGED <<mode, stage, executions, artifacts, status, heard>>
    BY <1>11 DEF RuntimeReturns, R!Return, R!Verdicts, AgentStatus, StageInv, CallAt
  <2>2. Done = executions /\ RecordBefore
    BY <1>11, DoneIs DEF RuntimeReturns, DoneAt, StageInv, StageAt, Staged
  <2>3. Done' = Append(executions, result')
    BY <1>11, <2>1, <2>2 DEF RuntimeReturns, Done, StageInv, StageAt, Staged, RecordBefore, AgentStatus
  <2> QED
    BY <2>1, <2>2, <2>3 DEF W!End, W!Endings, AgentStatus
<1>12. ASSUME NEW t \in Threads, Record(t) \/ RecordThrows(t)
       PROVE  Done' = Done /\ runtime = "idle" /\ status = "none" /\ mode = "workflow"
  <2>1. Done = Append(executions, result) /\ executions' = Append(executions, result)
        /\ UNCHANGED <<mode, stage, result>>
    BY <1>12, DoneIs DEF Record, RecordThrows, DoneAt
  <2>2. /\ RecordBefore /\ executions \in Seq(AgentStatus) /\ result \in AgentStatus /\ stage \in 1..4
        /\ runtime = "idle" /\ status = "none" /\ mode = "workflow"
    BY <1>12 DEF Record, RecordThrows, StageInv, StageAt, CallAt, Staged, InCall
  <2> QED
    BY <2>1, <2>2 DEF Done, RecordBefore
<1>13. ASSUME NEW t \in Threads, Record(t) PROVE quiet
  BY <1>12, <1>13 DEF Record
<1>14. ASSUME NEW t \in Threads, RecordThrows(t) PROVE W!Decide("failed")
  BY <1>12, <1>14 DEF RecordThrows, W!Decide, W!InCall, W!Truthful
\* The stage that is judged is the last that is over.
<1>15. ASSUME NEW t \in Threads, pc[t] = "judge"
       PROVE  /\ W!InCall /\ W!EndedAs(result) /\ result \in W!Endings /\ heard = cancel_requested
              /\ Done = IF mode = "agent" THEN Append(executions, result) ELSE executions
  <2>1. /\ executions \in Seq(AgentStatus) /\ result \in AgentStatus /\ stage \in 1..4
        /\ IF mode = "agent" THEN RecordBefore ELSE RecordNow
        /\ mode \in {"agent", "workflow"} /\ runtime = "idle" /\ status = "none"
        /\ heard = cancel_requested
    BY <1>15 DEF StageInv, StageAt, CallAt, Staged, InCall, PastClear
  <2>2. Done = IF mode = "agent" THEN Append(executions, result) ELSE executions
    BY <1>15, <2>1, DoneIs DEF DoneAt
  <2>3. W!EndedAs(result)
    <3>1. CASE mode = "agent"
      BY <2>1, <2>2, <3>1 DEF W!EndedAs
    <3>2. CASE mode = "workflow"
      BY <2>1, <2>2, <3>2 DEF W!EndedAs, RecordNow
    <3> QED
      BY <2>1, <3>1, <3>2
  <2> QED
    BY <2>1, <2>2, <2>3 DEF W!InCall, W!Endings, AgentStatus
<1>16. ASSUME NEW t \in Threads, JudgeCancelled(t) PROVE W!Decide("cancelled")
  BY <1>15, <1>16 DEF JudgeCancelled, StageCancelled, W!Decide, W!Truthful, W!InCall
<1>17. ASSUME NEW t \in Threads, JudgeAgent(t) \/ JudgeStops(t) PROVE W!Decide(result) /\ result \in W!Endings
  BY <1>15, <1>17 DEF JudgeAgent, JudgeStops, StageCancelled, StageStops, W!Decide, W!Truthful,
      W!InCall, W!Endings
<1>18. ASSUME NEW t \in Threads, NEW tests \in BOOLEAN, JudgeCompletes(t, tests) PROVE W!Accept
  <2>1. /\ W!InCall /\ mode = "workflow" /\ ~heard /\ Done = executions
        /\ RecordNow /\ OutputsBefore /\ result = "completed" /\ stage \in 1..4
        /\ executions \in Seq(AgentStatus)
    BY <1>15, <1>18 DEF JudgeCompletes, StageCancelled, StageStops, StageInv, StageAt, Staged
  <2>2. W!AllCompleted /\ Done # <<>> /\ Len(Done) = stage
    BY <2>1 DEF RecordNow, W!AllCompleted
  <2>3. /\ Done' = Done /\ UNCHANGED <<mode, heard>> /\ runtime' \in {"none", "idle"}
        /\ status' = IF stage < 4 THEN "none" ELSE "completed"
    <3>1. HasNext <=> stage < 4
      BY DEF HasNext, LastStage, Outputs
    <3>2. runtime = "idle" /\ status = "none" /\ stage' = stage
      BY <1>18, <2>1 DEF JudgeCompletes, StageInv, CallAt, W!InCall
    <3> QED
      BY <1>18, <3>1, <3>2 DEF JudgeCompletes
  <2>4. Accepted' = {Outputs[i] : i \in 1..stage}
    BY <1>18, OutputJoins DEF OutputsNow, JudgeCompletes
  <2>5. Accepted = W!OutputsOf(Len(Done) - 1) /\ Accepted' = W!OutputsOf(Len(Done))
    BY <2>1, <2>2, <2>4 DEF OutputsBefore, W!OutputsOf
  <2>6. Len(Outputs) = 4
    BY DEF Outputs
  <2> QED
    BY <2>1, <2>2, <2>3, <2>5, <2>6 DEF W!Accept, W!InCall
<1>19. ASSUME NEW t \in Threads, Proceed(t) PROVE quiet
  <2>1. Done = executions /\ runtime = "idle"
    BY <1>19, DoneIs DEF Proceed, DoneAt, StageInv, CallAt
  <2>2. Done' = executions
    BY <1>19 DEF Proceed, Done
  <2> QED
    BY <1>19, <2>1, <2>2 DEF Proceed
<1>20. ASSUME NEW t \in Threads, NEW s \in {"failed", "cancelled", "continuation_declined"}, GiveUp(t, s)
       PROVE  W!Decide(s)
  <2>0. /\ RecordNow /\ OutputsNow /\ result = "completed" /\ stage \in 1..3
        /\ status = "none" /\ mode # "agent" /\ executions \in Seq(AgentStatus)
    BY <1>20 DEF GiveUp, StageInv, StageAt, Staged
  <2>1. /\ RecordNow /\ OutputsNow /\ result = "completed" /\ stage \in 1..3 /\ mode = "workflow"
        /\ status = "none" /\ runtime = "idle" /\ heard = cancel_requested
        /\ Done = executions /\ executions \in Seq(AgentStatus)
    BY <1>20, <2>0, DoneIs DEF GiveUp, StageInv, CallAt, InCall, PastClear, DoneAt
  <2>2. W!AllCompleted /\ Done # <<>> /\ Len(Done) = stage
    BY <2>1 DEF RecordNow, W!AllCompleted
  <2>3. Accepted = W!OutputsOf(Len(Done)) /\ Len(Outputs) = 4
    BY <2>1, <2>2 DEF OutputsNow, W!OutputsOf, Outputs
  <2>4. W!BetweenStages
    BY <2>1, <2>2, <2>3 DEF W!BetweenStages, W!Unfinished, W!UpToDate
  <2> QED
    BY <1>20, <2>1, <2>4 DEF GiveUp, W!Decide, W!InCall, W!Truthful
<1>21. ASSUME NEW t \in Threads, Return(t) PROVE W!Return
  BY <1>21 DEF Return, StageInv, CallAt, AgentStatus, Done, Accepted, W!Return
<1>22. ASSUME NEW c \in Threads, CancelStore(c) PROVE W!Hear \/ quiet
  BY <1>22 DEF CancelStore, PastClear, StageInv, CallAt, InCall, W!Hear
<1>23. ASSUME NEW c \in Threads, CancelLock(c) PROVE quiet
  BY <1>23 DEF CancelLock
<1>24. ASSUME NEW c \in Threads, CancelCall(c) PROVE quiet
  BY <1>24 DEF CancelCall, R!Cancel
<1>25. ASSUME UNCHANGED vars PROVE quiet
  BY <1>25 DEF vars
<1> HIDE DEF quiet
<1> QED
  BY <1>1, <1>2, <1>3, <1>4, <1>5, <1>6, <1>7, <1>8, <1>9, <1>10, <1>11, <1>13, <1>14, <1>16,
     <1>17, <1>18, <1>19, <1>20, <1>21, <1>22, <1>23, <1>24, <1>25, <1>q DEF Next, Step, W!Next, W!Endings

\* AgentOrchestrator implements Workflow for any number of threads: stages run
\* in order, each only after the last completed and nobody has cancelled, and the
\* host is told completed only of what did.
THEOREM WorkflowImplemented == Spec => ImplementsWorkflow
<1>1. Init => W!Init
  BY DEF Init, W!Init, Done, Accepted
<1>2. Init => StageInv
  <2>1. <<>> \in Seq(AgentStatus)
    OBVIOUS
  <2> QED
    BY <2>1 DEF Init, StageInv, NothingDone, StageAt, CallAt, InCall, Staged, PastClear
<1>3. CallInv /\ StageInv /\ [Next]_vars => StageInv'
  BY StepStage
<1>4. CallInv /\ StageInv /\ StageInv' /\ [Next]_vars => [W!Next]_(W!workflow)
  BY StepWorkflow
<1> QED
  BY <1>1, <1>2, <1>3, <1>4, CallInvariant, PTL DEF Spec, W!Spec, ImplementsWorkflow

-----------------------------------------------------------------------------
(* Types, and what a stage is given *)

\* Every step keeps every type.
LEMMA StepTypes == CallInv /\ StageInv /\ StageInv' /\ TypeOK /\ [Next]_vars => TypeOK'
<1> SUFFICES ASSUME CallInv, StageInv, StageInv', TypeOK, [Next]_vars PROVE TypeOK'
  OBVIOUS
<1>o. LastStage = 4 /\ AgentStatus \subseteq R!Verdicts \cup {"failed"}
  BY DEF LastStage, Outputs, AgentStatus, R!Verdicts
<1>e. executions' \in Seq(AgentStatus) /\ heard' \in BOOLEAN /\ cancel_requested' \in BOOLEAN
  BY DEF StageInv
<1> USE <1>o, <1>e, OrchestratorAssumption DEF OrchestratorAssumption, TypeOK, Goto, Finish, inside, workflow
<1>1. ASSUME NEW t \in Threads, NEW m \in {"workflow", "agent"}, Begin(t, m) PROVE TypeOK'
  BY <1>1 DEF Begin
<1>2. ASSUME NEW t \in Threads, Refused(t) \/ ClearCancel(t) \/ PreflightFails(t) \/ PreflightPasses(t)
      PROVE  TypeOK'
  BY <1>2 DEF Refused, ClearCancel, PreflightFails, PreflightPasses, AgentStatus
<1>3. ASSUME NEW t \in Threads, StageCheck(t) \/ FactoryFails(t) PROVE TypeOK'
  BY <1>3 DEF StageCheck, FactoryFails, AgentStatus
<1>4. ASSUME NEW t \in Threads, CreateRuntime(t) PROVE TypeOK'
  <2>1. InitialArtifacts \subseteq Artifact
    BY DEF InitialArtifacts, Artifact
  <2>2. ArtifactsForStage(stage, artifacts) \subseteq Artifact
    BY <2>1 DEF ArtifactsForStage
  <2> QED
    BY <1>4, <2>2 DEF CreateRuntime
<1>5. ASSUME NEW t \in Threads, PublishRuntime(t) \/ UnpublishRuntime(t) PROVE TypeOK'
  BY <1>5 DEF PublishRuntime, UnpublishRuntime
<1>6. ASSUME NEW t \in Threads, StageCallbackThrows(t) \/ AgentCancelledBeforeRun(t) \/ CancelledBeforeRun(t)
      PROVE  TypeOK'
  BY <1>6 DEF StageCallbackThrows, AgentCancelledBeforeRun, CancelledBeforeRun, AgentStatus
<1>7. ASSUME NEW t \in Threads, StartRun(t) PROVE TypeOK'
  BY <1>7 DEF StartRun, R!Begin
<1>8. ASSUME NEW t \in Threads,
             \/ RuntimeWorks(t) \/ RuntimeMoves(t) \/ RuntimeDetaches(t)
             \/ \E v \in R!Verdicts : RuntimeEnds(t, v)
      PROVE  TypeOK'
  <2>1. CASE RuntimeWorks(t)
    <3>1. /\ RuntimeStep(t) /\ UNCHANGED <<runtime, struck, verdict>>
          /\ acting' \in BOOLEAN /\ blocked' \in BOOLEAN
      BY <2>1 DEF RuntimeWorks, R!Act, R!Block
    <3> QED
      BY <3>1 DEF RuntimeStep
  <2>2. CASE RuntimeMoves(t)
    <3>1. /\ RuntimeStep(t) /\ UNCHANGED <<struck, blocked, verdict>>
          /\ runtime' \in {runtime, "running"} /\ acting' \in BOOLEAN
      BY <2>2 DEF RuntimeMoves, R!Attach, R!Acted
    <3> QED
      BY <3>1 DEF RuntimeStep
  <2>3. CASE RuntimeDetaches(t)
    BY <2>3 DEF RuntimeDetaches, RuntimeStep, R!Detach
  <2>4. ASSUME NEW v \in R!Verdicts, RuntimeEnds(t, v) PROVE TypeOK'
    BY <2>4 DEF RuntimeEnds, RuntimeStep, R!Refuse, R!Decide
  <2> QED
    BY <1>8, <2>1, <2>2, <2>3, <2>4
<1>9. ASSUME NEW t \in Threads, RuntimeReturns(t) PROVE TypeOK'
  BY <1>9 DEF RuntimeReturns, R!Return, R!Verdicts, AgentStatus, StageInv, CallAt
<1>10. ASSUME NEW t \in Threads, Record(t) \/ RecordThrows(t) PROVE TypeOK'
  BY <1>10 DEF Record, RecordThrows, AgentStatus
<1>11. ASSUME NEW t \in Threads, JudgeCancelled(t) \/ JudgeAgent(t) \/ JudgeStops(t) PROVE TypeOK'
  BY <1>11 DEF JudgeCancelled, JudgeAgent, JudgeStops, AgentStatus
<1>12. ASSUME NEW t \in Threads, NEW tests \in BOOLEAN, JudgeCompletes(t, tests) PROVE TypeOK'
  <2>1. stage \in 1..4
    BY <1>12 DEF JudgeCompletes, StageInv, StageAt, Staged
  <2>2. [type |-> Outputs[stage], from |-> stage] \in Artifact /\ [type |-> "test_result", from |-> stage] \in Artifact
    BY <2>1 DEF Artifact, ArtifactType, Outputs
  <2> QED
    BY <1>12, <2>2 DEF JudgeCompletes, AgentStatus
<1>13. ASSUME NEW t \in Threads, Proceed(t) PROVE TypeOK'
  BY <1>13 DEF Proceed, StageInv, StageAt, Staged
<1>14. ASSUME NEW t \in Threads, NEW s \in {"failed", "cancelled", "continuation_declined"}, GiveUp(t, s)
       PROVE  TypeOK'
  BY <1>14 DEF GiveUp, AgentStatus
<1>15. ASSUME NEW t \in Threads, Return(t) PROVE TypeOK'
  <2>1. /\ executing' = FALSE /\ mode' = "none" /\ stage' = 0 /\ runtime' = "none" /\ result' = "none"
        /\ context' = {} /\ artifacts' = {} /\ status' = "none"
        /\ pc' \in [Threads -> Places]
        /\ UNCHANGED <<active_mutex, active_runtime, struck, acting, blocked, verdict>>
    BY <1>15 DEF Return, ReleaseOrchestrator, Places
  <2>2. pc' \in [Threads -> Places] /\ stage' \in 0..LastStage /\ context' \subseteq Artifact
        /\ artifacts' \subseteq Artifact
    BY <2>1
  <2>3. executing' \in BOOLEAN /\ active_mutex' \in Threads \cup {NoThread} /\ active_runtime' \in 0..LastStage
    BY <2>1
  <2>4. /\ mode' \in {"none", "workflow", "agent"}
        /\ runtime' \in {"none", "idle", "starting", "running", "closing", "ending"}
        /\ result' \in AgentStatus \cup {"none"}
        /\ status' \in AgentStatus \cup {"none", "continuation_declined"}
    BY <2>1
  <2>5. struck' \in BOOLEAN /\ acting' \in BOOLEAN /\ blocked' \in BOOLEAN /\ verdict' \in R!Verdicts \cup {"none"}
    BY <2>1
  <2> QED
    BY <2>2, <2>3, <2>4, <2>5, <1>e DEF Places
<1>16. ASSUME NEW c \in Threads, CancelStore(c) \/ CancelLock(c) PROVE TypeOK'
  BY <1>16 DEF CancelStore, CancelLock
<1>17. ASSUME NEW c \in Threads, CancelCall(c) PROVE TypeOK'
  <2>1. /\ UNCHANGED <<executing, cancel_requested, active_runtime, mode, stage, runtime, acting, blocked,
                        verdict, result, context, executions, artifacts, status, heard>>
        /\ active_mutex' = NoThread /\ struck' \in BOOLEAN /\ pc' \in [Threads -> Places]
    BY <1>17 DEF CancelCall, R!Cancel, Places
  <2> QED
    BY <2>1 DEF Places
<1>18. CASE UNCHANGED vars
  BY <1>18 DEF vars
<1> QED
  BY <1>1, <1>2, <1>3, <1>4, <1>5, <1>6, <1>7, <1>8, <1>9, <1>10, <1>11, <1>12, <1>13, <1>14, <1>15,
     <1>16, <1>17, <1>18 DEF Next, Step

\* The invariant of the calls and the record of the one in progress.
LEMMA RecordInvariant == Spec => [](CallInv /\ StageInv)
<1>1. Init => StageInv
  <2>1. <<>> \in Seq(AgentStatus)
    OBVIOUS
  <2> QED
    BY <2>1 DEF Init, StageInv, NothingDone, StageAt, CallAt, InCall, Staged, PastClear
<1>2. CallInv /\ StageInv /\ [Next]_vars => StageInv'
  BY StepStage
<1> QED
  BY <1>1, <1>2, CallInvariant, PTL DEF Spec

\* Every variable of the orchestrator keeps its type.
THEOREM OrchestratorTypeCorrect == Spec => []TypeOK
<1>1. Init => TypeOK
  <2> SUFFICES ASSUME Init PROVE TypeOK
    OBVIOUS
  <2>1. executions \in Seq(AgentStatus)
    BY DEF Init
  <2>2. LastStage = 4
    BY DEF LastStage, Outputs
  <2>3. pc \in [Threads -> Places] /\ stage \in 0..LastStage /\ context \subseteq Artifact
        /\ artifacts \subseteq Artifact
    BY <2>2 DEF Init, Places
  <2>4. /\ executing \in BOOLEAN /\ cancel_requested \in BOOLEAN /\ heard \in BOOLEAN
        /\ active_mutex \in Threads \cup {NoThread}
    BY DEF Init
  <2>5. active_runtime \in 0..LastStage
    BY <2>2 DEF Init
  <2>6. /\ mode \in {"none", "workflow", "agent"}
        /\ runtime \in {"none", "idle", "starting", "running", "closing", "ending"}
        /\ result \in AgentStatus \cup {"none"}
        /\ status \in AgentStatus \cup {"none", "continuation_declined"}
    BY DEF Init
  <2>7. struck \in BOOLEAN /\ acting \in BOOLEAN /\ blocked \in BOOLEAN /\ verdict \in R!Verdicts \cup {"none"}
    BY DEF Init
  <2> QED
    BY <2>1, <2>3, <2>4, <2>5, <2>6, <2>7 DEF TypeOK, Places
<1> QED
  BY <1>1, StepTypes, RecordInvariant, PTL DEF Spec

\* From its creation to its return, a stage's runtime has what artifacts_for_stage()
\* selected, from the artifacts that are still the workflow's.
ContextGiven ==
    \A t \in Threads : pc[t] \in {"publish", "started", "run"} /\ mode = "workflow" =>
        context = ArtifactsForStage(stage, artifacts)

\* Every step keeps it so.
LEMMA StepContext == CallInv /\ ContextGiven /\ [Next]_vars => ContextGiven'
<1> SUFFICES ASSUME CallInv, ContextGiven, [Next]_vars PROVE ContextGiven'
  OBVIOUS
<1>c. pc \in [Threads -> Places] /\ \A t, u \in Threads : InCall(t) /\ InCall(u) => t = u
  BY DEF CallInv, SoleCall
<1>s. UNCHANGED <<stage, artifacts>> => ArtifactsForStage(stage, artifacts)' = ArtifactsForStage(stage, artifacts)
  BY DEF ArtifactsForStage, InitialArtifacts
<1> USE <1>c, <1>s DEF ContextGiven, Goto, Finish, inside, workflow, InCall
<1>1. ASSUME NEW t \in Threads, CreateRuntime(t) PROVE ContextGiven'
  BY <1>1 DEF CreateRuntime
<1>2. ASSUME NEW t \in Threads,
             PublishRuntime(t) \/ StartRun(t) \/ RuntimeWorks(t) \/ RuntimeMoves(t) \/ RuntimeDetaches(t)
               \/ \E v \in R!Verdicts : RuntimeEnds(t, v)
      PROVE  ContextGiven'
  BY <1>2 DEF PublishRuntime, StartRun, RuntimeWorks, RuntimeMoves, RuntimeDetaches, RuntimeEnds, RuntimeStep
<1>3. ASSUME NEW t \in Threads,
             \/ ClearCancel(t) \/ PreflightFails(t) \/ PreflightPasses(t) \/ StageCheck(t) \/ FactoryFails(t)
             \/ StageCallbackThrows(t) \/ CancelledBeforeRun(t) \/ AgentCancelledBeforeRun(t)
             \/ RuntimeReturns(t) \/ UnpublishRuntime(t) \/ Record(t) \/ RecordThrows(t)
             \/ JudgeCancelled(t) \/ JudgeAgent(t) \/ JudgeStops(t)
             \/ (\E tests \in BOOLEAN : JudgeCompletes(t, tests))
             \/ Proceed(t) \/ (\E s \in {"failed", "cancelled", "continuation_declined"} : GiveUp(t, s))
             \/ Return(t)
      PROVE  ContextGiven'
  <2>1. /\ pc[t] \in Places \ {"idle", "cancel", "cancel_call"}
        /\ \E where \in Places \ {"publish", "started", "run"} : pc' = [pc EXCEPT ![t] = where]
    BY <1>3 DEF Places, ClearCancel, PreflightFails, PreflightPasses, StageCheck, FactoryFails, StageCallbackThrows,
        CancelledBeforeRun, AgentCancelledBeforeRun, RuntimeReturns, UnpublishRuntime, Record,
        RecordThrows, JudgeCancelled, JudgeAgent, JudgeStops, JudgeCompletes, Proceed, GiveUp, Return
  <2>2. \A u \in Threads : pc'[u] \notin {"publish", "started", "run"}
    BY <2>1
  <2> QED
    BY <2>2
<1>4. ASSUME NEW t \in Threads,
             \/ \E m \in {"workflow", "agent"} : Begin(t, m)
             \/ Refused(t) \/ CancelStore(t) \/ CancelLock(t) \/ CancelCall(t)
      PROVE  ContextGiven'
  BY <1>4 DEF Begin, Refused, CancelStore, CancelLock, CancelCall, CallInv, SoleCall
<1>5. CASE UNCHANGED vars
  BY <1>5 DEF vars
<1> QED
  BY <1>1, <1>2, <1>3, <1>4, <1>5 DEF Next, Step

\* artifacts_for_stage() gives each stage what its predecessors produced for it:
\* planner and coder the explorer's report, coder and reviewer the plan, and the
\* coder nothing of the host's.
THEOREM ContextScoped == Spec => []ContextIsScoped
<1>1. CallInv /\ StageInv /\ ContextGiven => ContextIsScoped
  <2> SUFFICES ASSUME CallInv, StageInv, ContextGiven, runtime \in {"starting", "running"}, mode = "workflow"
               PROVE  LET types == {a.type : a \in context} IN
                      /\ stage = Planner => "exploration_report" \in types
                      /\ stage = Coder => types = {"exploration_report", "implementation_plan"}
                      /\ stage = Reviewer =>
                            types \ {"test_result"} = {"implementation_plan", "change_summary"}
                      /\ stage = Reviewer =>
                            {a \in artifacts \cup InitialArtifacts : a.type = "test_result"} \subseteq context
                      /\ stage \in {Coder, Reviewer} =>
                            \A a \in context \ artifacts : a.type = "test_result"
    BY DEF ContextIsScoped
  <2>1. PICK t \in Threads : InCall(t)
    BY DEF CallInv, SoleCall, StageInv, NothingDone
  <2>2. pc[t] = "run"
    BY <2>1 DEF CallInv, SoleCall, Places, InCall, StageInv, CallAt, NothingDone
  <2>3. context = ArtifactsForStage(stage, artifacts)
    BY <2>2 DEF ContextGiven
  <2>4. {a.type : a \in artifacts} \ {"test_result"} = {Outputs[i] : i \in 1..(stage - 1)}
    BY <2>2 DEF StageInv, StageAt, Staged, OutputsBefore, Accepted
  <2>5. CASE stage = Planner
    <3>1. "exploration_report" \in {a.type : a \in artifacts}
      BY <2>4, <2>5 DEF Planner, Outputs
    <3> QED
      BY <2>3, <2>5, <3>1 DEF Planner, Coder, Reviewer, Explorer, ArtifactsForStage, Wants
  <2>6. CASE stage = Coder
    <3>1. {"exploration_report", "implementation_plan"} \subseteq {a.type : a \in artifacts}
      BY <2>4, <2>6 DEF Coder, Outputs
    <3>2. context = {a \in artifacts : a.type \in {"exploration_report", "implementation_plan"}}
      BY <2>3, <2>6 DEF Planner, Coder, Reviewer, Explorer, ArtifactsForStage, Wants
    <3> QED
      BY <2>6, <3>1, <3>2 DEF Planner, Coder, Reviewer
  <2>7. CASE stage = Reviewer
    <3>1. {"implementation_plan", "change_summary"} \subseteq {a.type : a \in artifacts}
      BY <2>4, <2>7 DEF Reviewer, Outputs
    <3>2. context = {a \in artifacts : a.type \in {"implementation_plan", "change_summary", "test_result"}}
                      \cup {a \in InitialArtifacts : a.type = "test_result"}
      BY <2>3, <2>7 DEF Planner, Coder, Reviewer, Explorer, ArtifactsForStage, Wants
    <3> QED
      BY <2>7, <3>1, <3>2 DEF Planner, Coder, Reviewer
  <2> QED
    BY <2>5, <2>6, <2>7
<1>2. Init => ContextGiven
  BY DEF Init, ContextGiven
<1>3. CallInv /\ ContextGiven /\ [Next]_vars => ContextGiven'
  BY StepContext
<1> QED
  BY <1>1, <1>2, <1>3, RecordInvariant, PTL DEF Spec
================================================================================
