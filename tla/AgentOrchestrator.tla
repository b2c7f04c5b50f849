-------------------------- MODULE AgentOrchestrator --------------------------
(***************************************************************************)
(* arn::core::AgentOrchestrator: the fixed explorer, planner, coder,       *)
(* reviewer workflow (execute) and the single-agent run (execute_agent),   *)
(* each stage on a runtime of its own, with cancellation from any thread.  *)
(*                                                                         *)
(* A runtime is seen through IAgentRuntime: R!... are the steps of its     *)
(* contract, which AgentRuntime implements.  The orchestrator as a whole   *)
(* implements Workflow.  An artifact is its type and the stage it is from; *)
(* their order, by which nothing is decided, is left out.                  *)
(***************************************************************************)
EXTENDS Naturals, Sequences

CONSTANTS
    Threads, NoThread,
    Initial     \* the types of the task's initial artifacts

ArtifactType == {"user_request", "exploration_report", "implementation_plan", "change_summary",
                 "test_result", "error_report", "review_report", "generic"}

ASSUME OrchestratorAssumption ==
    /\ NoThread \notin Threads
    /\ Initial \subseteq ArtifactType

VARIABLES
    executing,          \* executing_
    cancel_requested,   \* cancel_requested_
    active_mutex,       \* the thread holding active_mutex_, or NoThread
    active_runtime,     \* active_runtime_: the stage whose runtime it is, or 0
    pc,                 \* where each thread is
    mode,               \* execute() or execute_agent()
    stage,              \* index of the current stage, from 1
    runtime,            \* the current stage's runtime object: how far it is, or "none"
    struck, acting, blocked, verdict,   \* the rest of that runtime's contract
    result,             \* the current stage's AgentResult::status
    context,            \* context.artifacts of the current stage
    executions,         \* workflow.executions, as statuses
    artifacts,          \* workflow.artifacts
    status,             \* what the call is about to return
    heard               \* history: cancelled since the call cleared the flag

inside == <<struck, acting, blocked, verdict>>
workflow == <<mode, stage, runtime, struck, acting, blocked, verdict, result, context,
              executions, artifacts, status, heard>>
vars == <<executing, cancel_requested, active_mutex, active_runtime, pc, mode, stage,
          runtime, struck, acting, blocked, verdict, result, context, executions, artifacts,
          status, heard>>

R == INSTANCE RuntimeContract WITH phase <- runtime

\* kStages: what each stage adds to the workflow.
Outputs == <<"exploration_report", "implementation_plan", "change_summary", "review_report">>
Explorer == 1
Planner == 2
Coder == 3
Reviewer == 4
LastStage == Len(Outputs)

AgentStatus == {"completed", "failed", "cancelled", "needs_input", "needs_confirmation"}
Artifact == [type : ArtifactType, from : 0..LastStage]

\* Every variable of the orchestrator has its type.
TypeOK ==
    /\ executing \in BOOLEAN
    /\ cancel_requested \in BOOLEAN
    /\ active_mutex \in Threads \cup {NoThread}
    /\ active_runtime \in 0..LastStage
    /\ pc \in [Threads -> {"idle", "clear", "preflight", "check", "create", "publish", "started",
                           "run", "unpublish", "record", "judge", "between", "return",
                           "cancel", "cancel_call"}]
    /\ mode \in {"none", "workflow", "agent"}
    /\ stage \in 0..LastStage
    /\ runtime \in {"none", "idle", "starting", "running", "closing", "ending"}
    /\ struck \in BOOLEAN /\ acting \in BOOLEAN /\ blocked \in BOOLEAN
    /\ verdict \in R!Verdicts \cup {"none"}
    /\ result \in AgentStatus \cup {"none"}
    /\ context \subseteq Artifact
    /\ executions \in Seq(AgentStatus)
    /\ artifacts \subseteq Artifact
    /\ status \in AgentStatus \cup {"none", "continuation_declined"}
    /\ heard \in BOOLEAN

Init ==
    /\ executing = FALSE
    /\ cancel_requested = FALSE
    /\ active_mutex = NoThread
    /\ active_runtime = 0
    /\ pc = [t \in Threads |-> "idle"]
    /\ mode = "none"
    /\ stage = 0
    /\ runtime = "none"
    /\ struck = FALSE /\ acting = FALSE /\ blocked = FALSE
    /\ verdict = "none"
    /\ result = "none"
    /\ context = {}
    /\ executions = <<>>
    /\ artifacts = {}
    /\ status = "none"
    /\ heard = FALSE

Goto(t, where) == pc' = [pc EXCEPT ![t] = where]

\* Return from the call with status s; the stage's runtime dies on the way.
Finish(t, s) ==
    /\ status' = s
    /\ runtime' = "none"
    /\ Goto(t, "return")

-----------------------------------------------------------------------------
(* artifacts_for_stage() *)

InitialArtifacts == {[type |-> type, from |-> 0] : type \in Initial}

\* The types of produced artifacts a stage is given.
WantsLessForCoder(k) ==
    CASE k = Explorer -> {}
      [] k = Planner -> {"exploration_report"}
      [] k = Coder -> {"exploration_report"}
      [] k = Reviewer -> {"implementation_plan", "change_summary", "test_result"}
Wants(k) ==
    CASE k = Explorer -> {}
      [] k = Planner -> {"exploration_report"}
      [] k = Coder -> {"exploration_report", "implementation_plan"}
      [] k = Reviewer -> {"implementation_plan", "change_summary", "test_result"}

ArtifactsForStage(k, produced) ==
    (IF k \in {Explorer, Planner} THEN InitialArtifacts ELSE {})
      \cup {a \in produced : a.type \in Wants(k)}
      \cup (IF k = Reviewer THEN {a \in InitialArtifacts : a.type = "test_result"} ELSE {})

-----------------------------------------------------------------------------
(* execute() and execute_agent() *)

\* The exchange on executing_ finds it clear.
Begin(t, m) ==
    /\ pc[t] = "idle"
    /\ ~executing
    /\ executing' = TRUE
    /\ mode' = m
    /\ Goto(t, "clear")
    /\ UNCHANGED <<cancel_requested, active_mutex, active_runtime, stage, runtime, inside,
                   result, context, executions, artifacts, status, heard>>

\* The exchange finds executing_ set: orchestrator_busy, and nothing of the
\* call in progress is touched.
BusyClears == FALSE
FlagOfRefused == cancel_requested

Refused(t) ==
    /\ pc[t] = "idle"
    /\ executing
    /\ cancel_requested' = FlagOfRefused
    /\ UNCHANGED <<executing, active_mutex, active_runtime, pc, workflow>>

\* cancel_requested_.store(false), a separate atomic step.
ClearCancel(t) ==
    /\ pc[t] = "clear"
    /\ cancel_requested' = FALSE
    /\ Goto(t, "preflight")
    /\ UNCHANGED <<executing, active_mutex, active_runtime, workflow>>

\* An invalid task, no factory, too small a run budget or a missing profile.
PreflightFails(t) ==
    /\ pc[t] = "preflight"
    /\ Finish(t, "failed")
    /\ UNCHANGED <<executing, cancel_requested, active_mutex, active_runtime, mode, stage,
                   inside, result, context, executions, artifacts, heard>>

PreflightPasses(t) ==
    /\ pc[t] = "preflight"
    /\ stage' = 1
    /\ Goto(t, IF mode = "workflow" THEN "check" ELSE "create")
    /\ UNCHANGED <<executing, cancel_requested, active_mutex, active_runtime, mode, runtime,
                   inside, result, context, executions, artifacts, status, heard>>

\* The check at the top of the stage loop.
StageCheck(t) ==
    /\ pc[t] = "check"
    /\ IF cancel_requested THEN Finish(t, "cancelled")
       ELSE Goto(t, "create") /\ UNCHANGED <<runtime, status>>
    /\ UNCHANGED <<executing, cancel_requested, active_mutex, active_runtime, mode, stage,
                   inside, result, context, executions, artifacts, heard>>

\* The factory throws or returns no runtime.
FactoryFails(t) ==
    /\ pc[t] = "create"
    /\ Finish(t, "failed")
    /\ UNCHANGED <<executing, cancel_requested, active_mutex, active_runtime, mode, stage,
                   inside, result, context, executions, artifacts, heard>>

\* A fresh runtime and a fresh context.
CreateRuntime(t) ==
    /\ pc[t] = "create"
    /\ runtime' = "idle"
    /\ context' = IF mode = "workflow" THEN ArtifactsForStage(stage, artifacts) ELSE {}
    /\ Goto(t, "publish")
    /\ UNCHANGED <<executing, cancel_requested, active_mutex, active_runtime, mode, stage,
                   inside, result, executions, artifacts, status, heard>>

PublishRuntime(t) ==
    /\ pc[t] = "publish"
    /\ active_mutex = NoThread
    /\ active_runtime' = stage
    /\ Goto(t, "started")
    /\ UNCHANGED <<executing, cancel_requested, active_mutex, workflow>>

\* on_stage_started throws: the stage counts as failed.
StageCallbackThrows(t) ==
    /\ pc[t] = "started"
    /\ mode = "workflow"
    /\ result' = "failed"
    /\ Goto(t, "unpublish")
    /\ UNCHANGED <<executing, cancel_requested, active_mutex, active_runtime, mode, stage,
                   runtime, inside, context, executions, artifacts, status, heard>>

\* The check after on_stage_started: detach the runtime and give up.
CancelledBeforeRun(t) ==
    /\ pc[t] = "started"
    /\ mode = "workflow"
    /\ cancel_requested
    /\ active_mutex = NoThread
    /\ active_runtime' = 0
    /\ Finish(t, "cancelled")
    /\ UNCHANGED <<executing, cancel_requested, active_mutex, mode, stage, inside, result,
                   context, executions, artifacts, heard>>

\* The same check in execute_agent(), which goes on to detach the runtime.
AgentCancelledBeforeRun(t) ==
    /\ pc[t] = "started"
    /\ mode = "agent"
    /\ cancel_requested
    /\ result' = "cancelled"
    /\ Goto(t, "unpublish")
    /\ UNCHANGED <<executing, cancel_requested, active_mutex, active_runtime, mode, stage,
                   runtime, inside, context, executions, artifacts, status, heard>>

MayStart == ~cancel_requested

\* Inside runtime->execute().
RuntimeStep(t) ==
    /\ pc[t] = "run"
    /\ UNCHANGED <<executing, cancel_requested, active_mutex, active_runtime, pc, mode, stage,
                   result, context, executions, artifacts, status, heard>>

StartRun(t) ==
    /\ pc[t] = "started"
    /\ MayStart
    /\ R!Begin
    /\ Goto(t, "run")
    /\ UNCHANGED <<executing, cancel_requested, active_mutex, active_runtime, mode, stage,
                   result, context, executions, artifacts, status, heard>>

\* Its tools run, and some are refused.
RuntimeWorks(t) ==
    /\ R!Act \/ R!Block
    /\ RuntimeStep(t)

RuntimeMoves(t) ==
    /\ R!Attach \/ R!Acted
    /\ RuntimeStep(t)

RuntimeDetaches(t) ==
    /\ R!Detach
    /\ RuntimeStep(t)

RuntimeEnds(t, v) ==
    /\ R!Refuse(v) \/ R!Decide(v)
    /\ RuntimeStep(t)

\* AgentResult::status; an exception is a failure like any other.
RuntimeReturns(t) ==
    /\ pc[t] = "run"
    /\ R!Return
    /\ result' = IF verdict = "threw" THEN "failed" ELSE verdict
    /\ Goto(t, "unpublish")
    /\ UNCHANGED <<executing, cancel_requested, active_mutex, active_runtime, mode, stage,
                   context, executions, artifacts, status, heard>>

UnpublishAtOnce(t) == TRUE
MayUnpublish(t) == active_mutex = NoThread

UnpublishRuntime(t) ==
    /\ pc[t] = "unpublish"
    /\ MayUnpublish(t)
    /\ active_runtime' = 0
    /\ Goto(t, IF mode = "workflow" THEN "record" ELSE "judge")
    /\ UNCHANGED <<executing, cancel_requested, active_mutex, workflow>>

\* Keep the record of the stage and call on_stage_finished.
Record(t) ==
    /\ pc[t] = "record"
    /\ executions' = Append(executions, result)
    /\ Goto(t, "judge")
    /\ UNCHANGED <<executing, cancel_requested, active_mutex, active_runtime, mode, stage,
                   runtime, inside, result, context, artifacts, status, heard>>

RecordThrows(t) ==
    /\ pc[t] = "record"
    /\ executions' = Append(executions, result)
    /\ Finish(t, "failed")
    /\ UNCHANGED <<executing, cancel_requested, active_mutex, active_runtime, mode, stage,
                   inside, result, context, artifacts, heard>>

\* Cancelled, by request or by the stage's own account.
StageCancelled == cancel_requested \/ result = "cancelled"

JudgeCancelled(t) ==
    /\ pc[t] = "judge"
    /\ StageCancelled
    /\ Finish(t, "cancelled")
    /\ UNCHANGED <<executing, cancel_requested, active_mutex, active_runtime, mode, stage,
                   inside, result, context, executions, artifacts, heard>>

\* execute_agent() returns what the run returned.
JudgeAgent(t) ==
    /\ pc[t] = "judge"
    /\ mode = "agent"
    /\ ~StageCancelled
    /\ Finish(t, result)
    /\ UNCHANGED <<executing, cancel_requested, active_mutex, active_runtime, mode, stage,
                   inside, result, context, executions, artifacts, heard>>

\* A stage that did not complete ends the workflow with its own status.
StageStops == result # "completed"

JudgeStops(t) ==
    /\ pc[t] = "judge"
    /\ mode = "workflow"
    /\ ~StageCancelled
    /\ StageStops
    /\ Finish(t, result)
    /\ UNCHANGED <<executing, cancel_requested, active_mutex, active_runtime, mode, stage,
                   inside, result, context, executions, artifacts, heard>>

\* index + 1 < kStages.size()
HasNextOffByOne == stage <= LastStage
HasNext == stage < LastStage

\* The stage's output, and the test results it brought along, join the workflow.
JudgeCompletes(t, tests) ==
    /\ pc[t] = "judge"
    /\ mode = "workflow"
    /\ ~StageCancelled
    /\ ~StageStops
    /\ artifacts' = artifacts
          \cup {[type |-> Outputs[stage], from |-> stage]}
          \cup (IF tests THEN {[type |-> "test_result", from |-> stage]} ELSE {})
    /\ IF HasNext
       THEN Goto(t, "between") /\ UNCHANGED <<status, runtime>>
       ELSE Finish(t, "completed")
    /\ UNCHANGED <<executing, cancel_requested, active_mutex, active_runtime, mode, stage,
                   inside, result, context, executions, heard>>

\* before_next_stage, or no such callback; then the locals of the stage are gone.
Proceed(t) ==
    /\ pc[t] = "between"
    /\ stage' = stage + 1
    /\ runtime' = "none"
    /\ result' = "none"
    /\ context' = {}
    /\ Goto(t, "check")
    /\ UNCHANGED <<executing, cancel_requested, active_mutex, active_runtime, mode, inside,
                   executions, artifacts, status, heard>>

\* The callback throws, cancels, sees the cancellation, or declines to go on.
GiveUp(t, s) ==
    /\ pc[t] = "between"
    /\ s = "continuation_declined" => ~cancel_requested
    /\ Finish(t, s)
    /\ UNCHANGED <<executing, cancel_requested, active_mutex, active_runtime, mode, stage,
                   inside, result, context, executions, artifacts, heard>>

\* ~ExecutionGuard, after the result has been handed over.
StayBusy == executing' = executing
ReleaseOrchestrator == executing' = FALSE

Return(t) ==
    /\ pc[t] = "return"
    /\ ReleaseOrchestrator
    /\ mode' = "none" /\ stage' = 0 /\ runtime' = "none" /\ result' = "none"
    /\ context' = {} /\ executions' = <<>> /\ artifacts' = {} /\ status' = "none"
    /\ heard' = FALSE
    /\ Goto(t, "idle")
    /\ UNCHANGED <<cancel_requested, active_mutex, active_runtime, inside>>

-----------------------------------------------------------------------------
(* cancel_active_execution() and cancel_active_workflow() *)

\* t is in a call that has cleared cancel_requested_.
PastClear(t) == pc[t] \notin {"idle", "clear", "cancel", "cancel_call"}

CancelStore(c) ==
    /\ pc[c] = "idle"
    /\ cancel_requested' = TRUE
    /\ heard' = (heard \/ \E t \in Threads : PastClear(t))
    /\ Goto(c, "cancel")
    /\ UNCHANGED <<executing, active_mutex, active_runtime, mode, stage, runtime, inside,
                   result, context, executions, artifacts, status>>

\* Nothing is active, or lock active_mutex_ and call the active runtime.
CancelLock(c) ==
    /\ pc[c] = "cancel"
    /\ active_mutex = NoThread
    /\ active_mutex' = IF active_runtime = 0 THEN NoThread ELSE c
    /\ Goto(c, IF active_runtime = 0 THEN "idle" ELSE "cancel_call")
    /\ UNCHANGED <<executing, cancel_requested, active_runtime, workflow>>

CancelCall(c) ==
    /\ pc[c] = "cancel_call"
    /\ active_mutex' = NoThread
    /\ IF runtime = "running" THEN R!Cancel ELSE UNCHANGED <<runtime, inside>>
    /\ Goto(c, "idle")
    /\ UNCHANGED <<executing, cancel_requested, active_runtime, mode, stage, result,
                   context, executions, artifacts, status, heard>>

-----------------------------------------------------------------------------
\* What a thread inside a call does next.
Step(t) ==
    \/ ClearCancel(t) \/ PreflightFails(t) \/ PreflightPasses(t) \/ StageCheck(t)
    \/ FactoryFails(t) \/ CreateRuntime(t) \/ PublishRuntime(t)
    \/ StageCallbackThrows(t) \/ CancelledBeforeRun(t) \/ AgentCancelledBeforeRun(t) \/ StartRun(t)
    \/ RuntimeMoves(t) \/ RuntimeDetaches(t) \/ (\E v \in R!Verdicts : RuntimeEnds(t, v)) \/ RuntimeReturns(t)
    \/ UnpublishRuntime(t) \/ Record(t) \/ RecordThrows(t)
    \/ JudgeCancelled(t) \/ JudgeAgent(t) \/ JudgeStops(t)
    \/ (\E tests \in BOOLEAN : JudgeCompletes(t, tests))
    \/ Proceed(t) \/ (\E s \in {"failed", "cancelled", "continuation_declined"} : GiveUp(t, s))
    \/ Return(t)
    \/ CancelLock(t) \/ CancelCall(t)

Next ==
    \E t \in Threads :
        \/ \E m \in {"workflow", "agent"} : Begin(t, m)
        \/ Refused(t)
        \/ Step(t)
        \/ RuntimeWorks(t)
        \/ CancelStore(t)

Spec == Init /\ [][Next]_vars

\* Threads are scheduled, runtimes (whose tools return and whose budget ends)
\* and callbacks return, and a thread that keeps finding active_mutex_ free
\* gets it.
FairSpec == Spec /\ \A t \in Threads : SF_vars(Step(t)) /\ SF_vars(RuntimeDetaches(t))

-----------------------------------------------------------------------------
(* Properties *)

\* How the stages that are over ended; the last one may not be on record yet.
Done ==
    IF result # "none" /\ (mode = "agent" \/ Len(executions) < stage)
    THEN Append(executions, result) ELSE executions

Accepted == {a.type : a \in artifacts} \ {"test_result"}

W == INSTANCE Workflow WITH
        call <- mode, active <- runtime \notin {"none", "idle"},
        done <- Done, accepted <- Accepted

\* The orchestrator implements Workflow: whatever factories, runtimes and
\* callbacks do and whoever cancels or calls meanwhile, stages run in order, none
\* starts after a stage that did not complete or once the host has cancelled
\* (not even when an overlapping call is refused), and a cancelled call is never
\* told completed, even if its runtime missed the cancellation.
ImplementsWorkflow == W!Spec

\* Each stage is given what its predecessors produced for it, and the coder
\* and the reviewer nothing of the initial artifacts but test results.
ContextIsScoped ==
    runtime \in {"starting", "running"} /\ mode = "workflow" =>
        LET types == {a.type : a \in context} IN
        /\ stage = Planner => "exploration_report" \in types
        /\ stage = Coder => types = {"exploration_report", "implementation_plan"}
        /\ stage = Reviewer => types \ {"test_result"} = {"implementation_plan", "change_summary"}
        /\ stage = Reviewer =>
              {a \in artifacts \cup InitialArtifacts : a.type = "test_result"} \subseteq context
        /\ stage \in {Coder, Reviewer} =>
              \A a \in context \ artifacts : a.type = "test_result"

\* active_mutex_ keeps the runtime alive while cancel_active_request() is
\* called on it.
RuntimeOutlivesCancel ==
    \A c \in Threads : pc[c] = "cancel_call" => active_runtime = stage /\ runtime # "none"

\* Every call returns, and leaves the orchestrator free for the next one.
CallsReturn ==
    /\ \A t \in Threads : pc[t] \in {"clear", "cancel"} ~> pc[t] = "idle"
    /\ executing ~> ~executing
=============================================================================
