---------------------------- MODULE AgentRuntime ----------------------------
(***************************************************************************)
(* arn::core::AgentRuntime: one agent run at a time over a private         *)
(* AgentSession, with permission-filtered tools and cancellation from any  *)
(* thread or callback.                                                     *)
(*                                                                         *)
(* The module composes AgentSession: S!... are that module's actions, and  *)
(* the session's variables are declared here again.  A run builds a fresh  *)
(* session; before it is registered and after it is detached no other      *)
(* thread can reach it, so those stretches are single steps.               *)
(*                                                                         *)
(* A run is shown to keep the promise its callers rely on (RuntimeContract *)
(* below); the profiles the library ships are those of StandardAgents.     *)
(***************************************************************************)
EXTENDS Naturals, Sequences, StandardAgents

CONSTANTS
    Threads, Tools, MaxCalls, NoThread, NoTask,
    Provider,       \* the runtime's provider object
    NoProvider,
    OpsOf,          \* AgentToolBinding::operations of each tool
    SelfAsking,     \* tools whose own requires_confirmation() is true
    Tasks,          \* the task and profile pairs execute() may be given
    ProfileSteps,   \* profile.max_steps
    TaskSteps,      \* task.constraints.max_steps, or ProfileSteps if unset
    ProviderPolls   \* the provider tests the cancel flag before any callback

\* A context: whether the preflight accepts it, the profile, the read_only
\* constraint, and who confirms ("none" is a missing handler).
IsTask(k) ==
    /\ k.valid \in BOOLEAN /\ k.read_only \in BOOLEAN /\ k.handler \in {"none", "human"}
    /\ DOMAIN k.profile.permissions \subseteq OperationClass
    /\ \A op \in DOMAIN k.profile.permissions : k.profile.permissions[op] \in PermissionDecision

ASSUME RuntimeAssumption ==
    /\ OpsOf \in [Tools -> SUBSET OperationClass]
    /\ SelfAsking \subseteq Tools
    /\ \A k \in Tasks : IsTask(k)
    /\ ProfileSteps \in Nat \ {0}
    /\ TaskSteps \in Nat \ {0}
    /\ ProviderPolls \in BOOLEAN
    /\ MaxCalls \in Nat
    /\ NoThread \notin Threads
    /\ NoTask \notin Tasks
    /\ Provider # NoProvider

VARIABLES
    mutex, provider, owned, destroyed, active, settings, history, pc, raised,
    target, calls, responses, round, result, requests, late, stopped

svars == <<mutex, provider, owned, destroyed, active, settings, history, pc,
           raised, target, calls, responses, round, result, requests, late, stopped>>

VARIABLES
    executing,      \* Impl::executing
    active_mutex,   \* the thread holding Impl::active_mutex, or NoThread
    attached,       \* Impl::active and active_cancel: the running thread, or NoThread
    cancelled,      \* execute(): cancelled, the run's cancel flag
    permission,     \* execute(): PermissionOutcome, as the set of raised marks
    task,           \* execute(): context, or NoTask
    rpc,            \* where each thread is in the runtime
    stage,          \* where the running PermissionTool is
    granted,        \* history: the host approved the tool call in progress
    muted,          \* the first request began with the flag already set
    report,         \* what prompt() returned to execute()
    outcome         \* what execute() is about to return

rvars == <<executing, active_mutex, attached, cancelled, permission, task,
           rpc, stage, granted, muted, report, outcome>>
runLocals == <<cancelled, permission, task, stage, granted, muted, report, outcome>>
vars == <<svars, rvars>>

\* min(profile.max_steps, task max_steps)
StepsOfProfile == ProfileSteps
StepsOfTask == TaskSteps
Steps == IF TaskSteps < ProfileSteps THEN TaskSteps ELSE ProfileSteps

S == INSTANCE AgentSession WITH
        Providers <- {Provider}, Shared <- {Provider}, MaxRounds <- Steps - 1

Outcomes == {"none", "rejected", "exception", "cancelled", "session_failed",
             "confirmation_required", "permission_denied", "completed"}

\* Every variable of the runtime, and of its session, has its type.
TypeOK ==
    /\ S!TypeOK
    /\ executing \in BOOLEAN
    /\ active_mutex \in Threads \cup {NoThread}
    /\ attached \in Threads \cup {NoThread}
    /\ cancelled \in BOOLEAN
    /\ permission \in SUBSET {"needs_confirmation", "declined"}
    /\ task \in Tasks \cup {NoTask}
    /\ rpc \in [Threads -> {"idle", "prepare", "register", "prompt", "callback", "detach",
                            "reset", "report", "return", "stop_load", "stop_wait"}]
    /\ stage \in {"none", "called", "asking", "cleared", "running", "skipped"}
    /\ granted \in BOOLEAN
    /\ muted \in BOOLEAN
    /\ report \in S!Results
    /\ outcome \in Outcomes

Init ==
    /\ S!Init
    /\ executing = FALSE
    /\ active_mutex = NoThread
    /\ attached = NoThread
    /\ cancelled = FALSE
    /\ permission = {}
    /\ task = NoTask
    /\ rpc = [t \in Threads |-> "idle"]
    /\ stage = "none"
    /\ granted = FALSE
    /\ muted = FALSE
    /\ report = "none"
    /\ outcome = "none"

Goto(t, where) == rpc' = [rpc EXCEPT ![t] = where]

-----------------------------------------------------------------------------
(* Permissions *)

Decision(k, op) == decision_for(k.profile.permissions, op)
Rejects(k, op) == Decision(k, op) = "deny" \/ (k.read_only /\ op # "read_file")

\* A tool is left out of the registry if it is not on the allow-list, has no
\* declared operation, or one of its operations is denied or, in a read-only
\* task, is not a read.
DeniedIfAllDenied(k, tool) ==
    \/ tool \notin k.profile.allowed_tools
    \/ \A op \in OpsOf[tool] : Rejects(k, op)
Denied(k, tool) ==
    \/ tool \notin k.profile.allowed_tools
    \/ OpsOf[tool] = {}
    \/ \E op \in OpsOf[tool] : Rejects(k, op)

Exposed(k) == {tool \in Tools : ~Denied(k, tool)}

\* PermissionTool::requires_confirmation()
Asks(k, tool) ==
    \/ \E op \in OpsOf[tool] : Decision(k, op) = "ask_user"
    \/ tool \in SelfAsking

-----------------------------------------------------------------------------
(* execute(), up to the prompt *)

\* The exchange on executing; a second execute() returns runtime_busy at once.
Execute(t, k) ==
    /\ rpc[t] = "idle"
    /\ ~executing
    /\ executing' = TRUE
    /\ task' = k
    /\ Goto(t, "prepare")
    /\ UNCHANGED <<svars, active_mutex, attached, cancelled, permission, stage, muted,
                   report, outcome, granted>>

\* Preflight: an invalid task, profile, budget, environment or tool set, or a
\* model without the needed capabilities.
Reject(t) ==
    /\ rpc[t] = "prepare"
    /\ ~task.valid
    /\ outcome' = "rejected"
    /\ Goto(t, "return")
    /\ UNCHANGED <<svars, executing, active_mutex, attached, cancelled, permission, task,
                   stage, muted, report, granted>>

\* Build the session and give it provider, model and the exposed tools.
BuildSession ==
    /\ provider' = Provider
    /\ settings' = [key |-> "set", model |-> "set", tools |-> Exposed(task), options |-> "set"]
    /\ UNCHANGED <<mutex, owned, destroyed, active, pc, raised, target, calls, responses,
                   round, result, requests, late, stopped>>

\* session.reset_session() before the run: the last run's history is dropped.
KeepHistory == UNCHANGED history
DropHistory == history' = history \ {Provider}

Prepare(t) ==
    /\ rpc[t] = "prepare"
    /\ task.valid
    /\ BuildSession
    /\ DropHistory
    /\ Goto(t, "register")
    /\ UNCHANGED <<executing, active_mutex, attached, runLocals>>

\* The provider throws while it is reset; nothing was registered yet.
PrepareThrows(t) ==
    /\ rpc[t] = "prepare"
    /\ task.valid
    /\ BuildSession
    /\ outcome' = "exception"
    /\ Goto(t, "return")
    /\ UNCHANGED <<history, executing, active_mutex, attached, cancelled, permission, task,
                   stage, muted, report, granted>>

\* Publish session and flag to cancel_active_request() under active_mutex.
Register(t) ==
    /\ rpc[t] = "register"
    /\ active_mutex = NoThread
    /\ attached' = t
    /\ Goto(t, "prompt")
    /\ UNCHANGED <<svars, executing, active_mutex, runLocals>>

-----------------------------------------------------------------------------
(* session.prompt(), on the thread of execute() *)

Running(t) == rpc[t] = "prompt"

EnterPrompt(t) ==
    /\ Running(t)
    /\ report = "none"
    /\ S!PromptEnter(t, cancelled)
    /\ UNCHANGED rvars

\* A built-in provider that finds the flag set makes no request, no callback.
NeverMuted(t) == FALSE
Muted(t) == ProviderPolls /\ t \in raised

FirstRequest(t) ==
    /\ Running(t)
    /\ S!PromptPublish(t)
    /\ muted' = Muted(t)
    /\ UNCHANGED <<executing, active_mutex, attached, cancelled, permission, task, rpc,
                   stage, report, outcome, granted>>

\* The parts of the turn loop that the runtime does not add to.
TurnLoop(t) ==
    /\ Running(t)
    /\ \/ S!TurnCancelled(t)
       \/ \E r \in {"failed", "cancelled"} : S!TurnFailed(t, r)
       \/ S!TurnFinal(t)
       \/ S!TurnTooMany(t)
       \/ \E turn \in S!Calls : S!TurnTools(t, turn)
       \/ S!ToolsCancelled(t)
       \/ S!ContinueTurn(t)
       \/ S!PromptUnpublish(t)
    /\ UNCHANGED rvars

LeavePrompt(t) ==
    /\ Running(t)
    /\ S!PromptUnlock(t)
    /\ report' = result[t]
    /\ Goto(t, "detach")
    /\ UNCHANGED <<executing, active_mutex, attached, cancelled, permission, task, stage,
                   muted, outcome, granted>>

\* The provider, a tool, a callback or the confirmation handler throws.
PromptThrows(t) ==
    /\ Running(t)
    /\ S!Unwind(t)
    /\ stage' = "none"
    /\ UNCHANGED <<executing, active_mutex, attached, cancelled, permission, task, rpc,
                   muted, report, outcome, granted>>

-----------------------------------------------------------------------------
(* PermissionTool::execute(), between the session's ToolStart and ToolDone *)

Stage(t, from, to) ==
    /\ Running(t)
    /\ pc[t] = "tool"
    /\ stage \in from
    /\ stage' = to
    /\ UNCHANGED <<svars, executing, active_mutex, attached, cancelled, task, rpc, muted,
                   report, outcome>>

Current(t) == S!CallInTurn(t)

StartTool(t) ==
    /\ Running(t)
    /\ S!ToolStart(t)
    /\ stage' = "called"
    /\ granted' = FALSE
    /\ UNCHANGED <<executing, active_mutex, attached, cancelled, permission, task, rpc,
                   muted, report, outcome>>

\* The registry does not know the tool, or the flag is set: a failure result.
SkipTool(t) ==
    /\ Stage(t, {"called"}, "skipped")
    /\ Current(t) \notin settings.tools \/ cancelled
    /\ UNCHANGED <<permission, granted>>

AskForTool(t) ==
    /\ Stage(t, {"called"}, "asking")
    /\ Current(t) \in settings.tools /\ ~cancelled
    /\ Asks(task, Current(t))
    /\ UNCHANGED <<permission, granted>>

NoNeedToAsk(t) ==
    /\ Stage(t, {"called"}, "cleared")
    /\ Current(t) \in settings.tools /\ ~cancelled
    /\ ~Asks(task, Current(t))
    /\ UNCHANGED <<permission, granted>>

\* The session's confirmation handler, installed by execute().
Unattended(t) ==
    /\ Stage(t, {"asking"}, "skipped")
    /\ task.handler = "none"
    /\ permission' = permission \cup {"needs_confirmation"}
    /\ UNCHANGED granted

Approve(t) ==
    /\ Stage(t, {"asking"}, "cleared")
    /\ task.handler = "human"
    /\ granted' = TRUE
    /\ UNCHANGED permission

Decline(t) ==
    /\ Stage(t, {"asking"}, "skipped")
    /\ task.handler = "human"
    /\ permission' = permission \cup {"declined"}
    /\ UNCHANGED granted

\* The second cancel check, then the tool itself.
StillWanted == ~cancelled

RunTool(t) ==
    /\ Stage(t, {"cleared"}, "running")
    /\ StillWanted
    /\ UNCHANGED <<permission, granted>>

CancelledMeanwhile(t) ==
    /\ Stage(t, {"cleared"}, "skipped")
    /\ cancelled
    /\ UNCHANGED <<permission, granted>>

\* The tool may ask again, for something more specific; "no" leaves a mark.
RefusedInsideTool(t) ==
    /\ Stage(t, {"running"}, "running")
    /\ permission' = permission \cup
          {IF task.handler = "none" THEN "needs_confirmation" ELSE "declined"}
    /\ UNCHANGED granted

FinishTool(t) ==
    /\ Running(t)
    /\ stage \in {"running", "skipped"}
    /\ S!ToolDone(t)
    /\ stage' = "none"
    /\ UNCHANGED <<executing, active_mutex, attached, cancelled, permission, task, rpc,
                   muted, report, outcome, granted>>

-----------------------------------------------------------------------------
(* execute(), after the prompt; the same steps run when it unwinds *)

\* SessionGuard::finish() takes active_mutex, so no cancellation is under way
\* in the session that is about to be destroyed.
DetachAtOnce(t) == TRUE
MayDetach(t) == active_mutex = NoThread

Detach(t) ==
    /\ rpc[t] = "detach"
    /\ MayDetach(t)
    /\ attached' = NoThread
    /\ Goto(t, "reset")
    /\ UNCHANGED <<svars, executing, active_mutex, runLocals>>

ResetAfter(t) ==
    /\ rpc[t] = "reset"
    /\ S!ResetSession(t)
    /\ Goto(t, "report")
    /\ UNCHANGED <<executing, active_mutex, attached, runLocals>>

\* The cleanup throws: the guard's destructor swallows it or it ends in the
\* catch-all; either way the history may survive.
ResetAfterThrows(t) ==
    /\ rpc[t] = "reset"
    /\ mutex = NoThread
    /\ report' = "thrown"
    /\ Goto(t, "report")
    /\ UNCHANGED <<svars, executing, active_mutex, attached, cancelled, permission, task,
                   stage, muted, outcome, granted>>

\* The order in which execute() reads the result, the flag and the marks.
OutcomeOfResult ==
    CASE report = "thrown"                      -> "exception"
      [] report = "cancelled"                   -> "cancelled"
      [] report \notin {"thrown", "cancelled", "ok"} -> "session_failed"
      [] report = "ok" /\ "needs_confirmation" \in permission -> "confirmation_required"
      [] report = "ok" /\ permission = {"declined"} -> "permission_denied"
      [] report = "ok" /\ permission = {} -> "completed"
OutcomeUnmapped == IF report = "thrown" THEN "exception" ELSE report
Outcome ==
    IF report = "thrown" THEN "exception"
    ELSE IF report = "cancelled" \/ cancelled THEN "cancelled"
    ELSE IF report # "ok" THEN "session_failed"
    ELSE IF "needs_confirmation" \in permission THEN "confirmation_required"
    ELSE IF "declined" \in permission THEN "permission_denied"
    ELSE "completed"

Report(t) ==
    /\ rpc[t] = "report"
    /\ outcome' = Outcome
    /\ Goto(t, "return")
    /\ UNCHANGED <<svars, executing, active_mutex, attached, cancelled, permission, task,
                   stage, muted, report, granted>>

\* ~ExecutionGuard; the run's locals are gone and its session is destroyed.
ReturnFromExecute(t) ==
    /\ rpc[t] = "return"
    /\ executing' = FALSE
    /\ cancelled' = FALSE
    /\ permission' = {}
    /\ task' = NoTask
    /\ granted' = FALSE
    /\ muted' = FALSE
    /\ report' = "none"
    /\ outcome' = "none"
    /\ provider' = NoProvider
    /\ settings' = [key |-> "empty", model |-> "empty", tools |-> {}, options |-> "empty"]
    /\ Goto(t, "idle")
    /\ UNCHANGED <<mutex, owned, destroyed, active, history, pc, raised, target, calls,
                   responses, round, result, requests, late, stopped,
                   active_mutex, attached, stage>>

-----------------------------------------------------------------------------
(* cancel_active_request() *)

\* The run's flag reaches the prompt's checks only while the prompt runs.
Raise(t) ==
    raised' = IF pc[t] \in S!Published \cup {"entered"} THEN raised \cup {t} ELSE raised

\* Lock active_mutex and set the flag of the active run (no run: no effect).
CancelBegin(c) ==
    /\ rpc[c] = "idle"
    /\ active_mutex = NoThread
    /\ attached # NoThread
    /\ active_mutex' = c
    /\ cancelled' = TRUE
    /\ Raise(attached)
    /\ Goto(c, "stop_load")
    /\ UNCHANGED <<mutex, provider, owned, destroyed, active, settings, history, pc,
                   target, calls, responses, round, result, requests, late, stopped,
                   executing, attached, permission, task, stage, muted, report, outcome, granted>>

\* session.cancel_active_request(), still under active_mutex.
StopLoad(c) ==
    /\ rpc[c] = "stop_load"
    /\ S!CancelLoad(c)
    /\ Goto(c, "stop_wait")
    /\ UNCHANGED <<executing, active_mutex, attached, runLocals>>

StopSession(c) ==
    /\ rpc[c] = "stop_wait"
    /\ S!CancelCall(c) \/ S!CancelLocked(c)
    /\ active_mutex' = NoThread
    /\ Goto(c, "idle")
    /\ UNCHANGED <<executing, attached, runLocals>>

\* A streaming, progress or confirmation callback, or a tool, calls
\* cancel_active_request() on the thread of execute() and waits for active_mutex.
CancelFromCallback(t) ==
    /\ Running(t)
    /\ pc[t] \in {"request", "tool"}
    /\ pc[t] = "request" => ~muted
    /\ Goto(t, "callback")
    /\ UNCHANGED <<svars, executing, active_mutex, attached, runLocals>>

CallbackStops(t) ==
    /\ rpc[t] = "callback"
    /\ active_mutex = NoThread
    /\ cancelled' = TRUE
    /\ raised' = raised \cup {t}
    /\ S!Stop(active)
    /\ Goto(t, "prompt")
    /\ UNCHANGED <<mutex, provider, owned, destroyed, active, settings, history, pc,
                   target, calls, responses, round, result, requests, late,
                   executing, active_mutex, attached, permission, task, stage, muted,
                   report, outcome, granted>>

-----------------------------------------------------------------------------
\* What a thread inside execute() or cancel_active_request() does next.
Step(t) ==
    \/ Reject(t) \/ Prepare(t) \/ PrepareThrows(t) \/ Register(t)
    \/ EnterPrompt(t) \/ FirstRequest(t) \/ TurnLoop(t) \/ LeavePrompt(t) \/ PromptThrows(t)
    \/ StartTool(t) \/ SkipTool(t) \/ AskForTool(t) \/ NoNeedToAsk(t)
    \/ Unattended(t) \/ Approve(t) \/ Decline(t)
    \/ RunTool(t) \/ CancelledMeanwhile(t) \/ FinishTool(t)
    \/ Detach(t) \/ ResetAfter(t) \/ ResetAfterThrows(t) \/ Report(t) \/ ReturnFromExecute(t)
    \/ StopLoad(t) \/ StopSession(t)

Next ==
    \E t \in Threads :
        \/ \E k \in Tasks : Execute(t, k)
        \/ Step(t)
        \/ RefusedInsideTool(t)
        \/ CancelBegin(t)
        \/ CancelFromCallback(t)
        \/ CallbackStops(t)

Spec == Init /\ [][Next]_vars

\* Threads are scheduled, what they call returns (a turn or a tool cancels only
\* so many times from its callbacks), and a thread that keeps finding a mutex
\* free gets it.
FairSpec == Spec /\ \A t \in Threads : SF_vars(Step(t)) /\ SF_vars(CallbackStops(t))

-----------------------------------------------------------------------------
(* Properties *)

Executing(t) == rpc[t] \notin {"idle", "stop_load", "stop_wait"}

\* The tool that runs was exposed to the model by the profile and the task,
\* and a tool that asks runs only in a call the host has approved.
OnlyPermittedToolsRun ==
    \A t \in Threads : Executing(t) /\ stage = "running" =>
        LET tool == Current(t) IN
        /\ tool \in task.profile.allowed_tools
        /\ OpsOf[tool] # {}
        /\ \A op \in OpsOf[tool] :
              /\ op \in DOMAIN task.profile.permissions
              /\ task.profile.permissions[op] # "deny"
              /\ task.read_only => op = "read_file"
        /\ \/ granted
           \/ /\ tool \notin SelfAsking
              /\ \A op \in OpsOf[tool] : task.profile.permissions[op] = "allow"

\* Whatever profiles a host adds to the standard registry, an agent of standard
\* id changes nothing unless it is the coder, and the coder nothing without an
\* approval of that very call (AgentRegistry, standard_agents, PermissionTool).
StandardAgentsMutateByApproval ==
    \A t \in Threads : Executing(t) /\ stage = "running" =>
        \/ task.profile.id \notin StandardIds
        \/ OpsOf[Current(t)] = {"read_file"}
        \/ task.profile.id = "coder" /\ granted

\* How far the run is, for whoever waits for it or cancels it.
Phase ==
    IF ~executing THEN "idle"
    ELSE IF attached # NoThread THEN "running"
    ELSE IF outcome # "none" THEN "ending"
    ELSE IF \E t \in Threads : rpc[t] \in {"reset", "report"} THEN "closing"
    ELSE "starting"

\* AgentResult::status, an exception told apart by its error code.
Verdict ==
    CASE outcome \in {"none", "completed", "cancelled"} -> outcome
      [] outcome = "exception" -> "threw"
      [] outcome = "confirmation_required" -> "needs_confirmation"
      [] outcome \in {"rejected", "session_failed", "permission_denied"} -> "failed"

C == INSTANCE RuntimeContract WITH
        phase <- Phase, struck <- cancelled, acting <- stage = "running",
        blocked <- permission # {}, verdict <- Verdict

\* AgentRuntime implements the contract: no tool starts once the run is
\* cancelled, even if the cancellation arrives while the host is asked; a run
\* that was cancelled while attached says so, even after the model's last word,
\* unless something threw; one that was declined a tool, or had nobody to ask,
\* never counts as completed; and no run inherits anything from the one before.
ImplementsContract == C!Spec

\* The session is never cancelled after execute() has detached it, that is,
\* while or after its stack frame is torn down.
SessionOutlivesCancel ==
    \A c \in Threads : rpc[c] \in {"stop_load", "stop_wait"} =>
        attached # NoThread /\ rpc[attached] \in {"prompt", "callback", "detach"}

\* cancel_active_request() ends the turn loop of the session under it: a run it
\* has hit asks the model for no further turn, because execute() gives prompt()
\* the flag that is set before the session is told, and never takes it down.
CancelEndsTurnLoop == S!CancelBreaksTurnLoop

\* Runs are isolated: the first request of a run starts from an empty history,
\* even if the cleanup of the previous run failed.
RunStartsClean ==
    \A t \in Threads : pc[t] = "entered" => Provider \notin history

\* No run asks the model for more turns than the tighter of the two budgets.
StepBudget ==
    \A t \in Threads : requests[t] <= TaskSteps /\ requests[t] <= ProfileSteps

\* active_mutex and the session's mutex are never waited for in a circle.
NoLockCycle ==
    \A c, t \in Threads :
        ~(/\ active_mutex = c /\ pc[c] = "cancel_lock"
          /\ mutex = t /\ rpc[t] = "callback")

\* execute() returns and leaves the runtime ready for the next task, and
\* cancel_active_request() returns, from another thread and from callbacks.
CallsReturn ==
    \A t \in Threads :
        /\ rpc[t] = "prepare" ~> rpc[t] = "idle"
        /\ rpc[t] \in {"stop_load", "callback"} ~> rpc[t] \in {"idle", "prompt"}
=============================================================================
