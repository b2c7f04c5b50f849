--------------------------- MODULE RuntimeContract ---------------------------
(***************************************************************************)
(* What arn::core::IAgentRuntime promises to whoever calls execute(): one  *)
(* execution at a time, cancellable exactly while it is attached, and an   *)
(* outcome that tells the truth about how it went.                         *)
(*                                                                         *)
(* AgentRuntime is shown to implement the contract; AgentOrchestrator is   *)
(* modelled on top of it and knows nothing else about a runtime.           *)
(***************************************************************************)
VARIABLES
    phase,      \* how far execute() is
    struck,     \* cancel_active_request() has found it attached
    acting,     \* a tool's own execute() is running
    blocked,    \* some tool call was declined, or had nobody to ask
    verdict     \* the outcome, once it is decided

contract == <<phase, struck, acting, blocked, verdict>>

\* "threw" is a failure whose cause is an exception (execution_exception).
Verdicts == {"completed", "failed", "threw", "cancelled", "needs_input", "needs_confirmation"}

Init ==
    /\ phase = "idle"
    /\ struck = FALSE
    /\ acting = FALSE
    /\ blocked = FALSE
    /\ verdict = "none"

Begin ==
    /\ phase = "idle"
    /\ phase' = "starting"
    /\ UNCHANGED <<struck, acting, blocked, verdict>>

\* The run is refused before anyone can cancel it.
Refuse(v) ==
    /\ phase = "starting"
    /\ v \in {"failed", "threw"}
    /\ phase' = "ending"
    /\ verdict' = v
    /\ UNCHANGED <<struck, acting, blocked>>

Attach ==
    /\ phase = "starting"
    /\ phase' = "running"
    /\ UNCHANGED <<struck, acting, blocked, verdict>>

\* A tool never starts once the run is cancelled.
Act ==
    /\ phase = "running"
    /\ ~struck /\ ~acting
    /\ acting' = TRUE
    /\ UNCHANGED <<phase, struck, blocked, verdict>>

Acted ==
    /\ acting
    /\ acting' = FALSE
    /\ UNCHANGED <<phase, struck, blocked, verdict>>

Block ==
    /\ phase = "running"
    /\ blocked' = TRUE
    /\ UNCHANGED <<phase, struck, acting, verdict>>

\* cancel_active_request(); in every other phase it changes nothing.
Cancel ==
    /\ phase = "running"
    /\ struck' = TRUE
    /\ UNCHANGED <<phase, acting, blocked, verdict>>

\* No tool is left behind when the run is detached.
Detach ==
    /\ phase = "running"
    /\ ~acting
    /\ phase' = "closing"
    /\ UNCHANGED <<struck, acting, blocked, verdict>>

\* A cancelled run is reported as cancelled, whatever it had achieved, unless
\* something threw; a run that was refused a tool call never as completed.
Decide(v) ==
    /\ phase = "closing"
    /\ v \in Verdicts
    /\ struck => v \in {"cancelled", "threw"}
    /\ v = "completed" => ~blocked
    /\ phase' = "ending"
    /\ verdict' = v
    /\ UNCHANGED <<struck, acting, blocked>>

\* execute() returns; nothing of this run is seen by the next one.
Return ==
    /\ phase = "ending"
    /\ phase' = "idle"
    /\ struck' = FALSE
    /\ acting' = FALSE
    /\ blocked' = FALSE
    /\ verdict' = "none"

Next ==
    \/ Begin
    \/ \E v \in Verdicts : Refuse(v) \/ Decide(v)
    \/ Attach \/ Act \/ Acted \/ Block \/ Cancel \/ Detach
    \/ Return

Spec == Init /\ [][Next]_contract
=============================================================================
