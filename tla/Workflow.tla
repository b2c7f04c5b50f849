------------------------------ MODULE Workflow ------------------------------
(***************************************************************************)
(* What arn::core::AgentOrchestrator promises to its host, with nothing of *)
(* its threads, locks and runtimes: one call at a time, stages in order,   *)
(* each only after the last one completed and was accepted, and a status   *)
(* that says what happened.                                                *)
(***************************************************************************)
EXTENDS Naturals, Sequences

CONSTANT Outputs    \* the output of each stage, in order

VARIABLES
    call,       \* the call in progress: execute() or execute_agent()
    active,     \* an agent is at work
    done,       \* how the stages that are over ended
    accepted,   \* the outputs that joined the workflow
    heard,      \* the host has cancelled
    status      \* the result, once it is decided

workflow == <<call, active, done, accepted, heard, status>>

Init ==
    /\ call = "none"
    /\ active = FALSE
    /\ done = <<>>
    /\ accepted = {}
    /\ heard = FALSE
    /\ status = "none"

InCall == call # "none" /\ status = "none" /\ ~active
AllCompleted == \A i \in DOMAIN done : done[i] = "completed"
OutputsOf(n) == {Outputs[i] : i \in 1..n}
\* Every stage so far has completed and its output is accepted.
UpToDate == AllCompleted /\ accepted = OutputsOf(Len(done))
Unfinished == UpToDate /\ Len(done) < Len(Outputs)

Begin(m) ==
    /\ call = "none"
    /\ call' = m
    /\ UNCHANGED <<active, done, accepted, heard, status>>

\* cancel_active_workflow()
Hear ==
    /\ call # "none"
    /\ heard' = TRUE
    /\ UNCHANGED <<call, active, done, accepted, status>>

\* No agent starts after the cancellation, or after one that did not complete.
Start ==
    /\ InCall /\ Unfinished /\ ~heard
    /\ active' = TRUE
    /\ UNCHANGED <<call, done, accepted, heard, status>>

End(s) ==
    /\ active
    /\ active' = FALSE
    /\ done' = Append(done, s)
    /\ UNCHANGED <<call, accepted, heard, status>>

\* The stage is over before its agent got to work.
Forestall(s) ==
    /\ InCall /\ Unfinished
    /\ s = "failed" \/ (s = "cancelled" /\ heard)
    /\ done' = Append(done, s)
    /\ UNCHANGED <<call, active, accepted, heard, status>>

\* A completed stage adds its own output and the last one completes the
\* workflow; no output is accepted after the cancellation.
Accept ==
    /\ InCall /\ call = "workflow" /\ ~heard
    /\ AllCompleted /\ done # <<>>
    /\ accepted = OutputsOf(Len(done) - 1)
    /\ accepted' = OutputsOf(Len(done))
    /\ status' = IF Len(done) = Len(Outputs) THEN "completed" ELSE "none"
    /\ UNCHANGED <<call, active, done, heard>>

EndedAs(s) == done # <<>> /\ done[Len(done)] = s
\* Stages lie behind and before the host, which was asked whether to go on.
BetweenStages == call = "workflow" /\ done # <<>> /\ Unfinished

\* The status the host may be told when a call ends early.
Truthful(s) ==
    /\ heard => s \in {"cancelled", "failed"}
    /\ CASE s = "failed" -> TRUE
         [] s = "cancelled" -> heard \/ EndedAs(s) \/ BetweenStages
         [] s = "completed" -> call = "agent" /\ EndedAs(s)
         [] s \in {"needs_input", "needs_confirmation"} -> EndedAs(s)
         [] s = "continuation_declined" -> BetweenStages

Decide(s) ==
    /\ InCall /\ Truthful(s)
    /\ status' = s
    /\ UNCHANGED <<call, active, done, accepted, heard>>

Return ==
    /\ status # "none"
    /\ call' = "none" /\ done' = <<>> /\ accepted' = {} /\ heard' = FALSE /\ status' = "none"
    /\ UNCHANGED active

Endings == {"completed", "failed", "cancelled", "needs_input", "needs_confirmation"}

Next ==
    \/ \E m \in {"workflow", "agent"} : Begin(m)
    \/ Hear \/ Start \/ Accept
    \/ \E s \in Endings : End(s) \/ Forestall(s)
    \/ \E s \in Endings \cup {"continuation_declined"} : Decide(s)
    \/ Return

Spec == Init /\ [][Next]_workflow
=============================================================================
