--------------------------- MODULE ConfirmationGate ---------------------------
(***************************************************************************)
(* arn::core::ConfirmationGate, the rendezvous between a worker thread     *)
(* that needs a human decision and the front end that delivers it.         *)
(*                                                                         *)
(* Every method runs under mutex_, so each is one step, except wait(),     *)
(* which gives the mutex up while it sleeps on cv_ and therefore takes a   *)
(* step to issue its token and another one to wake, re-check and return.   *)
(* A token is its sequence number; the nonce only makes it unguessable.    *)
(***************************************************************************)
EXTENDS Naturals

CONSTANTS
    Waiters,        \* threads that may call wait()
    MaxRequests,    \* bound: tokens issued in one behaviour
    Serialised,     \* callers never overlap two wait() calls
    QuietReset,     \* callers reset() only while nobody waits
    EmitMayThrow    \* the emit callback may throw

ASSUME GateAssumption ==
    /\ MaxRequests \in Nat
    /\ Serialised \in BOOLEAN
    /\ QuietReset \in BOOLEAN
    /\ EmitMayThrow \in BOOLEAN

VARIABLES
    sequence,   \* sequence_: tokens issued so far
    pending,    \* pending_: the token an answer must name, or NoToken
    answered, approved, cancelled,
    pc,         \* per waiter: idle, blocked on cv_, or notified and about to relock
    token,      \* per waiter: the token its current or last wait() was given
    result,     \* per waiter: what its last wait() returned
    verdict,    \* history: the answer accepted for each token
    hit         \* history: cancel() ran while this waiter was waiting

gateState == <<sequence, pending, answered, approved, cancelled>>
vars == <<sequence, pending, answered, approved, cancelled,
          pc, token, result, verdict, hit>>

NoToken == 0
Tokens == 1..MaxRequests

Waiting(w) == pc[w] \in {"blocked", "woken"}

\* The Boolean part of the type invariant, on its own for the proofs' sake.
FlagsOK ==
    /\ answered \in BOOLEAN
    /\ approved \in BOOLEAN
    /\ cancelled \in BOOLEAN
    /\ hit \in [Waiters -> BOOLEAN]

\* Every variable of the gate has its type.
TypeOK ==
    /\ FlagsOK
    /\ sequence \in 0..MaxRequests
    /\ pending \in 0..MaxRequests
    /\ pc \in [Waiters -> {"idle", "blocked", "woken"}]
    /\ token \in [Waiters -> 0..MaxRequests]
    /\ result \in [Waiters -> {"none", "granted", "refused", "thrown"}]
    /\ verdict \in [Tokens -> {"none", "approved", "denied"}]

Init ==
    /\ sequence = 0
    /\ pending = NoToken
    /\ answered = FALSE
    /\ approved = FALSE
    /\ cancelled = FALSE
    /\ pc = [w \in Waiters |-> "idle"]
    /\ token = [w \in Waiters |-> NoToken]
    /\ result = [w \in Waiters |-> "none"]
    /\ verdict = [t \in Tokens |-> "none"]
    /\ hit = [w \in Waiters |-> FALSE]

-----------------------------------------------------------------------------
(* Pieces of the methods, and the slips the runs' mutants make in them.    *)

\* cv_.notify_all(): every sleeper will relock and evaluate the predicate.
NotifyNobody == UNCHANGED pc
NotifyAll == pc' = [w \in Waiters |-> IF pc[w] = "blocked" THEN "woken" ELSE pc[w]]

\* The predicate wait_for() sleeps on.
Decided == answered \/ cancelled

\* answer()'s test of the token it is given.
AcceptsTwice(id) == id # NoToken /\ id = pending /\ ~cancelled
AcceptsAnyToken(id) == id \in 1..sequence /\ ~answered /\ ~cancelled
Accepts(id) == id # NoToken /\ id = pending /\ ~answered /\ ~cancelled

\* What wait() returns once it stops sleeping.
GrantedDespiteCancel == answered /\ approved
Granted == answered /\ approved /\ ~cancelled

\* wait() forgets the previous answer before it emits its own token.
KeepOldAnswer == UNCHANGED <<answered, approved>>
ForgetAnswer == answered' = FALSE /\ approved' = FALSE

\* ++sequence_
SkipToken == sequence + 2
NextToken == sequence + 1

-----------------------------------------------------------------------------
(* wait() *)

\* The gate is cancelled: wait() returns false without issuing a token.
WaitRefused(w) ==
    /\ pc[w] = "idle"
    /\ cancelled
    /\ token' = [token EXCEPT ![w] = NoToken]
    /\ result' = [result EXCEPT ![w] = "refused"]
    /\ UNCHANGED <<gateState, pc, verdict, hit>>

IssueToken(w) ==
    /\ pc[w] = "idle"
    /\ ~cancelled
    /\ sequence < MaxRequests
    /\ Serialised => \A v \in Waiters : ~Waiting(v)
    /\ sequence' = NextToken
    /\ pending' = NextToken
    /\ ForgetAnswer
    /\ token' = [token EXCEPT ![w] = NextToken]
    /\ hit' = [hit EXCEPT ![w] = FALSE]
    /\ UNCHANGED <<cancelled, verdict>>

\* Issue a token, hand it to emit and go to sleep; all under mutex_.
WaitEmit(w) ==
    /\ IssueToken(w)
    /\ pc' = [pc EXCEPT ![w] = "blocked"]
    /\ result' = [result EXCEPT ![w] = "none"]

\* emit throws: wait() unwinds and never reaches pending_.clear().
WaitEmitThrows(w) ==
    /\ EmitMayThrow
    /\ IssueToken(w)
    /\ result' = [result EXCEPT ![w] = "thrown"]
    /\ UNCHANGED pc

\* A sleeper may wake with no notification.
SpuriousWake(w) ==
    /\ pc[w] = "blocked"
    /\ pc' = [pc EXCEPT ![w] = "woken"]
    /\ UNCHANGED <<gateState, token, result, verdict, hit>>

\* Awake with the predicate false: back to sleep.
SleepAgain(w) ==
    /\ pc[w] = "woken"
    /\ ~Decided
    /\ pc' = [pc EXCEPT ![w] = "blocked"]
    /\ UNCHANGED <<gateState, token, result, verdict, hit>>

\* The end of wait(): compute the result, clear pending_, unlock.
LeaveWait(w) ==
    /\ result' = [result EXCEPT ![w] = IF Granted THEN "granted" ELSE "refused"]
    /\ pending' = NoToken
    /\ pc' = [pc EXCEPT ![w] = "idle"]
    /\ UNCHANGED <<sequence, answered, approved, cancelled, token, verdict, hit>>

WakeAndReturn(w) == pc[w] = "woken" /\ Decided /\ LeaveWait(w)

\* The timeout expires, whatever the predicate says by the time of the relock.
Timeout(w) == Waiting(w) /\ LeaveWait(w)

-----------------------------------------------------------------------------
(* The front end.  An answer that is rejected changes nothing. *)

Answer(id, yes) ==
    /\ Accepts(id)
    /\ answered' = TRUE
    /\ approved' = yes
    /\ NotifyAll
    /\ verdict' = [verdict EXCEPT ![id] = IF yes THEN "approved" ELSE "denied"]
    /\ UNCHANGED <<sequence, pending, cancelled, token, result, hit>>

Cancel ==
    /\ cancelled' = TRUE
    /\ NotifyAll
    /\ hit' = [w \in Waiters |-> hit[w] \/ Waiting(w)]
    /\ UNCHANGED <<sequence, pending, answered, approved, token, result, verdict>>

Reset ==
    /\ QuietReset => \A w \in Waiters : ~Waiting(w)
    /\ cancelled' = FALSE
    /\ UNCHANGED <<sequence, pending, answered, approved, pc, token, result, verdict, hit>>

-----------------------------------------------------------------------------
Next ==
    \/ \E w \in Waiters :
          \/ WaitRefused(w)
          \/ WaitEmit(w)
          \/ WaitEmitThrows(w)
          \/ SpuriousWake(w)
          \/ SleepAgain(w)
          \/ WakeAndReturn(w)
          \/ Timeout(w)
    \/ \E id \in Tokens, yes \in BOOLEAN : Answer(id, yes)
    \/ Cancel
    \/ Reset

Spec == Init /\ [][Next]_vars

\* A notified thread is scheduled and gets the mutex back.  Nothing is assumed
\* of the timeout or of spurious wake-ups.
FairSpec == Spec /\ \A w \in Waiters : WF_vars(WakeAndReturn(w))

-----------------------------------------------------------------------------
(* Properties *)

\* wait() returns true only if the token it issued was itself approved
\* (answer()'s id test together with wait()'s reset of the answer).
ApprovalIsolation ==
    \A w \in Waiters : result[w] = "granted" =>
        token[w] \in Tokens /\ verdict[token[w]] = "approved"

\* No replay: an approval given before a wait() began never satisfies it,
\* even when waits overlap, callbacks throw and the gate is reset at will.
NoStaleApproval ==
    \A w \in Waiters : result[w] = "granted" =>
        \E t \in Tokens : t >= token[w] /\ verdict[t] = "approved"

\* A wait() that cancel() found sleeping does not return true.
CancelledWaitRefused ==
    \A w \in Waiters : result[w] = "granted" => ~hit[w]

\* cv_ loses no wake-up: when the predicate holds, no waiter is still asleep.
NoLostWakeup ==
    Decided => \A w \in Waiters : pc[w] # "blocked"

\* An accepted answer is final: answer() never overwrites the decision on a token.
AnswersAreFinal ==
    [][\A t \in Tokens : verdict[t] # "none" => verdict'[t] = verdict[t]]_vars

\* With an emit that does not throw, answer() returns true only for a token some
\* thread is waiting on: answers after a timeout or a cancellation are rejected.
ExpiredTokensRejected ==
    [][\A t \in Tokens : verdict'[t] # verdict[t] =>
          \E w \in Waiters : Waiting(w) /\ token[w] = t]_vars

\* Once the gate is answered or cancelled, a waiting thread returns, and does
\* not need its timeout to do so.
DecisionReleasesWaiter ==
    \A w \in Waiters : (Waiting(w) /\ Decided) ~> ~Waiting(w)
=============================================================================
