----------------------- MODULE ConfirmationGateProofs -----------------------
(***************************************************************************)
(* What TLAPS proves of ConfirmationGate, for any set of waiters and any   *)
(* number of requests.                                                     *)
(*                                                                         *)
(* The argument: the flags answered and approved always speak about the    *)
(* newest token, because wait() clears them when it issues one and         *)
(* answer() refuses every other token.  A waiter's own token is never      *)
(* newer than that; it IS the newest one when waits do not overlap.        *)
(***************************************************************************)
EXTENDS ConfirmationGate, TLAPS

\* answered/approved are exactly the verdict on the newest token, and no
\* token that has not been issued has a verdict.
FlagsFollowNewest ==
    /\ pending \in {NoToken, sequence}
    /\ \A t \in Tokens : t > sequence => verdict[t] = "none"
    /\ answered => /\ sequence \in Tokens
                   /\ verdict[sequence] = IF approved THEN "approved" ELSE "denied"
    /\ ~answered /\ sequence \in Tokens => verdict[sequence] = "none"

\* A waiting thread holds a token already issued.
WaiterHoldsToken ==
    \A w \in Waiters : Waiting(w) => token[w] \in 1..sequence

\* When waits do not overlap, the one waiting thread holds the newest token.
SoleWaiterIsNewest ==
    \A w \in Waiters : Waiting(w) =>
        /\ token[w] = sequence
        /\ \A v \in Waiters : Waiting(v) => v = w

\* When reset() never overlaps a wait, a wait that cancel() found sleeping
\* still sees the gate cancelled.
HitStaysCancelled ==
    \A w \in Waiters : Waiting(w) => result[w] = "none" /\ (hit[w] => cancelled)

\* What holds of every use of the gate.
GateInv == TypeOK /\ FlagsFollowNewest /\ WaiterHoldsToken

\* The flags stay Boolean.
LEMMA GateFlags == ASSUME TypeOK, [Next]_vars PROVE FlagsOK'
<1> USE DEF TypeOK, FlagsOK, gateState
<1>1. ASSUME NEW w \in Waiters, WaitRefused(w) PROVE FlagsOK'
  BY <1>1, Zenon DEF WaitRefused
<1>2. ASSUME NEW w \in Waiters, IssueToken(w) PROVE FlagsOK'
  BY <1>2, Zenon DEF IssueToken, ForgetAnswer
<1>3. ASSUME NEW w \in Waiters, SpuriousWake(w) \/ SleepAgain(w) PROVE FlagsOK'
  BY <1>3, Zenon DEF SpuriousWake, SleepAgain
<1>4. ASSUME NEW w \in Waiters, LeaveWait(w) PROVE FlagsOK'
  BY <1>4, Zenon DEF LeaveWait
<1>5. ASSUME NEW id \in Tokens, NEW yes \in BOOLEAN, Answer(id, yes) PROVE FlagsOK'
  BY <1>5, Zenon DEF Answer
<1>6. CASE Cancel
  BY <1>6, Zenon DEF Cancel, Waiting
<1>7. CASE Reset
  BY <1>7, Zenon DEF Reset
<1>8. CASE UNCHANGED vars
  BY <1>8, Zenon DEF vars
<1> QED
  BY <1>1, <1>2, <1>3, <1>4, <1>5, <1>6, <1>7, <1>8
     DEF Next, WaitEmit, WaitEmitThrows, WakeAndReturn, Timeout

\* Every step of the gate keeps its variables in their types.
THEOREM GateTypeCorrect == Spec => []TypeOK
<1>1. Init => TypeOK
  <2>1. Init => FlagsOK
    BY Zenon DEF Init, FlagsOK
  <2> QED
    BY <2>1, GateAssumption DEF GateAssumption, Init, TypeOK, NoToken, Tokens
<1>2. TypeOK /\ [Next]_vars => TypeOK'
  <2> SUFFICES ASSUME TypeOK, [Next]_vars PROVE TypeOK'
    OBVIOUS
  <2> USE GateFlags, GateAssumption DEF GateAssumption, TypeOK, NoToken, Tokens, gateState
  <2>1. ASSUME NEW w \in Waiters, WaitRefused(w) PROVE TypeOK'
    BY <2>1 DEF WaitRefused
  <2>2. ASSUME NEW w \in Waiters, WaitEmit(w) PROVE TypeOK'
    BY <2>2 DEF WaitEmit, IssueToken, NextToken
  <2>3. ASSUME NEW w \in Waiters, WaitEmitThrows(w) PROVE TypeOK'
    BY <2>3 DEF WaitEmitThrows, IssueToken, NextToken
  <2>4. ASSUME NEW w \in Waiters, SpuriousWake(w) PROVE TypeOK'
    BY <2>4 DEF SpuriousWake
  <2>5. ASSUME NEW w \in Waiters, SleepAgain(w) PROVE TypeOK'
    BY <2>5 DEF SleepAgain
  <2>6. ASSUME NEW w \in Waiters, LeaveWait(w) PROVE TypeOK'
    BY <2>6 DEF LeaveWait
  <2>7. ASSUME NEW id \in Tokens, NEW yes \in BOOLEAN, Answer(id, yes) PROVE TypeOK'
    BY <2>7 DEF Answer, NotifyAll
  <2>8. CASE Cancel
    BY <2>8 DEF Cancel, NotifyAll
  <2>9. CASE Reset
    BY <2>9 DEF Reset
  <2>10. CASE UNCHANGED vars
    BY <2>10 DEF vars
  <2> QED
    BY <2>1, <2>2, <2>3, <2>4, <2>5, <2>6, <2>7, <2>8, <2>9, <2>10
       DEF Next, WakeAndReturn, Timeout
<1> QED
  BY <1>1, <1>2, PTL DEF Spec

-----------------------------------------------------------------------------
\* The gate's flags describe the newest token, and waiters hold issued tokens:
\* what every later theorem rests on.
LEMMA NewestStep ==
  ASSUME TypeOK, FlagsFollowNewest, WaiterHoldsToken, [Next]_vars
  PROVE  FlagsFollowNewest' /\ WaiterHoldsToken'
<1> USE GateAssumption DEF GateAssumption, TypeOK, NoToken, Tokens, gateState,
        FlagsFollowNewest, WaiterHoldsToken, Waiting
<1>1. ASSUME NEW w \in Waiters, WaitRefused(w) PROVE FlagsFollowNewest' /\ WaiterHoldsToken'
  BY <1>1 DEF WaitRefused
<1>2. ASSUME NEW w \in Waiters, WaitEmit(w) PROVE FlagsFollowNewest' /\ WaiterHoldsToken'
  BY <1>2 DEF WaitEmit, IssueToken, NextToken, ForgetAnswer
<1>3. ASSUME NEW w \in Waiters, WaitEmitThrows(w) PROVE FlagsFollowNewest' /\ WaiterHoldsToken'
  BY <1>3 DEF WaitEmitThrows, IssueToken, NextToken, ForgetAnswer
<1>4. ASSUME NEW w \in Waiters, SpuriousWake(w) \/ SleepAgain(w)
      PROVE FlagsFollowNewest' /\ WaiterHoldsToken'
  BY <1>4 DEF SpuriousWake, SleepAgain
<1>5. ASSUME NEW w \in Waiters, LeaveWait(w) PROVE FlagsFollowNewest' /\ WaiterHoldsToken'
  BY <1>5 DEF LeaveWait
<1>6. ASSUME NEW id \in Tokens, NEW yes \in BOOLEAN, Answer(id, yes)
      PROVE FlagsFollowNewest' /\ WaiterHoldsToken'
  BY <1>6 DEF Answer, Accepts, NotifyAll
<1>7. CASE Cancel
  BY <1>7 DEF Cancel, NotifyAll
<1>8. CASE Reset
  BY <1>8 DEF Reset
<1>9. CASE UNCHANGED vars
  BY <1>9 DEF vars
<1> QED
  BY <1>1, <1>2, <1>3, <1>4, <1>5, <1>6, <1>7, <1>8, <1>9
     DEF Next, WakeAndReturn, Timeout

\* Every reachable state of the gate satisfies the invariant.
LEMMA GateInvariant == Spec => []GateInv
<1>1. Init => FlagsFollowNewest /\ WaiterHoldsToken
  BY GateAssumption DEF GateAssumption, Init, FlagsFollowNewest, WaiterHoldsToken,
     Waiting, NoToken, Tokens
<1>2. FlagsFollowNewest /\ WaiterHoldsToken /\ TypeOK /\ [Next]_vars
        => FlagsFollowNewest' /\ WaiterHoldsToken'
  BY NewestStep
<1> QED
  BY <1>1, <1>2, GateTypeCorrect, PTL DEF Spec, GateInv

\* How a wait() can have come to return true: by the end of wait() with the
\* flags saying so.  Every other step leaves the granted results, their tokens
\* and the verdicts they rest on as they were.
LEMMA GrantStep ==
  ASSUME TypeOK, [Next]_vars, NEW w \in Waiters, result'[w] = "granted"
  PROVE  /\ token'[w] = token[w]
         /\ \/ result[w] = "granted"
            \/ Waiting(w) /\ Granted /\ UNCHANGED <<sequence, verdict>>
<1> USE DEF TypeOK, gateState
<1>1. ASSUME NEW v \in Waiters, WaitRefused(v) PROVE token'[w] = token[w] /\ result[w] = "granted"
  BY <1>1 DEF WaitRefused
<1>2. ASSUME NEW v \in Waiters, WaitEmit(v) PROVE token'[w] = token[w] /\ result[w] = "granted"
  BY <1>2 DEF WaitEmit, IssueToken
<1>3. ASSUME NEW v \in Waiters, WaitEmitThrows(v) PROVE token'[w] = token[w] /\ result[w] = "granted"
  BY <1>3 DEF WaitEmitThrows, IssueToken
<1>4. ASSUME NEW v \in Waiters, SpuriousWake(v) \/ SleepAgain(v)
      PROVE token'[w] = token[w] /\ result[w] = "granted"
  BY <1>4 DEF SpuriousWake, SleepAgain
<1>5. ASSUME NEW v \in Waiters, Waiting(v), LeaveWait(v)
      PROVE  /\ token'[w] = token[w]
             /\ \/ result[w] = "granted"
                \/ Waiting(w) /\ Granted /\ UNCHANGED <<sequence, verdict>>
  <2>1. CASE v = w
    BY <1>5, <2>1 DEF LeaveWait
  <2>2. CASE v # w
    BY <1>5, <2>2 DEF LeaveWait
  <2> QED
    BY <2>1, <2>2
<1>6. ASSUME NEW id \in Tokens, NEW yes \in BOOLEAN, Answer(id, yes)
      PROVE token'[w] = token[w] /\ result[w] = "granted"
  BY <1>6 DEF Answer
<1>7. CASE Cancel
  BY <1>7 DEF Cancel
<1>8. CASE Reset
  BY <1>8 DEF Reset
<1>9. CASE UNCHANGED vars
  BY <1>9 DEF vars
<1> QED
  BY <1>1, <1>2, <1>3, <1>4, <1>5, <1>6, <1>7, <1>8, <1>9
     DEF Next, WakeAndReturn, Timeout, Waiting

\* answer() never changes the decision recorded for a token: a second answer
\* for the same token is refused.
LEMMA VerdictStep ==
  ASSUME GateInv, [Next]_vars, NEW t \in Tokens, verdict[t] # "none"
  PROVE  verdict'[t] = verdict[t]
<1> USE DEF GateInv, TypeOK, gateState
<1>1. ASSUME NEW id \in Tokens, NEW yes \in BOOLEAN, Answer(id, yes)
      PROVE verdict'[t] = verdict[t]
  <2>1. id # t
    BY <1>1 DEF Answer, Accepts, FlagsFollowNewest
  <2> QED
    BY <1>1, <2>1 DEF Answer
<1>2. CASE UNCHANGED verdict
  BY <1>2
<1> QED
  BY <1>1, <1>2 DEF Next, WaitRefused, WaitEmit, WaitEmitThrows, IssueToken, SpuriousWake,
     SleepAgain, WakeAndReturn, Timeout, LeaveWait, Cancel, Reset, vars

\* answer() decides each token once (its answered_ test).
THEOREM AnswerOnce == Spec => AnswersAreFinal
<1>1. GateInv /\ [Next]_vars
        => [\A t \in Tokens : verdict[t] # "none" => verdict'[t] = verdict[t]]_vars
  BY VerdictStep
<1> QED
  BY <1>1, GateInvariant, PTL DEF Spec, AnswersAreFinal

\* No wait() is satisfied by an approval older than itself, however waits,
\* answers, cancellations, resets, timeouts and exceptions interleave.
THEOREM NoReplay == Spec => []NoStaleApproval
<1>1. Init => NoStaleApproval
  BY DEF Init, NoStaleApproval
<1>2. GateInv /\ NoStaleApproval /\ [Next]_vars => NoStaleApproval'
  <2> SUFFICES ASSUME GateInv, NoStaleApproval, [Next]_vars,
                      NEW w \in Waiters, result'[w] = "granted"
               PROVE  \E t \in Tokens : t >= token'[w] /\ verdict'[t] = "approved"
    BY DEF NoStaleApproval
  <2>1. CASE result[w] = "granted"
    <3>1. PICK t \in Tokens : t >= token[w] /\ verdict[t] = "approved"
      BY <2>1 DEF NoStaleApproval
    <3>2. verdict'[t] = "approved"
      BY <3>1, VerdictStep
    <3>3. token'[w] = token[w]
      BY GrantStep DEF GateInv
    <3> QED
      BY <3>1, <3>2, <3>3
  <2>2. CASE Waiting(w) /\ Granted /\ UNCHANGED <<sequence, verdict>>
    <3>1. token'[w] = token[w]
      BY GrantStep DEF GateInv
    <3>2. sequence \in Tokens /\ verdict[sequence] = "approved"
      BY <2>2 DEF GateInv, FlagsFollowNewest, Granted
    <3>3. token[w] \in 1..sequence
      BY <2>2 DEF GateInv, WaiterHoldsToken
    <3> QED
      BY <2>2, <3>1, <3>2, <3>3, GateAssumption DEF GateAssumption, GateInv, TypeOK, Tokens
  <2> QED
    BY <2>1, <2>2, GrantStep DEF GateInv
<1> QED
  BY <1>1, <1>2, GateInvariant, PTL DEF Spec

-----------------------------------------------------------------------------
\* Non-overlapping waits: the waiting thread keeps holding the newest token.
LEMMA SoleWaiterStep ==
  ASSUME Serialised, TypeOK, SoleWaiterIsNewest, [Next]_vars
  PROVE  SoleWaiterIsNewest'
<1> USE DEF TypeOK, gateState, SoleWaiterIsNewest, Waiting
<1>1. ASSUME NEW w \in Waiters, WaitRefused(w) PROVE SoleWaiterIsNewest'
  BY <1>1 DEF WaitRefused
<1>2. ASSUME NEW w \in Waiters, WaitEmit(w) PROVE SoleWaiterIsNewest'
  BY <1>2 DEF WaitEmit, IssueToken
<1>3. ASSUME NEW w \in Waiters, WaitEmitThrows(w) PROVE SoleWaiterIsNewest'
  BY <1>3 DEF WaitEmitThrows, IssueToken
<1>4. ASSUME NEW w \in Waiters, SpuriousWake(w) \/ SleepAgain(w) PROVE SoleWaiterIsNewest'
  BY <1>4 DEF SpuriousWake, SleepAgain
<1>5. ASSUME NEW w \in Waiters, LeaveWait(w) PROVE SoleWaiterIsNewest'
  BY <1>5 DEF LeaveWait
<1>6. ASSUME NEW id \in Tokens, NEW yes \in BOOLEAN, Answer(id, yes)
      PROVE SoleWaiterIsNewest'
  BY <1>6 DEF Answer, NotifyAll
<1>7. CASE Cancel
  BY <1>7 DEF Cancel, NotifyAll
<1>8. CASE Reset
  BY <1>8 DEF Reset
<1>9. CASE UNCHANGED vars
  BY <1>9 DEF vars
<1> QED
  BY <1>1, <1>2, <1>3, <1>4, <1>5, <1>6, <1>7, <1>8, <1>9
     DEF Next, WakeAndReturn, Timeout

\* Token isolation for callers that do not overlap wait() calls: a wait()
\* returns true only if its own token was approved.
THEOREM TokenIsolation ==
  ASSUME Serialised
  PROVE  Spec => []ApprovalIsolation
<1>1. Init => SoleWaiterIsNewest /\ ApprovalIsolation
  BY DEF Init, SoleWaiterIsNewest, ApprovalIsolation, Waiting
<1>2. SoleWaiterIsNewest /\ GateInv /\ [Next]_vars => SoleWaiterIsNewest'
  BY SoleWaiterStep DEF GateInv
<1>3. ApprovalIsolation /\ SoleWaiterIsNewest /\ GateInv /\ [Next]_vars
        => ApprovalIsolation'
  <2> SUFFICES ASSUME ApprovalIsolation, SoleWaiterIsNewest, GateInv, [Next]_vars,
                      NEW w \in Waiters, result'[w] = "granted"
               PROVE  token'[w] \in Tokens /\ verdict'[token'[w]] = "approved"
    BY DEF ApprovalIsolation
  <2>1. CASE result[w] = "granted"
    <3>1. token[w] \in Tokens /\ verdict[token[w]] = "approved"
      BY <2>1 DEF ApprovalIsolation
    <3>2. verdict'[token[w]] = "approved"
      BY <3>1, VerdictStep
    <3> QED
      BY <3>1, <3>2, GrantStep DEF GateInv
  <2>2. CASE Waiting(w) /\ Granted /\ UNCHANGED <<sequence, verdict>>
    <3>1. sequence \in Tokens /\ verdict[sequence] = "approved"
      BY <2>2 DEF GateInv, FlagsFollowNewest, Granted
    <3>2. token[w] = sequence
      BY <2>2 DEF SoleWaiterIsNewest
    <3> QED
      BY <2>2, <3>1, <3>2, GrantStep DEF GateInv
  <2> QED
    BY <2>1, <2>2, GrantStep DEF GateInv
<1> QED
  BY <1>1, <1>2, <1>3, GateInvariant, PTL DEF Spec

-----------------------------------------------------------------------------
\* cv_ loses no wake-up: whoever makes the predicate true notifies every
\* sleeper, and a thread goes to sleep only while the predicate is false.
THEOREM WakeupsKept == Spec => []NoLostWakeup
<1>1. Init => NoLostWakeup
  BY DEF Init, NoLostWakeup
<1>2. TypeOK /\ NoLostWakeup /\ [Next]_vars => NoLostWakeup'
  <2> SUFFICES ASSUME TypeOK, NoLostWakeup, [Next]_vars PROVE NoLostWakeup'
    OBVIOUS
  <2> USE DEF TypeOK, gateState, NoLostWakeup, Decided
  <2>1. ASSUME NEW w \in Waiters, WaitRefused(w) PROVE NoLostWakeup'
    BY <2>1 DEF WaitRefused
  <2>2. ASSUME NEW w \in Waiters, WaitEmit(w) PROVE NoLostWakeup'
    BY <2>2 DEF WaitEmit, IssueToken, ForgetAnswer
  <2>3. ASSUME NEW w \in Waiters, WaitEmitThrows(w) PROVE NoLostWakeup'
    BY <2>3 DEF WaitEmitThrows, IssueToken, ForgetAnswer
  <2>4. ASSUME NEW w \in Waiters, SpuriousWake(w) \/ SleepAgain(w) PROVE NoLostWakeup'
    BY <2>4 DEF SpuriousWake, SleepAgain
  <2>5. ASSUME NEW w \in Waiters, LeaveWait(w) PROVE NoLostWakeup'
    BY <2>5 DEF LeaveWait
  <2>6. ASSUME NEW id \in Tokens, NEW yes \in BOOLEAN, Answer(id, yes) PROVE NoLostWakeup'
    BY <2>6 DEF Answer, NotifyAll
  <2>7. CASE Cancel
    BY <2>7 DEF Cancel, NotifyAll
  <2>8. CASE Reset
    BY <2>8 DEF Reset
  <2>9. CASE UNCHANGED vars
    BY <2>9 DEF vars
  <2> QED
    BY <2>1, <2>2, <2>3, <2>4, <2>5, <2>6, <2>7, <2>8, <2>9
       DEF Next, WakeAndReturn, Timeout
<1> QED
  BY <1>1, <1>2, GateTypeCorrect, PTL DEF Spec

\* For callers that reset() only between waits: a wait() that was asleep when
\* cancel() ran returns false, even if an approval had been accepted already.
THEOREM CancelWins ==
  ASSUME QuietReset
  PROVE  Spec => []CancelledWaitRefused
<1> DEFINE I == HitStaysCancelled /\ CancelledWaitRefused
<1>1. Init => I
  BY DEF Init, HitStaysCancelled, CancelledWaitRefused, Waiting
<1>2. TypeOK /\ I /\ [Next]_vars => I'
  <2> SUFFICES ASSUME TypeOK, I, [Next]_vars PROVE I'
    OBVIOUS
  <2> USE DEF TypeOK, FlagsOK, gateState, HitStaysCancelled, CancelledWaitRefused, Waiting
  <2>1. ASSUME NEW w \in Waiters, WaitRefused(w) PROVE I'
    BY <2>1 DEF WaitRefused
  <2>2. ASSUME NEW w \in Waiters, WaitEmit(w) PROVE I'
    BY <2>2 DEF WaitEmit, IssueToken
  <2>3. ASSUME NEW w \in Waiters, WaitEmitThrows(w) PROVE I'
    BY <2>3 DEF WaitEmitThrows, IssueToken
  <2>4. ASSUME NEW w \in Waiters, SpuriousWake(w) \/ SleepAgain(w) PROVE I'
    BY <2>4 DEF SpuriousWake, SleepAgain
  <2>5. ASSUME NEW w \in Waiters, Waiting(w), LeaveWait(w) PROVE I'
    BY <2>5 DEF LeaveWait, Granted
  <2>6. ASSUME NEW id \in Tokens, NEW yes \in BOOLEAN, Answer(id, yes) PROVE I'
    BY <2>6 DEF Answer, NotifyAll
  <2>7. CASE Cancel
    BY <2>7 DEF Cancel, NotifyAll
  <2>8. CASE Reset
    BY <2>8 DEF Reset
  <2>9. CASE UNCHANGED vars
    BY <2>9 DEF vars
  <2> QED
    BY <2>1, <2>2, <2>3, <2>4, <2>5, <2>6, <2>7, <2>8, <2>9
       DEF Next, WakeAndReturn, Timeout
<1> QED
  BY <1>1, <1>2, GateTypeCorrect, PTL DEF Spec

-----------------------------------------------------------------------------
\* While emit does not throw, pending_ names a token of a thread that waits.
PendingIsAwaited ==
    pending # NoToken => \E w \in Waiters : Waiting(w) /\ token[w] = pending

\* Unless emit may throw, answer() accepts no token that nobody waits on: late
\* answers, after a timeout or a cancellation, are rejected.
THEOREM LateAnswersRejected ==
  ASSUME ~EmitMayThrow
  PROVE  Spec => ExpiredTokensRejected
<1>1. Init => PendingIsAwaited
  BY DEF Init, PendingIsAwaited
<1>2. TypeOK /\ PendingIsAwaited /\ [Next]_vars => PendingIsAwaited'
  <2> SUFFICES ASSUME TypeOK, PendingIsAwaited, [Next]_vars PROVE PendingIsAwaited'
    OBVIOUS
  <2> USE DEF TypeOK, gateState, PendingIsAwaited, Waiting
  <2>1. ASSUME NEW w \in Waiters, WaitRefused(w) PROVE PendingIsAwaited'
    BY <2>1 DEF WaitRefused
  <2>2. ASSUME NEW w \in Waiters, WaitEmit(w) PROVE PendingIsAwaited'
    BY <2>2 DEF WaitEmit, IssueToken
  <2>3. ASSUME NEW w \in Waiters, WaitEmitThrows(w) PROVE FALSE
    BY <2>3 DEF WaitEmitThrows
  <2>4. ASSUME NEW w \in Waiters, SpuriousWake(w) \/ SleepAgain(w) PROVE PendingIsAwaited'
    BY <2>4 DEF SpuriousWake, SleepAgain
  <2>5. ASSUME NEW w \in Waiters, LeaveWait(w) PROVE PendingIsAwaited'
    BY <2>5 DEF LeaveWait
  <2>6. ASSUME NEW id \in Tokens, NEW yes \in BOOLEAN, Answer(id, yes) PROVE PendingIsAwaited'
    BY <2>6 DEF Answer, NotifyAll
  <2>7. CASE Cancel
    BY <2>7 DEF Cancel, NotifyAll
  <2>8. CASE Reset
    BY <2>8 DEF Reset
  <2>9. CASE UNCHANGED vars
    BY <2>9 DEF vars
  <2> QED
    BY <2>1, <2>2, <2>3, <2>4, <2>5, <2>6, <2>7, <2>8, <2>9
       DEF Next, WakeAndReturn, Timeout
<1>3. TypeOK /\ PendingIsAwaited /\ [Next]_vars =>
        \A t \in Tokens : verdict'[t] # verdict[t] =>
            \E w \in Waiters : Waiting(w) /\ token[w] = t
  <2> SUFFICES ASSUME TypeOK, PendingIsAwaited, [Next]_vars, NEW t \in Tokens, verdict'[t] # verdict[t]
               PROVE  \E w \in Waiters : Waiting(w) /\ token[w] = t
    OBVIOUS
  <2>1. PICK yes \in BOOLEAN : Answer(t, yes)
    BY DEF Next, vars, gateState, TypeOK, WaitRefused, WaitEmit, WaitEmitThrows, IssueToken, SpuriousWake,
           SleepAgain, WakeAndReturn, Timeout, LeaveWait, Answer, Cancel, Reset
  <2> QED
    BY <2>1 DEF Answer, Accepts, PendingIsAwaited
<1> QED
  BY <1>1, <1>2, <1>3, GateTypeCorrect, PTL DEF Spec, ExpiredTokensRejected
=============================================================================
