---------------------------- MODULE AgentSession ----------------------------
(***************************************************************************)
(* arn::core::AgentSession: one conversation with a model provider, shared *)
(* by any number of threads.                                               *)
(*                                                                         *)
(* Every public method but cancel_active_request() holds Impl::mutex from  *)
(* its first line to its last.  A method that does nothing another thread  *)
(* can see in between is one action; prompt() and configure_provider() are *)
(* cut where they publish the provider, call out to provider, tool or      *)
(* callback code, or read the caller's cancel flag again.                  *)
(*                                                                         *)
(* Texts, keys and model names are abstracted to empty / not empty, a tool *)
(* call to the name of the tool, the provider's history to empty or not.   *)
(***************************************************************************)
EXTENDS Naturals, Sequences

CONSTANTS
    Threads,
    Providers,      \* provider objects, each constructed once
    Shared,         \* those the host keeps alive itself
    Tools,          \* tool names a model may call, registered or not
    MaxRounds,      \* config.max_tool_rounds
    MaxCalls,       \* bound: tool calls in one model turn
    NoThread, NoProvider

ASSUME SessionAssumption ==
    /\ Shared \subseteq Providers
    /\ MaxRounds \in Nat
    /\ MaxCalls \in Nat
    /\ NoThread \notin Threads
    /\ NoProvider \notin Providers

VARIABLES
    mutex,      \* the thread holding Impl::mutex, or NoThread
    provider,   \* Impl::provider
    owned,      \* Impl::owned_provider
    destroyed,  \* provider objects whose last reference is gone
    active,     \* Impl::active_provider_, the atomic pointer
    settings,   \* api_key, active_model, tools, instruction and handler
    history,    \* providers whose conversation history is not empty
    pc,         \* where each thread is
    raised,     \* threads whose call's cancel flag is set
    target,     \* the provider a cancelling thread loaded
    calls,      \* prompt(): turn.tool_calls
    responses,  \* prompt(): the responses of this round
    round,      \* prompt(): round
    result,     \* what prompt() is about to return
    requests,   \* history: turns asked of the provider by this prompt
    late,       \* history: turns and tools that ended after the flag was set
    stopped     \* history: prompts that cancel_active_request() has hit

shared == <<mutex, provider, owned, destroyed, active, settings, history>>
locals == <<raised, target, calls, responses, round, result, requests, late, stopped>>
vars == <<mutex, provider, owned, destroyed, active, settings, history, pc,
          raised, target, calls, responses, round, result, requests, late, stopped>>

Text == {"empty", "set"}
Settings == [key : Text, model : Text, tools : SUBSET Tools, options : Text]
Calls == UNION {[1..n -> Tools] : n \in 1..MaxCalls}
Response == [name : Tools, found : {"yes", "no"}]
Results == {"none", "ok", "refused", "failed", "cancelled", "too_many", "thrown"}

\* Published: between the store to active_provider_ and the guard's destructor.
Published == {"request", "tools", "tool", "unpublish"}
Locked == Published \cup {"entered", "unlock", "listing"}
Cancelling == {"cancel_call", "cancel_lock"}

\* The type of the tool calls and responses of a turn.
TurnOK ==
    /\ calls \in [Threads -> Seq(Tools)]
    /\ responses \in [Threads -> Seq(Response)]

\* Every variable of the session has its type.
TypeOK ==
    /\ TurnOK
    /\ mutex \in Threads \cup {NoThread}
    /\ provider \in Providers \cup {NoProvider}
    /\ owned \in Providers \cup {NoProvider}
    /\ destroyed \in SUBSET Providers
    /\ active \in Providers \cup {NoProvider}
    /\ settings \in Settings
    /\ history \in SUBSET Providers
    /\ pc \in [Threads -> {"idle"} \cup Locked \cup Cancelling]
    /\ raised \in SUBSET Threads
    /\ target \in [Threads -> Providers \cup {NoProvider}]
    /\ round \in [Threads -> Nat]
    /\ result \in [Threads -> Results]
    /\ requests \in [Threads -> Nat]
    /\ late \in [Threads -> Nat]
    /\ stopped \in SUBSET Threads

Init ==
    /\ mutex = NoThread
    /\ provider = NoProvider
    /\ owned = NoProvider
    /\ destroyed = {}
    /\ active = NoProvider
    /\ settings = [key |-> "empty", model |-> "empty", tools |-> {}, options |-> "empty"]
    /\ history = {}
    /\ pc = [t \in Threads |-> "idle"]
    /\ raised = {}
    /\ target = [t \in Threads |-> NoProvider]
    /\ calls = [t \in Threads |-> <<>>]
    /\ responses = [t \in Threads |-> <<>>]
    /\ round = [t \in Threads |-> 0]
    /\ result = [t \in Threads |-> "none"]
    /\ requests = [t \in Threads |-> 0]
    /\ late = [t \in Threads |-> 0]
    /\ stopped = {}

-----------------------------------------------------------------------------
(* Configuration.  Each is one critical section, but for the model listing. *)

MayLock(t) == pc[t] = "idle" /\ mutex = NoThread

Goto(t, where) == pc' = [pc EXCEPT ![t] = where]

\* owned_provider gives up its reference and takes one on p.
OwnAfterNothing(p) ==
    /\ owned' = p
    /\ destroyed' = destroyed \cup ({owned} \ (Shared \cup {p}))
Own(p) ==
    /\ owned' = p
    /\ destroyed' = destroyed \cup ({owned} \cap (Providers \ (Shared \cup {p})))

\* The objects a caller can still hand to the session.
Usable == Providers \ destroyed

\* configure_provider() with a provider: swap it in, forget key and models of
\* the old one, then list the models with the mutex held.
ConfigureProvider(t, p, key) ==
    /\ MayLock(t)
    /\ p \in Usable \ ({owned} \ Shared)
    /\ mutex' = t
    /\ Own(p)
    /\ provider' = p
    /\ settings' = [settings EXCEPT !.key = key, !.model = "empty"]
    /\ Goto(t, "listing")
    /\ UNCHANGED <<active, history, locals>>

\* configure_provider(nullptr): the session is left without a provider.
ConfigureNull(t, key) ==
    /\ MayLock(t)
    /\ Own(NoProvider)
    /\ provider' = NoProvider
    /\ settings' = [settings EXCEPT !.key = key, !.model = "empty"]
    /\ UNCHANGED <<mutex, active, history, pc, locals>>

\* list_models() returns or throws; the preferred model becomes active.
ModelsListed(t, model) ==
    /\ pc[t] = "listing"
    /\ settings' = [settings EXCEPT !.model = model]
    /\ mutex' = NoThread
    /\ Goto(t, "idle")
    /\ UNCHANGED <<provider, owned, destroyed, active, history, locals>>

\* set_provider(): a provider the host owns; the selected model stays.
SetProvider(t, p, key) ==
    /\ MayLock(t)
    /\ p \in (Usable \cup {NoProvider}) \ ({owned} \ Shared)
    /\ Own(NoProvider)
    /\ provider' = p
    /\ settings' = [settings EXCEPT !.key = key]
    /\ UNCHANGED <<mutex, active, history, pc, locals>>

SelectModelUnlocked(t, model) ==
    /\ pc[t] = "idle"
    /\ settings' = [settings EXCEPT !.model = model]
    /\ UNCHANGED <<mutex, provider, owned, destroyed, active, history, pc, locals>>
SelectModel(t, model) ==
    /\ MayLock(t)
    /\ settings' = [settings EXCEPT !.model = model]
    /\ UNCHANGED <<mutex, provider, owned, destroyed, active, history, pc, locals>>

SetTools(t, tools) ==
    /\ MayLock(t)
    /\ settings' = [settings EXCEPT !.tools = tools]
    /\ UNCHANGED <<mutex, provider, owned, destroyed, active, history, pc, locals>>

\* set_system_instruction() and set_confirmation_handler().
SetOptions(t, options) ==
    /\ MayLock(t)
    /\ settings' = [settings EXCEPT !.options = options]
    /\ UNCHANGED <<mutex, provider, owned, destroyed, active, history, pc, locals>>

ResetSession(t) ==
    /\ MayLock(t)
    /\ history' = history \ {provider}
    /\ UNCHANGED <<mutex, provider, owned, destroyed, active, settings, pc, locals>>

-----------------------------------------------------------------------------
(* prompt() *)

\* The caller's flag, if it passed one, can be set at any time from outside.
RaiseFlag(t) ==
    /\ pc[t] \in Published \cup {"entered"}
    /\ raised' = raised \cup {t}
    /\ UNCHANGED <<shared, pc, target, calls, responses, round, result,
                   requests, late, stopped>>

Ready == provider # NoProvider /\ settings.key = "set" /\ settings.model = "set"

\* Take the mutex and pass or fail the checks that precede the first turn.
PromptEnter(t, flag) ==
    /\ MayLock(t)
    /\ mutex' = t
    /\ raised' = IF flag THEN raised \cup {t} ELSE raised
    /\ result' = [result EXCEPT ![t] = IF ~Ready THEN "refused"
                                       ELSE IF flag THEN "cancelled" ELSE "none"]
    /\ Goto(t, IF Ready /\ ~flag THEN "entered" ELSE "unlock")
    /\ UNCHANGED <<provider, owned, destroyed, active, settings, history, target,
                   calls, responses, round, requests, late, stopped>>

\* The count of requests, cut off two past the budget.
CountRequest(t) ==
    requests' = [requests EXCEPT ![t] = IF @ > MaxRounds + 1 THEN @ ELSE @ + 1]

\* Trim the history, publish the provider and ask for the first turn.  The
\* provider records the user message, or may skip it if already cancelled.
PublishNothing == UNCHANGED active
Publish == active' = provider
PromptPublish(t) ==
    /\ pc[t] = "entered"
    /\ Publish
    /\ \/ history' = history \cup {provider}
       \/ t \in raised /\ UNCHANGED history
    /\ CountRequest(t)
    /\ Goto(t, "request")
    /\ UNCHANGED <<mutex, provider, owned, destroyed, settings, raised, target,
                   calls, responses, round, result, late, stopped>>

\* Leave the turn loop with a result; the guards' destructors come next.
Return(t, r) ==
    /\ result' = [result EXCEPT ![t] = r]
    /\ Goto(t, "unpublish")

\* A turn or a tool ended; was the flag set by then?
CountLate(t) == late' = [late EXCEPT ![t] = IF t \in raised THEN @ + 1 ELSE @]

\* The checks that follow start_turn() and continue_turn(), in their order:
\* cancel flag, failed turn, final text, round budget, next round of tools.
TurnCancelled(t) ==
    /\ pc[t] = "request"
    /\ t \in raised
    /\ Return(t, "cancelled")
    /\ CountLate(t)
    /\ UNCHANGED <<shared, raised, target, calls, responses, round, requests, stopped>>

TurnFailed(t, r) ==
    /\ pc[t] = "request"
    /\ t \notin raised
    /\ Return(t, r)
    /\ UNCHANGED <<shared, raised, target, calls, responses, round, requests, late, stopped>>

TurnFinal(t) ==
    /\ pc[t] = "request"
    /\ t \notin raised
    /\ Return(t, "ok")
    /\ calls' = [calls EXCEPT ![t] = <<>>]
    /\ UNCHANGED <<shared, raised, target, responses, round, requests, late, stopped>>

\* ++round > max_tool_rounds
ExhaustedLate(t) == round[t] > MaxRounds
Exhausted(t) == round[t] + 1 > MaxRounds

TurnTooMany(t) ==
    /\ pc[t] = "request"
    /\ t \notin raised
    /\ Exhausted(t)
    /\ Return(t, "too_many")
    /\ UNCHANGED <<shared, raised, target, calls, responses, round, requests, late, stopped>>

CountRoundNever(t) == UNCHANGED round
CountRound(t) == round' = [round EXCEPT ![t] = @ + 1]

TurnTools(t, turn) ==
    /\ pc[t] = "request"
    /\ t \notin raised
    /\ ~Exhausted(t)
    /\ CountRound(t)
    /\ calls' = [calls EXCEPT ![t] = turn]
    /\ responses' = [responses EXCEPT ![t] = <<>>]
    /\ Goto(t, "tools")
    /\ UNCHANGED <<shared, raised, target, result, requests, late, stopped>>

AllAnswered(t) == Len(responses[t]) = Len(calls[t])

\* The cancel check before each tool.
MayRunToolRegardless(t) == TRUE
MayRunTool(t) == t \notin raised

ToolStart(t) ==
    /\ pc[t] = "tools"
    /\ ~AllAnswered(t)
    /\ MayRunTool(t)
    /\ Goto(t, "tool")
    /\ UNCHANGED <<shared, locals>>

\* registry.execute(): a tool that is not registered gets an error response.
AnswerFirstCall(t) == calls[t][1]
CallInTurn(t) == calls[t][Len(responses[t]) + 1]
Execute(name) == [name |-> name, found |-> IF name \in settings.tools THEN "yes" ELSE "no"]

ToolDone(t) ==
    /\ pc[t] = "tool"
    /\ responses' = [responses EXCEPT ![t] = Append(@, Execute(CallInTurn(t)))]
    /\ CountLate(t)
    /\ Goto(t, "tools")
    /\ UNCHANGED <<shared, raised, target, calls, round, result, requests, stopped>>

\* The cancel check before a tool, or the one after the last tool, fires.
ToolsCancelled(t) ==
    /\ pc[t] = "tools"
    /\ t \in raised
    /\ Return(t, "cancelled")
    /\ UNCHANGED <<shared, raised, target, calls, responses, round, requests, late, stopped>>

\* The cancel check after the last tool.
MayContinueRegardless(t) == TRUE
MayContinue(t) == t \notin raised

ContinueTurn(t) ==
    /\ pc[t] = "tools"
    /\ AllAnswered(t)
    /\ MayContinue(t)
    /\ history' = history \cup {provider}
    /\ CountRequest(t)
    /\ Goto(t, "request")
    /\ UNCHANGED <<mutex, provider, owned, destroyed, active, settings, raised, target,
                   calls, responses, round, result, late, stopped>>

\* The provider, a tool or a callback throws: unwind through the guards.
Unwind(t) ==
    /\ pc[t] \in {"request", "tool"}
    /\ Return(t, "thrown")
    /\ UNCHANGED <<shared, raised, target, calls, responses, round, requests, late, stopped>>

\* ~ActiveGuard
LeavePublished == UNCHANGED active
Unpublish == active' = NoProvider
PromptUnpublish(t) ==
    /\ pc[t] = "unpublish"
    /\ Unpublish
    /\ Goto(t, "unlock")
    /\ UNCHANGED <<mutex, provider, owned, destroyed, settings, history, locals>>

\* ~lock_guard; prompt()'s locals and the caller's flag go out of use.
PromptUnlock(t) ==
    /\ pc[t] = "unlock"
    /\ mutex' = NoThread
    /\ Goto(t, "idle")
    /\ raised' = raised \ {t}
    /\ calls' = [calls EXCEPT ![t] = <<>>]
    /\ responses' = [responses EXCEPT ![t] = <<>>]
    /\ round' = [round EXCEPT ![t] = 0]
    /\ result' = [result EXCEPT ![t] = "none"]
    /\ requests' = [requests EXCEPT ![t] = 0]
    /\ late' = [late EXCEPT ![t] = 0]
    /\ stopped' = stopped \ {t}
    /\ UNCHANGED <<provider, owned, destroyed, active, settings, history, target>>

-----------------------------------------------------------------------------
(* cancel_active_request() *)

\* The prompts whose provider p is being told to stop.
Stop(p) == stopped' = stopped \cup {t \in Threads : pc[t] \in Published /\ active = p}

\* Load active_provider_ and choose between the two ways to cancel.
CancelLoad(t) ==
    /\ pc[t] = "idle"
    /\ target' = [target EXCEPT ![t] = active]
    /\ Goto(t, IF active # NoProvider THEN "cancel_call" ELSE "cancel_lock")
    /\ UNCHANGED <<shared, raised, calls, responses, round, result, requests, late, stopped>>

\* The loaded provider is called without the mutex.
CancelCall(t) ==
    /\ pc[t] = "cancel_call"
    /\ Stop(target[t])
    /\ target' = [target EXCEPT ![t] = NoProvider]
    /\ Goto(t, "idle")
    /\ UNCHANGED <<shared, raised, calls, responses, round, result, requests, late>>

\* Nothing was published: the current provider is called under the mutex.
CancelLocked(t) ==
    /\ pc[t] = "cancel_lock"
    /\ mutex = NoThread
    /\ Stop(provider)
    /\ Goto(t, "idle")
    /\ UNCHANGED <<shared, raised, target, calls, responses, round, result, requests, late>>

\* A callback of the prompt calls cancel_active_request() on its own thread.
CancelInCallback(t) ==
    /\ pc[t] \in {"request", "tool"}
    /\ active # NoProvider
    /\ Stop(active)
    /\ UNCHANGED <<shared, pc, raised, target, calls, responses, round, result, requests, late>>

-----------------------------------------------------------------------------
\* What a thread inside a call does next.
Step(t) ==
    \/ \E model \in Text : ModelsListed(t, model)
    \/ PromptPublish(t)
    \/ TurnCancelled(t)
    \/ \E r \in {"failed", "cancelled"} : TurnFailed(t, r)
    \/ TurnFinal(t)
    \/ TurnTooMany(t)
    \/ \E turn \in Calls : TurnTools(t, turn)
    \/ ToolStart(t)
    \/ ToolDone(t)
    \/ ToolsCancelled(t)
    \/ ContinueTurn(t)
    \/ Unwind(t)
    \/ PromptUnpublish(t)
    \/ PromptUnlock(t)
    \/ CancelCall(t)

Configure(t) ==
    \/ \E key \in Text :
          \/ \E p \in Providers : ConfigureProvider(t, p, key)
          \/ ConfigureNull(t, key)
          \/ \E p \in Providers \cup {NoProvider} : SetProvider(t, p, key)
    \/ \E model \in Text : SelectModel(t, model)
    \/ \E tools \in SUBSET Tools : SetTools(t, tools)
    \/ \E options \in Text : SetOptions(t, options)
    \/ ResetSession(t)

Next ==
    \E t \in Threads :
        \/ Configure(t)
        \/ \E flag \in BOOLEAN : PromptEnter(t, flag)
        \/ RaiseFlag(t)
        \/ Step(t)
        \/ CancelLoad(t)
        \/ CancelLocked(t)
        \/ CancelInCallback(t)

Spec == Init /\ [][Next]_vars

\* Threads inside a call are scheduled and what they call returns (requests
\* have read timeouts); a thread that keeps finding the mutex free gets it.
FairSpec ==
    /\ Spec
    /\ \A t \in Threads : WF_vars(Step(t)) /\ SF_vars(CancelLocked(t))

-----------------------------------------------------------------------------
(* Properties *)

\* The lock-free pointer never dangles in the session's own state: whatever
\* cancel_active_request() can load is the current provider, alive, in use by
\* the prompt that holds the mutex.
PublishedIsCurrent ==
    active # NoProvider =>
        /\ active = provider
        /\ active \notin destroyed
        /\ \E t \in Threads : mutex = t /\ pc[t] \in Published

\* A callback that calls cancel_active_request() from inside prompt() finds a
\* published provider, so it never tries to lock the mutex its thread holds.
ReentrantCancelSafe ==
    \A t \in Threads : pc[t] \in {"request", "tools", "tool"} => active # NoProvider

\* The session's mutex keeps a prompt's provider alive and its provider, key,
\* model, tools, instruction and handler fixed until it has returned.
PromptSeesOneConfiguration ==
    [][\A t \in Threads :
          pc[t] \in Published \cup {"entered"} =>
              UNCHANGED <<provider, owned, destroyed, settings>>]_vars

\* max_tool_rounds bounds the whole prompt: rounds of tools and, with them,
\* requests sent to the model.
RoundBudget ==
    \A t \in Threads : round[t] <= MaxRounds /\ requests[t] <= MaxRounds + 1

\* continue_turn() is given one response per call of the turn, in call order,
\* with an error for tools that are not registered.
ResponsesAnswerCalls ==
    \A t \in Threads : pc[t] = "request" /\ requests[t] > 1 =>
        /\ Len(responses[t]) = Len(calls[t])
        /\ \A i \in 1..Len(calls[t]) : responses[t][i] = Execute(calls[t][i])

\* Once the flag is set, at most the turn or tool then running still ends, and
\* a prompt that noticed reports the cancellation and nothing else.
CancelStopsPrompt ==
    \A t \in Threads :
        /\ late[t] <= 1
        /\ late[t] > 0 => result[t] \in {"none", "cancelled"}

\* prompt() and configure_provider() return, provided that what they call
\* returns, and so does cancel_active_request(): it is not starved or deadlocked
\* by the prompt whose lock it may wait for.
CallsReturn ==
    \A t \in Threads : pc[t] # "idle" ~> pc[t] = "idle"

\* The provider a cancelling thread is about to call still exists.
CancelTargetAlive ==
    \A t \in Threads : pc[t] = "cancel_call" => target[t] \notin destroyed

\* After cancel_active_request() has hit a prompt, the prompt sends no
\* further request to the model.
CancelBreaksTurnLoop ==
    [][\A t \in Threads : t \in stopped /\ pc[t] \in Published => requests'[t] = requests[t]]_vars
=============================================================================
