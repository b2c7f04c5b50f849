# Verification of ARN Core

TLA+ models of `arn::core`, the C++ library for agent sessions, runtimes and
workflows; TLC configurations that check them on small instances; and proofs,
checked by TLAPS, of the properties that must hold for every instance.
Paths below are relative to the repository.

## 1. Inventory

| Component | State | Operations | Modelled by |
|---|---|---|---|
| `ConfirmationGate` (`include/arn/core/confirmation/confirmation_gate.hpp`) | one mutex and condition variable; `pending_`, `answered_`, `approved_`, `cancelled_`, `sequence_` | `wait`, `answer`, `cancel`, `reset` | `ConfirmationGate` |
| `AgentSession` (`src/agent/agent_session.cpp`) | provider (owned or borrowed), key, model, tools, handler, all under one mutex; the lock-free `active_provider_` | `prompt` (the turn loop), `configure_provider`, setters, `reset_session`, `cancel_active_request` | `AgentSession` |
| `AgentRuntime` (`src/agent/agent_runtime.cpp`) | `executing`, `active_mutex`, pointers to the running session and its flag | `execute`, `cancel_active_request`; wraps tools by permission | `AgentRuntime`, on top of `AgentSession` |
| `AgentOrchestrator` (`src/agent/agent_orchestrator.cpp`) | `executing_`, `cancel_requested_`, `active_runtime_` under `active_mutex_` | `execute` (explorer, planner, coder, reviewer), `execute_agent`, `cancel_active_execution` | `AgentOrchestrator` |
| Providers (`src/providers/*_provider.cpp`) | `messages_` / `contents_`, the HTTP client, OpenRouter's capability map | `start_turn`, `continue_turn`, `list_models`, `trim_history`, `reset_session`, `cancel_active_request` | `ModelProvider` |
| HTTP requests (`net/http_client.hpp`, `src/net/http_client.cpp`) | per call: attempt, `received_event`, `error_body` | the two retry loops, `stream_post` | `StreamRequest` |
| `SseDecoder` (`net/sse_decoder.hpp`) | `pending_` | `push`, `finish` | `SseDecoder` |
| `AgentPermissions`, `AgentRegistry`, `standard_agents` (`agent/agent_permissions.hpp`, `src/agent/agent_registry.cpp`) | a decision per operation class; profiles by id | `set_decision`, `decision_for`, `register_profile`, `find`, `make_registry` | `StandardAgents`, used by `AgentRuntime` |
| Model listings (`src/providers/provider_utils.cpp`) | the table OpenRouter keeps of them | `parse_model_list`, `parse_openrouter_model_catalog`, `model_capabilities` | `ModelCatalogue`, used by `ModelProvider` |
| `ToolRegistry` (`src/tool/tool_registry.cpp`) | a map of tools | lookup, `execute` | inside `AgentSession`, `AgentRuntime` |
| Payload building, `submit_prompt`, request types, version, example | none, or constants | pure conversions | not modelled (section 8) |

How they interact: a front end calls the orchestrator or a runtime; the
orchestrator makes one runtime per stage; a runtime builds an `AgentSession` on
its stack; the session drives a provider turn by turn, runs tools between turns,
and a tool that needs approval calls a confirmation handler, often a
`ConfirmationGate` that sleeps until another thread answers. Cancellation comes
from any thread, and goes the same way down: orchestrator flag, runtime flag and
session pointer, provider, HTTP client.

What is hard, and what correctness means there:

* gate: waits, answers, timeouts, cancels and resets of several threads on one
  set of flags. Right: a wait returns true only for its own token, approved
  after the wait began and not cancelled; nobody sleeps through a decision.
* session: a pointer published outside the lock, callbacks under the lock, a
  flag read at some points only. Right: the published provider is alive and
  current; budget and configuration hold; a cancelled prompt stops and says so.
* runtime: two mutexes, a session on the stack, permissions around each tool.
  Right: no tool runs without permission or after a cancellation; runs are
  isolated; calls neither deadlock nor touch a dead session.
* registry and permissions: profiles that hosts add next to the standard ones.
  Right: a standard agent never changes anything that nobody approved.
* orchestrator: two atomics and a mutex against four stages. Right: nothing
  runs after a failed or cancelled stage; a cancellation decides the outcome;
  the orchestrator is always freed.
* providers: chunked bytes, broken connections, retries, trimming. Right: no
  answer is shown twice, lost to chunking, or recorded when incomplete; every
  request carries its whole exchange and the system instruction; a listing that
  fails takes nothing from what earlier ones said.

The full list of hazards, each at its line, is in `PROJECT.json`.

## 2. Modules

`X <- Y`: Y extends or instantiates X. `X => A`: X is shown to implement A.

```
SseDecoder <- StreamRequest <- ModelProvider <- MCModelProvider
SseDecoder, RecursionLemmas <- SseDecoderProofs
ModelProvider, SseDecoderProofs <- ModelProviderProofs <- ProviderHistoryProofs
ModelCatalogue <- ModelProvider
ConfirmationGate <- MCConfirmationGate, ConfirmationGateProofs
AgentSession <- MCAgentSession, AgentSessionProofs
AgentSession, StandardAgents <- AgentRuntime <- MCAgentRuntime, AgentRuntimeProofs
RuntimeContract <- AgentOrchestrator <- MCAgentOrchestrator, AgentOrchestratorProofs

AgentRuntime => RuntimeContract        AgentOrchestrator => Workflow
```

The two abstract specifications tie the layers together. `AgentOrchestrator`
knows of a runtime only the actions of `RuntimeContract`, and `AgentRuntime`,
which runs the full session, implements that contract; `Workflow` is what is
left of both for the host.

**ConfirmationGate.** Every method holds `mutex_`, so each is one action, except
`wait`, which is two: issue the token, emit and sleep; then wake (notified,
spuriously or by timeout), re-check and return. `emit` may throw. A token is its
sequence number. `verdict` and `hit` are history variables. Three constants say
what callers promise: `Serialised` (waits do not overlap), `QuietReset` (`reset`
only between waits), `EmitMayThrow`.

**AgentSession.** Threads call any method. A method is cut into steps where
another thread can see or cause something: acquiring the mutex, publishing the
provider, calling out, testing the flag. `cancel_active_request` is the
lock-free load, then either the call through the pointer or the wait for the
mutex. Destroying the last reference to an owned provider is explicit
(`destroyed`). Texts are empty or not, a tool call is the name of its tool.

**AgentRuntime.** Declares the session's variables again and takes its actions
through `S == INSTANCE AgentSession`; adds validation, registration, the
permission wrapper (deny, ask the host, check the flag again, run), the mapping
of outcomes, and cancellation, by threads and from inside callbacks. Stretches
in which no other thread can reach the session are one step. `ProviderPolls`
says that the provider tests the flag before its first callback, as the three
built-in ones do.

**StandardAgents.** `AgentPermissions` and `AgentRegistry` as functions on what
was configured, and the four shipped profiles. A task of `AgentRuntime` carries
its profile whole, so the permissions that a run applies are those of the
registry the host took the profile from.

**RuntimeContract.** `IAgentRuntime` as its caller sees it: idle, starting,
running (attached: the only time a cancellation has an effect), closing, ending;
whether it was struck by a cancellation, whether a tool is acting, whether a tool
call was declined, and the verdict. No tool starts once struck, none is left
behind, and the verdict tells the truth: struck runs end cancelled (or threw),
blocked ones never completed. Under the refinement `phase` is computed from
`executing`, `attached` and the program counter, `struck` is the run's flag.

**AgentOrchestrator.** One call at a time holds `executing_`; the steps follow
`execute` statement by statement where another thread can interfere. The stage's
runtime takes the steps of `RuntimeContract`; factory, runtime and callbacks may
fail or throw. An artifact is its type and the stage it came from; artifacts are
sets, as nothing is decided by their order.

**Workflow.** The orchestrator without threads, locks and runtimes: stages start
in order, each only after the last completed and was accepted and while the host
has not cancelled, and the status says what happened (`Truthful`). The
refinement reads `done` off the recorded executions and the result at hand, and
`active` off the runtime's phase.

**SseDecoder.** `push` and `finish` as functions on sequences of symbols (a data
prefix, line ends, and `Pieces` of payload, of which there may be any), with the
standard's line-by-line reading as the reference, `Dispatched`. The loops are
recursive functions: `Extract` cuts off one event after the other, as `push`
does, and `DataOf` collects the data lines of one; `Read` knows no buffer and goes
symbol by symbol.

**StreamRequest.** One request with its attempts: progress notice, headers,
chunks of any size, interruption or end and flush, the decision to return or to
wait, the wait. A wait may end although the flag has just gone up. Delays are
reduced to their ends; statuses to the classes `should_retry` and the quota test
tell apart. A GET is the same loop without decoder and notices.

**ModelProvider.** The three providers, told apart by `kind` where they differ:
the system message (not Gemini), the early look at the flag (OpenRouter), one
message for all tool responses and the error for an empty answer (Gemini), the
merging of calls by index (not Gemini), the table of capabilities that decides
whether tools are offered (OpenRouter). `Answer` is what the stream parsers make
of the events of an attempt, one after the other, and `Rounds` what the answers to
a prompt and the responses to their calls come to. A message is its role, prompt
and round, and the calls it makes or answers. The session's part (trim, run tools, give up)
is reduced to what the provider sees; module AgentSession has the rest. Each
prompt has a fresh flag of its caller and trims to the limit of its session, any up
to `MaxEntries`, as sessions may share a provider.

**ModelCatalogue.** What the two parsers accept of a listing, what they list,
and the tables it may leave behind. OpenRouter's parser skips the items it cannot
use, sorts, and keeps the first of each id, so that with several items of one id
the table is one of several.

## 3. Runs

| Run | Bounds | Shows |
|---|---|---|
| `gate_serialised` | 2 waiters, 3 tokens, callers keep the promises | token isolation, cancelled waits refused, answers final, dead tokens rejected, a decision releases the waiter |
| `gate_concurrent` | same, no promises | no approval given before a wait satisfies it; no lost wake-up |
| `session` | 2 threads, 1 owned provider that may be replaced by none, 2 tools, 2 rounds of up to 2 calls | the published provider is current and alive, cancelling from a callback never self-deadlocks, round budget, responses match calls, cancellation stops a prompt, one configuration per prompt; prompts, configurations and cancellations return |
| `runtime` | 2 threads, 4 tools, 8 tasks, 2 steps | the runtime implements `RuntimeContract`; only permitted (and approved) tools run; standard agents change nothing unapproved; the session outlives a cancel, runs start clean, a cancelled run asks for no further turn, step budget, no lock cycle, calls return |
| `orchestrator` | 3 threads, 2 initial artifacts, one of a type that a stage produces | the orchestrator implements `Workflow`; artifacts are scoped, the runtime outlives a cancel, calls return |
| `provider` | 3 kinds, 2 prompts, 1 tool round, 2 attempts, 8 bodies, 4 documents, history limits of 1 and 2 | one answer shown, chunking irrelevant, cancellation stops attempts, system instruction kept, requests complete, tools follow the catalogue, only whole answers recorded, requests return |

The largest takes 1.4 million states and two and a half minutes (`provider`);
`session` and `runtime` have 120 thousand each, `orchestrator` 36 thousand.

Why the bounds are enough to meet the interesting cases: two waiters and three
tokens give an overlap and an earlier token; two threads give every race of one
prompt with one canceller or reconfigurer, a third (orchestrator) lets a refused
call and a cancel meet a running one; two rounds and two calls are the least in
which a response can be misplaced or left over from the round before; the eight
tasks cover allowed, asking, denied, read-only, invalid and multi-operation
tools, hosts with and without a handler, and the standard coder and reviewer of a
registry to which the host also tried to add a coder of its own that never asks;
two attempts are the least in which an answer could be replayed; keeping two
entries, a second prompt trims both inside and between exchanges, and keeping one,
everything but the system message (Gemini: but the last message); the bodies
include CRLF, several data lines, a tail without blank line, a third newline,
raw JSON, calls by index, a call without name, and nothing useful; the documents
are no JSON, JSON without a list, a model without tools, and one listed twice
next to a broken item. One bound is smaller than the question: `runtime` has a task
budget below the profile's, and a budget of one step is covered by the theorem
`BudgetHolds` alone. With one provider object, `session` does not replace a provider
by another; `session_stale_cancel` does, and `PublicationSafe` is proved for any set
of them. A chunk may end after any symbol. Every run also checks
for deadlock.

Six runs are expected to find a violation. Each is a disagreement of code and
documentation:

* `gate_two_waiters`: `docs/architecture.md:139` allows concurrent waits, but
  the flags are shared: approving the second token releases the first wait.
* `session_stale_cancel`: `cancel_active_request()` is documented as callable
  from any thread, but calls through a pointer that may meanwhile be dangling.
* `session_cancel_ignored`: it "breaks the turn loop" per
  `docs/agent-session.md:246`, but while a tool runs the loop goes on.
* `runtime_lock_cycle`: with a provider that calls back without testing the flag,
  a cancelling thread and a cancelling callback lock the two mutexes in
  opposite orders, although both are documented as allowed.
* `provider_trim_pairs`: `docs/providers.md:208` says that calls and responses
  are trimmed together; `trim_history` erases single messages. The run keeps one or
  two messages; with the default of 40 the cut falls in the same way.
* `provider_last_event`: `sse_decoder.hpp:72` and `:81`, and
  `docs/streaming-and-cancellation.md:56`, promise that `finish()` delivers a last
  event without its blank line. It does so only if the event begins with its data
  line; behind an `event:` line or a third newline the whole tail goes to the JSON
  parser as it stands, and the end of the answer is lost. The run has two bodies:
  one whose tail begins with its data line, and one whose tail begins with another;
  `ChunkingIrrelevant` of the run `provider` says exactly what becomes of every tail.

## 4. Fairness

* Gate: `WF` of waking and returning of each waiter, once notified. Neither the
  timeout nor a spurious wake-up is needed for a decision to release its waiter.
* Session: `WF` of each thread's steps, that is, providers, tools and callbacks
  return (the code bounds network calls by timeouts, and cannot do without the
  assumption for tools), and `SF` of taking the contended mutex in
  `cancel_active_request`: a mutex that is free again and again is obtained.
* Runtime: `SF` of each thread's steps and of a cancelling callback's, as they
  contain lock acquisitions under contention. A tool that asks again, or a
  callback that cancels, is no step a thread has to take.
* Orchestrator: `SF` of each thread's steps, for the same reason, and of the
  detachment of a stage's runtime: its budget bounds a run (`StepBudget`), and
  `CallsReturn` of the runtime says that it ends.
* Provider: `WF` of the call in progress; connection and read timeouts (10, 30
  and 90 seconds) end every attempt. No fairness is put on cancellation, on the
  callers, or on any particular answer of a server.

## 5. Proofs

For every set of threads, waiters, providers, tools, tasks, bodies and documents
and every budget. Each invariant below is proved inductive, action by action.

* `ConfirmationGateProofs`: type correctness, `AnswerOnce`, `NoReplay`,
  `WakeupsKept`, without assumptions on the callers; `TokenIsolation` assuming
  `Serialised`; `CancelWins` assuming `QuietReset`; `LateAnswersRejected`
  assuming that `emit` does not throw (`PendingIsAwaited`: `pending_` names a
  token of a thread that waits). The invariant is `GateInv`: the flags speak of
  the newest token (`FlagsFollowNewest`) and a waiter holds a token that was
  issued (`WaiterHoldsToken`). It is needed because `ApprovalIsolation` mentions
  only results, and a result is computed from flags that do not name a token.
  With serialised waits, `SoleWaiterIsNewest` adds that the one who waits has
  that newest token; with quiet resets, `HitStaysCancelled` that a cancelled
  waiter still finds the flag.
* `AgentSessionProofs`: type correctness, `PublicationSafe`, `ReentrantCancel`,
  `BudgetHolds`, `CancelHolds`, `AnswersComplete` and the action property
  `ConfigurationFixed`. The invariant `SessionInv` joins `TypeOK` and
  `ToolHasCall` with `SharedInv` (`LockHeld`: a thread inside a locked stretch
  holds the mutex; `ProviderLive`: what is owned or borrowed is not destroyed;
  `PublishedExactly`: the pointer is set exactly in the published stretch) and
  `PromptInv` (`LoopProgress`: requests follow rounds; `LateIsLast`: after one
  late turn or tool the prompt is on its way out). Each conjunct is inductive
  only with the others: that nobody replaces the provider under a prompt rests
  on the lock, that the pointer is current on both. Two theorems say what a caller
  can do about the two runs that find a violation: `TargetAliveUnlessSwapped`
  (`NoSwapUnderCancel`: the session keeps its provider while a cancelling thread is
  between the load and the call) and `LoopBreaksIfFlagged` (`FlagComesFirst`: a
  prompt that is hit has its flag up by then).
* `AgentRuntimeProofs`: type correctness, `SessionOutlives`, `CleanStart`,
  `BudgetHolds`, `PermittedOnly`, `CancelEndsRun`, and `ContractImplemented`, the
  refinement of `RuntimeContract`. `CancelEndsRun` shows, without an assumption,
  that the runtime is a caller such as `LoopBreaksIfFlagged` wants: the property
  the session alone violates holds of the composition (`FlagKnown`: a cancellation
  under way has raised the flag of the run, and no prompt that was hit loses it). The invariant `Inductive` (theorem `RunInvariant`) says that
  one thread is in `execute` (`SoleRun`), that the session is its own but for
  cancellations, which hold `active_mutex` (`SessionIsPrivate`, `CancelHolds`,
  `AttachedRuns`), and what a run has recorded (`ToolsFiltered`, `RunRecord`,
  `RunTask`, `TurnProgress`, `FreshUntilRequest`, `CancelKnown`). It is needed
  because the contract speaks of one run, while the variables are shared by
  every thread: which thread's program counter tells the phase is `SoleRun`.
  `NoLockCycleIfPolling` assumes `ProviderPolls`; the run `runtime_lock_cycle`
  shows that it must. `StandardAgentsAsk` assumes that tasks with a standard id
  carry the profile that `find` gives in a registry satisfying `HoldsStandard`;
  the lemma `RegisterKeepsStandard` shows that `make_registry` does and that no
  `register_profile` can change it. A host that makes up its own profile named
  "coder" is outside the assumption.
* `AgentOrchestratorProofs`: type correctness, `RuntimeOutlives`,
  `ContextScoped`, and `WorkflowImplemented`, the refinement of `Workflow`. The
  invariant `CallInv` says that `executing_` belongs to one thread and that
  `active_runtime_` is that of its current stage (`SoleCall`, `CancelHolds`,
  `RuntimeInPlace`); `StageInv` what the record of the call is at each of its
  places. The second is needed because `Workflow` decides by how stages ended,
  and the code by the result at hand, the record and the flag.
* `SseDecoderProofs`, about the decoder alone: `ChunksDoNotMatter` (two chunks
  give what their join gives), `PushReadsLines` (the loop that looks for blank
  lines dispatches exactly what a reader of lines does) and `FinishReadsTail` (at
  the end of a stream, a tail that begins with its data line gives the events of
  the stream closed by a blank line; any other tail is handed over raw), for every
  stream over any `Pieces`. The lemma under all three is `ReadEvent`: a reader
  that starts on a fresh line takes the symbols up to the first blank line to the
  one event `DataOf` collects, and is then fresh again, so that `ReadNothing` and
  `ExtractReads` follow by induction on the length of what is pending.
* `ModelProviderProofs`: type correctness, `ChunksDoNotShow`, `NeverReplayed`,
  `CancelStops`, `RecordedWhole`, `ToolsFollow`. `RequestInv` (theorem
  `AttemptsApart`): only the last attempt has shown anything, and an attempt begun
  with the flag up is the last. `StreamInv` (theorem `StreamKept`): while an
  attempt receives, its events and `pending_` are what `Extract` makes of the
  bytes fed so far; this is inductive by `ChunksDoNotMatter`, whereas
  `ChunkingIrrelevant` speaks of what the lines say and is not. With a server that
  begins every unterminated last event with its data line (`DataFirst`), the last
  event is always delivered (`LastEventReadIfDataFirst`; `FedOfBody`: what a complete
  stream was fed is one of the bodies). `TypeInv` adds to
  the types the rounds of a prompt and the attempt a retry still has.
  `CatalogueInv`: the table says what the last listing said, and the turn in
  progress was built from it.
* `ProviderHistoryProofs`: `SystemStays` and `RequestsAreComplete`. `SystemInv`: a
  conversation in use is not empty, and the system message is the first and the
  only one; it rests on what `trim_history` keeps (`TrimIs`), which is arithmetic
  on positions. `HistoryInv`: from its trim on, a conversation is at most
  `MaxEntries` older messages followed by the exchange so far (`FollowedBy`), while
  tools run without the responses to the last answer. It is needed because
  `RequestIsComplete` speaks only of the moments a request is out, and says nothing
  of where the older messages end. `PairsKeptUnlessTrimmed`: where trimming never
  cuts (`CutsNothing`), no response is parted from its call, so `trim_history` is
  the only cause of what the run `provider_trim_pairs` finds.
* `RecursionLemmas`, cited by all of these: functions defined by recursion, and
  induction, over sequences. The library's theorems for both take an operator as a
  parameter, which the provers cannot instantiate. Here the hypothesis of an
  induction is a set instead (`MeasureInduction`, `LengthInduction`,
  `AppendInduction`: a set that holds the empty sequence and is closed under
  appending holds every sequence) and the steps of a recursion are functions
  (`MeasureRecursion`, `AppendRecursion`). What a recursive definition computes
  for every input is thus proved from the existence of least numbers alone.

Assumptions are those in the modules (`GateAssumption`, `SessionAssumption`,
`RuntimeAssumption`, `OrchestratorAssumption`, `ProviderAssumption`): budgets are
numbers, the null values are no members, operation classes and documents are of
their kind.

Model-checked only:

* every liveness property, and the fairness of the refinements (safety parts are
  implemented, `CallsReturn` and `RequestsReturn` are properties of their own);
* the absence of deadlock, which is about what is enabled.

The properties of the six runs that expect a violation are false of the code as
it is. Each has a theorem that says under which discipline of its callers, or of the
server, it holds: `TokenIsolation`, `NoLockCycleIfPolling`,
`TargetAliveUnlessSwapped`, `LoopBreaksIfFlagged`, `PairsKeptUnlessTrimmed` and
`LastEventReadIfDataFirst`. A discipline of the callers is
stated as a conjunct of the specification (`Spec /\ [][NoSwapUnderCancel]_vars`).

## 6. Mutants

Each property of each passing run has a mutation of the modelled code that TLC
must find (`PROJECT.json`, "mutants"): a dropped test of a flag, an unpublished
pointer left behind, an off-by-one in a budget, a trim that forgets the system
message, and so on. The mutated forms stand right before the definitions they
replace (`ReturnsDespiteEvents` before `Returns`) and are used nowhere else.

## 7. Reading the models

A definition has the name of the function or member it stands for where TLA+
allows it; `PROJECT.json` maps each to its lines. A variable marked "history"
exists only for a property. Bounds (`MaxRequests`, `MaxCalls`, `MaxPrompts`)
are named as such where declared.

## 8. Not modelled

* `register_tool`, `unregister_tool`, `clear` of `ToolRegistry`: a registry has no
  lock and must not change while shared.
* The texts of payloads, schemas and errors, `preferred_model`: conversions
  without state. Of an event the models keep its parts; an event that does not
  parse contributes nothing, as in the code. A throwing `on_text` is swallowed by
  the same handler and is not told apart.
* `OpenRouterProvider::set_config`, which replaces the HTTP client and keeps the
  conversation; `submit_prompt`, one prompt on a session of its own.
* Names, descriptions, instructions and `model_policy` of profiles, by which the
  core decides nothing; the getters of `AgentRegistry`.
* The path for models without system instructions, which no catalogue entry
  selects.
* Lengths of delays and the jitter; the `Retry-After` of zero seconds is covered
  by a wait that may end at once.
* A history limit of zero (excluded by `ProviderAssumption`): with a system
  message `trim_history` would erase past the end.
* Unlocked getters of `AgentSession` (a data race in the host's hands), and
  `emit` answering on its own thread, which the documentation forbids.
* The example, the version header and the plain data types.

Behaviours seen in the models to which no run is devoted: a cancellation that
finds nothing published waits for the session's lock and so for the whole
prompt; `reset` between `cancel` and the relock makes the gate forget a
cancellation (`QuietReset` excludes it in `gate_serialised`; `NoStaleApproval` of
`gate_concurrent` holds with it); after an `emit` that threw, the gate still accepts an answer to the
token nobody waits on (the next wait forgets it); a cancellation forwarded while
a stage's runtime is not yet registered is missed by that runtime, and noticed
after the stage; after a
cancelled, failed or over-budget turn, calls without responses remain in the
conversation.

One limit of the layering: `RuntimeContract` cancels a runtime in one step, so the
lock cycle that `runtime_lock_cycle` shows is not visible at the orchestrator.
What is checked and proved of it there is, like `NoLockCycle`, about providers that
test the flag before they call back.

## 9. Plan

Done, in this order: gate, session, runtime on top of the session, orchestrator,
decoder, requests, providers; registry, permissions and catalogue; the contracts
of runtime and workflow with their refinements; proofs of all five stateful
components; recursion over data, with it the decoder, the types and the requests
of the providers.

Left:

1. The turn contract of `IModelProvider` that `AgentSession` relies on, as a
   specification of its own, implemented by `ModelProvider`.
2. The gate composed with the runtime's confirmation handler: how long a
   cancelled run may sit in a gate that nobody cancels. Today the handler is a
   callback of `AgentRuntime` that returns.
