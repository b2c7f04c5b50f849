---------------------------- MODULE ModelProvider ----------------------------
(***************************************************************************)
(* The three IModelProvider implementations (DeepSeekProvider,             *)
(* OpenRouterProvider, GeminiProvider): the conversation each keeps, the   *)
(* turns AgentSession drives, and the request each turn makes (module      *)
(* StreamRequest).                                                         *)
(*                                                                         *)
(* kind says which one it is.  A message is known by its role, the prompt  *)
(* and the round it belongs to, and calls: how many calls an assistant     *)
(* message makes, which call a tool message answers.  Gemini's messages    *)
(* are the entries of contents_, with role "model" written "assistant" and *)
(* a list of functionResponse parts written as a tool message.             *)
(***************************************************************************)
EXTENDS StreamRequest, ModelCatalogue, FiniteSets

CONSTANTS
    MaxEntries,     \* the largest AgentConfig::max_history_entries of its sessions
    MaxRounds,      \* AgentConfig::max_tool_rounds
    MaxPrompts,     \* bound: prompts in a behaviour
    Documents,      \* what a server may answer to list_models()
    Model           \* the model the session has selected

\* Trimming to zero entries would erase past the system message.
ASSUME ProviderAssumption ==
    /\ \A document \in Documents :
          /\ document.form \in Forms
          /\ \A item \in document.items : item.use \in Uses /\ item.tools \in Claims
    /\ MaxEntries \in Nat \ {0}
    /\ MaxRounds \in Nat
    /\ MaxPrompts \in Nat

VARIABLES
    kind,           \* the provider's class
    instruction,    \* AgentConfig::system_instruction is not empty
    messages,       \* messages_ or contents_
    phase,          \* what the provider, or the session driving it, is doing
    outcome,        \* how the last turn or listing ended
    prompts,        \* prompts so far
    capabilities,   \* model_capabilities_: which models take tools
    offered,        \* the payload of the turn in progress offers the tools
    said,           \* history: what the last listing that succeeded said of Model's tools
    asked           \* history: calls of each answer to the current prompt

catalogueVars == <<capabilities, offered, said>>
providerVars == <<kind, instruction, messages, phase, outcome, prompts, capabilities, offered,
                  said, asked>>
vars == <<requestVars, cancelled, providerVars>>

Kinds == {"deepseek", "openrouter", "gemini"}
Message == [role : {"system", "user", "assistant", "tool"}, prompt : 0..MaxPrompts,
            round : 0..MaxRounds + 1, calls : Nat]

\* Every variable of the provider and of its request has its type; no request
\* is attempted more than MaxAttempts times.
TypeOK ==
    /\ RequestTypeOK
    /\ kind \in Kinds
    /\ instruction \in BOOLEAN
    /\ messages \in Seq(Message)
    /\ phase \in {"idle", "start", "enter", "request", "tools", "listing"}
    /\ outcome \in {"none", "ok", "failed", "cancelled", "threw"}
    /\ prompts \in 0..MaxPrompts
    /\ \A model \in DOMAIN capabilities : capabilities[model] \in BOOLEAN
    /\ offered \in BOOLEAN
    /\ said \subseteq Claims
    /\ asked \in Seq(Nat)

Init ==
    /\ RequestInit
    /\ kind \in Kinds
    /\ instruction \in BOOLEAN
    /\ messages = <<>>
    /\ phase = "idle"
    /\ outcome = "none"
    /\ prompts = 0
    /\ capabilities = [model \in {} |-> TRUE]
    /\ offered = FALSE
    /\ said = {}
    /\ asked = <<>>

-----------------------------------------------------------------------------
(* What a turn adds to the conversation *)

System == [role |-> "system", prompt |-> 0, round |-> 0, calls |-> 0]
User(p) == [role |-> "user", prompt |-> p, round |-> 0, calls |-> 0]
Assistant(p, r, n) == [role |-> "assistant", prompt |-> p, round |-> r, calls |-> n]
Tool(p, r, i) == [role |-> "tool", prompt |-> p, round |-> r, calls |-> i]

\* One message for each response; Gemini puts all of them into one.
Responses(k, p, r, n) ==
    IF k = "gemini" THEN <<Tool(p, r, n)>> ELSE [i \in 1..n |-> Tool(p, r, i)]

TrimAll(history, max_entries) ==
    IF Len(history) <= max_entries THEN history
    ELSE SubSeq(history, Len(history) - max_entries + 1, Len(history))
\* trim_history(max_entries): drop the oldest entries after the system message.
Trim(history, max_entries) ==
    LET keep == IF history # <<>> /\ history[1].role = "system" THEN 1 ELSE 0
        excess == Len(history) - max_entries
    IN IF excess <= 0 THEN history
       ELSE SubSeq(history, 1, keep) \o SubSeq(history, keep + excess + 1, Len(history))

\* The messages start_turn() and continue_turn() append before the request.
Started(history, p) ==
    (IF history = <<>> /\ instruction /\ kind # "gemini" THEN <<System>> ELSE history)
      \o <<User(p)>>

ContinuedTrimming(history, p, r, n) == Trim(history \o Responses(kind, p, r, n), MaxEntries)
Continued(history, p, r, n) == history \o Responses(kind, p, r, n)

-----------------------------------------------------------------------------
(* What the chunks of a stream add to an answer *)

\* "text" is a piece of text, "call1" and "call2" are calls with index 0 and 1,
\* "badcall" is one without a usable name.
PartsOf[event \in Seq(Symbols)] ==
    IF event = <<>> THEN <<>>
    ELSE IF Last(event) \in {"text", "call1", "call2", "badcall"}
         THEN Append(PartsOf[Front(event)], Last(event))
    ELSE PartsOf[Front(event)]

\* An event has no parts when it does not parse, as "[DONE]", an error packet or
\* a tail that is no JSON.
Parts(event) == IF ToSet(event) \cap {"junk", "data"} # {} THEN <<>> ELSE PartsOf[event]

AllParts[seen \in Seq(Seq(Symbols))] ==
    IF seen = <<>> THEN <<>> ELSE AllParts[Front(seen)] \o Parts(Last(seen))

Answer == AllParts[events]

\* Calls are merged by index; Gemini has no index and appends.
CallCount ==
    LET calls == {i \in 1..Len(Answer) : Answer[i] # "text"}
    IN IF kind = "gemini" THEN Cardinality(calls)
       ELSE IF "call2" \in ToSet(Answer) THEN 2
       ELSE IF calls # {} THEN 1 ELSE 0

Readable == "badcall" \notin ToSet(Answer)
EmptyAnswer == kind = "gemini" /\ Answer = <<>>

-----------------------------------------------------------------------------
(* The turns of a prompt *)

\* AgentSession::prompt() finds the caller's flag down and trims the history to
\* its session's limit; sessions may share a provider (set_provider).
PromptWith(max_entries) ==
    /\ phase = "idle"
    /\ prompts < MaxPrompts
    /\ prompts' = prompts + 1
    /\ asked' = <<>>
    /\ cancelled' = FALSE
    /\ messages' = Trim(messages, max_entries)
    /\ phase' = "start"
    /\ outcome' = "none"
    /\ UNCHANGED <<requestVars, kind, instruction, catalogueVars>>

Prompt == \E max_entries \in 1..MaxEntries : PromptWith(max_entries)

\* OpenRouter looks at the flag before it touches the conversation.
RefusedEarly == kind = "openrouter" /\ cancelled

StartTurn ==
    /\ phase = "start"
    /\ ~RefusedEarly
    /\ messages' = Started(messages, prompts)
    /\ phase' = "enter"
    /\ UNCHANGED <<requestVars, cancelled, kind, instruction, outcome,
                   prompts, asked, catalogueVars>>

\* The session has run the tools and hands in their responses.
ContinueTurn ==
    /\ phase = "tools"
    /\ ~RefusedEarly
    /\ Len(asked) <= MaxRounds
    /\ messages' = Continued(messages, prompts, Len(asked), Last(asked))
    /\ phase' = "enter"
    /\ UNCHANGED <<requestVars, cancelled, kind, instruction, outcome,
                   prompts, asked, catalogueVars>>

RefuseTurn ==
    /\ phase \in {"start", "tools"}
    /\ RefusedEarly
    /\ outcome' = "cancelled"
    /\ phase' = "idle"
    /\ UNCHANGED <<requestVars, cancelled, kind, instruction, messages,
                   prompts, asked, catalogueVars>>

\* The session gives the turn up: cancelled between the tools, or out of rounds.
AbandonTurn ==
    /\ phase = "tools"
    /\ cancelled \/ Len(asked) > MaxRounds
    /\ outcome' = IF cancelled THEN "cancelled" ELSE "failed"
    /\ phase' = "idle"
    /\ UNCHANGED <<requestVars, cancelled, kind, instruction, messages,
                   prompts, asked, catalogueVars>>

\* A progress callback or a tool throws out of the session.
ToolsThrow ==
    /\ phase = "tools"
    /\ Len(asked) <= MaxRounds
    /\ outcome' = "threw"
    /\ phase' = "idle"
    /\ UNCHANGED <<requestVars, cancelled, kind, instruction, messages,
                   prompts, asked, catalogueVars>>

\* build_..._payload(): only OpenRouter's depends on the model; the session has
\* registered some tools.
OffersTools == kind = "openrouter" => SupportsTools(capabilities, Model)

\* execute_turn_request() up to the request.
EnterRequest ==
    /\ phase = "enter"
    /\ ~cancelled
    /\ BeginRequest("stream")
    /\ offered' = OffersTools
    /\ phase' = "request"
    /\ UNCHANGED <<cancelled, kind, instruction, messages, outcome, prompts,
                   asked, capabilities, said>>

EnterCancelled ==
    /\ phase = "enter"
    /\ cancelled
    /\ outcome' = "cancelled"
    /\ phase' = "idle"
    /\ UNCHANGED <<requestVars, cancelled, kind, instruction, messages,
                   prompts, asked, catalogueVars>>

\* The request has returned and no answer comes of it.
NotAnsweredByError == cancelled \/ response \notin {"ok"} \cup Errors \/ EmptyAnswer
NotAnswered == cancelled \/ response # "ok" \/ EmptyAnswer

TurnFails ==
    /\ phase = "request"
    /\ step = "done"
    /\ NotAnswered
    /\ outcome' = IF cancelled THEN "cancelled" ELSE "failed"
    /\ phase' = "idle"
    /\ offered' = FALSE
    /\ EndRequest
    /\ UNCHANGED <<cancelled, kind, instruction, messages, prompts, asked,
                   capabilities, said>>

\* The answer joins the conversation before its calls are read; with calls, the
\* session goes on to run them.
TurnAnswered ==
    /\ phase = "request"
    /\ step = "done"
    /\ ~NotAnswered
    /\ messages' = Append(messages, Assistant(prompts, Len(asked) + 1, CallCount))
    /\ asked' = Append(asked, CallCount)
    /\ outcome' = IF Readable THEN "ok" ELSE "failed"
    /\ phase' = IF Readable /\ CallCount > 0 THEN "tools" ELSE "idle"
    /\ offered' = FALSE
    /\ EndRequest
    /\ UNCHANGED <<cancelled, kind, instruction, prompts, capabilities, said>>

\* An exception of on_progress leaves the provider and the session.
TurnThrows ==
    /\ phase = "request"
    /\ step = "threw"
    /\ outcome' = "threw"
    /\ phase' = "idle"
    /\ offered' = FALSE
    /\ EndRequest
    /\ UNCHANGED <<cancelled, kind, instruction, messages, prompts, asked,
                   capabilities, said>>

-----------------------------------------------------------------------------
(* The other operations *)

ListModels ==
    /\ phase = "idle"
    /\ ~RefusedEarly
    /\ BeginRequest("get")
    /\ phase' = "listing"
    /\ outcome' = "none"
    /\ UNCHANGED <<cancelled, kind, instruction, messages, prompts, asked,
                   catalogueVars>>

ListRefused ==
    /\ phase = "idle"
    /\ RefusedEarly
    /\ outcome' = "cancelled"
    /\ UNCHANGED <<requestVars, cancelled, kind, instruction, messages, phase,
                   prompts, asked, catalogueVars>>

\* The server answers with document; a listing that fails, or is cancelled on
\* OpenRouter, leaves the table of the one before.
DocumentIsReadable(document) == response = "ok" /\ ReadableListing(kind, document)
Learns(document) == DocumentIsReadable(document) /\ ~RefusedEarly

KeepsNothing(document) ==
    IF Learns(document) THEN Tables(document) ELSE {[model \in {} |-> TRUE]}
Learned(document) ==
    IF Learns(document) THEN Tables(document) ELSE {capabilities}

Listed(document) ==
    /\ phase = "listing"
    /\ step = "done"
    /\ outcome' = IF RefusedEarly THEN "cancelled"
                  ELSE IF Learns(document) THEN "ok" ELSE "failed"
    /\ IF kind = "openrouter" THEN capabilities' \in Learned(document)
                              ELSE UNCHANGED capabilities
    /\ said' = IF kind = "openrouter" /\ Learns(document)
               THEN {item.tools : item \in {i \in Usable(kind, document) : i.id = Model}}
               ELSE said
    /\ phase' = "idle"
    /\ EndRequest
    /\ UNCHANGED <<cancelled, kind, instruction, messages, prompts, asked,
                   offered>>

\* reset_session().
ResetSession ==
    /\ phase = "idle"
    /\ messages' = <<>>
    /\ UNCHANGED <<requestVars, cancelled, kind, instruction, phase, outcome,
                   prompts, asked, catalogueVars>>

\* Another thread raises the flag.
Cancel ==
    /\ ~cancelled
    /\ cancelled' = TRUE
    /\ UNCHANGED <<requestVars, providerVars>>

TurnStep ==
    \/ StartTurn
    \/ ContinueTurn
    \/ RefuseTurn
    \/ AbandonTurn
    \/ ToolsThrow
    \/ EnterRequest
    \/ EnterCancelled
    \/ TurnFails
    \/ TurnAnswered
    \/ TurnThrows
    \/ \E document \in Documents : Listed(document)

Request == RequestStep /\ UNCHANGED providerVars

Next == Prompt \/ ListModels \/ ListRefused \/ ResetSession \/ Cancel \/ TurnStep \/ Request

Spec == Init /\ [][Next]_vars

\* A call in progress keeps running; the connection and read timeouts end a
\* wait for the server, so the network never leaves an attempt without an end.
FairSpec == Spec /\ WF_vars(TurnStep \/ Request)

-----------------------------------------------------------------------------
(* Properties *)

\* A conversation that was given a system instruction keeps it, once, as its
\* first message, through trims, cancelled turns and resets (trim_history,
\* start_turn).
SystemKept ==
    (instruction /\ kind # "gemini" /\ messages # <<>>) =>
        \A i \in 1..Len(messages) : messages[i].role = "system" <=> i = 1

\* Each answer to the p-th prompt with the responses to all of its calls.
Rounds(k, p) ==
    LET rounds[calls \in Seq(Nat)] ==
            IF calls = <<>> THEN <<>>
            ELSE rounds[Front(calls)] \o <<Assistant(p, Len(calls), Last(calls))>>
                                      \o Responses(k, p, Len(calls), Last(calls))
    IN rounds

\* The exchange of the current prompt: its question and its rounds.
Exchange == <<User(prompts)>> \o Rounds(kind, prompts)[asked]

\* Whatever was trimmed, every request carries the whole exchange of its prompt
\* (the question, and every call followed by every response to it) and at most
\* MaxEntries messages of earlier ones, however those ended.
RequestIsComplete ==
    phase = "request" => /\ IsSuffix(Exchange, messages)
                         /\ Len(messages) <= MaxEntries + Len(Exchange)

\* An answer joins the conversation only when its stream was received to the
\* end, by the one attempt that showed anything: text shown by a turn that then
\* failed, threw or was cancelled is never recorded (execute_turn_request).
RecordedAnswerIsWhole ==
    [][phase = "request" /\ messages' # messages => body = <<>> /\ shown \subseteq {attempt}]_vars

\* OpenRouter is offered the tools unless the last listing that succeeded says
\* that the model does not take them, however many listings failed, were
\* cancelled or were unreadable since (list_models, build_openrouter_payload).
ToolsFollowTheCatalogue ==
    phase = "request" /\ kind = "openrouter" =>
        IF offered THEN said # {"no"} ELSE "no" \in said

\* No tool response is left without the message that made its call.
PairsKept ==
    \A i \in 1..Len(messages) : messages[i].role = "tool" =>
        \E j \in 1..i - 1 : /\ messages[j].role = "assistant"
                            /\ messages[j].prompt = messages[i].prompt
                            /\ messages[j].round = messages[i].round

\* Every turn and every listing returns, within its attempts.
RequestsReturn == phase # "idle" ~> phase = "idle"
=============================================================================
