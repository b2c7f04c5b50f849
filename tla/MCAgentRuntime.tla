--------------------------- MODULE MCAgentRuntime ---------------------------
(***************************************************************************)
(* AgentRuntime for TLC: three tools of the standard agents, the deleting  *)
(* one asking by itself, and a custom one of two operation classes.        *)
(***************************************************************************)
EXTENDS AgentRuntime, TLC

MCTools == {"read_file", "write_file", "delete_file", "patch"}
FewTools == {"read_file", "write_file"}
MCOpsOf == ("read_file" :> {"read_file"}) @@ ("write_file" :> {"write_file"})
             @@ ("delete_file" :> {"delete_file"}) @@ ("patch" :> {"read_file", "write_file"})
FewOpsOf == [tool \in FewTools |-> MCOpsOf[tool]]

\* A profile that may read; write is what it has configured beyond that.
Profile(id, tools, write) ==
    [id |-> id, allowed_tools |-> tools, permissions |-> ("read_file" :> "allow") @@ write]

\* The standard registry of a host that would rather not be asked.
Registry == register_profile(make_registry,
                Profile("coder", MCTools, "write_file" :> "allow"))
Standard(id) == CHOOSE profile \in find(Registry, id) : TRUE

Task(profile, readOnly, handler) ==
    [valid |-> TRUE, profile |-> profile, read_only |-> readOnly, handler |-> handler]
Invalid == [Task(Standard("explorer"), FALSE, "none") EXCEPT !.valid = FALSE]

MCTasks ==
    {Invalid,
     Task(Standard("coder"), FALSE, "human"),
     Task(Standard("coder"), TRUE, "human"),
     Task(Standard("reviewer"), FALSE, "none"),
     Task(Profile("custom", {"patch"}, "write_file" :> "allow"), FALSE, "none"),
     Task(Profile("custom", {"read_file", "patch"}, NoDecisions), FALSE, "human"),
     Task(Profile("custom", {"write_file", "patch"}, "write_file" :> "ask_user"), FALSE, "none"),
     Task(Profile("custom", MCTools, "write_file" :> "allow"), TRUE, "human")}

\* Two tasks are enough to let runs follow each other.
FewTasks == {Invalid, Task(Standard("coder"), FALSE, "human")}
=============================================================================
