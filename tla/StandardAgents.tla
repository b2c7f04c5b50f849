--------------------------- MODULE StandardAgents ---------------------------
(***************************************************************************)
(* arn::core::AgentPermissions, AgentRegistry and standard_agents: the     *)
(* decisions of a profile, the catalogue of profiles by id, and the four   *)
(* profiles the library ships.                                             *)
(*                                                                         *)
(* A permission table and a registry are functions on what was configured  *)
(* (std::map).  Names, descriptions, instructions and model_policy are     *)
(* left out: nothing in the core decides by them.                          *)
(***************************************************************************)
EXTENDS FiniteSets

OperationClass == {"read_file", "write_file", "delete_file", "run_command", "network",
                   "git_commit", "git_push"}
PermissionDecision == {"allow", "deny", "ask_user"}

-----------------------------------------------------------------------------
(* AgentPermissions *)

NoDecisions == [op \in {} |-> "deny"]

\* decisions_[operation] = decision
set_decision(decisions, operation, decision) ==
    [op \in DOMAIN decisions \cup {operation} |->
        IF op = operation THEN decision ELSE decisions[op]]

\* Unconfigured operations are denied.
decision_for(decisions, operation) ==
    IF operation \in OperationClass \cap DOMAIN decisions THEN decisions[operation] ELSE "deny"

-----------------------------------------------------------------------------
(* AgentRegistry *)

NoProfiles == [id \in {} |-> {}]

Replaces(profiles, profile) ==
    [id \in DOMAIN profiles \cup {profile.id} |->
        IF id = profile.id THEN profile ELSE profiles[id]]

\* An empty id, or one that is taken, changes nothing.
register_profile(profiles, profile) ==
    IF profile.id = "" THEN profiles
    ELSE [id \in DOMAIN profiles \cup {profile.id} |->
             IF id \in DOMAIN profiles THEN profiles[id] ELSE profile]

\* The profile of that id, as a set of at most one.
find(profiles, id) == {profiles[i] : i \in {id} \cap DOMAIN profiles}

-----------------------------------------------------------------------------
(* standard_agents *)

read_only_tools == {"list_files", "read_file", "search_files"}
read_only_permissions == set_decision(NoDecisions, "read_file", "allow")

make_read_only_profile(id) ==
    [id |-> id, allowed_tools |-> read_only_tools, permissions |-> read_only_permissions]

explorer == make_read_only_profile("explorer")
planner == make_read_only_profile("planner")
reviewer == make_read_only_profile("reviewer")

coder_permissions ==
    set_decision(set_decision(read_only_permissions, "write_file", "ask_user"),
                 "delete_file", "ask_user")
coder ==
    [id |-> "coder", allowed_tools |-> read_only_tools \cup {"write_file", "delete_file"},
     permissions |-> coder_permissions]

make_registry ==
    register_profile(register_profile(register_profile(register_profile(
        NoProfiles, explorer), planner), coder), reviewer)

StandardIds == DOMAIN make_registry
=============================================================================
