------------------------------ MODULE AgentRules ------------------------------
(***************************************************************************)
(* Who must agree before an agent's operation happens                      *)
(* (src/internal/mcp/policy.go and session.go, src/internal/resolve/env.go)*)
(*                                                                         *)
(* The decision functions of the code, as operators without a state.       *)
(* AgentPolicy checks them against the world they are asked about, and     *)
(* AgentCalls uses them where the tool handlers do.                        *)
(***************************************************************************)
EXTENDS Integers

Capabilities == {"read", "run", "write", "session"}

\* The person's switches, and the per-machine setting that tightens sends.
Switches == [held : SUBSET Capabilities, alwaysConfirmSends : BOOLEAN]

AgentPolicies == {"unset", "deny", "confirm", "allow"}

\* What reading an environment file accepts: validateAgents.
ValidEnv(m) == ~(m.agents = "allow" /\ m.confirmBeforeSend)

Environments ==
    {m \in [agents : AgentPolicies, confirmBeforeSend : BOOLEAN] : ValidEnv(m)}

\* No environment selected: the zero value of the struct.
NoEnvironment == [agents |-> "unset", confirmBeforeSend |-> FALSE]

Reviews == {"reviewed", "unreviewed", "no-repository"}

Sends == [env : Environments, review : Reviews, usesSecret : BOOLEAN]

EffectivePolicy(m) == IF m.agents = "unset" THEN "confirm" ELSE m.agents

-----------------------------------------------------------------------------
Deny         == [outcome |-> "deny", surface |-> "none", danger |-> FALSE]
AskInWindow  == [outcome |-> "confirm", surface |-> "window", danger |-> FALSE]
AskAsDanger  == [outcome |-> "confirm", surface |-> "window", danger |-> TRUE]
AskAnywhere  == [outcome |-> "confirm", surface |-> "either", danger |-> FALSE]
Proceed      == [outcome |-> "proceed", surface |-> "either", danger |-> FALSE]

Verdicts == {Deny, AskInWindow, AskAsDanger, AskAnywhere, Proceed}

\* Mutant of Decide: the machine's own setting asked before the review gate.
DecideSettingFirst(g, s) ==
    IF "run" \notin g.held THEN Deny
    ELSE IF EffectivePolicy(s.env) = "deny" THEN Deny
    ELSE IF g.alwaysConfirmSends THEN AskAnywhere
    ELSE IF s.review = "unreviewed"
         THEN IF s.usesSecret THEN AskAsDanger ELSE AskInWindow
    ELSE IF s.env.confirmBeforeSend THEN AskInWindow
    ELSE IF EffectivePolicy(s.env) = "confirm" THEN AskAnywhere
    ELSE Proceed

\* The order of the clauses is the order of authority.
Decide(g, s) ==
    IF "run" \notin g.held THEN Deny
    ELSE IF EffectivePolicy(s.env) = "deny" THEN Deny
    ELSE IF s.review = "unreviewed"
         THEN IF s.usesSecret THEN AskAsDanger ELSE AskInWindow
    ELSE IF s.env.confirmBeforeSend THEN AskInWindow
    ELSE IF EffectivePolicy(s.env) = "confirm" \/ g.alwaysConfirmSends
         THEN AskAnywhere
    ELSE Proceed

DecideSessionWrite(g, m) ==
    IF "session" \notin g.held \/ EffectivePolicy(m) = "deny" THEN Deny
    ELSE AskInWindow

\* ReviewOf: git's word on one path; only a clean file has been reviewed.
GitStatuses == {"no-repository", "clean", "modified", "staged", "untracked"}

\* Mutant of ReviewOf: staging taken for review.
StagedIsReviewed(status) ==
    IF status = "no-repository" THEN "no-repository"
    ELSE IF status \in {"clean", "staged"} THEN "reviewed" ELSE "unreviewed"

ReviewOf(status) ==
    IF status = "no-repository" THEN "no-repository"
    ELSE IF status = "clean" THEN "reviewed" ELSE "unreviewed"
=============================================================================
