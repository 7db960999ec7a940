----------------------------- MODULE AgentPolicy -----------------------------
(***************************************************************************)
(* The world the rules are asked about: a person flips a switch, an        *)
(* environment file is saved, a request is edited, staged or committed,    *)
(* and the next call decides afresh (src/internal/mcp/policy.go).          *)
(***************************************************************************)
EXTENDS AgentRules

VARIABLES switches, env, status, usesSecret

policyVars == <<switches, env, status, usesSecret>>

PolicyTypeOK ==
    /\ switches \in Switches
    /\ env \in [agents : AgentPolicies, confirmBeforeSend : BOOLEAN]
    /\ env.agents = "allow" => ~env.confirmBeforeSend
    /\ status \in GitStatuses
    /\ usesSecret \in BOOLEAN

TheSend == [env |-> env, review |-> ReviewOf(status), usesSecret |-> usesSecret]

\* Everything off and every send asked about: the first launch.
PolicyInit ==
    /\ switches = [held |-> {}, alwaysConfirmSends |-> TRUE]
    /\ env = NoEnvironment
    /\ status \in {"no-repository", "untracked"}
    /\ usesSecret \in BOOLEAN

\* WRITE is refused where git cannot say what was reviewed: CanGrantWrite.
Grant(c) ==
    /\ c = "write" => status # "no-repository"
    /\ switches' = [switches EXCEPT !.held = @ \cup {c}]
    /\ UNCHANGED <<env, status, usesSecret>>

Withdraw(c) ==
    /\ switches' = [switches EXCEPT !.held = @ \ {c}]
    /\ UNCHANGED <<env, status, usesSecret>>

SetAlwaysConfirmSends(on) ==
    /\ switches' = [switches EXCEPT !.alwaysConfirmSends = on]
    /\ UNCHANGED <<env, status, usesSecret>>

\* A saved environment file that does not validate is not read.
SaveEnvironment(m) ==
    /\ ValidEnv(m)
    /\ env' = m
    /\ UNCHANGED <<switches, status, usesSecret>>

SelectNone ==
    /\ env' = NoEnvironment
    /\ UNCHANGED <<switches, status, usesSecret>>

\* An edit leaves the file modified, and may start or stop using a secret.
Edit ==
    /\ status' = IF status \in {"clean", "staged"} THEN "modified" ELSE status
    /\ usesSecret' \in BOOLEAN
    /\ UNCHANGED <<switches, env>>

StageFile ==
    /\ status \in {"modified", "untracked"}
    /\ status' = "staged"
    /\ UNCHANGED <<switches, env, usesSecret>>

Commit ==
    /\ status = "staged"
    /\ status' = "clean"
    /\ UNCHANGED <<switches, env, usesSecret>>

PolicyNext ==
    \/ \E c \in Capabilities : Grant(c) \/ Withdraw(c)
    \/ \E on \in BOOLEAN : SetAlwaysConfirmSends(on)
    \/ \E m \in [agents : AgentPolicies, confirmBeforeSend : BOOLEAN] : SaveEnvironment(m)
    \/ SelectNone
    \/ Edit
    \/ StageFile
    \/ Commit

PolicySpec == PolicyInit /\ [][PolicyNext]_policyVars

-----------------------------------------------------------------------------
(* Properties.                                                             *)

\* How much a verdict asks for, from nothing to a refusal.
Strictness(v) ==
    IF v = Proceed THEN 0
    ELSE IF v = AskAnywhere THEN 1
    ELSE IF v = AskInWindow THEN 2
    ELSE IF v = AskAsDanger THEN 3
    ELSE 4

\* The gates of docs/MCP.md sections 3 to 5, each with what it alone demands.
Gates(g, s) ==
    {0}
    \cup (IF "run" \notin g.held THEN {4} ELSE {})
    \cup (IF s.env.agents = "deny" THEN {4} ELSE {})
    \cup (IF s.review = "unreviewed" THEN {IF s.usesSecret THEN 3 ELSE 2} ELSE {})
    \cup (IF s.env.confirmBeforeSend THEN {2} ELSE {})
    \cup (IF s.env.agents \in {"unset", "confirm"} THEN {1} ELSE {})
    \cup (IF g.alwaysConfirmSends THEN {1} ELSE {})

\* The gates are independent and the strictest one decides, whatever the order in
\* which Decide happens to look at them: "allow" never cancels the review gate,
\* nor a local setting a committed one.
StrictestGateDecides ==
    LET verdict == Strictness(Decide(switches, TheSend))
    IN  /\ verdict \in Gates(switches, TheSend)
        /\ \A gate \in Gates(switches, TheSend) : gate <= verdict

\* Nobody sends what no person reviewed, to anywhere, without a person in Otis'
\* own window: only a file git reports clean goes out with less.
OnlyCommittedGoesQuietly ==
    status \in {"modified", "staged", "untracked"} =>
        /\ Decide(switches, TheSend).outcome # "proceed"
        /\ Decide(switches, TheSend).surface # "either"

\* What each gate demands is kept, and the review gate's above all (Decide, ReviewOf).
GatesHold == StrictestGateDecides /\ OnlyCommittedGoesQuietly

\* Withdrawing a switch or tightening the machine's setting never makes a send or a
\* session write easier, and an edit to the file never makes an asked send unasked.
TighterStep ==
    \/ /\ UNCHANGED <<env, usesSecret, status>>
       /\ switches'.held \subseteq switches.held
       /\ switches.alwaysConfirmSends => switches'.alwaysConfirmSends
    \/ UNCHANGED <<switches, env, usesSecret>> /\ status = "clean"

NeverLooser ==
    TighterStep =>
        /\ Strictness(Decide(switches', TheSend')) >= Strictness(Decide(switches, TheSend))
        /\ Strictness(DecideSessionWrite(switches', env'))
             >= Strictness(DecideSessionWrite(switches, env))

TighteningNeverLoosens == [][NeverLooser]_policyVars
=============================================================================
