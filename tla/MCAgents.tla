----------------------------- MODULE MCAgents -----------------------------
(* What stands between an agent and what it asks for: its previews, its     *)
(* budgets and the policy, which EXTENDS makes this module's own, and the   *)
(* tools that are not send_request.  They share no variable, so a behaviour *)
(* is of one of them, and the others stay as they begin.                    *)
EXTENDS Intents, Limiter, AgentPolicy, AgentTools, Sequences

MCPrice == [c \in Rated |-> IF c = "run" THEN 3 ELSE 2]
MCBurst == [c \in Rated |-> IF c = "run" THEN 2 ELSE 1]

MCEnvMeta == [dev  |-> [agents |-> "allow", confirmBeforeSend |-> FALSE],
              prod |-> [agents |-> "deny", confirmBeforeSend |-> FALSE]]

\* Version 1 differs from the committed one in its body, version 2 in its URL; request 1
\* refers to the session value's name, which is looked up in the session first, then in
\* the folder's settings, then in the environment.
MCAddressOf ==
    [q \in Request \X Version \X Surroundings |->
        CASE q[2] = 2 -> "elsewhere"
          [] q[2] # 2 /\ q[1] # 1 -> "fixed"
          [] q[2] # 2 /\ q[1] = 1 /\ q[3].session # None -> q[3].session
          [] OTHER -> IF q[3].settings THEN "folder"
                      ELSE IF q[3].environment \in Defining THEN "environment" ELSE "unresolved"]

VARIABLES part

previewVars == vars

PolicyIdle ==
    /\ switches = [held |-> {}, alwaysConfirmSends |-> TRUE]
    /\ env = NoEnvironment
    /\ status = "untracked"
    /\ usesSecret = FALSE

ToolsIdle ==
    /\ ToolsInit
    /\ active = CHOOSE m \in Environment : TRUE
    /\ permits[Earlier].tool = "run_folder"

AgentsInit ==
    /\ part \in {"previews", "budgets", "policy", "tools"}
    /\ Init
    /\ LimiterInit
    /\ IF part = "policy" THEN PolicyInit ELSE PolicyIdle
    /\ IF part = "tools" THEN ToolsInit ELSE ToolsIdle

AgentsNext ==
    /\ UNCHANGED part
    /\ \/ part = "previews" /\ Next /\ UNCHANGED <<limiterVars, policyVars, toolVars>>
       \/ part = "budgets" /\ LimiterNext /\ UNCHANGED <<previewVars, policyVars, toolVars>>
       \/ part = "policy" /\ PolicyNext /\ UNCHANGED <<previewVars, limiterVars, toolVars>>
       \/ part = "tools" /\ ToolsNext /\ UNCHANGED <<previewVars, limiterVars, policyVars>>

agentsVars == <<part, previewVars, limiterVars, policyVars, toolVars>>

AgentsSpec == AgentsInit /\ [][AgentsNext]_agentsVars

=============================================================================
