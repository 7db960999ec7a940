---------------------------- MODULE MCAgentCalls ----------------------------
(* An instance of AgentCalls for TLC: one request, three states of the disk *)
(* an edit of which leads to any other.                                     *)
EXTENDS AgentCalls, TLC

W(print, agents, review) ==
    [print |-> print,
     send |-> [env |-> [agents |-> agents, confirmBeforeSend |-> FALSE],
               review |-> review, usesSecret |-> FALSE]]

Unreviewed == W("p1", "allow", "unreviewed")
Allowed    == W("p2", "allow", "reviewed")
Denied     == W("p1", "deny", "reviewed")

PolicyWorlds == {Unreviewed, Allowed, Denied}
QuietWorlds  == {Unreviewed}

\* What may happen together.
Troubles  == {{"edit"}, {"switch"}, {"refill", "window"}, {"kill", "hang up"}}
Shutdowns == {{"kill", "window"}}
Kills     == {{"kill"}}

Interchangeable == Permutations(Call) \cup Permutations(IntentId)
=============================================================================
