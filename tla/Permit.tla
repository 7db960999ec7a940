------------------------------- MODULE Permit -------------------------------
(***************************************************************************)
(* What a preview promises (docs/MCP.md, section 6.2): a permit is handed  *)
(* out once, is worth at most one operation, and once it is spent or void  *)
(* nothing brings it back.  Which operation it is good for, and for how    *)
(* long, is the business of the store that implements it (Intents).        *)
(***************************************************************************)
CONSTANT Id

VARIABLE stage

Unused == "unused"
Live   == "live"
Spent  == "spent"
Void   == "void"

Stages == {Unused, Live, Spent, Void}

LiveIds == {i \in Id : stage[i] = Live}

Init == stage = [i \in Id |-> Unused]

\* A permit goes out; handing one out may throw away others that lapsed.
HandOut(i, lapsed) ==
    /\ stage[i] = Unused
    /\ lapsed \subseteq LiveIds
    /\ stage' = [j \in Id |-> IF j = i THEN Live
                              ELSE IF j \in lapsed THEN Void ELSE stage[j]]

Spend(i) ==
    /\ stage[i] = Live
    /\ stage' = [stage EXCEPT ![i] = Spent]

Cancel(lost) ==
    /\ lost \subseteq LiveIds
    /\ stage' = [j \in Id |-> IF j \in lost THEN Void ELSE stage[j]]

Next ==
    \/ \E i \in Id, lapsed \in SUBSET Id : HandOut(i, lapsed)
    \/ \E i \in Id : Spend(i)
    \/ \E lost \in SUBSET Id : Cancel(lost)

Spec == Init /\ [][Next]_stage
=============================================================================
