--------------------------- MODULE AgentCallsProofs ---------------------------
(***************************************************************************)
(* Theorems about an agent's sends, for any number of calls, previews and  *)
(* worlds, any budget, and every disturbance at once.                      *)
(*                                                                         *)
(* The inductive invariant is the conjunction IInv below.  Its parts are   *)
(* kept apart by what they read: the store, one call's place, one call's   *)
(* account, what was sent, what was spent, what was judged, what the kill  *)
(* switch took away.                                                       *)
(***************************************************************************)
EXTENDS AgentCalls, TLAPS

\* The handler's steps from the moment an id is looked at until the send.
Presenting == {"verify", "judge", "ask", "waiting", "redeem", "pay", "send"}

\* Until the budget is taken.
Uncharged == {"idle", "arrived", "granted", "budget"} \cup (Presenting \ {"send"})

Over == {"recording", "done"}

\* The kill switch is past the previews.
Late == {"closing", "revoking", "over"}

\* The consent that the call's own verdict asks for is there.
Agreed(c) ==
    /\ verdict[c] # Deny
    /\ verdict[c].outcome = "confirm" =>
          \/ consent[c] = "window"
          \/ verdict[c].surface = "either" /\ consent[c] = "client"

\* What the store holds is what was shown and is not spent; of an id that was
\* never issued it knows nothing.
StoreIsSound ==
    \A i \in IntentId :
        /\ by[i] # NoIntent => by[i].print = preview[i].print /\ paid[i] = NoIntent
        /\ preview[i] = NoIntent => by[i] = NoIntent /\ paid[i] = NoIntent

\* What is known of a call by the step it has reached.
Placed(c) ==
    /\ pc[c] \in {"idle", "budget", "describe", "issue"} => arg[c] = NoIntent
    /\ pc[c] \in Presenting => arg[c] # NoIntent
    /\ arg[c] # NoIntent => preview[arg[c]] # NoIntent
    /\ pc[c] \in Uncharged => c \notin charged
    /\ pc[c] \notin Over => ~SentBy(c) /\ outcome[c] = "none"
    /\ pc[c] \in {"ask", "waiting"} => verdict[c].outcome = "confirm"
    /\ pc[c] \in {"redeem", "pay", "send"} => Agreed(c)
    /\ SentBy(c) => arg[c] # NoIntent /\ Agreed(c)

\* AccountsAreTrue for one call, with the consent in full.
Accounts(c) ==
    /\ arg[c] # NoIntent /\ c \in charged =>
          Agreed(c) /\ outcome[c] \notin {"asked", "timed-out", "denied-by-policy"}
    /\ outcome[c] = "confirmed" => SentBy(c) /\ consent[c] # "none"
    /\ outcome[c] = "allowed" /\ arg[c] # NoIntent => SentBy(c) /\ verdict[c] = Proceed
    /\ outcome[c] \in {"denied-by-policy", "timed-out", "asked"} => ~SentBy(c)

\* A call sends once, what it carries, under its own verdict.
Shipped(s) ==
    /\ s.intent = arg[s.call] /\ s.verdict = verdict[s.call]
    /\ s.fresh => s.print = preview[s.intent].print
    /\ s.kill \in Late => s.call \in spentInTime
    /\ \A t \in sent : s.call = t.call => s = t

HasSpent(c) == pc[c] \in {"pay", "send"} \/ SentBy(c)

\* No two calls have spent the same preview, and none did after it was voided.
SpentOnce ==
    /\ \A c \in Call : HasSpent(c) => paid[arg[c]] # NoIntent /\ c \in spentInTime
    /\ \A c, d \in Call : c # d /\ HasSpent(c) /\ HasSpent(d) => arg[c] # arg[d]

\* What a call was judged on is the world as it is, unless that was edited since;
\* past the first check it is what was previewed.
Judged(c) ==
    /\ prepared[c].edits <= edits
    /\ prepared[c].edits = edits => prepared[c].world = world
    /\ pc[c] \in Presenting \ {"verify"} => prepared[c].world.print = preview[arg[c]].print

\* Once the kill switch is past the previews nobody presents an id that is still
\* held: no call gets in, and an id issued since was never presented.
Voided ==
    /\ kill \in {"voiding"} \cup Late => ~tokenValid
    /\ kill \in Late => \A c \in Call : arg[c] # NoIntent => by[arg[c]] = NoIntent

IInv ==
    /\ TypeOK
    /\ StoreIsSound /\ SpentOnce /\ Voided
    /\ \A c \in Call : Placed(c) /\ Accounts(c) /\ Judged(c)
    /\ \A s \in sent : Shipped(s)

-----------------------------------------------------------------------------
(* Of the operators.                                                       *)

\* Every decision is one of the five verdicts.
LEMMA DecideIsAVerdict ==
    ASSUME NEW g, NEW s
    PROVE  Decide(g, s) \in Verdicts
  BY DEF Decide, Verdicts

\* What tells the verdicts apart.
LEMMA VerdictKinds ==
    ASSUME NEW v \in Verdicts
    PROVE  /\ v # Deny => v.outcome = "confirm" \/ v = Proceed
           /\ v.outcome = "confirm" => v # Deny /\ v # Proceed
  BY DEF Verdicts, Deny, AskInWindow, AskAsDanger, AskAnywhere, Proceed

\* Expiries are whole seconds.
LEMMA ExpiryIsWhole ==
    ASSUME NEW t \in Nat
    PROVE  Store!ExpiryFrom(t) \in Store!WholeSecond
  <1> DEFINE u == t + IntentTTL
             q == u \div Second
  <1>1. u \in Nat
    BY CallStoreAssumption
  <1>2. u = Second * q + (u % Second) /\ q \in Int /\ u % Second \in Nat
    BY <1>1, CallStoreAssumption
  <1>3. \A x \in Int : (Second * x) % Second = 0 /\ Second * x \in Int
    BY CallStoreAssumption
  <1>4. Store!ExpiryFrom(t) = u - (u % Second)
    BY DEF Store!ExpiryFrom, Store!Truncated
  <1> HIDE DEF u, q
  <1>5. Store!ExpiryFrom(t) = Second * q
    BY <1>1, <1>2, <1>3, <1>4
  <1> QED
    BY <1>2, <1>3, <1>5 DEF Store!WholeSecond

\* A record of the store is not the mark of an absent key.
LEMMA RecordsAreNotAbsent ==
    ASSUME NEW p \in Fingerprint, NEW n \in Int
    PROVE  /\ [tool |-> "send_request", print |-> p, expires |-> n] # NoIntent
           /\ [tool |-> "send_request", print |-> p, at |-> n] # NoIntent
  BY CallStoreAssumption

\* What an "ok" answer is worth.
LEMMA GoodMeans ==
    ASSUME NEW i, NEW p, Store!Good(i, "send_request", p)
    PROVE  i \in IntentId /\ by[i] # NoIntent /\ by[i].print = p
  BY DEF Store!Good, Store!Outcome, Store!Held

-----------------------------------------------------------------------------
(* Types.                                                                  *)

\* What the store's methods do to its types.
LEMMA StoreTypes ==
    ASSUME Store!TypeOK, NEW p \in Fingerprint, NEW i \in IntentId,
           \/ Store!Issue(i, "send_request", p)
           \/ Store!Verify(i, "send_request", p)
           \/ Store!Redeem(i, "send_request", p)
           \/ Store!VoidAll
           \/ Store!Tick
           \/ UNCHANGED storeVars
    PROVE  Store!TypeOK'
  <1> USE DEF Store!TypeOK
  <1>1. now \in Nat /\ Store!ExpiryFrom(now) \in Store!WholeSecond
    BY CallStoreAssumption, ExpiryIsWhole
  <1>2. CASE Store!Issue(i, "send_request", p)
    BY <1>1, <1>2 DEF Store!Issue, Store!Swept, Store!Intent, Store!Receipt
  <1>3. CASE Store!Verify(i, "send_request", p)
    BY <1>3 DEF Store!Verify, Store!RefusedAfter
  <1>4. CASE Store!Redeem(i, "send_request", p)
    BY <1>1, <1>4 DEF Store!Redeem, Store!RefusedAfter, Store!Receipt
  <1>5. CASE Store!VoidAll
    BY <1>5 DEF Store!VoidAll
  <1>6. CASE Store!Tick
    BY <1>6, CallStoreAssumption DEF Store!Tick
  <1>7. CASE UNCHANGED storeVars
    BY <1>7 DEF storeVars
  <1> QED
    BY <1>2, <1>3, <1>4, <1>5, <1>6, <1>7

LEMMA InitTypes == Init => TypeOK
  <1> SUFFICES ASSUME Init PROVE TypeOK
    OBVIOUS
  <1>1. switches \in Switches
    BY DEF Init, Switches, Capabilities
  <1>2. world.print \in Fingerprint
    BY AgentCallsAssumption DEF Init
  <1>3. Store!ExpiryFrom(0) \in Store!WholeSecond
    BY ExpiryIsWhole
  <1>4. Store!TypeOK
    BY <1>2, <1>3, CallStoreAssumption
       DEF Init, InitStore, Store!TypeOK, Store!Intent, Store!Receipt
  <1> QED
    BY <1>1, <1>4, AgentCallsAssumption, CallStoreAssumption
       DEF Init, TypeOK, KillSteps, Steps, Answers, Verdicts, Outcomes

LEMMA NextTypes ==
    ASSUME TypeOK, \A c \in Call : Placed(c), [Next]_vars
    PROVE  TypeOK'
  <1> USE DEF TypeOK
  <1>1. \A c \in Call : prepared[c].world \in Worlds /\ prepared[c].world.print \in Fingerprint
    BY AgentCallsAssumption
  <1>2. \A c \in Call : Decide(switches, prepared[c].world.send) \in Verdicts
    BY DecideIsAVerdict
  <1>3. ASSUME NEW c \in Call, NEW i \in IntentId \cup {NoIntent}, NEW a \in Answers,
               Arrive(c, i, a)
        PROVE  TypeOK'
    BY <1>3 DEF Arrive, Goto, Steps, storeVars, serverVars, worldVars, history, Store!TypeOK
  <1>4. ASSUME NEW c \in Call, CheckCapability(c) PROVE TypeOK'
    BY <1>4 DEF CheckCapability, Goto, Settle, Steps, Outcomes,
                storeVars, serverVars, worldVars, history, Store!TypeOK
  <1>5. ASSUME NEW c \in Call, Prepare(c) PROVE TypeOK'
    <2>1. pc' \in [Call -> Steps] /\ outcome' \in [Call -> Outcomes]
      BY <1>5 DEF Prepare, Goto, Settle, Steps, Outcomes
    <2>2. prepared' \in [Call -> [world : Worlds, edits : 0..MaxEdits]]
      <3>1. [world |-> world, edits |-> edits] \in [world : Worlds, edits : 0..MaxEdits]
        OBVIOUS
      <3> QED
        BY <1>5, <3>1 DEF Prepare
    <2> QED
      BY <1>5, <2>1, <2>2 DEF Prepare, storeVars, serverVars, worldVars, history, Store!TypeOK
  <1>6. ASSUME NEW c \in Call, PayForPreview(c) \/ PayForSend(c) PROVE TypeOK'
    <2> DEFINE next == IF pc[c] = "budget" THEN "describe" ELSE "send"
    <2>1. Spend(c, next)
      BY <1>6 DEF PayForPreview, PayForSend
    <2>2. /\ next \in Steps /\ "recording" \in Steps /\ "refused" \in Outcomes
      BY DEF Steps, Outcomes
    <2> HIDE DEF next
    <2>3. CASE /\ tokens > 0 /\ tokens' = tokens - 1 /\ charged' = charged \cup {c}
               /\ Goto(c, next) /\ UNCHANGED outcome
      <3>1. pc' \in [Call -> Steps]
        BY <2>2, <2>3 DEF Goto
      <3>2. tokens' \in 0..Burst
        BY <2>3, AgentCallsAssumption
      <3> QED
        BY <1>6, <2>3, <3>1, <3>2
        DEF PayForPreview, PayForSend, storeVars, worldVars, Store!TypeOK
    <2>4. CASE Settle(c, "refused") /\ UNCHANGED <<tokens, charged>>
      <3>1. pc' \in [Call -> Steps] /\ outcome' \in [Call -> Outcomes]
        BY <2>2, <2>4 DEF Settle, Goto
      <3> QED
        BY <1>6, <2>4, <3>1 DEF PayForPreview, PayForSend, storeVars, worldVars, Store!TypeOK
    <2> QED
      BY <2>1, <2>3, <2>4 DEF Spend
  <1>7. ASSUME NEW c \in Call, Describe(c) PROVE TypeOK'
    BY <1>2, <1>7 DEF Describe, Goto, Settle, Steps, Outcomes,
                storeVars, serverVars, worldVars, history, Store!TypeOK
  <1>8. ASSUME NEW c \in Call, NEW i \in IntentId, IssueIntent(c, i) PROVE TypeOK'
    <2>1. Store!TypeOK'
      BY <1>1, <1>8, StoreTypes DEF IssueIntent
    <2> QED
      BY <1>8, <2>1 DEF IssueIntent, Goto, Settle, Steps, Outcomes,
                        serverVars, worldVars, history
  <1>9. ASSUME NEW c \in Call, VerifyIntent(c) PROVE TypeOK'
    <2>1. arg[c] \in IntentId
      BY <1>9 DEF VerifyIntent, Placed, Presenting
    <2>2. Store!TypeOK'
      BY <1>1, <1>9, <2>1, StoreTypes DEF VerifyIntent
    <2> QED
      BY <1>9, <2>2 DEF VerifyIntent, Goto, Settle, Steps, Outcomes,
                        serverVars, worldVars, history
  <1>10. ASSUME NEW c \in Call, Judge(c) PROVE TypeOK'
    BY <1>2, <1>10 DEF Judge, Goto, Settle, Steps, Outcomes,
                storeVars, serverVars, worldVars, history, Store!TypeOK
  <1>11. ASSUME NEW c \in Call, Ask(c) PROVE TypeOK'
    <2>1. AtMost(now + ConfirmTimeout, Horizon) \in 0..Horizon
      BY AgentCallsAssumption, CallStoreAssumption DEF AtMost, Store!TypeOK
    <2>2. /\ {"recording", "redeem", "waiting"} \subseteq Steps
          /\ {"asked", "refused", "timed-out"} \subseteq Outcomes
      BY DEF Steps, Outcomes
    <2>3. UNCHANGED <<storeVars, serverVars, worldVars, sent, charged, spentInTime,
                      arg, answer, prepared, verdict>>
      BY <1>11 DEF Ask
    <2>4. pc' \in [Call -> Steps] /\ outcome' \in [Call -> Outcomes]
      <3>1. \/ \E how \in {"asked", "refused", "timed-out"} : Settle(c, how)
            \/ \E step \in {"redeem", "waiting"} : Goto(c, step) /\ UNCHANGED outcome
        BY <1>11 DEF Ask, AskClient, PutUpDialog
      <3>2. CASE \E how \in {"asked", "refused", "timed-out"} : Settle(c, how)
        BY <2>2, <3>2 DEF Settle, Goto
      <3>3. CASE \E step \in {"redeem", "waiting"} : Goto(c, step) /\ UNCHANGED outcome
        BY <2>2, <3>3 DEF Goto
      <3> QED
        BY <3>1, <3>2, <3>3
    <2>5. \/ UNCHANGED consent
          \/ consent' = [consent EXCEPT ![c] = "client"]
      BY <1>11 DEF Ask, AskClient, PutUpDialog
    <2>6. \/ UNCHANGED <<dialog, deadline>>
          \/ /\ dialog' = [dialog EXCEPT ![c] = "open"]
             /\ deadline' = [deadline EXCEPT ![c] = AtMost(now + ConfirmTimeout, Horizon)]
      BY <1>11 DEF Ask, AskClient, PutUpDialog
    <2> HIDE DEF TypeOK
    <2> QED
      BY <2>1, <2>3, <2>4, <2>5, <2>6 DEF TypeOK, storeVars, serverVars, worldVars, Store!TypeOK
  <1>12. ASSUME NEW c \in Call, HearAnswer(c) \/ TimeOut(c) \/ HangUp(c) \/ Finish(c)
         PROVE  TypeOK'
    BY <1>12 DEF HearAnswer, TimeOut, HangUp, Finish, Goto, Settle, Steps, Outcomes,
                callVars, storeVars, serverVars, worldVars, history, Store!TypeOK
  <1>13. ASSUME NEW c \in Call, RedeemIntent(c) PROVE TypeOK'
    <2>1. arg[c] \in IntentId
      BY <1>13 DEF RedeemIntent, Placed, Presenting
    <2>2. Store!TypeOK'
      BY <1>1, <1>13, <2>1, StoreTypes DEF RedeemIntent
    <2>3. /\ "pay" \in Steps /\ "recording" \in Steps /\ "refused" \in Outcomes
      BY DEF Steps, Outcomes
    <2>4. pc' \in [Call -> Steps] /\ outcome' \in [Call -> Outcomes]
      <3>1. \/ Goto(c, "pay") /\ UNCHANGED outcome
            \/ Settle(c, "refused")
        BY <1>13 DEF RedeemIntent
      <3>2. CASE Goto(c, "pay") /\ UNCHANGED outcome
        BY <2>3, <3>2 DEF Goto
      <3>3. CASE Settle(c, "refused")
        BY <2>3, <3>3 DEF Settle, Goto
      <3> QED
        BY <3>1, <3>2, <3>3
    <2>5. spentInTime' \subseteq Call
      BY <1>13 DEF RedeemIntent
    <2> QED
      BY <1>13, <2>2, <2>4, <2>5 DEF RedeemIntent, serverVars, worldVars
  <1>14. ASSUME NEW c \in Call, Send(c) PROVE TypeOK'
    <2>1. arg[c] \in IntentId
      BY <1>14 DEF Send, Placed, Presenting
    <2>2. Sending(c) \in Shipment
      BY <2>1, AgentCallsAssumption DEF Sending, Shipment
    <2> QED
      BY <1>14, <2>2 DEF Send, Goto, Settle, Steps, Outcomes,
                storeVars, serverVars, worldVars, Store!TypeOK
  <1>15. ASSUME NEW c \in Call, NEW how \in {"yes", "no"}, AnswerDialog(c, how)
         PROVE  TypeOK'
    BY <1>15 DEF AnswerDialog, storeVars, serverVars, worldVars, history, Store!TypeOK
  <1>16. CASE RefuseDialogs \/ RevokeToken \/ CloseListener \/ ThrowSwitch
    BY <1>16 DEF RefuseDialogs, RevokeToken, CloseListener, ThrowSwitch, KillUnchanged,
                 KillSteps, storeVars, worldVars, history, Store!TypeOK
  <1>17. CASE VoidIntents
    BY <1>17 DEF VoidIntents, KillUnchanged, KillSteps, worldVars, history,
                 Store!VoidAll, Store!TypeOK
  <1>18. CASE RevokeCapabilities
    BY <1>18 DEF RevokeCapabilities, Switches, KillUnchanged, KillSteps,
                 storeVars, worldVars, history, Store!TypeOK
  <1>19. ASSUME NEW w \in Worlds, Edit(w) PROVE TypeOK'
    BY <1>19, AgentCallsAssumption
       DEF Edit, Others, callVars, storeVars, serverVars, history, Store!TypeOK
  <1>20. ASSUME NEW on \in BOOLEAN, SwitchRun(on) PROVE TypeOK'
    BY <1>20 DEF SwitchRun, Switches, Capabilities, Others, callVars, storeVars,
                 worldVars, history, Store!TypeOK
  <1>21. CASE CloseWindow \/ CloseCollection
    BY <1>21 DEF CloseWindow, CloseCollection, Others, callVars, storeVars, serverVars,
                 history, Store!TypeOK
  <1>22. CASE Refill
    BY <1>22, AgentCallsAssumption
       DEF Refill, Others, callVars, storeVars, worldVars, history, Store!TypeOK
  <1>23. CASE Tick
    BY <1>23, CallStoreAssumption
       DEF Tick, Store!Tick, Others, callVars, serverVars, worldVars, history, Store!TypeOK
  <1>24. CASE UNCHANGED vars
    BY <1>24 DEF vars, callVars, storeVars, serverVars, worldVars, history, Store!TypeOK
  <1> QED
    BY <1>3, <1>4, <1>5, <1>6, <1>7, <1>8, <1>9, <1>10, <1>11, <1>12, <1>13, <1>14, <1>15,
       <1>16, <1>17, <1>18, <1>19, <1>20, <1>21, <1>22, <1>23, <1>24
       DEF Next, Handle, KillSwitch, Disturb

-----------------------------------------------------------------------------
(* Whose step it is.                                                       *)

\* A step of the handler of c.
CallStep(c) ==
    \/ \E i \in IntentId \cup {NoIntent}, a \in Answers : Arrive(c, i, a)
    \/ Handle(c)
    \/ HangUp(c)

\* A step of the person, the kill switch, the disk or the clock.
Outside ==
    \/ \E c \in Call, how \in {"yes", "no"} : AnswerDialog(c, how)
    \/ ThrowSwitch \/ KillSwitch
    \/ (\E w \in Worlds : Edit(w)) \/ (\E on \in BOOLEAN : SwitchRun(on))
    \/ CloseWindow \/ CloseCollection \/ Refill \/ Tick
    \/ UNCHANGED vars

LEMMA EveryStep ==
    ASSUME [Next]_vars
    PROVE  (\E c \in Call : CallStep(c)) \/ Outside
  BY DEF Next, Disturb, CallStep, Outside

\* What is not a call's own step changes nothing of any call, and nothing of what
\* was shown or spent.
LEMMA OutsideLeavesCalls ==
    ASSUME Outside
    PROVE  /\ UNCHANGED <<pc, arg, prepared, verdict, outcome>>
           /\ UNCHANGED <<sent, charged, consent, spentInTime>>
           /\ UNCHANGED <<preview, paid>>
  <1>1. ASSUME NEW c \in Call, NEW how \in {"yes", "no"}, AnswerDialog(c, how)
        PROVE  /\ UNCHANGED <<pc, arg, prepared, verdict, outcome>>
               /\ UNCHANGED <<sent, charged, consent, spentInTime, preview, paid>>
    BY <1>1 DEF AnswerDialog, storeVars, history
  <1>2. CASE ThrowSwitch \/ RefuseDialogs \/ RevokeToken \/ CloseListener \/ RevokeCapabilities
    BY <1>2 DEF ThrowSwitch, RefuseDialogs, RevokeToken, CloseListener, RevokeCapabilities,
                KillUnchanged, storeVars, history
  <1>3. CASE VoidIntents
    BY <1>3 DEF VoidIntents, Store!VoidAll, KillUnchanged, history
  <1>4. CASE (\E w \in Worlds : Edit(w)) \/ (\E on \in BOOLEAN : SwitchRun(on))
    BY <1>4 DEF Edit, SwitchRun, Others, storeVars, callVars, history
  <1>5. CASE CloseWindow \/ CloseCollection \/ Refill
    BY <1>5 DEF CloseWindow, CloseCollection, Refill, Others, storeVars, callVars, history
  <1>6. CASE Tick
    BY <1>6 DEF Tick, Store!Tick, Others, callVars, history
  <1>7. CASE UNCHANGED vars
    BY <1>7 DEF vars, storeVars, callVars, history
  <1> QED
    BY <1>1, <1>2, <1>3, <1>4, <1>5, <1>6, <1>7 DEF Outside, KillSwitch

\* A call's step leaves every other call as it is, and the world and the kill switch.
LEMMA CallStepIsLocal ==
    ASSUME TypeOK, NEW c \in Call, CallStep(c)
    PROVE  /\ UNCHANGED <<world, edits, kill, tokenValid>>
           /\ \A d \in Call \ {c} :
                 /\ pc'[d] = pc[d] /\ arg'[d] = arg[d] /\ prepared'[d] = prepared[d]
                 /\ verdict'[d] = verdict[d] /\ outcome'[d] = outcome[d]
                 /\ consent'[d] = consent[d]
                 /\ d \in charged' <=> d \in charged
                 /\ d \in spentInTime' <=> d \in spentInTime
                 /\ SentBy(d)' <=> SentBy(d)
  <1> USE DEF TypeOK, Goto, Settle, serverVars, worldVars, callVars, history, SentBy
  <1>1. CASE \E i \in IntentId \cup {NoIntent}, a \in Answers : Arrive(c, i, a)
    BY <1>1 DEF Arrive
  <1>2. CASE CheckCapability(c) \/ Prepare(c) \/ Describe(c) \/ VerifyIntent(c)
    BY <1>2 DEF CheckCapability, Prepare, Describe, VerifyIntent
  <1>3. CASE PayForPreview(c) \/ PayForSend(c)
    BY <1>3 DEF PayForPreview, PayForSend, Spend
  <1>4. CASE (\E i \in IntentId : IssueIntent(c, i)) \/ Judge(c)
    BY <1>4 DEF IssueIntent, Judge
  <1>5. CASE Ask(c) \/ HearAnswer(c)
    BY <1>5 DEF Ask, AskClient, PutUpDialog, HearAnswer
  <1>6. CASE TimeOut(c) \/ HangUp(c) \/ Finish(c)
    BY <1>6 DEF TimeOut, HangUp, Finish
  <1>7. CASE RedeemIntent(c)
    BY <1>7 DEF RedeemIntent
  <1>8. CASE Send(c)
    BY <1>8 DEF Send, Sending
  <1> QED
    BY <1>1, <1>2, <1>3, <1>4, <1>5, <1>6, <1>7, <1>8 DEF CallStep, Handle

\* The steps that reach the store.
LEMMA StoreSteps ==
    /\ \A c \in Call : CallStep(c) =>
          \/ \E i \in IntentId : IssueIntent(c, i)
          \/ VerifyIntent(c) \/ RedeemIntent(c)
          \/ UNCHANGED storeVars
    /\ Outside => VoidIntents \/ Tick \/ UNCHANGED storeVars
  <1>1. ASSUME NEW c \in Call, CallStep(c),
               ~\E i \in IntentId : IssueIntent(c, i), ~VerifyIntent(c), ~RedeemIntent(c)
        PROVE  UNCHANGED storeVars
    <2>1. CASE \/ \E i \in IntentId \cup {NoIntent}, a \in Answers : Arrive(c, i, a)
               \/ CheckCapability(c) \/ Prepare(c) \/ PayForPreview(c) \/ Describe(c)
      BY <2>1 DEF Arrive, CheckCapability, Prepare, PayForPreview, Describe
    <2>2. CASE Judge(c) \/ Ask(c) \/ HearAnswer(c) \/ TimeOut(c) \/ HangUp(c)
      BY <2>2 DEF Judge, Ask, HearAnswer, TimeOut, HangUp
    <2>3. CASE PayForSend(c) \/ Send(c) \/ Finish(c)
      BY <2>3 DEF PayForSend, Send, Finish
    <2> QED
      BY <1>1, <2>1, <2>2, <2>3 DEF CallStep, Handle
  <1>2. ASSUME Outside, ~VoidIntents, ~Tick
        PROVE  UNCHANGED storeVars
    BY <1>2 DEF Outside, KillSwitch, ThrowSwitch, RefuseDialogs, RevokeToken,
                CloseListener, RevokeCapabilities, AnswerDialog, Edit, SwitchRun,
                CloseWindow, CloseCollection, Refill, vars
  <1> QED
    BY <1>1, <1>2

\* What was shown stays as it was shown.
LEMMA PreviewsStay ==
    ASSUME TypeOK, [Next]_vars
    PROVE  \A i \in IntentId : preview[i] # NoIntent => preview'[i] = preview[i]
  <1>1. ASSUME NEW c \in Call, NEW j \in IntentId, IssueIntent(c, j)
        PROVE  \A i \in IntentId : preview[i] # NoIntent => preview'[i] = preview[i]
    BY <1>1 DEF IssueIntent, Store!Issue, TypeOK, Store!TypeOK
  <1>2. ASSUME NEW c \in Call, VerifyIntent(c) \/ RedeemIntent(c)
        PROVE  preview' = preview
    BY <1>2 DEF VerifyIntent, RedeemIntent, Store!Verify, Store!Redeem
  <1>3. CASE UNCHANGED storeVars
    BY <1>3 DEF storeVars
  <1> QED
    BY <1>1, <1>2, <1>3, EveryStep, StoreSteps, OutsideLeavesCalls

-----------------------------------------------------------------------------
(* The store, and the kill switch.                                         *)

LEMMA NextStore ==
    ASSUME TypeOK, StoreIsSound, \A c \in Call : Placed(c), [Next]_vars
    PROVE  StoreIsSound'
  <1> USE DEF TypeOK, Store!TypeOK, StoreIsSound
  <1>1. ASSUME UNCHANGED <<preview, paid>>,
               \A i \in IntentId : by'[i] = NoIntent \/ by'[i] = by[i]
        PROVE  StoreIsSound'
    BY <1>1
  <1>2. ASSUME NEW c \in Call, NEW i \in IntentId, IssueIntent(c, i)
        PROVE  StoreIsSound'
    <2> DEFINE p == prepared[c].world.print
               new == [tool |-> "send_request", print |-> p, expires |-> Store!ExpiryFrom(now)]
               shown == [tool |-> "send_request", print |-> p, at |-> now]
    <2>1. p \in Fingerprint
      BY AgentCallsAssumption
    <2>2. shown # NoIntent /\ now \in Int
      BY <2>1, RecordsAreNotAbsent, CallStoreAssumption
    <2>3. /\ by'[i] = new /\ preview'[i] = shown
          /\ \A j \in IntentId \ {i} : preview'[j] = preview[j]
          /\ \A j \in IntentId \ {i} : by'[j] = NoIntent \/ by'[j] = by[j]
          /\ paid' = paid /\ preview[i] = NoIntent
      BY <1>2 DEF IssueIntent, Store!Issue, Store!Swept
    <2> QED
      BY <2>2, <2>3
  <1>3. ASSUME NEW c \in Call, VerifyIntent(c) PROVE StoreIsSound'
    BY <1>1, <1>3 DEF VerifyIntent, Store!Verify
  <1>4. ASSUME NEW c \in Call, RedeemIntent(c) PROVE StoreIsSound'
    <2>1. arg[c] \in IntentId /\ preview[arg[c]] # NoIntent
      BY <1>4 DEF RedeemIntent, Placed, Presenting
    <2>2. /\ by'[arg[c]] = NoIntent /\ preview' = preview
          /\ \A j \in IntentId \ {arg[c]} : by'[j] = by[j] /\ paid'[j] = paid[j]
      BY <1>4, <2>1 DEF RedeemIntent, Store!Redeem
    <2> QED
      BY <2>1, <2>2
  <1>5. CASE Outside
    <2>1. UNCHANGED <<preview, paid>>
      BY <1>5, OutsideLeavesCalls
    <2>2. \A i \in IntentId : by'[i] = NoIntent \/ by'[i] = by[i]
      BY <1>5, StoreSteps DEF VoidIntents, Store!VoidAll, Tick, Store!Tick, storeVars
    <2> QED
      BY <1>1, <2>1, <2>2
  <1>6. CASE UNCHANGED storeVars
    BY <1>1, <1>6 DEF storeVars
  <1> QED
    BY EveryStep, StoreSteps, <1>2, <1>3, <1>4, <1>5, <1>6

\* Past the previews the kill switch leaves nothing that a call could still spend.
LEMMA NextVoided ==
    ASSUME TypeOK, StoreIsSound, Voided, \A c \in Call : Placed(c), [Next]_vars
    PROVE  Voided'
  <1> USE DEF TypeOK, Store!TypeOK, Voided, Late
  <1>1. ASSUME NEW c \in Call, NEW i \in IntentId \cup {NoIntent}, NEW a \in Answers,
               Arrive(c, i, a)
        PROVE  Voided'
    BY <1>1 DEF Arrive, storeVars, serverVars
  <1>2. ASSUME NEW c \in Call, CallStep(c),
               ~\E i \in IntentId \cup {NoIntent}, a \in Answers : Arrive(c, i, a)
        PROVE  Voided'
    <2>1. kill' = kill /\ tokenValid' = tokenValid
      BY <1>2, CallStepIsLocal
    <2>2. arg' = arg
      <3>1. CASE CheckCapability(c) \/ Prepare(c) \/ PayForPreview(c) \/ Describe(c)
        BY <3>1 DEF CheckCapability, Prepare, PayForPreview, Describe
      <3>2. CASE (\E i \in IntentId : IssueIntent(c, i)) \/ VerifyIntent(c) \/ RedeemIntent(c)
        BY <3>2 DEF IssueIntent, VerifyIntent, RedeemIntent
      <3>3. CASE Judge(c) \/ Ask(c) \/ HearAnswer(c) \/ TimeOut(c) \/ HangUp(c)
        BY <3>3 DEF Judge, Ask, HearAnswer, TimeOut, HangUp
      <3>4. CASE PayForSend(c) \/ Send(c) \/ Finish(c)
        BY <3>4 DEF PayForSend, Send, Finish, callVars
      <3> QED
        BY <1>2, <3>1, <3>2, <3>3, <3>4 DEF CallStep, Handle
    <2>3. \A i \in IntentId : preview[i] # NoIntent /\ by[i] = NoIntent => by'[i] = NoIntent
      BY <1>2, StoreSteps DEF IssueIntent, VerifyIntent, RedeemIntent, Store!Issue, Store!Swept,
                              Store!Verify, Store!Redeem, storeVars
    <2> QED
      BY <2>1, <2>2, <2>3 DEF Placed
  <1>3. CASE Outside
    <2>1. arg' = arg
      BY <1>3, OutsideLeavesCalls
    <2>2. CASE VoidIntents
      BY <2>1, <2>2 DEF VoidIntents, Store!VoidAll
    <2>3. CASE ~VoidIntents
      <3>1. by' = by
        BY <1>3, <2>3, StoreSteps DEF Tick, Store!Tick, storeVars
      <3>2. CASE KillSwitch \/ ThrowSwitch
        BY <2>1, <2>3, <3>1, <3>2
           DEF KillSwitch, ThrowSwitch, RefuseDialogs, RevokeToken, CloseListener, RevokeCapabilities
      <3>3. CASE ~(KillSwitch \/ ThrowSwitch)
        <4>1. kill' = kill /\ tokenValid' = tokenValid
          BY <1>3, <3>3 DEF Outside, AnswerDialog, Edit, SwitchRun, CloseWindow,
                            CloseCollection, Refill, Tick, serverVars, vars
        <4> QED
          BY <2>1, <3>1, <4>1
      <3> QED
        BY <3>2, <3>3
    <2> QED
      BY <2>2, <2>3
  <1> QED
    BY EveryStep, <1>1, <1>2, <1>3

-----------------------------------------------------------------------------
(* One call: what it was judged on, its place, its account.                *)

LEMMA NextJudged ==
    ASSUME TypeOK, StoreIsSound, [Next]_vars, NEW d \in Call, Placed(d), Judged(d)
    PROVE  Judged(d)'
  <1> USE DEF TypeOK, Judged
  <1>1. \A i \in IntentId : preview[i] # NoIntent => preview'[i] = preview[i]
    BY PreviewsStay
  <1>2. ASSUME UNCHANGED <<prepared, world, edits, arg>>,
               pc'[d] \in Presenting \ {"verify"} => pc[d] \in Presenting \ {"verify"}
        PROVE  Judged(d)'
    <2>1. pc[d] \in Presenting \ {"verify"} => preview'[arg[d]] = preview[arg[d]]
      BY <1>1 DEF Placed
    <2> QED
      BY <1>2, <2>1
  <1>3. ASSUME NEW c \in Call, CallStep(c), d # c PROVE Judged(d)'
    <2>1. /\ UNCHANGED <<world, edits>>
          /\ pc'[d] = pc[d] /\ arg'[d] = arg[d] /\ prepared'[d] = prepared[d]
      BY <1>3, CallStepIsLocal
    <2>2. pc[d] \in Presenting \ {"verify"} => preview'[arg[d]] = preview[arg[d]]
      BY <1>1 DEF Placed
    <2> QED
      BY <2>1, <2>2
  <1>4. CASE CallStep(d)
    <2>1. UNCHANGED <<world, edits>>
      BY <1>4, CallStepIsLocal
    <2>2. CASE \E i \in IntentId \cup {NoIntent}, a \in Answers : Arrive(d, i, a)
      BY <2>1, <2>2 DEF Arrive, Goto, Presenting
    <2>3. CASE Prepare(d)
      BY <2>1, <2>3 DEF Prepare, Goto, Settle, Presenting
    <2>4. CASE VerifyIntent(d)
      <3>1. UNCHANGED <<prepared, arg, preview>>
        BY <2>4 DEF VerifyIntent, Store!Verify
      <3>2. CASE Store!Good(arg[d], "send_request", prepared[d].world.print)
        <4>1. /\ arg[d] \in IntentId /\ by[arg[d]] # NoIntent
              /\ by[arg[d]].print = prepared[d].world.print
          BY <3>2, GoodMeans
        <4> QED
          BY <2>1, <3>1, <4>1 DEF StoreIsSound
      <3>3. CASE ~Store!Good(arg[d], "send_request", prepared[d].world.print)
        BY <2>1, <2>4, <3>1, <3>3 DEF VerifyIntent, Settle, Goto, Presenting
      <3> QED
        BY <3>2, <3>3
    <2>5. CASE CheckCapability(d) \/ Describe(d) \/ Judge(d)
      <3>1. /\ UNCHANGED <<prepared, arg>>
            /\ pc'[d] \in Presenting \ {"verify"} => pc[d] \in Presenting \ {"verify"}
        BY <2>5 DEF CheckCapability, Describe, Judge, Goto, Settle, Presenting
      <3> QED
        BY <1>2, <2>1, <3>1
    <2>6. CASE PayForPreview(d) \/ (\E i \in IntentId : IssueIntent(d, i))
      <3>1. /\ UNCHANGED <<prepared, arg>>
            /\ pc'[d] \notin Presenting
        BY <2>6 DEF PayForPreview, Spend, IssueIntent, Goto, Settle, Presenting
      <3> QED
        BY <1>2, <2>1, <3>1
    <2>7. CASE Ask(d) \/ HearAnswer(d) \/ TimeOut(d) \/ HangUp(d) \/ RedeemIntent(d)
      <3>1. UNCHANGED <<prepared, arg>>
        BY <2>7 DEF Ask, HearAnswer, TimeOut, HangUp, RedeemIntent
      <3>2. pc[d] \in Presenting \ {"verify"}
        BY <2>7 DEF Ask, HearAnswer, TimeOut, HangUp, RedeemIntent, Presenting
      <3> QED
        BY <1>2, <2>1, <3>1, <3>2
    <2>8. CASE PayForSend(d) \/ Send(d) \/ Finish(d)
      <3>1. UNCHANGED <<prepared, arg>>
        BY <2>8 DEF PayForSend, Send, Finish, callVars
      <3>2. pc[d] \in Presenting \ {"verify"} \/ pc'[d] \notin Presenting
        BY <2>8 DEF PayForSend, Send, Finish, Goto, Presenting
      <3> QED
        BY <1>2, <2>1, <3>1, <3>2
    <2> QED
      BY <1>4, <2>2, <2>3, <2>4, <2>5, <2>6, <2>7, <2>8 DEF CallStep, Handle
  <1>5. CASE Outside
    <2>1. UNCHANGED <<pc, prepared, arg, preview>>
      BY <1>5, OutsideLeavesCalls
    <2>2. CASE \E w \in Worlds : Edit(w)
      BY <2>1, <2>2, AgentCallsAssumption DEF Edit
    <2>3. CASE ~\E w \in Worlds : Edit(w)
      <3>1. UNCHANGED <<world, edits>>
        BY <1>5, <2>3 DEF Outside, KillSwitch, ThrowSwitch, RefuseDialogs, RevokeToken,
                VoidIntents, CloseListener, RevokeCapabilities, KillUnchanged, AnswerDialog,
                SwitchRun, CloseWindow, CloseCollection, Refill, Tick, worldVars, vars
      <3> QED
        BY <2>1, <3>1
    <2> QED
      BY <2>2, <2>3
  <1> QED
    BY EveryStep, <1>3, <1>4, <1>5

\* A step of another call, or of nobody's, leaves a call's place and account.
LEMMA OthersKeepPlace ==
    ASSUME TypeOK, [Next]_vars, NEW d \in Call, Placed(d), Accounts(d),
           Outside \/ \E c \in Call \ {d} : CallStep(c)
    PROVE  Placed(d)' /\ Accounts(d)'
  <1>1. /\ pc'[d] = pc[d] /\ arg'[d] = arg[d] /\ verdict'[d] = verdict[d]
        /\ outcome'[d] = outcome[d] /\ consent'[d] = consent[d]
        /\ d \in charged' <=> d \in charged
        /\ SentBy(d)' <=> SentBy(d)
    <2>1. CASE Outside
      BY <2>1, OutsideLeavesCalls DEF SentBy
    <2>2. ASSUME NEW c \in Call \ {d}, CallStep(c)
          PROVE  /\ pc'[d] = pc[d] /\ arg'[d] = arg[d] /\ verdict'[d] = verdict[d]
                 /\ outcome'[d] = outcome[d] /\ consent'[d] = consent[d]
                 /\ d \in charged' <=> d \in charged
                 /\ SentBy(d)' <=> SentBy(d)
      BY <2>2, CallStepIsLocal
    <2> QED
      BY <2>1, <2>2
  <1>2. arg[d] # NoIntent => preview'[arg[d]] = preview[arg[d]]
    BY PreviewsStay DEF TypeOK, Placed
  <1> QED
    BY <1>1, <1>2 DEF Placed, Accounts, Agreed

LEMMA NextPlaced ==
    ASSUME TypeOK, [Next]_vars, NEW d \in Call, Placed(d), Accounts(d)
    PROVE  Placed(d)' /\ Accounts(d)'
  <1> SUFFICES ASSUME CallStep(d)
               PROVE  Placed(d)' /\ Accounts(d)'
    BY EveryStep, OthersKeepPlace
  <1> USE DEF TypeOK, Placed, Accounts, Agreed, Goto, Settle,
              Presenting, Uncharged, Over, SentBy
  <1>1. \A i \in IntentId : preview[i] # NoIntent => preview'[i] = preview[i]
    BY PreviewsStay
  <1>2. ASSUME NEW i \in IntentId \cup {NoIntent}, NEW a \in Answers, Arrive(d, i, a)
        PROVE  Placed(d)' /\ Accounts(d)'
    BY <1>1, <1>2 DEF Arrive, Store!Known, history, storeVars
  <1>3. CASE CheckCapability(d)
    BY <1>1, <1>3 DEF CheckCapability, history, storeVars
  <1>4. CASE Prepare(d)
    BY <1>1, <1>4 DEF Prepare, history, storeVars
  <1>5. CASE PayForPreview(d)
    BY <1>1, <1>5 DEF PayForPreview, Spend, storeVars
  <1>6. CASE Describe(d)
    BY <1>1, <1>6 DEF Describe, history, storeVars
  <1>7. ASSUME NEW i \in IntentId, IssueIntent(d, i) PROVE Placed(d)' /\ Accounts(d)'
    BY <1>1, <1>7 DEF IssueIntent, history
  <1>8. CASE VerifyIntent(d)
    BY <1>1, <1>8 DEF VerifyIntent, history
  <1>9. CASE Judge(d)
    <2>1. verdict'[d] = Proceed => verdict'[d] # Deny /\ verdict'[d].outcome # "confirm"
      BY DEF Proceed, Deny
    <2> QED
      BY <1>1, <1>9, <2>1 DEF Judge, history, storeVars
  <1>10. CASE Ask(d)
    <2>1. verdict[d] # Deny
      BY <1>10, VerdictKinds DEF Ask
    <2> QED
      BY <1>1, <1>10, <2>1 DEF Ask, AskClient, PutUpDialog, storeVars
  <1>11. CASE HearAnswer(d)
    <2>1. verdict[d] # Deny
      BY <1>11, VerdictKinds DEF HearAnswer
    <2> QED
      BY <1>1, <1>11, <2>1 DEF HearAnswer, storeVars
  <1>12. CASE TimeOut(d) \/ HangUp(d)
    BY <1>1, <1>12 DEF TimeOut, HangUp, history, storeVars
  <1>13. CASE RedeemIntent(d)
    BY <1>1, <1>13 DEF RedeemIntent
  <1>14. CASE PayForSend(d)
    BY <1>1, <1>14 DEF PayForSend, Spend, storeVars
  <1>15. CASE Send(d)
    <2>1. verdict[d].outcome # "confirm" => verdict[d] = Proceed
      BY <1>15, VerdictKinds DEF Send
    <2>2. /\ pc'[d] = "recording" /\ UNCHANGED <<arg, verdict, consent, charged, preview>>
          /\ arg[d] # NoIntent /\ Agreed(d)
      BY <1>15 DEF Send, storeVars
    <2>3. CASE sent' = sent /\ Settle(d, "refused")
      BY <2>2, <2>3
    <2>4. CASE sent' = sent \cup {Sending(d)}
      <3> DEFINE parcel == Sending(d)
      <3>1. SentBy(d)'
        <4>1. parcel \in sent' /\ parcel.call = d
          BY <2>4 DEF Sending
        <4> HIDE DEF parcel
        <4> QED
          BY <4>1 DEF SentBy
      <3>2. outcome'[d] \in {"refused", IF verdict[d].outcome = "confirm" THEN "confirmed"
                                        ELSE "allowed"}
        BY <1>15 DEF Send
      <3> HIDE DEF SentBy
      <3> QED
        BY <2>1, <2>2, <3>1, <3>2
    <2> QED
      BY <1>15, <2>3, <2>4 DEF Send
  <1>16. CASE Finish(d)
    BY <1>1, <1>16 DEF Finish, callVars, history, storeVars
  <1> QED
    BY <1>2, <1>3, <1>4, <1>5, <1>6, <1>7, <1>8, <1>9, <1>10, <1>11, <1>12, <1>13, <1>14,
       <1>15, <1>16 DEF CallStep, Handle

-----------------------------------------------------------------------------
(* What was spent, and what was sent.                                      *)

\* A call that has spent its preview changes neither what it carries nor what was
\* decided of it, and of what it redeemed nothing is taken back.
LEMMA SpentStays ==
    ASSUME TypeOK, [Next]_vars, NEW d \in Call, pc[d] \in {"pay", "send"} \cup Over
    PROVE  /\ arg'[d] = arg[d] /\ verdict'[d] = verdict[d]
           /\ d \in spentInTime => d \in spentInTime'
  <1>1. CASE Outside \/ \E c \in Call \ {d} : CallStep(c)
    BY <1>1, OutsideLeavesCalls, CallStepIsLocal
  <1>2. CASE CallStep(d)
    <2>1. PayForSend(d) \/ Send(d) \/ Finish(d)
      BY <1>2 DEF CallStep, Handle, Over, Arrive, CheckCapability, Prepare, PayForPreview,
                  Describe, IssueIntent, VerifyIntent, Judge, Ask, HearAnswer, TimeOut,
                  HangUp, RedeemIntent
    <2> QED
      BY <2>1 DEF PayForSend, Send, Finish, callVars, history
  <1> QED
    BY EveryStep, <1>1, <1>2

\* A receipt is never taken back.
LEMMA ReceiptsStay ==
    ASSUME TypeOK, StoreIsSound, [Next]_vars, NEW i \in IntentId, paid[i] # NoIntent
    PROVE  paid'[i] = paid[i]
  <1>1. ASSUME NEW c \in Call, RedeemIntent(c) PROVE paid'[i] = paid[i]
    <2>1. ASSUME Store!Good(arg[c], "send_request", prepared[c].world.print)
          PROVE  arg[c] \in IntentId /\ paid[arg[c]] = NoIntent
      BY <2>1, GoodMeans DEF StoreIsSound
    <2> QED
      BY <1>1, <2>1 DEF RedeemIntent, Store!Redeem, TypeOK, Store!TypeOK
  <1>2. ASSUME NEW c \in Call, VerifyIntent(c) \/ \E j \in IntentId : IssueIntent(c, j)
        PROVE  paid' = paid
    BY <1>2 DEF VerifyIntent, IssueIntent, Store!Verify, Store!Issue
  <1> QED
    BY <1>1, <1>2, EveryStep, StoreSteps, OutsideLeavesCalls DEF storeVars

\* Spending is redeeming: the one step that leads to the payment.
LEMMA SpendingIsRedeeming ==
    ASSUME TypeOK, [Next]_vars, NEW d \in Call, Placed(d), ~HasSpent(d), HasSpent(d)'
    PROVE  /\ RedeemIntent(d)
           /\ Store!Good(arg[d], "send_request", prepared[d].world.print)
  <1>1. CASE Outside \/ \E c \in Call \ {d} : CallStep(c)
    BY <1>1, OutsideLeavesCalls, CallStepIsLocal DEF HasSpent, SentBy
  <1>2. CASE CallStep(d)
    <2> USE DEF TypeOK, HasSpent, Goto, Settle
    <2>1. ASSUME pc'[d] \notin {"pay", "send"}, sent' = sent PROVE FALSE
      BY <2>1 DEF SentBy
    <2>2. CASE \E i \in IntentId \cup {NoIntent}, a \in Answers : Arrive(d, i, a)
      BY <2>1, <2>2 DEF Arrive, history
    <2>3. CASE CheckCapability(d) \/ Prepare(d) \/ Describe(d) \/ VerifyIntent(d)
      BY <2>1, <2>3 DEF CheckCapability, Prepare, Describe, VerifyIntent, history
    <2>4. CASE PayForPreview(d)
      BY <2>1, <2>4 DEF PayForPreview, Spend
    <2>5. CASE (\E i \in IntentId : IssueIntent(d, i)) \/ Judge(d)
      BY <2>1, <2>5 DEF IssueIntent, Judge, history
    <2>6. CASE Ask(d) \/ HearAnswer(d)
      BY <2>1, <2>6 DEF Ask, AskClient, PutUpDialog, HearAnswer
    <2>7. CASE TimeOut(d) \/ HangUp(d) \/ Finish(d)
      BY <2>1, <2>7 DEF TimeOut, HangUp, Finish, history
    <2>8. CASE PayForSend(d) \/ Send(d)
      BY <2>8 DEF PayForSend, Send
    <2>9. CASE RedeemIntent(d)
      BY <2>1, <2>9 DEF RedeemIntent
    <2> QED
      BY <1>2, <2>2, <2>3, <2>4, <2>5, <2>6, <2>7, <2>8, <2>9 DEF CallStep, Handle
  <1> QED
    BY EveryStep, <1>1, <1>2

\* A preview is redeemed only while nobody has, and only before it was voided.
LEMMA RedeemedFirst ==
    ASSUME TypeOK, StoreIsSound, Voided, NEW d \in Call, RedeemIntent(d),
           Store!Good(arg[d], "send_request", prepared[d].world.print)
    PROVE  /\ paid[arg[d]] = NoIntent /\ paid'[arg[d]] # NoIntent
           /\ arg' = arg /\ d \in spentInTime'
  <1> DEFINE p == prepared[d].world.print
             bought == [tool |-> "send_request", print |-> p, at |-> now]
  <1>1. arg[d] \in IntentId /\ by[arg[d]] # NoIntent /\ paid[arg[d]] = NoIntent
    BY GoodMeans DEF StoreIsSound
  <1>2. bought # NoIntent
    <2>1. p \in Fingerprint /\ now \in Int
      BY AgentCallsAssumption, CallStoreAssumption DEF TypeOK, Store!TypeOK
    <2> QED
      BY <2>1, RecordsAreNotAbsent
  <1>3. paid'[arg[d]] = bought
    BY <1>1 DEF RedeemIntent, Store!Redeem, TypeOK, Store!TypeOK
  <1>4. kill \in {"no", "refusing", "stopping", "voiding"}
    <2>1. arg[d] # NoIntent
      BY <1>1, CallStoreAssumption
    <2> QED
      BY <1>1, <2>1 DEF Voided, Late, TypeOK, KillSteps
  <1> QED
    BY <1>1, <1>2, <1>3, <1>4 DEF RedeemIntent

LEMMA NextSpentOnce ==
    ASSUME TypeOK, StoreIsSound, SpentOnce, Voided, \A c \in Call : Placed(c), [Next]_vars
    PROVE  SpentOnce'
  <1> USE DEF SpentOnce
  <1>1. ASSUME NEW c \in Call, HasSpent(c)
        PROVE  arg[c] \in IntentId /\ arg'[c] = arg[c] /\ c \in spentInTime'
               /\ paid[arg[c]] # NoIntent /\ paid'[arg[c]] # NoIntent
    <2>1. pc[c] \in {"pay", "send"} \cup Over /\ arg[c] # NoIntent
      BY <1>1 DEF HasSpent, Placed, Presenting
    <2>2. arg[c] \in IntentId
      BY <2>1 DEF TypeOK
    <2> QED
      BY <1>1, <2>1, <2>2, SpentStays, ReceiptsStay
  <1>2. ASSUME NEW c \in Call, ~HasSpent(c), HasSpent(c)'
        PROVE  /\ RedeemIntent(c)
               /\ paid[arg[c]] = NoIntent /\ paid'[arg[c]] # NoIntent
               /\ arg' = arg /\ c \in spentInTime'
    BY <1>2, SpendingIsRedeeming, RedeemedFirst
  <1>3. ASSUME NEW c \in Call, NEW d \in Call, c # d, RedeemIntent(c)
        PROVE  ~RedeemIntent(d)
    BY <1>3 DEF RedeemIntent, Settle, Goto, TypeOK
  <1>4. ASSUME NEW c \in Call, HasSpent(c)'
        PROVE  paid'[arg'[c]] # NoIntent /\ c \in spentInTime'
    BY <1>1, <1>2, <1>4
  <1>5. ASSUME NEW c \in Call, NEW d \in Call, c # d, HasSpent(c)', HasSpent(d)'
        PROVE  arg'[c] # arg'[d]
    <2>1. CASE HasSpent(c) /\ HasSpent(d)
      BY <1>1, <1>5, <2>1
    <2>2. CASE HasSpent(c) /\ ~HasSpent(d)
      BY <1>1, <1>2, <1>5, <2>2
    <2>3. CASE ~HasSpent(c) /\ HasSpent(d)
      BY <1>1, <1>2, <1>5, <2>3
    <2>4. CASE ~HasSpent(c) /\ ~HasSpent(d)
      BY <1>2, <1>3, <1>5, <2>4
    <2> QED
      BY <2>1, <2>2, <2>3, <2>4
  <1> QED
    BY <1>4, <1>5

LEMMA OnlySendShips ==
    ASSUME [Next]_vars
    PROVE  \/ sent' = sent
           \/ \E c \in Call : Send(c) /\ sent' = sent \cup {Sending(c)}
  <1>1. ASSUME NEW c \in Call, CallStep(c), ~Send(c) PROVE sent' = sent
    <2>1. CASE \E i \in IntentId \cup {NoIntent}, a \in Answers : Arrive(c, i, a)
      BY <2>1 DEF Arrive, history
    <2>2. CASE CheckCapability(c) \/ Prepare(c) \/ PayForPreview(c) \/ Describe(c)
      BY <2>2 DEF CheckCapability, Prepare, PayForPreview, Describe, history
    <2>3. CASE (\E i \in IntentId : IssueIntent(c, i)) \/ VerifyIntent(c) \/ RedeemIntent(c)
      BY <2>3 DEF IssueIntent, VerifyIntent, RedeemIntent, history
    <2>4. CASE Judge(c) \/ Ask(c) \/ HearAnswer(c) \/ TimeOut(c) \/ HangUp(c)
      BY <2>4 DEF Judge, Ask, HearAnswer, TimeOut, HangUp, history
    <2>5. CASE PayForSend(c) \/ Finish(c)
      BY <2>5 DEF PayForSend, Finish, history
    <2> QED
      BY <1>1, <2>1, <2>2, <2>3, <2>4, <2>5 DEF CallStep, Handle
  <1>2. ASSUME NEW c \in Call, Send(c)
        PROVE  sent' = sent \/ sent' = sent \cup {Sending(c)}
    BY <1>2 DEF Send
  <1> QED
    BY EveryStep, OutsideLeavesCalls, <1>1, <1>2

LEMMA NextShipped ==
    ASSUME IInv, [Next]_vars, NEW s \in sent'
    PROVE  Shipped(s)'
  <1> USE DEF IInv
  <1>1. ASSUME s \in sent PROVE Shipped(s)'
    <2> DEFINE c == s.call
    <2>1. c \in Call /\ SentBy(c)
      BY <1>1 DEF TypeOK, Shipment, SentBy
    <2>2. pc[c] \in Over /\ arg[c] # NoIntent /\ preview[arg[c]] # NoIntent
      BY <2>1 DEF Placed
    <2>3. arg'[c] = arg[c] /\ verdict'[c] = verdict[c] /\ (c \in spentInTime => c \in spentInTime')
      BY <2>1, <2>2, SpentStays
    <2>4. preview'[arg[c]] = preview[arg[c]]
      BY <2>1, <2>2, PreviewsStay DEF TypeOK
    <2>5. \A t \in sent' : t \in sent \/ t.call # c
      BY <2>2, OnlySendShips DEF Send, Sending, Over
    <2>6. Shipped(s)
      BY <1>1
    <2> QED
      BY <2>3, <2>4, <2>5, <2>6 DEF Shipped
  <1>2. ASSUME s \notin sent PROVE Shipped(s)'
    <2>1. PICK c \in Call : Send(c) /\ sent' = sent \cup {s} /\ s = Sending(c)
      BY <1>2, OnlySendShips
    <2>2. pc[c] = "send" /\ ~SentBy(c) /\ arg[c] # NoIntent
      BY <2>1 DEF Send, Placed, Over, Presenting
    <2>3. c \in spentInTime /\ prepared[c].world.print = preview[arg[c]].print
          /\ (edits = prepared[c].edits => prepared[c].world = world)
      BY <2>2 DEF SpentOnce, HasSpent, Judged, Presenting
    <2>4. UNCHANGED <<arg, verdict, preview, spentInTime>>
      BY <2>1 DEF Send, storeVars
    <2>5. /\ s.call = c /\ s.intent = arg[c] /\ s.verdict = verdict[c]
          /\ s.print = world.print /\ s.fresh = (edits = prepared[c].edits)
      BY <2>1 DEF Sending
    <2>6. \A t \in sent' : t.call = c => t = s
      BY <2>1, <2>2 DEF SentBy
    <2> QED
      BY <2>3, <2>4, <2>5, <2>6 DEF Shipped
  <1> QED
    BY <1>1, <1>2

-----------------------------------------------------------------------------
LEMMA InitInvariant == Init => IInv
  <1> SUFFICES ASSUME Init PROVE IInv
    OBVIOUS
  <1>1. TypeOK
    BY InitTypes
  <1>2. StoreIsSound
    <2>1. world.print \in Fingerprint
      BY AgentCallsAssumption DEF Init
    <2>2. [tool |-> "send_request", print |-> world.print, at |-> 0] # NoIntent
      BY <2>1, RecordsAreNotAbsent
    <2> QED
      BY <2>2 DEF Init, InitStore, StoreIsSound
  <1>3. SpentOnce /\ Voided
    BY DEF Init, SpentOnce, HasSpent, SentBy, Voided, Late
  <1>4. ASSUME NEW c \in Call PROVE Placed(c) /\ Accounts(c)
    BY DEF Init, Placed, Accounts, SentBy, Presenting, Over
  <1>5. ASSUME NEW c \in Call PROVE Judged(c)
    BY DEF Init, Judged, Presenting
  <1> QED
    BY <1>1, <1>2, <1>3, <1>4, <1>5 DEF Init, IInv

LEMMA NextInvariant == IInv /\ [Next]_vars => IInv'
  <1> SUFFICES ASSUME IInv, [Next]_vars PROVE IInv'
    OBVIOUS
  <1>1. TypeOK'
    BY NextTypes DEF IInv
  <1>2. StoreIsSound' /\ SpentOnce' /\ Voided'
    BY NextStore, NextSpentOnce, NextVoided DEF IInv
  <1>3. ASSUME NEW c \in Call PROVE Placed(c)' /\ Accounts(c)' /\ Judged(c)'
    BY NextPlaced, NextJudged DEF IInv
  <1>4. ASSUME NEW s \in sent' PROVE Shipped(s)'
    BY NextShipped
  <1> QED
    BY <1>1, <1>2, <1>3, <1>4 DEF IInv

\* The inductive invariant holds of every behaviour.
THEOREM Invariance == Spec => []IInv
  BY InitInvariant, NextInvariant, PTL DEF Spec

\* The types of every variable, the store's included.
THEOREM Typing == Spec => []TypeOK
  <1>1. IInv => TypeOK
    BY DEF IInv
  <1> QED
    BY Invariance, <1>1, PTL

\* Every send was agreed to as it is, for any number of calls, dialogs and previews:
\* with the consent its verdict asked for, once for each preview, and as previewed
\* unless the request was edited while the call was under way (sendRequest in run.go).
THEOREM NothingLeavesUnagreed == Spec => []EverySendWasAgreed
  <1>1. IInv => SendsAreConsented
    <2> SUFFICES ASSUME IInv, NEW s \in sent
                 PROVE  /\ s.verdict # Deny
                        /\ s.verdict.outcome = "confirm" =>
                              \/ consent[s.call] = "window"
                              \/ s.verdict.surface = "either" /\ consent[s.call] = "client"
      BY DEF SendsAreConsented
    <2>1. s.call \in Call /\ SentBy(s.call) /\ s.verdict = verdict[s.call]
      BY DEF IInv, TypeOK, Shipment, SentBy, Shipped
    <2> QED
      BY <2>1 DEF IInv, Placed, Agreed
  <1>2. IInv => OnePreviewOneSend
    <2> SUFFICES ASSUME IInv
                 PROVE  /\ \A s \in sent : s.intent # NoIntent
                        /\ \A s, t \in sent : s.intent = t.intent => s = t
      BY DEF OnePreviewOneSend
    <2>1. ASSUME NEW s \in sent
          PROVE  /\ s.call \in Call /\ SentBy(s.call) /\ s.intent = arg[s.call]
                 /\ arg[s.call] # NoIntent
      <3>1. s.call \in Call /\ SentBy(s.call) /\ s.intent = arg[s.call]
        BY DEF IInv, TypeOK, Shipment, SentBy, Shipped
      <3> QED
        BY <3>1 DEF IInv, Placed
    <2>2. ASSUME NEW s \in sent, NEW t \in sent, s.intent = t.intent PROVE s = t
      <3>1. s.call = t.call
        BY <2>1, <2>2 DEF IInv, SpentOnce, HasSpent
      <3> QED
        BY <3>1 DEF IInv, Shipped
    <2> QED
      BY <2>1, <2>2
  <1>3. IInv => DriftsOnlyUnderEdit
    BY DEF IInv, Shipped, DriftsOnlyUnderEdit
  <1> QED
    BY Invariance, <1>1, <1>2, <1>3, PTL DEF EverySendWasAgreed

\* The accounts are true: nothing is charged to a spending call that nobody agreed to,
\* and what the audit line says was done was done (done in tools.go).
THEOREM TheAccountsAreTrue == Spec => []AccountsAreTrue
  <1>1. IInv => RefusalCostsNothing
    BY DEF IInv, Accounts, Agreed, RefusalCostsNothing, Spends
  <1>2. IInv => AuditTellsTheTruth
    BY DEF IInv, Accounts, Placed, AuditTellsTheTruth, Spends
  <1> QED
    BY Invariance, <1>1, <1>2, PTL DEF AccountsAreTrue

\* Once the previews are voided only what was spent before can still be sent
\* (StopServing, Void and Redeem).
THEOREM VoidedPreviewsStaySo == Spec => []KillSwitchStopsUnspent
  <1>1. IInv => KillSwitchStopsUnspent
    BY DEF IInv, Shipped, Late, KillSwitchStopsUnspent
  <1> QED
    BY Invariance, <1>1, PTL
=============================================================================
