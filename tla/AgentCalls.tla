------------------------------ MODULE AgentCalls ------------------------------
(***************************************************************************)
(* send_request, from the HTTP request an agent makes to the line in the   *)
(* audit log (src/internal/mcpserver: register in tools.go, sendRequest    *)
(* and preview in run.go, ask and its surfaces in confirm.go; the bridge   *)
(* in src/internal/services/mcp.go).                                       *)
(*                                                                         *)
(* Each call is a goroutine of the HTTP server; between two of its steps   *)
(* anything else may happen: another call, an edit to the request, a click *)
(* in a dialog, the clock, the kill switch.  A step reads or writes one    *)
(* piece of shared state.  The world is what re-resolving the request      *)
(* yields at that moment: a fingerprint, and what the policy is told.      *)
(*                                                                         *)
(* sent, charged, consent, spentInTime and edits are history variables.    *)
(***************************************************************************)
EXTENDS AgentRules, FiniteSets

CONSTANTS
    Call,            \* tool calls, each made once
    IntentId, Fingerprint, NoIntent, Second, IntentTTL, Horizon,  \* see Intents
    ConfirmTimeout,  \* how long a dialog stays up, in ticks
    Worlds,          \* what resolving the request may yield
    Burst,           \* RUN calls a full bucket allows
    ClientAsks,      \* whether the client declared elicitation
    MaxEdits,        \* bound: changes to the world in a behaviour
    Disturbances     \* bound: the combinations of AllDisturbances a behaviour may meet

AllDisturbances == {"edit", "switch", "window", "hang up", "kill", "refill"}

ASSUME AgentCallsAssumption ==
    /\ Disturbances \subseteq SUBSET AllDisturbances
    /\ Burst \in Nat /\ ConfirmTimeout \in Nat /\ MaxEdits \in Nat
    /\ \A w \in Worlds : w.print \in Fingerprint /\ w.send \in Sends

\* As Intents has it for its store, and an id is never the mark of none.
ASSUME CallStoreAssumption ==
    /\ Second \in Nat \ {0}
    /\ IntentTTL \in Nat /\ IntentTTL >= Second
    /\ Horizon \in Nat
    /\ NoIntent \notin IntentId
    /\ NoIntent \notin [tool : {"send_request"}, print : Fingerprint, expires : Int]
                     \cup [tool : {"send_request"}, print : Fingerprint, at : Int]

VARIABLES
    by, now, preview, paid, refused,  \* the store of intents
    world, edits,
    switches, windowOpen, collectionOpen,
    trouble,     \* what else may happen in this behaviour
    tokens,      \* what is left of the RUN budget
    tokenValid,  \* the bearer token of this server
    kill,        \* how far the kill switch has come
    pc,
    arg,         \* the intent a call carries, or none
    answer,      \* the client's answer a call carries
    prepared,    \* the world a call was judged in, and the edits it had seen
    verdict,     \* the policy's decision on a call
    dialog,      \* the dialog a call has put up in the window
    deadline,    \* when that dialog closes itself
    outcome,     \* the decision a call's audit line records
    sent, charged, consent, spentInTime

Store == INSTANCE Intents WITH Tool <- {"send_request"}

storeVars  == <<by, now, preview, paid, refused>>
serverVars == <<tokens, tokenValid, kill, switches>>
worldVars  == <<world, edits, windowOpen, collectionOpen, trouble>>
callVars   == <<arg, answer, prepared, verdict, dialog, deadline, outcome>>
history    == <<sent, charged, consent, spentInTime>>
vars == <<storeVars, serverVars, worldVars, pc, callVars, history>>

Answers  == {"none", "accept", "decline", "cancel"}
Outcomes == {"none", "allowed", "confirmed", "refused", "denied-by-policy",
             "timed-out", "rate-limited", "asked"}
Steps == {"idle", "arrived", "granted", "budget", "describe", "issue", "verify",
          "judge", "ask", "waiting", "redeem", "pay", "send", "recording", "done"}
KillSteps == {"no", "refusing", "stopping", "voiding", "closing", "revoking", "over"}

Shipment == [call : Call, intent : IntentId, print : Fingerprint,
             verdict : Verdicts, fresh : BOOLEAN, kill : KillSteps]

TypeOK ==
    /\ Store!TypeOK
    /\ world \in Worlds /\ edits \in 0..MaxEdits
    /\ switches \in Switches /\ windowOpen \in BOOLEAN /\ collectionOpen \in BOOLEAN
    /\ trouble \in Disturbances
    /\ tokens \in 0..Burst /\ tokenValid \in BOOLEAN /\ kill \in KillSteps
    /\ pc \in [Call -> Steps]
    /\ arg \in [Call -> IntentId \cup {NoIntent}]
    /\ answer \in [Call -> Answers]
    /\ prepared \in [Call -> [world : Worlds, edits : 0..MaxEdits]]
    /\ verdict \in [Call -> Verdicts]
    /\ dialog \in [Call -> {"none", "open", "yes", "no"}]
    /\ deadline \in [Call -> 0..Horizon]
    /\ outcome \in [Call -> Outcomes]
    /\ sent \subseteq Shipment
    /\ charged \subseteq Call /\ spentInTime \subseteq Call
    /\ consent \in [Call -> {"none", "window", "client"}]

\* The agent holds nothing, or previews that earlier calls have just issued.
InitStore ==
    /\ now = 0 /\ refused = {}
    /\ paid = [i \in IntentId |-> NoIntent]
    /\ \E earlier \in SUBSET IntentId :
        /\ earlier # {} => Decide(switches, world.send) # Deny
        /\ preview = [i \in IntentId |->
              IF i \in earlier
              THEN [tool |-> "send_request", print |-> world.print, at |-> 0]
              ELSE NoIntent]
        /\ by = [i \in IntentId |->
              IF i \in earlier
              THEN [tool |-> "send_request", print |-> world.print,
                    expires |-> Store!ExpiryFrom(0)]
              ELSE NoIntent]

Init ==
    /\ world \in Worlds /\ edits = 0
    /\ switches \in {[held |-> {"run"}, alwaysConfirmSends |-> on] : on \in BOOLEAN}
    /\ InitStore
    /\ windowOpen = TRUE /\ collectionOpen = TRUE /\ trouble \in Disturbances
    /\ tokens = Burst /\ tokenValid = TRUE /\ kill = "no"
    /\ pc = [c \in Call |-> "idle"]
    /\ arg = [c \in Call |-> NoIntent]
    /\ answer = [c \in Call |-> "none"]
    /\ prepared = [c \in Call |-> [world |-> world, edits |-> 0]]
    /\ verdict = [c \in Call |-> Deny]
    /\ dialog = [c \in Call |-> "none"]
    /\ deadline = [c \in Call |-> 0]
    /\ outcome = [c \in Call |-> "none"]
    /\ sent = {} /\ charged = {} /\ spentInTime = {}
    /\ consent = [c \in Call |-> "none"]

-----------------------------------------------------------------------------
(* How a call moves and ends.                                              *)

Goto(c, step) == pc' = [pc EXCEPT ![c] = step]

\* The call's result is settled; done() is about to record it.
Settle(c, how) ==
    /\ Goto(c, "recording")
    /\ outcome' = [outcome EXCEPT ![c] = how]

\* Bound: no more previews than there are ids for them.
Previewing == {c \in Call : arg[c] = NoIntent /\ pc[c] \notin {"idle", "recording", "done"}}

RoomForPreview ==
    Cardinality(Previewing) + Cardinality(Store!Known) < Cardinality(IntentId)

\* A call gets past the token check.  An agent may present any id it was given,
\* and its client may put an answer in the call if it declared that it can ask.
Arrive(c, i, a) ==
    /\ pc[c] = "idle" /\ tokenValid
    /\ IF i = NoIntent THEN a = "none" /\ RoomForPreview ELSE i \in Store!Known
    /\ a # "none" => ClientAsks
    /\ Goto(c, "arrived")
    /\ arg' = [arg EXCEPT ![c] = i]
    /\ answer' = [answer EXCEPT ![c] = a]
    /\ UNCHANGED <<storeVars, serverVars, worldVars, history,
                   prepared, verdict, dialog, deadline, outcome>>

\* Mutant of CheckCapability: the budget spent on entry.
CheckCapabilitySpending(c) ==
    /\ pc[c] = "arrived"
    /\ IF "run" \in switches.held /\ tokens > 0
       THEN Goto(c, "granted") /\ charged' = charged \cup {c} /\ UNCHANGED outcome
       ELSE Settle(c, "denied-by-policy") /\ UNCHANGED charged
    /\ UNCHANGED <<storeVars, serverVars, worldVars, sent, consent, spentInTime,
                   arg, answer, prepared, verdict, dialog, deadline>>

CheckCapability(c) ==
    /\ pc[c] = "arrived"
    /\ IF "run" \in switches.held
       THEN Goto(c, "granted") /\ UNCHANGED outcome
       ELSE Settle(c, "denied-by-policy")
    /\ UNCHANGED <<storeVars, serverVars, worldVars, history,
                   arg, answer, prepared, verdict, dialog, deadline>>

\* The collection must be open and the request must resolve.
Prepare(c) ==
    /\ pc[c] = "granted"
    /\ \/ /\ ~collectionOpen
          /\ Settle(c, "denied-by-policy")
          /\ UNCHANGED prepared
       \/ /\ Settle(c, "refused")
          /\ UNCHANGED prepared
       \/ /\ collectionOpen
          /\ prepared' = [prepared EXCEPT ![c] = [world |-> world, edits |-> edits]]
          /\ Goto(c, IF arg[c] = NoIntent THEN "budget" ELSE "verify")
          /\ UNCHANGED outcome
    /\ UNCHANGED <<storeVars, serverVars, worldVars, history,
                   arg, answer, verdict, dialog, deadline>>

\* One token of the RUN budget, or the end of the call.  Only a tool that spends
\* on entry is logged as rate-limited; this one spends in its handler.
Spend(c, next) ==
    IF tokens > 0
    THEN /\ tokens' = tokens - 1
         /\ charged' = charged \cup {c}
         /\ Goto(c, next)
         /\ UNCHANGED outcome
    ELSE /\ Settle(c, "refused")
         /\ UNCHANGED <<tokens, charged>>

-----------------------------------------------------------------------------
(* Phase 1: a preview.  Nothing is sent and nobody is asked.               *)

PayForPreview(c) ==
    /\ pc[c] = "budget"
    /\ Spend(c, "describe")
    /\ UNCHANGED <<storeVars, tokenValid, kill, switches, worldVars, sent, consent,
                   spentInTime, arg, answer, prepared, verdict, dialog, deadline>>

\* A send the policy refuses is described, and no intent is issued for it.
Describe(c) ==
    /\ pc[c] = "describe"
    /\ verdict' = [verdict EXCEPT ![c] = Decide(switches, prepared[c].world.send)]
    /\ IF verdict'[c] = Deny
       THEN Settle(c, "allowed")
       ELSE Goto(c, "issue") /\ UNCHANGED outcome
    /\ UNCHANGED <<storeVars, serverVars, worldVars, history,
                   arg, answer, prepared, dialog, deadline>>

IssueIntent(c, i) ==
    /\ pc[c] = "issue"
    /\ Store!Issue(i, "send_request", prepared[c].world.print)
    /\ Settle(c, "allowed")
    /\ UNCHANGED <<serverVars, worldVars, history,
                   arg, answer, prepared, verdict, dialog, deadline>>

-----------------------------------------------------------------------------
(* Phase 2: the intent handed back.                                        *)

VerifyIntent(c) ==
    /\ pc[c] = "verify"
    /\ Store!Verify(arg[c], "send_request", prepared[c].world.print)
    /\ IF Store!Good(arg[c], "send_request", prepared[c].world.print)
       THEN Goto(c, "judge") /\ UNCHANGED outcome
       ELSE Settle(c, "refused")
    /\ UNCHANGED <<serverVars, worldVars, history,
                   arg, answer, prepared, verdict, dialog, deadline>>

Judge(c) ==
    /\ pc[c] = "judge"
    /\ verdict' = [verdict EXCEPT ![c] = Decide(switches, prepared[c].world.send)]
    /\ \/ verdict'[c] = Deny /\ Settle(c, "denied-by-policy")
       \/ verdict'[c] = Proceed /\ Goto(c, "redeem") /\ UNCHANGED outcome
       \/ verdict'[c].outcome = "confirm" /\ Goto(c, "ask") /\ UNCHANGED outcome
    /\ UNCHANGED <<storeVars, serverVars, worldVars, history,
                   arg, answer, prepared, dialog, deadline>>

CanAskInWindow == windowOpen /\ collectionOpen

AtMost(a, b) == IF a <= b THEN a ELSE b

\* The dialog goes up, or the call fails where there is no window to put it in.
\* Bound: a dialog closes itself by the horizon.
PutUpDialog(c) ==
    /\ IF CanAskInWindow
       THEN /\ dialog' = [dialog EXCEPT ![c] = "open"]
            /\ deadline' = [deadline EXCEPT ![c] = AtMost(now + ConfirmTimeout, Horizon)]
            /\ Goto(c, "waiting")
            /\ UNCHANGED outcome
       ELSE /\ Settle(c, "refused")
            /\ UNCHANGED <<dialog, deadline>>
    /\ UNCHANGED consent

\* What the client's own prompt came to; without an answer the question itself is
\* the call's result, and the retry is another call.
AskClient(c) ==
    /\ \/ answer[c] = "none"    /\ Settle(c, "asked")     /\ UNCHANGED consent
       \/ answer[c] = "decline" /\ Settle(c, "refused")   /\ UNCHANGED consent
       \/ answer[c] = "cancel"  /\ Settle(c, "timed-out") /\ UNCHANGED consent
       \/ /\ answer[c] = "accept"
          /\ consent' = [consent EXCEPT ![c] = "client"]
          /\ Goto(c, "redeem")
          /\ UNCHANGED outcome
    /\ UNCHANGED <<dialog, deadline>>

\* Where the surface is the window the client is never asked instead.
Ask(c) ==
    /\ pc[c] = "ask"
    /\ IF verdict[c].surface = "either" /\ ClientAsks
       THEN AskClient(c) ELSE PutUpDialog(c)
    /\ UNCHANGED <<storeVars, serverVars, worldVars, sent, charged, spentInTime,
                   arg, answer, prepared, verdict>>

HearAnswer(c) ==
    /\ pc[c] = "waiting"
    /\ \/ /\ dialog[c] = "yes"
          /\ consent' = [consent EXCEPT ![c] = "window"]
          /\ Goto(c, "redeem")
          /\ UNCHANGED outcome
       \/ /\ dialog[c] = "no"
          /\ Settle(c, "refused")
          /\ UNCHANGED consent
    /\ UNCHANGED <<storeVars, serverVars, worldVars, sent, charged, spentInTime,
                   arg, answer, prepared, verdict, dialog, deadline>>

\* Mutant of TimeOut: the clock of the dialog kept by its window.
TimeOutInWindow(c) ==
    /\ pc[c] = "waiting" /\ now >= deadline[c] /\ windowOpen
    /\ Settle(c, "timed-out")
    /\ UNCHANGED <<storeVars, serverVars, worldVars, history,
                   arg, answer, prepared, verdict, dialog, deadline>>

\* No answer in time is a refusal.
TimeOut(c) ==
    /\ pc[c] = "waiting" /\ now >= deadline[c]
    /\ Settle(c, "timed-out")
    /\ UNCHANGED <<storeVars, serverVars, worldVars, history,
                   arg, answer, prepared, verdict, dialog, deadline>>

\* The client drops the connection: the context of the request is cancelled, and the
\* dialog is taken for one that nobody answered.
HangUp(c) ==
    /\ pc[c] = "waiting"
    /\ Settle(c, "timed-out")
    /\ UNCHANGED <<storeVars, serverVars, worldVars, history,
                   arg, answer, prepared, verdict, dialog, deadline>>

\* Mutant of RedeemIntent: the intent checked again instead of spent.
RedeemByVerifying(c) ==
    /\ pc[c] = "redeem"
    /\ Store!Verify(arg[c], "send_request", prepared[c].world.print)
    /\ IF Store!Good(arg[c], "send_request", prepared[c].world.print)
       THEN /\ Goto(c, "pay")
            /\ spentInTime' = IF kill \in {"no", "refusing", "stopping", "voiding"}
                              THEN spentInTime \cup {c} ELSE spentInTime
            /\ UNCHANGED outcome
       ELSE Settle(c, "refused") /\ UNCHANGED spentInTime
    /\ UNCHANGED <<serverVars, worldVars, sent, charged, consent,
                   arg, answer, prepared, verdict, dialog, deadline>>

\* Spent once, against the fingerprint taken before anyone was asked.
RedeemIntent(c) ==
    /\ pc[c] = "redeem"
    /\ Store!Redeem(arg[c], "send_request", prepared[c].world.print)
    /\ IF Store!Good(arg[c], "send_request", prepared[c].world.print)
       THEN /\ Goto(c, "pay")
            /\ spentInTime' = IF kill \in {"no", "refusing", "stopping", "voiding"}
                              THEN spentInTime \cup {c} ELSE spentInTime
            /\ UNCHANGED outcome
       ELSE Settle(c, "refused") /\ UNCHANGED spentInTime
    /\ UNCHANGED <<serverVars, worldVars, sent, charged, consent,
                   arg, answer, prepared, verdict, dialog, deadline>>

\* The budget is taken after approval.
PayForSend(c) ==
    /\ pc[c] = "pay"
    /\ Spend(c, "send")
    /\ UNCHANGED <<storeVars, tokenValid, kill, switches, worldVars, sent, consent,
                   spentInTime, arg, answer, prepared, verdict, dialog, deadline>>

Sending(c) ==
    [call |-> c, intent |-> arg[c], print |-> world.print, verdict |-> verdict[c],
     fresh |-> edits = prepared[c].edits, kill |-> kill]

\* The request is resolved again, as it is now, and goes on the wire; it may fail
\* before that or after.
Send(c) ==
    /\ pc[c] = "send"
    /\ \/ Settle(c, "refused") /\ UNCHANGED sent
       \/ /\ collectionOpen
          /\ sent' = sent \cup {Sending(c)}
          /\ \/ Settle(c, "refused")
             \/ Settle(c, IF verdict[c].outcome = "confirm" THEN "confirmed" ELSE "allowed")
    /\ UNCHANGED <<storeVars, serverVars, worldVars, charged, consent, spentInTime,
                   arg, answer, prepared, verdict, dialog, deadline>>

\* record() takes the server's mutex, which the kill switch holds while it
\* revokes, voids and shuts the listener down.
ServerLocked == kill \in {"voiding", "closing"}

Finish(c) ==
    /\ pc[c] = "recording" /\ ~ServerLocked
    /\ Goto(c, "done")
    /\ UNCHANGED <<storeVars, serverVars, worldVars, callVars, history>>

-----------------------------------------------------------------------------
(* The kill switch, one step at a time.                                    *)

KillUnchanged == UNCHANGED <<worldVars, pc, arg, answer, prepared, verdict,
                             deadline, outcome, history>>

ThrowSwitch ==
    /\ kill = "no"
    /\ kill' = "refusing"
    /\ UNCHANGED <<storeVars, tokens, tokenValid, switches, dialog>> /\ KillUnchanged

Waiting == {c \in Call : pc[c] = "waiting" /\ dialog[c] = "open"}

\* Every dialog that is up is refused; one that goes up later is not.
RefuseDialogs ==
    /\ kill = "refusing"
    /\ kill' = "stopping"
    /\ dialog' = [c \in Call |-> IF c \in Waiting THEN "no" ELSE dialog[c]]
    /\ UNCHANGED <<storeVars, tokens, tokenValid, switches>> /\ KillUnchanged

RevokeToken ==
    /\ kill = "stopping"
    /\ kill' = "voiding"
    /\ tokenValid' = FALSE
    /\ UNCHANGED <<storeVars, tokens, switches, dialog>> /\ KillUnchanged

\* Mutant of VoidIntents: the previews forgotten.
KeepIntents ==
    /\ kill = "voiding"
    /\ kill' = "closing"
    /\ UNCHANGED <<storeVars, tokens, tokenValid, switches, dialog>> /\ KillUnchanged

VoidIntents ==
    /\ kill = "voiding"
    /\ kill' = "closing"
    /\ Store!VoidAll
    /\ UNCHANGED <<tokens, tokenValid, switches, dialog>> /\ KillUnchanged

\* Shutdown waits two seconds for the calls in flight, and then does not.
CloseListener ==
    /\ kill = "closing"
    /\ kill' = "revoking"
    /\ UNCHANGED <<storeVars, tokens, tokenValid, switches, dialog>> /\ KillUnchanged

RevokeCapabilities ==
    /\ kill = "revoking"
    /\ kill' = "over"
    /\ switches' = [switches EXCEPT !.held = {}]
    /\ UNCHANGED <<storeVars, tokens, tokenValid, dialog>> /\ KillUnchanged

-----------------------------------------------------------------------------
(* The person, the disk, the clock.                                        *)

Others == UNCHANGED <<pc, callVars, history>>

\* A click in the dialog of a call that is still waiting: once only.
AnswerDialog(c, how) ==
    /\ c \in Waiting /\ windowOpen
    /\ dialog' = [dialog EXCEPT ![c] = how]
    /\ UNCHANGED <<storeVars, serverVars, worldVars, pc, history,
                   arg, answer, prepared, verdict, deadline, outcome>>

\* The request, its environment or its review changes, by hand or by another tool.
Edit(w) ==
    /\ edits < MaxEdits /\ w # world
    /\ world' = w /\ edits' = edits + 1
    /\ UNCHANGED <<storeVars, serverVars, windowOpen, collectionOpen, trouble>> /\ Others

SwitchRun(on) ==
    /\ switches' = [switches EXCEPT !.held = IF on THEN {"run"} ELSE {}]
    /\ kill = "no"
    /\ UNCHANGED <<storeVars, tokens, tokenValid, kill, worldVars>> /\ Others

CloseWindow ==
    /\ windowOpen' = FALSE
    /\ UNCHANGED <<storeVars, serverVars, world, edits, collectionOpen, trouble>> /\ Others

\* Closing the collection disconnects first.
CloseCollection ==
    /\ kill = "over"
    /\ collectionOpen' = FALSE
    /\ UNCHANGED <<storeVars, serverVars, world, edits, windowOpen, trouble>> /\ Others

Refill ==
    /\ tokens < Burst
    /\ tokens' = tokens + 1
    /\ UNCHANGED <<storeVars, tokenValid, kill, switches, worldVars>> /\ Others

Tick ==
    /\ Store!Tick
    /\ UNCHANGED <<serverVars, worldVars>> /\ Others

-----------------------------------------------------------------------------
Handle(c) ==
    \/ CheckCapability(c)
    \/ Prepare(c)
    \/ PayForPreview(c)
    \/ Describe(c)
    \/ \E i \in IntentId : IssueIntent(c, i)
    \/ VerifyIntent(c)
    \/ Judge(c)
    \/ Ask(c)
    \/ HearAnswer(c)
    \/ TimeOut(c)
    \/ RedeemIntent(c)
    \/ PayForSend(c)
    \/ Send(c)
    \/ Finish(c)

KillSwitch ==
    \/ RefuseDialogs
    \/ RevokeToken
    \/ VoidIntents
    \/ CloseListener
    \/ RevokeCapabilities

Disturb ==
    \/ "edit" \in trouble /\ \E w \in Worlds : Edit(w)
    \/ "switch" \in trouble /\ \E on \in BOOLEAN : SwitchRun(on)
    \/ "window" \in trouble /\ CloseWindow
    \/ "hang up" \in trouble /\ \E c \in Call : HangUp(c)
    \/ "kill" \in trouble /\ (ThrowSwitch \/ CloseCollection)
    \/ "refill" \in trouble /\ Refill

Next ==
    \/ \E c \in Call, i \in IntentId \cup {NoIntent}, a \in Answers : Arrive(c, i, a)
    \/ \E c \in Call : Handle(c)
    \/ \E c \in Call, how \in {"yes", "no"} : AnswerDialog(c, how)
    \/ KillSwitch
    \/ Disturb
    \/ Tick

Spec == Init /\ [][Next]_vars

\* The goroutine of a call is scheduled, the kill switch runs to its end, and time
\* passes.  Nobody has to answer, nor to make a call.
FairSpec ==
    /\ Spec
    /\ \A c \in Call : WF_vars(Handle(c))
    /\ WF_vars(KillSwitch)
    /\ WF_vars(Tick)
-----------------------------------------------------------------------------
(* Properties.                                                             *)

Spends(c) == pc[c] # "idle" /\ arg[c] # NoIntent

SentBy(c) == \E s \in sent : s.call = c

\* Nothing leaves without the consent its own verdict asked for: a send to be
\* confirmed in the window was approved there, a send the client may confirm was
\* approved by either, and a denied one never leaves, however calls and dialogs
\* interleave (sendRequest, askWindowOnly, askEither).
SendsAreConsented ==
    \A s \in sent :
        /\ s.verdict # Deny
        /\ s.verdict.outcome = "confirm" =>
              \/ consent[s.call] = "window"
              \/ s.verdict.surface = "either" /\ consent[s.call] = "client"

\* One preview is one send, though it may be presented by many calls at once and
\* each of them verifies it before anyone is asked (Verify, then Redeem).
OnePreviewOneSend ==
    /\ \A s \in sent : s.intent # NoIntent
    /\ \A s, t \in sent : s.intent = t.intent => s = t

\* What is sent differs from what was previewed only when something was edited
\* while the call itself was under way: an edit between the two calls voids the
\* intent (the fingerprint taken over what was just resolved).
DriftsOnlyUnderEdit ==
    \A s \in sent : s.fresh => s.print = preview[s.intent].print

\* A call that nobody approved costs no RUN token, and one that spends a preview
\* pays after approval: an agent cannot be starved by its own unanswered asks,
\* nor a person's refusal be charged (the budget is spent after approval).
RefusalCostsNothing ==
    \A c \in Call : Spends(c) /\ c \in charged =>
        /\ verdict[c] # Deny
        /\ verdict[c].outcome = "confirm" => consent[c] # "none"
        /\ outcome[c] \notin {"asked", "timed-out", "denied-by-policy"}

\* Once the kill switch has voided the previews, only a call that had spent its
\* own before can still send (Void, and Redeem after the ask).
KillSwitchStopsUnspent ==
    \A s \in sent :
        s.kill \in {"closing", "revoking", "over"} => s.call \in spentInTime

\* The audit line of a call tells what was done: a confirmed call was approved by
\* a person and sent, an allowed one was sent unasked or was a preview, and of a
\* call denied, timed out or still to be answered nothing left (done in tools.go).
AuditTellsTheTruth ==
    \A c \in Call :
        /\ outcome[c] = "confirmed" => SentBy(c) /\ consent[c] # "none"
        /\ outcome[c] = "allowed" /\ Spends(c) => SentBy(c) /\ verdict[c] = Proceed
        /\ outcome[c] = "allowed" /\ ~Spends(c) => ~SentBy(c)
        /\ outcome[c] \in {"denied-by-policy", "timed-out", "asked"} => ~SentBy(c)

\* Every send was agreed to as it is: with the consent its verdict asked for, once
\* for each preview, and as it was previewed.
EverySendWasAgreed == SendsAreConsented /\ OnePreviewOneSend /\ DriftsOnlyUnderEdit

\* The accounts are true whichever way a call ends: what is charged was agreed to,
\* and what the audit line says was done was done.
AccountsAreTrue == RefusalCostsNothing /\ AuditTellsTheTruth

\* Every call is answered and recorded, whether or not anybody answers its dialog,
\* whatever window or collection closes meanwhile, and through the kill switch
\* (the dialog's own timeout; Shutdown gives up on calls in flight).
EveryCallEnds == \A c \in Call : pc[c] # "idle" ~> pc[c] = "done"

-----------------------------------------------------------------------------
(* What the documentation says and the code does not do.                   *)

\* Disconnecting cancels "in-flight calls, including sends already on the wire"
\* (docs/MCP.md and the comment on stopLocked).
NothingSentAfterDisconnect == \A s \in sent : s.kill # "over"
=============================================================================
