------------------------------ MODULE AgentTools ------------------------------
(***************************************************************************)
(* The agent's other tools side by side: set_session_variable, run_folder, *)
(* create_request, update_request and the reading ones, from the wrapper   *)
(* every tool gets (register in src/internal/mcpserver/tools.go) to the    *)
(* line in the audit log, over agentBridge in src/internal/services/mcp.go *)
(* and the folder run in send.go.  send_request itself is in AgentCalls.   *)
(*                                                                         *)
(* There is one folder.  A request's version is 0 as it was committed, or  *)
(* as it was created; what a plan shows of it is its address: its method   *)
(* and its URL as the environment, the folder's settings and the session   *)
(* value resolve it, so two versions that differ in headers or body, and   *)
(* two environments, may have one address.  An address may stand for that  *)
(* of a request that does not resolve.  A session value is always of the   *)
(* same name, which the folder's settings or an environment may come to    *)
(* define.  An intent is named for the call that it was issued to; that    *)
(* ids do not repeat and run out in time is the business of Intents.  What *)
(* a request's own scripts do to it once resolved is ScriptedSend's.       *)
(*                                                                         *)
(* edits, shown, wrote and sent are history variables, and so are a call's *)
(* agreed (what a person said yes to), free (the name was undefined at     *)
(* some moment since) and began (the edits there were when its run began). *)
(***************************************************************************)
EXTENDS AgentRules, FiniteSets

CONSTANTS
    Call,       \* tool calls, each made once
    Value,      \* what an agent would set a session value to
    Request,    \* requests the folder may come to have
    Committed,  \* those it has, as committed, when a behaviour begins
    Version,    \* what a request's file may hold
    Address,    \* methods with URLs
    AddressOf,  \* the address of a request in a version and surroundings
    EnvMeta,    \* the environments and what they say of agents
    Defining,   \* those of them that define the session value's name
    Budget,     \* calls a full bucket allows
    Earlier,    \* an intent handed out before a behaviour begins
    None,       \* no intent, no session value
    MaxEdits    \* bound: what a person changes in a behaviour

VARIABLES
    grants, active,     \* the capabilities granted, the active environment
    settings,           \* whether the folder's settings define the name
    listing, version,   \* the folder's requests, and what each one's file holds
    budget,
    permits,            \* outstanding intents
    session,            \* the folder's session value
    calls,
    edits, shown, wrote, sent

Gated == {"set_session_variable", "run_folder"}
OnEntry == {"create_request", "update_request", "read"}
CapabilityOf == [set_session_variable |-> "session", run_folder |-> "run",
                 create_request |-> "write", update_request |-> "write", read |-> "read"]

Environment == DOMAIN EnvMeta

\* What a request is resolved in.
Surroundings == [environment : Environment, settings : BOOLEAN, session : Value \cup {None}]

\* What a plan shows: some of the requests, each with its address.
Plans == UNION {[R -> Address] : R \in SUBSET Request}

ASSUME AgentToolsAssumption ==
    /\ Request \subseteq Nat /\ Committed \subseteq Request
    /\ 0 \in Version
    /\ AddressOf \in [Request \X Version \X Surroundings -> Address]
    /\ \A m \in Environment : EnvMeta[m] \in Environments
    /\ Budget \in Nat
    /\ Earlier \notin Call /\ None \notin Call \cup {Earlier}
    /\ None \notin [tool : Gated, print : Value \cup Plans]

worldVars == <<grants, active, settings, listing, version>>
toolVars == <<worldVars, budget, permits, session, calls, edits, shown, wrote, sent>>

\* Rule 1 of a session write: nothing the value would outrank defines the name.
Free == ~settings /\ active \notin Defining

Around(environment, defined) ==
    [environment |-> environment, settings |-> defined, session |-> session]

\* planPrint: bodies, headers and the environment's name are not in it.
Planned(requests) ==
    [r \in requests |-> AddressOf[r, version[r], Around(active, settings)]]

PermitId == Call \cup {Earlier}

\* What a request resolves to may not be what it was.
Moved == edits' = edits + 1

Fresh == [at |-> "idle", tool |-> "read", value |-> None, intent |-> None, text |-> FALSE,
          stop |-> FALSE, environment |-> active, defined |-> FALSE, plan |-> <<>>, left |-> <<>>,
          node |-> None, confirmed |-> FALSE, surface |-> "not-asked",
          decision |-> "none", agreed |-> {}, clean |-> FALSE, free |-> FALSE, began |-> 0]

ToolsInit ==
    /\ grants = [held |-> Capabilities, alwaysConfirmSends |-> FALSE]
    /\ active \in Environment /\ settings = FALSE
    /\ listing = Committed /\ version = [r \in Request |-> 0]
    /\ budget = [k \in Capabilities |-> Budget]
    /\ session = None
    /\ \E permit \in {[tool |-> "run_folder", print |-> Planned(listing)]}
                     \cup [tool : {"set_session_variable"}, print : Value] :
          permits = [i \in PermitId |-> IF i = Earlier THEN permit ELSE None]
    /\ shown = permits
    /\ calls = [c \in Call |-> Fresh]
    /\ edits = 0 /\ wrote = {} /\ sent = {}

-----------------------------------------------------------------------------
(* The wrapper.                                                            *)

At(c, step) == calls[c].at = step

\* The call goes on with what it has learned.
Become(c, new) == calls' = [calls EXCEPT ![c] = new]
Goto(c, step) == Become(c, [calls[c] EXCEPT !.at = step])

\* The call is over, and its line in the audit log says how.
Done(c, new, decision) == Become(c, [new EXCEPT !.at = "done", !.decision = decision])
Refuse(c) == Done(c, calls[c], "refused")

Spent(k) == budget' = [budget EXCEPT ![k] = @ - 1]
Asks(c) == CapabilityOf[calls[c].tool]

Arrive(c, tool, value, intent, flag) ==
    /\ At(c, "idle")
    /\ intent # None => shown[intent] # None /\ tool \in Gated
    /\ tool # "set_session_variable" => value = CHOOSE v \in Value : TRUE
    /\ flag => tool \in {"run_folder", "create_request"}
    /\ Become(c, [calls[c] EXCEPT !.at = "arrived", !.tool = tool, !.value = value,
                                  !.intent = intent, !.stop = flag, !.text = flag])
    /\ UNCHANGED <<worldVars, budget, permits, session, edits, shown, wrote, sent>>

CheckCapability(c) ==
    /\ At(c, "arrived")
    /\ IF Asks(c) \notin grants.held THEN Done(c, calls[c], "denied-by-policy")
       ELSE Goto(c, IF calls[c].tool \in OnEntry THEN "entry" ELSE calls[c].tool)
    /\ UNCHANGED <<worldVars, budget, permits, session, edits, shown, wrote, sent>>

\* The tools that ask nobody pay at once.
SpendOnEntry(c) ==
    /\ At(c, "entry")
    /\ IF budget[Asks(c)] = 0 THEN Done(c, calls[c], "rate-limited") /\ UNCHANGED budget
       ELSE Goto(c, calls[c].tool) /\ Spent(Asks(c))
    /\ UNCHANGED <<worldVars, permits, session, edits, shown, wrote, sent>>

\* The handler did not find what it was asked about: no collection, no such folder or
\* request, an environment that cannot be read, or a result that might hold a secret.
NotFound(c) ==
    /\ calls[c].at \in Gated \cup OnEntry \cup {"run"}
    /\ Refuse(c)
    /\ UNCHANGED <<worldVars, budget, permits, session, edits, shown, wrote, sent>>

-----------------------------------------------------------------------------
(* Intents.                                                                *)

Permit(c, print) == [tool |-> calls[c].tool, print |-> print]

\* The first phase: a preview is paid for, shown, and recorded under an intent.
Preview(c, new, print) ==
    IF budget[Asks(c)] = 0
    THEN Done(c, new, "refused") /\ UNCHANGED <<budget, permits, shown>>
    ELSE /\ Spent(Asks(c))
         /\ permits' = [permits EXCEPT ![c] = Permit(c, print)]
         /\ shown' = [shown EXCEPT ![c] = Permit(c, print)]
         /\ Done(c, new, "allowed")

Matches(c, print) == permits[calls[c].intent] = Permit(c, print)

\* Spent whether it matched or not.
Redeemed(c) == permits' = [permits EXCEPT ![calls[c].intent] = None]

Expire(i) ==
    /\ permits[i] # None
    /\ permits' = [permits EXCEPT ![i] = None]
    /\ UNCHANGED <<worldVars, budget, session, calls, edits, shown, wrote, sent>>

-----------------------------------------------------------------------------
(* A person at the window.                                                 *)

\* The requests of a run are taken in the folder's order.
Current(c) ==
    LET left == DOMAIN calls[c].left IN CHOOSE r \in left : \A q \in left : r <= q

\* The dialog is answered, or it closes by itself, with the window or with the call.
Answer(c, yes) ==
    /\ calls[c].at \in {"asked", "asked of one"}
    /\ LET call == calls[c]
           new  == [call EXCEPT !.surface = IF call.at = "asked" THEN "window" ELSE @,
                                !.free = Free]
       IN  CASE call.at = "asked" /\ yes ->
                  Become(c, [new EXCEPT !.at = "redeem", !.confirmed = TRUE,
                                        !.agreed = @ \cup {call.value}])
             [] call.at = "asked" /\ ~yes -> Done(c, new, "refused")
             [] call.at = "asked of one" /\ yes ->
                  Become(c, [new EXCEPT !.at = "pay for one", !.confirmed = TRUE,
                                        !.surface = "window", !.agreed = @ \cup {Current(c)}])
             [] call.at = "asked of one" /\ ~yes -> Goto(c, "refused one")
    /\ UNCHANGED <<worldVars, budget, permits, session, edits, shown, wrote, sent>>

-----------------------------------------------------------------------------
(* set_session_variable.                                                   *)

\* SessionTarget, in both phases: rule 1, and the environment as it is now.
SessionTarget(c) ==
    /\ At(c, "set_session_variable") /\ Free
    /\ LET new == [calls[c] EXCEPT !.environment = active, !.at = "verify"] IN
       IF calls[c].intent = None THEN Preview(c, new, calls[c].value)
       ELSE Become(c, new) /\ UNCHANGED <<budget, permits, shown>>
    /\ UNCHANGED <<worldVars, session, edits, wrote, sent>>

\* A failed check voids the intent.
VerifyIntent(c) ==
    /\ At(c, "verify")
    /\ IF Matches(c, calls[c].value) THEN Goto(c, "judge") /\ UNCHANGED permits
       ELSE Refuse(c) /\ Redeemed(c)
    /\ UNCHANGED <<worldVars, budget, session, edits, shown, wrote, sent>>

\* Rule 2: a person in the window, of whatever the environment was at SessionTarget.
JudgeSessionWrite(c) ==
    /\ At(c, "judge")
    /\ IF DecideSessionWrite(grants, EnvMeta[calls[c].environment]) = Deny
       THEN Done(c, calls[c], "denied-by-policy")
       ELSE Goto(c, "asked")
    /\ UNCHANGED <<worldVars, budget, permits, session, edits, shown, wrote, sent>>

RedeemIntent(c) ==
    /\ At(c, "redeem")
    /\ IF Matches(c, calls[c].value) THEN Goto(c, "pay") ELSE Refuse(c)
    /\ Redeemed(c)
    /\ UNCHANGED <<worldVars, budget, session, edits, shown, wrote, sent>>

PayForWrite(c) ==
    /\ At(c, "pay")
    /\ IF budget["session"] = 0 THEN Refuse(c) /\ UNCHANGED budget
       ELSE Goto(c, "recheck") /\ Spent("session")
    /\ UNCHANGED <<worldVars, permits, session, edits, shown, wrote, sent>>

\* Mutant of CheckAgain: the preview's check trusted.
TrustTarget(c) ==
    /\ At(c, "recheck")
    /\ Goto(c, "set")
    /\ UNCHANGED <<worldVars, budget, permits, session, edits, shown, wrote, sent>>

\* SetSessionVariable asks SessionTarget again.
CheckAgain(c) ==
    /\ At(c, "recheck")
    /\ IF Free THEN Goto(c, "set") ELSE Refuse(c)
    /\ UNCHANGED <<worldVars, budget, permits, session, edits, shown, wrote, sent>>

SetSessionVariable(c) ==
    /\ At(c, "set")
    /\ session' = calls[c].value /\ Moved
    /\ wrote' = wrote \cup {c}
    /\ Done(c, calls[c], "confirmed")
    /\ UNCHANGED <<worldVars, budget, permits, shown, sent>>

-----------------------------------------------------------------------------
(* run_folder.                                                             *)

\* FolderPlan, and the intent of a preview issued or redeemed against it.
PlanFolder(c) ==
    /\ At(c, "run_folder") /\ listing # {}
    /\ LET plan == Planned(listing)
           new  == [calls[c] EXCEPT !.plan = plan, !.environment = active, !.began = edits]
       IN  IF calls[c].intent = None THEN Preview(c, new, plan)
           ELSE Become(c, [new EXCEPT !.at = "redeem run"]) /\ UNCHANGED <<budget, permits, shown>>
    /\ UNCHANGED <<worldVars, session, edits, wrote, sent>>

\* Mutant of RedeemRun: any preview of a run will do.
RedeemAnyRun(c) ==
    /\ At(c, "redeem run")
    /\ LET permit == permits[calls[c].intent] IN
       IF permit # None /\ permit.tool = "run_folder" THEN Goto(c, "run") ELSE Refuse(c)
    /\ Redeemed(c)
    /\ UNCHANGED <<worldVars, budget, session, edits, shown, wrote, sent>>

RedeemRun(c) ==
    /\ At(c, "redeem run")
    /\ IF Matches(c, calls[c].plan) THEN Goto(c, "run") ELSE Refuse(c)
    /\ Redeemed(c)
    /\ UNCHANGED <<worldVars, budget, session, edits, shown, wrote, sent>>

\* RunFolder reads the name of the active environment and the tree once more, and keeps
\* both to its end.
BeginRun(c) ==
    /\ At(c, "run") /\ listing # {}
    /\ Become(c, [calls[c] EXCEPT !.at = "head", !.environment = active, !.defined = settings,
                                  !.left = [r \in listing |-> version[r]]])
    /\ UNCHANGED <<worldVars, budget, permits, session, edits, shown, wrote, sent>>

\* After a request the run goes on with the next, or stops on a failure if it is to.
GoOn(c, wrong) ==
    LET rest == DOMAIN calls[c].left \ {Current(c)}
        new  == [calls[c] EXCEPT !.at = "head", !.agreed = @ \ {Current(c)}]
    IN  Become(c, [new EXCEPT !.left = IF wrong /\ new.stop THEN <<>>
                                       ELSE [r \in rest |-> new.left[r]]])

ReviewNow(r) == IF r \in Committed /\ version[r] = 0 THEN "reviewed" ELSE "unreviewed"

VerdictOn(c) ==
    Decide(grants, [env |-> EnvMeta[calls[c].environment], review |-> ReviewNow(Current(c)),
                      usesSecret |-> FALSE])

\* The hook decides of each request by itself, as it and the switches now are; whoever
\* must be asked is asked in the window.
JudgeRequest(c) ==
    /\ At(c, "head") /\ DOMAIN calls[c].left # {}
    /\ LET new == [calls[c] EXCEPT !.clean = ReviewNow(Current(c)) = "reviewed"] IN
       IF VerdictOn(c) = Deny THEN GoOn(c, TRUE)
       ELSE Become(c, [new EXCEPT !.at = IF VerdictOn(c).outcome = "confirm" THEN "asked of one" ELSE "pay for one"])
    /\ UNCHANGED <<worldVars, budget, permits, session, edits, shown, wrote, sent>>

\* It is not sent: a person refused, or it does not resolve.
RefuseRequest(c) ==
    /\ At(c, "refused one") \/ (At(c, "head") /\ DOMAIN calls[c].left # {})
    /\ GoOn(c, TRUE)
    /\ UNCHANGED <<worldVars, budget, permits, session, edits, shown, wrote, sent>>

\* Mutant of PayForRequest: a run pays for its first request only.
PayForRun(c) ==
    /\ At(c, "pay for one")
    /\ IF \E s \in sent : s.call = c THEN Goto(c, "send one") /\ UNCHANGED budget
       ELSE IF budget["run"] = 0 THEN GoOn(c, TRUE) /\ UNCHANGED budget
       ELSE Goto(c, "send one") /\ Spent("run")
    /\ UNCHANGED <<worldVars, permits, session, edits, shown, wrote, sent>>

PayForRequest(c) ==
    /\ At(c, "pay for one")
    /\ IF budget["run"] = 0 THEN GoOn(c, TRUE) /\ UNCHANGED budget
       ELSE Goto(c, "send one") /\ Spent("run")
    /\ UNCHANGED <<worldVars, permits, session, edits, shown, wrote, sent>>

\* The request is sent as the run has it, whatever its file is by now, resolved with the
\* session value there is; its scripts may then set another.
SendRequest(c, wrong, scripted) ==
    /\ At(c, "send one")
    /\ LET call == calls[c]
           r    == Current(c)
       IN  sent' = sent \cup {[call |-> c, request |-> r, version |-> call.left[r],
                               address |-> AddressOf[r, call.left[r],
                                                     Around(call.environment, call.defined)],
                               agreed |-> r \in call.agreed, clean |-> call.clean,
                               moved |-> edits > call.began]}
    /\ GoOn(c, wrong)
    /\ session' = scripted
    /\ IF scripted = session THEN UNCHANGED edits ELSE Moved
    /\ UNCHANGED <<worldVars, budget, permits, shown, wrote>>

\* The requests are done with, or the caller has hung up.
EndRun(c) ==
    /\ At(c, "head")
    /\ Done(c, calls[c], IF calls[c].confirmed THEN "confirmed" ELSE "allowed")
    /\ UNCHANGED <<worldVars, budget, permits, session, edits, shown, wrote, sent>>

-----------------------------------------------------------------------------
(* The writing and the reading tools.                                      *)

\* The stub is written first, and the agent's text then put in its place.
CreateRequest(c, r) ==
    /\ At(c, "create_request") /\ r \notin listing
    /\ listing' = listing \cup {r} /\ Moved
    /\ IF calls[c].text THEN Become(c, [calls[c] EXCEPT !.at = "save text", !.node = r])
       ELSE Done(c, calls[c], "allowed")
    /\ UNCHANGED <<grants, active, settings, version, budget, permits, session, shown, wrote, sent>>

\* Text that does not parse is refused and the file left alone: a stub, after a create.
SaveText(c, r, text) ==
    /\ \/ At(c, "update_request") /\ r \in listing
       \/ At(c, "save text") /\ r = calls[c].node
    /\ IF text \in Version
       THEN version' = [version EXCEPT ![r] = text] /\ Moved /\ Done(c, calls[c], "allowed")
       ELSE Refuse(c) /\ UNCHANGED <<version, edits>>
    /\ UNCHANGED <<grants, active, settings, listing, budget, permits, session, shown, wrote, sent>>

Read(c) ==
    /\ At(c, "read")
    /\ Done(c, calls[c], "allowed")
    /\ UNCHANGED <<worldVars, budget, permits, session, edits, shown, wrote, sent>>

-----------------------------------------------------------------------------
(* A person at work.                                                       *)

FreeFrom(c) == [calls[c] EXCEPT !.free = @ \/ (~settings' /\ active' \notin Defining)]

PersonWorks ==
    /\ edits < MaxEdits /\ Moved
    /\ \/ /\ \E r \in listing : \E text \in Version \ {version[r]} : version' = [version EXCEPT ![r] = text]
          /\ UNCHANGED <<grants, active, settings, listing>>
       \/ /\ \E r \in Request \ listing : listing' = listing \cup {r}
          /\ UNCHANGED <<grants, active, settings, version>>
       \/ /\ settings' = ~settings
          /\ UNCHANGED <<grants, active, listing, version>>
       \/ /\ active' \in Environment \ {active}
          /\ UNCHANGED <<grants, settings, listing, version>>
       \/ /\ \E k \in {"run", "session"} :
              grants' = [grants EXCEPT !.held = IF k \in @ THEN @ \ {k} ELSE @ \cup {k}]
          /\ UNCHANGED <<active, settings, listing, version>>
    /\ calls' = [c \in Call |-> FreeFrom(c)]
    /\ UNCHANGED <<budget, permits, session, shown, wrote, sent>>

ToolsNext ==
    \/ \E c \in Call :
        \/ \E tool \in DOMAIN CapabilityOf, v \in Value, i \in PermitId \cup {None}, flag \in BOOLEAN :
              Arrive(c, tool, v, i, flag)
        \/ CheckCapability(c) \/ SpendOnEntry(c) \/ NotFound(c)
        \/ \E yes \in BOOLEAN : Answer(c, yes)
        \/ SessionTarget(c) \/ VerifyIntent(c) \/ JudgeSessionWrite(c) \/ RedeemIntent(c)
        \/ PayForWrite(c) \/ CheckAgain(c) \/ SetSessionVariable(c)
        \/ PlanFolder(c) \/ RedeemRun(c) \/ BeginRun(c) \/ JudgeRequest(c)
        \/ RefuseRequest(c) \/ PayForRequest(c) \/ EndRun(c)
        \/ \E wrong \in BOOLEAN, v \in {session} \cup Value : SendRequest(c, wrong, v)
        \/ \E r \in Request : CreateRequest(c, r)
        \/ \E r \in Request, text \in Version \cup {None} : SaveText(c, r, text)
        \/ Read(c)
    \/ \E i \in PermitId : Expire(i)
    \/ PersonWorks

ToolsSpec == ToolsInit /\ [][ToolsNext]_toolVars

-----------------------------------------------------------------------------
(* Properties.                                                             *)

\* A session value an agent sets is the one that was previewed, a person agreed to it in
\* the window, and since then its name was free: a definition saved while the dialog was
\* up is not outranked (SetSessionVariable's second look at rule 1).
SessionWritesWereAgreed ==
    \A c \in wrote :
        /\ shown[calls[c].intent] = [tool |-> "set_session_variable", print |-> calls[c].value]
        /\ calls[c].value \in calls[c].agreed
        /\ calls[c].free

\* What was shown has the request, at the address it was sent to.
Covers(permit, s) ==
    /\ permit.tool = "run_folder"
    /\ s.request \in DOMAIN permit.print
    /\ permit.print[s.request] = s.address

\* Each request of a run was agreed to by itself, or its file was as committed when the
\* hook looked and is sent so unless something moved meanwhile; and it went to the address
\* its agent was shown when it previewed the run, however long ago and whatever was edited
\* and set back between, unless something has moved since the second call planned the
\* folder again.  That second plan, compared with the first, says nothing of headers and
\* bodies, nor of an environment that leaves the addresses alone (runFolder, planPrint).
RunsWereAgreed ==
    \A s \in sent :
        /\ s.agreed \/ (s.clean /\ (s.version = 0 \/ s.moved))
        /\ s.moved \/ Covers(shown[calls[s.call].intent], s)

ActsAsAgreed == SessionWritesWereAgreed /\ RunsWereAgreed

\* The line in the log tells what the call came to: "confirmed" that a person agreed to
\* something, "allowed" that nothing went out or was set that needed one, and any other
\* that nothing went out and nothing was set; and nothing is sent or set unpaid for.
CallsAreAccountedFor ==
    /\ \A c \in Call :
        LET call   == calls[c]
            itsOwn == {s \in sent : s.call = c}
        IN  /\ call.decision = "confirmed" => call.surface = "window"
            /\ call.decision = "allowed" => c \notin wrote /\ \A s \in itsOwn : ~s.agreed
            /\ call.decision \in {"refused", "denied-by-policy", "rate-limited"} =>
                  c \notin wrote /\ itsOwn = {}
    /\ Cardinality(sent) <= Budget - budget["run"]
    /\ Cardinality(wrote) <= Budget - budget["session"]

\* "Surface is where the person was asked" (mcp/audit.go, Entry): not of a run in which a
\* person refused everything they were asked of.
SurfaceIsWhereAsked ==
    [][\A c \in Call : calls[c].at = "refused one" => calls'[c].surface = "window"]_toolVars

\* What goes out without a person's word is what was committed.
QuietSendsAreCommitted == \A s \in sent : s.agreed \/ s.version = 0
=============================================================================
