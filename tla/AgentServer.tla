----------------------------- MODULE AgentServer -----------------------------
(***************************************************************************)
(* The switch of the agent server: turning it on and off, the capability   *)
(* setters, the kill switch, and quitting (src/internal/services/mcp.go    *)
(* over src/internal/mcpserver/server.go).                                 *)
(*                                                                         *)
(* The window calls these methods from goroutines of their own, so they    *)
(* may overlap.  What a call does is the sequence of its steps: each step  *)
(* reads or writes one of the settings file, the pointer to the running    *)
(* server, a server, or the endpoint file.  All servers share one endpoint *)
(* path.  A call makes a new server each time it starts one.               *)
(*                                                                         *)
(* final and overlapped are history variables.                             *)
(***************************************************************************)
EXTENDS Integers, Sequences

CONSTANTS
    Calls,    \* bound: how many calls are made
    Servers,  \* bound: how many servers are made
    Ops,      \* the methods called in this instance
    CanFail   \* whether a step that touches the disk or the network may fail

VARIABLES
    settings,  \* the agent part of the settings file
    pointer,   \* the server the service holds
    stage,     \* of each server
    mutex,     \* who holds each server's mutex
    endpoint,  \* the server the endpoint file names
    todo,      \* the steps a call has left
    op,        \* what a call is
    local,     \* the settings a call has read, the server it works on, whether it failed
    final,     \* the kill switch was thrown and nothing was granted since
    overlapped,  \* a call began while another was running
    quitting   \* the app is shutting down

vars == <<settings, pointer, stage, mutex, endpoint, todo, op, local,
          final, overlapped, quitting>>

\* The steps of each method, in order.
Program(o) ==
    CASE o = "enable"     -> <<"get", "set", "publish", "start">>
      [] o = "disable"    -> <<"get", "set", "take", "close", "remove">>
      [] o = "disconnect" -> <<"capture", "close", "remove", "get", "set",
                               "take", "close", "remove">>
      [] o = "capability" -> <<"get", "set">>
      [] o = "confirm"    -> <<"get", "set">>
      [] o = "quit"       -> <<"take", "close", "remove">>

AllOps == {"enable", "disable", "disconnect", "capability", "confirm", "quit"}
StepNames == {"get", "set", "publish", "start", "unpublish", "capture", "take",
              "close", "remove"}

ASSUME AgentServerAssumption ==
    /\ Calls \in Nat /\ Servers \in Nat \ {0}
    /\ Ops \subseteq AllOps /\ CanFail \in BOOLEAN

\* Calls and servers are numbered in the order they are made.
Caller == 1..Calls
Server == 1..Servers
NoCaller == 0
NoServer == 0

Settings == [enabled : BOOLEAN, held : BOOLEAN, neverConfirm : BOOLEAN]

Locals == [copy : Settings, mine : Server \cup {NoServer}, failed : BOOLEAN]
NoLocals == [copy |-> [enabled |-> FALSE, held |-> FALSE, neverConfirm |-> FALSE],
             mine |-> NoServer, failed |-> FALSE]

Running(c) == todo[c] # <<>>
At(c, step) == Running(c) /\ Head(todo[c]) = step

TypeOK ==
    /\ settings \in Settings
    /\ pointer \in Server \cup {NoServer}
    /\ stage \in [Server -> {"unmade", "made", "listening", "closing", "closed"}]
    /\ mutex \in [Server -> Caller \cup {NoCaller}]
    /\ endpoint \in Server \cup {NoServer}
    /\ \A c \in Caller : Len(todo[c]) <= 8 /\ \A n \in DOMAIN todo[c] : todo[c][n] \in StepNames
    /\ op \in [Caller -> AllOps \cup {"none", "returned"}]
    /\ local \in [Caller -> Locals]
    /\ final \in BOOLEAN /\ overlapped \in BOOLEAN /\ quitting \in BOOLEAN
    /\ \A c \in Caller : At(c, "remove") => mutex[local[c].mine] = c

\* The app has started: with the server off, or on again as it was left.  Bound:
\* the confirm switch as a new installation has it.
Init ==
    /\ settings \in {v \in Settings : (v.held => v.enabled) /\ ~v.neverConfirm}
    /\ pointer = IF settings.enabled THEN 1 ELSE NoServer
    /\ stage = [t \in Server |-> IF t = pointer THEN "listening" ELSE "unmade"]
    /\ endpoint = pointer
    /\ mutex = [s \in Server |-> NoCaller]
    /\ todo = [c \in Caller |-> <<>>]
    /\ op = [c \in Caller |-> "none"]
    /\ local = [c \in Caller |-> NoLocals]
    /\ final = FALSE /\ overlapped = FALSE /\ quitting = FALSE

-----------------------------------------------------------------------------
Quiet == \A c \in Caller : ~Running(c)

Grants(o) == o \in {"enable", "capability"}
NobodyGranting(except) == \A c \in Caller \ {except} : Running(c) => ~Grants(op[c])

Begin(c, o) ==
    /\ op[c] = "none" /\ ~quitting
    /\ \A d \in 1..(c - 1) : op[d] # "none"
    /\ overlapped' = (overlapped \/ ~Quiet)
    /\ op' = [op EXCEPT ![c] = o]
    /\ todo' = [todo EXCEPT ![c] = Program(o)]
    /\ final' = (final /\ ~Grants(o))
    /\ quitting' = (o = "quit")
    /\ UNCHANGED <<settings, pointer, stage, mutex, endpoint, local>>

\* The call has steps left to do, with these locals, or it returns.  A kill switch
\* that returns while nobody is granting anything is final.
GoOn(c, steps, locals) ==
    /\ todo' = [todo EXCEPT ![c] = steps]
    /\ local' = [local EXCEPT ![c] = IF steps = <<>> THEN NoLocals ELSE locals]
    /\ op' = [op EXCEPT ![c] = IF steps = <<>> THEN "returned" ELSE @]
    /\ final' = (\/ final
                 \/ /\ steps = <<>> /\ op[c] = "disconnect" /\ ~locals.failed
                    /\ NobodyGranting(c))
    /\ UNCHANGED <<overlapped, quitting>>

Continue(c, locals) == GoOn(c, Tail(todo[c]), locals)

\* A step fails; what steps remain depends on the method.
Fail(c, steps) == CanFail /\ GoOn(c, steps, [local[c] EXCEPT !.failed = TRUE])

-----------------------------------------------------------------------------
(* The settings file.                                                      *)

Get(c) ==
    /\ At(c, "get")
    /\ Continue(c, [local[c] EXCEPT !.copy = settings])
    /\ UNCHANGED <<settings, pointer, stage, mutex, endpoint>>

\* Mutant of Changed: the kill switch stops the listener and keeps the grants.
ChangedKeepingGrants(o, v) ==
    CASE o = "enable"     -> [v EXCEPT !.enabled = TRUE]
      [] o \in {"disable", "disconnect"} -> [v EXCEPT !.enabled = FALSE]
      [] o = "capability" -> [v EXCEPT !.held = TRUE]
      [] o = "confirm"    -> [v EXCEPT !.neverConfirm = ~@]

\* What each method writes, into what it had read: the whole document.
Changed(o, v) ==
    CASE o = "enable"     -> [v EXCEPT !.enabled = TRUE]
      [] o = "disable"    -> [v EXCEPT !.enabled = FALSE, !.held = FALSE]
      [] o = "disconnect" -> [v EXCEPT !.enabled = FALSE, !.held = FALSE]
      [] o = "capability" -> [v EXCEPT !.held = TRUE]
      [] o = "confirm"    -> [v EXCEPT !.neverConfirm = ~@]

\* The kill switch goes on when the file cannot be written; the others return.
Set(c) ==
    /\ At(c, "set")
    /\ \/ /\ settings' = Changed(op[c], local[c].copy)
          /\ Continue(c, local[c])
       \/ /\ Fail(c, IF op[c] = "disconnect" THEN Tail(todo[c]) ELSE <<>>)
          /\ UNCHANGED settings
    /\ UNCHANGED <<pointer, stage, mutex, endpoint>>

-----------------------------------------------------------------------------
(* The pointer.                                                            *)

\* The server that is made next, if the bound allows one more.
NextServer ==
    {s \in Server : stage[s] = "unmade" /\ \A t \in 1..(s - 1) : stage[t] # "unmade"}

\* A server is made and published before it listens, unless there is one.
Publish(c) ==
    /\ At(c, "publish")
    /\ \/ /\ pointer # NoServer
          /\ UNCHANGED <<pointer, stage>> /\ GoOn(c, <<>>, local[c])
       \/ /\ pointer = NoServer
          /\ \E s \in NextServer :
                /\ stage' = [stage EXCEPT ![s] = "made"]
                /\ pointer' = s
                /\ Continue(c, [local[c] EXCEPT !.mine = s])
    /\ UNCHANGED <<settings, mutex, endpoint>>

\* A start that failed forgets whatever server the service then holds.
Unpublish(c) ==
    /\ At(c, "unpublish")
    /\ pointer' = NoServer
    /\ Continue(c, local[c])
    /\ UNCHANGED <<settings, stage, mutex, endpoint>>

Capture(c) ==
    /\ At(c, "capture")
    /\ Continue(c, [local[c] EXCEPT !.mine = pointer])
    /\ UNCHANGED <<settings, pointer, stage, mutex, endpoint>>

Take(c) ==
    /\ At(c, "take")
    /\ Continue(c, [local[c] EXCEPT !.mine = pointer])
    /\ pointer' = NoServer
    /\ UNCHANGED <<settings, stage, mutex, endpoint>>

-----------------------------------------------------------------------------
(* A server, under its mutex.                                              *)

\* Mutant of Start: a server that listens without saying where.
StartUnannounced(c) ==
    LET s == local[c].mine IN
    /\ At(c, "start") /\ mutex[s] = NoCaller
    /\ stage' = [stage EXCEPT ![s] = "listening"]
    /\ Continue(c, local[c])
    /\ UNCHANGED <<settings, pointer, endpoint, mutex>>

\* The listener opens, a token is minted and the endpoint file written; without
\* the file the listener closes again.  Whether it was stopped before is not
\* looked at.
Start(c) ==
    LET s == local[c].mine IN
    /\ At(c, "start") /\ mutex[s] = NoCaller
    /\ \/ /\ stage' = [stage EXCEPT ![s] = "listening"]
          /\ endpoint' = s
          /\ Continue(c, local[c])
       \/ /\ Fail(c, <<"unpublish">>)
          /\ stage' = [stage EXCEPT ![s] = "closed"]
          /\ endpoint' \in {endpoint, NoServer}
    /\ UNCHANGED <<settings, pointer, mutex>>

\* The token is revoked, the previews voided and the listener closed; up to two
\* seconds of Shutdown follow with the mutex held.
Close(c) ==
    LET s == local[c].mine IN
    /\ At(c, "close")
    /\ \/ /\ s = NoServer
          /\ UNCHANGED <<stage, mutex>> /\ GoOn(c, Tail(Tail(todo[c])), local[c])
       \/ /\ s # NoServer /\ mutex[s] = NoCaller
          /\ mutex' = [mutex EXCEPT ![s] = c]
          /\ stage' = [stage EXCEPT ![s] = IF @ = "listening" THEN "closing" ELSE "closed"]
          /\ Continue(c, local[c])
    /\ UNCHANGED <<settings, pointer, endpoint>>

\* Mutant of Remove: the mutex of the server kept.
RemoveHolding(c) ==
    LET s == local[c].mine IN
    /\ At(c, "remove")
    /\ endpoint' = NoServer
    /\ stage' = [stage EXCEPT ![s] = "closed"]
    /\ Continue(c, local[c])
    /\ UNCHANGED <<settings, pointer, mutex>>

\* The endpoint file goes, whoever wrote it.
Remove(c) ==
    LET s == local[c].mine IN
    /\ At(c, "remove")
    /\ endpoint' = NoServer
    /\ stage' = [stage EXCEPT ![s] = "closed"]
    /\ mutex' = [mutex EXCEPT ![s] = NoCaller]
    /\ Continue(c, local[c])
    /\ UNCHANGED <<settings, pointer>>

-----------------------------------------------------------------------------
Step(c) ==
    \/ Get(c)
    \/ Set(c)
    \/ Publish(c)
    \/ Unpublish(c)
    \/ Capture(c)
    \/ Take(c)
    \/ Start(c)
    \/ Close(c)
    \/ Remove(c)

Next ==
    \/ \E c \in Caller, o \in Ops : Begin(c, o)
    \/ \E c \in Caller : Step(c)

Spec == Init /\ [][Next]_vars

\* A method that was called runs on.
FairSpec == Spec /\ \A c \in Caller : WF_vars(Step(c))

-----------------------------------------------------------------------------
(* Properties.                                                             *)

\* The endpoint file is no stale claim: it names a server that listens, or one
\* whose close is about to remove it, however calls overlap and fail (the token
\* in a stale file would send a client to a closed port).
ClaimIsTrue ==
    endpoint # NoServer => stage[endpoint] \in {"listening", "closing"}

\* Two closes of one server and a start of it take turns, and a method that was
\* called returns (the mutex held through Shutdown).
EveryCallReturns == \A c \in Caller : Running(c) ~> ~Running(c)

\* The kill switch is final and not a pause: once it has returned, and until the
\* person enables or grants something again, no capability is held and the server
\* is off (RevokeAll).  This is what its comment says.
KillSwitchIsFinal == final => ~settings.held /\ ~settings.enabled

\* It is so, failures included, where no method was called while another ran.
KillSwitchIsFinalInTurn == ~overlapped => KillSwitchIsFinal

\* Once the kill switch has returned nothing listens and nothing claims to, until
\* the server is enabled again, where the methods were called in turn (Disconnect;
\* docs/MCP.md, the kill switch).
KillSwitchCloses ==
    final /\ Quiet /\ ~overlapped =>
        /\ \A s \in Server : stage[s] # "listening"
        /\ endpoint = NoServer

\* A client finds the server that is running: once the calls have returned, a
\* server that the service holds and that listens is the one in the endpoint file
\* (docs/MCP.md, where the endpoint file is written).
RunningIsFindable ==
    Quiet /\ pointer # NoServer =>
        (stage[pointer] = "listening" => endpoint = pointer)

RunningIsFindableInTurn == ~overlapped => RunningIsFindable

\* No server is out of reach: once calls made in turn have returned, one that
\* listens is the one the service holds, so that the next disable, kill switch or
\* quit closes it.
ListeningIsHeld ==
    Quiet /\ ~overlapped => \A s \in Server : stage[s] = "listening" => pointer = s

\* The kill switch, thrown in turn, is final and leaves nothing listening.
KillSwitchHolds == KillSwitchIsFinalInTurn /\ KillSwitchCloses

\* Service, endpoint file and listener agree once the calls made in turn have
\* returned: the file is no stale claim, a running server is the one in it, and none
\* listens that the service does not hold.
ServiceAndEndpointAgree == ClaimIsTrue /\ RunningIsFindableInTurn /\ ListeningIsHeld
=============================================================================
