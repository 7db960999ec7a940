------------------------------ MODULE SendPane ------------------------------
(***************************************************************************)
(* The response pane of one request (frontend/src/state/send-context.tsx)  *)
(* on top of the sender.                                                   *)
(*                                                                         *)
(* The window calls the service and goes on; a call is served when the     *)
(* service gets to it, and the id that Send answers comes back on its own, *)
(* after or before the events of that send.  An event is matched to the    *)
(* pane by the path of its request, and so is any send of that path,       *)
(* whoever made it.                                                        *)
(*                                                                         *)
(* newest and mixed are history variables: the pane's latest send, and     *)
(* whether it was begun while another send of the request was under way,   *)
(* or another was begun while the pane knew no id.                         *)
(***************************************************************************)
EXTENDS Sends

CONSTANT MaxGestures  \* bound: cancels, closed tabs and changed collections

ASSUME SendPaneAssumption == MaxGestures \in Nat

VARIABLES
    pane,     \* what the pane shows; at is the id it goes by, 0 while unknown
    calls,    \* cancels and discards on their way to the service
    asked,    \* the window's sends whose answer has not come back
    gestures, \* how many of those there have been
    newest, mixed

windowVars == <<pane, calls, asked, gestures, newest, mixed>>
allVars == <<serviceVars, windowVars>>

NoPane == [phase |-> "absent", at |-> 0, meta |-> 0]
Fresh  == [phase |-> "in-flight", at |-> 0, meta |-> 0]

TypeOK ==
    /\ ServiceTypeOK
    /\ pane \in [phase : {"absent", "in-flight", "complete", "failed", "cancelled"},
                 at : 0..MaxSends, meta : 0..MaxSends]
    /\ calls \subseteq [kind : {"cancel", "discard"}, id : Id]
    /\ asked \subseteq Id
    /\ gestures \in 0..MaxGestures
    /\ newest \in 0..MaxSends /\ mixed \in BOOLEAN

Init ==
    /\ ServiceInit
    /\ pane = NoPane /\ calls = {} /\ asked = {}
    /\ gestures = 0 /\ newest = 0 /\ mixed = FALSE

-----------------------------------------------------------------------------
(* The person.                                                             *)

Cancelling  == IF pane.phase = "in-flight" /\ pane.at # 0
               THEN {[kind |-> "cancel", id |-> pane.at]} ELSE {}
Discarding  == IF pane.meta # 0 THEN {[kind |-> "discard", id |-> pane.meta]} ELSE {}

Unsettled ==
    \/ \E i \in Id : step[i] \notin {"unmade", "refused", "done"}
    \/ asked # {}
    \/ \E n \in DOMAIN events : events[n].kind # "opened"

\* Sending again stops the send whose id is known and frees what it brought.
Press(i) ==
    /\ Call(i)
    /\ calls' = calls \cup Cancelling \cup Discarding
    /\ pane' = Fresh
    /\ asked' = asked \cup {i}
    /\ newest' = i
    /\ mixed' = Unsettled
    /\ UNCHANGED gestures

\* An agent, or a folder run, sends the same request.  A pane that knows no id takes its
\* events for its own: one that waits for the id, and one that was refused and has none.
SendElsewhere(i) ==
    /\ Call(i)
    /\ mixed' = (mixed \/ (pane # NoPane /\ pane.at = 0))
    /\ UNCHANGED <<pane, calls, asked, gestures, newest>>

Gesture == gestures < MaxGestures /\ gestures' = gestures + 1

PressCancel ==
    /\ Gesture
    /\ pane.phase = "in-flight" /\ pane.at # 0
    /\ calls' = calls \cup {[kind |-> "cancel", id |-> pane.at]}
    /\ UNCHANGED <<serviceVars, pane, asked, newest, mixed>>

\* The tab closes.
Forget ==
    /\ Gesture
    /\ pane # NoPane
    /\ calls' = calls \cup Cancelling \cup Discarding
    /\ pane' = NoPane
    /\ UNCHANGED <<serviceVars, asked, newest, mixed>>

\* The person opens another collection or closes this one.
ChangeCollection(to) ==
    /\ Gesture
    /\ Change(to)
    /\ UNCHANGED <<pane, calls, asked, newest, mixed>>

-----------------------------------------------------------------------------
(* Calls and answers.                                                      *)

ServeCancel(i) ==
    /\ [kind |-> "cancel", id |-> i] \in calls
    /\ calls' = calls \ {[kind |-> "cancel", id |-> i]}
    /\ Cancel(i)
    /\ UNCHANGED <<pane, asked, gestures, newest, mixed>>

ServeDiscard(i) ==
    /\ [kind |-> "discard", id |-> i] \in calls
    /\ calls' = calls \ {[kind |-> "discard", id |-> i]}
    /\ Discard(i)
    /\ UNCHANGED <<pane, asked, gestures, newest, mixed>>

\* Send answers with the id once the send is registered, and the id is filled in where
\* the pane has none, and nothing else.
TakeAnswer(i) ==
    /\ i \in asked /\ step[i] \notin {"called", "loaded", "refused"}
    /\ asked' = asked \ {i}
    /\ pane' = IF pane # NoPane /\ pane.at = 0 THEN [pane EXCEPT !.at = i] ELSE pane
    /\ UNCHANGED <<serviceVars, calls, gestures, newest, mixed>>

\* Send refused: the pane shows the error.
TakeRefusal(i) ==
    /\ i \in asked /\ step[i] = "refused"
    /\ asked' = asked \ {i}
    /\ pane' = IF pane # NoPane THEN [pane EXCEPT !.phase = "failed"] ELSE pane
    /\ UNCHANGED <<serviceVars, calls, gestures, newest, mixed>>

-----------------------------------------------------------------------------
(* Events.                                                                 *)

\* Mutant of Accepts: any event of the request is taken for the pane's send.
AcceptsAll(i) == pane # NoPane

\* A send whose id is known and differs is stale; while none is known, any will do.
Accepts(i) == pane # NoPane /\ pane.at \in {0, i}

\* Mutant of Applied: a failed send stays in flight.
AppliedWithoutFailure(e) ==
    CASE e.kind = "started"   -> [pane EXCEPT !.at = e.id]
      [] e.kind = "complete"  -> [phase |-> "complete", at |-> e.id, meta |-> e.id]
      [] e.kind = "error"     -> [pane EXCEPT !.at = e.id, !.meta = 0]
      [] e.kind = "cancelled" -> [phase |-> "cancelled", at |-> e.id, meta |-> 0]

Applied(e) ==
    CASE e.kind = "started"   -> [pane EXCEPT !.at = e.id]
      [] e.kind = "complete"  -> [phase |-> "complete", at |-> e.id, meta |-> e.id]
      [] e.kind = "error"     -> [phase |-> "failed", at |-> e.id, meta |-> 0]
      [] e.kind = "cancelled" -> [phase |-> "cancelled", at |-> e.id, meta |-> 0]

\* Closing the collection drops what the window shows; opening another does not.
Redrawn(e) ==
    CASE e.kind = "opened" -> IF e.place = NoCollection THEN NoPane ELSE pane
      [] e.kind # "opened" /\ Accepts(e.id)  -> Applied(e)
      [] e.kind # "opened" /\ ~Accepts(e.id) -> pane

TakeEvent ==
    /\ events # <<>>
    /\ events' = Tail(events)
    /\ pane' = Redrawn(Head(events))
    /\ UNCHANGED <<sendVars, cancelVars, storeVars, changeVars, historyVars,
                   calls, asked, gestures, newest, mixed>>

-----------------------------------------------------------------------------
Deliver ==
    \/ \E i \in Id : ServeCancel(i) \/ ServeDiscard(i)
    \/ \E i \in Id : TakeAnswer(i) \/ TakeRefusal(i)
    \/ TakeEvent

Work(i) == Run(i) /\ UNCHANGED windowVars
ChangeOn == ContinueChange /\ UNCHANGED windowVars

Next ==
    \/ \E i \in Id : Press(i) \/ SendElsewhere(i)
    \/ PressCancel
    \/ Forget
    \/ \E to \in Places : ChangeCollection(to)
    \/ \E i \in Id : Work(i)
    \/ ChangeOn
    \/ Deliver

Spec == Init /\ [][Next]_allVars

\* Goroutines are scheduled, requests time out, and calls, answers and events
\* arrive.
FairSpec ==
    /\ Spec
    /\ WF_allVars(\E i \in Id : Work(i))
    /\ WF_allVars(ChangeOn)
    /\ WF_allVars(Deliver)

-----------------------------------------------------------------------------
(* Properties.                                                             *)

\* The pane shows its own send: a send that was superseded, or that somebody else
\* made, is dropped as stale (apply, and what its comment says).
PaneShowsItsOwn ==
    pane # NoPane => pane.at \in {0, newest} /\ pane.meta \in {0, newest}

\* It does where the send was begun with no other of the request under way, and none was
\* begun while the pane knew no id.
PaneShowsItsOwnInTurn == ~mixed => PaneShowsItsOwn

\* A pane in flight settles: its outcome is shown, whatever fails, is cancelled or
\* is closed, unless sends of the request were mixed.
PaneSettlesInTurn ==
    (pane.phase = "in-flight" /\ ~mixed) ~> (pane.phase # "in-flight" \/ mixed)

\* A response the pane shows can be read: from before the window hears of it the
\* service holds it, until newer ones push it out or its collection closes (keep,
\* then SendComplete).
ShownIsHeld ==
    pane.meta # 0 /\ owner[pane.meta] = open /\ closing = <<>> =>
        step[pane.meta] = "done" /\ (last = pane.meta => pane.meta \in Held)

\* The response just stored is held, however large, until it is discarded, and so is
\* what newestSendID answers with (keep, drop).
NewestIsHeld == last # 0 => order # <<>> /\ order[Len(order)].id = last

\* Nothing of a collection outlives it: its responses, its cookies and the session
\* variables its scripts set are gone once another is open, as long as no send was
\* under way when it closed (resetSession, and what its comment says of any close).
NothingLeftBehind ==
    ~crossed => /\ \A i \in Held : owner[i] = open
                /\ vars \subseteq {open}
                /\ jar \in {open, NoCollection}

\* Every send that was registered comes to its outcome and gives its cancel function
\* back, so that nothing is cancellable for ever (run: every exit).
EverySendEnds ==
    \A i \in Id : step[i] = "running" ~> (step[i] = "done" /\ i \notin inflight)

\* The store holds what can be read, the response shown and the one just stored, for as
\* long as its collection is open and no longer.
ResponsesAreHeld == ShownIsHeld /\ NewestIsHeld /\ NothingLeftBehind

\* The pane shows its own send, and the store has what the pane and the agents show.
PaneAndStoreAgree == PaneShowsItsOwnInTurn /\ ResponsesAreHeld

\* Every send comes to its outcome, and so does the pane that waits for it.
EverySendSettles == EverySendEnds /\ PaneSettlesInTurn
=============================================================================
