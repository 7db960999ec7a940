----------------------------- MODULE FolderRun -----------------------------
(***************************************************************************)
(* Folder runs: the sequence in src/internal/services/send.go (RunFolder,  *)
(* runFolderNow, runFolder) and the run panel of the window                *)
(* (frontend/src/state/run-context.tsx).                                   *)
(*                                                                         *)
(* A run sends the requests of a folder one at a time and reports a plan,  *)
(* a result for each request it sent and a summary.  The window starts     *)
(* one, or an agent does, and then a hook may decline each request.        *)
(* Nothing keeps two runs of a folder apart.  Runs here are of one folder; *)
(* what a single send does is the business of Sends.                       *)
(***************************************************************************)
EXTENDS Integers, Sequences, FiniteSets

CONSTANTS
    MaxRuns,     \* bound: runs in a behaviour
    Length,      \* the requests of the folder
    MaxGestures  \* bound: cancels pressed and agent calls abandoned

ASSUME FolderRunAssumption ==
    MaxRuns \in Nat /\ Length \in Nat \ {0} /\ MaxGestures \in Nat

VARIABLES
    step,       \* how far each run has come
    by,         \* who started it
    stopping,   \* runs that stop on a failure
    index,      \* the request it has come to
    summary,    \* what it counts
    inflight,   \* runs whose cancel function is registered
    cancelled,  \* runs whose context is cancelled
    events,     \* on their way to the window
    panel,      \* the run the window shows, id 0 for one that never started
    known,      \* run ids the window has heard of, in that order
    cancels,    \* cancels on their way to the service
    gestures

planVars   == <<by, stopping>>
cancelVars == <<inflight, cancelled>>
windowVars == <<panel, known, cancels, gestures>>
allVars == <<step, planVars, index, summary, cancelVars, events, windowVars>>

RunId == 1..MaxRuns
Request == 1..Length
UnderWay == {"head", "asking", "sending", "ending"}
Steps == UnderWay \cup {"unmade", "refused", "done"}

Nothing == [passed |-> 0, failed |-> 0, refused |-> 0, skipped |-> 0, state |-> "finished"]
Summaries == [passed : 0..Length, failed : 0..Length, refused : 0..Length,
              skipped : 0..Length, state : {"finished", "stopped", "cancelled"}]


NoRows == [n \in Request |-> "empty"]
NoPanel == [shown |-> FALSE, id |-> 0, rows |-> NoRows, summary |-> <<>>]
Row == {"empty", "passed", "failed"}

TypeOK ==
    /\ step \in [RunId -> Steps] /\ by \in [RunId -> {"window", "agent"}]
    /\ stopping \subseteq RunId
    /\ index \in [RunId -> 1..(Length + 1)]
    /\ summary \in [RunId -> Summaries]
    /\ inflight = {r \in RunId : step[r] \in UnderWay} /\ cancelled \subseteq inflight
    /\ \A n \in DOMAIN events : events[n].kind \in {"started", "result", "complete"}
    /\ panel.id \in 0..MaxRuns /\ panel.rows \in [Request -> Row]
    /\ panel.summary = <<>> \/ panel.summary \in Summaries
    /\ known \in Seq(RunId)
    /\ cancels \subseteq [id : RunId, shown : RunId]
    /\ gestures \in 0..MaxGestures

Init ==
    /\ step = [r \in RunId |-> "unmade"] /\ by = [r \in RunId |-> "window"]
    /\ stopping = {} /\ index = [r \in RunId |-> 1]
    /\ summary = [r \in RunId |-> Nothing]
    /\ inflight = {} /\ cancelled = {} /\ events = <<>>
    /\ panel = NoPanel /\ known = <<>> /\ cancels = {} /\ gestures = 0

-----------------------------------------------------------------------------
Reach(r, s) == step' = [step EXCEPT ![r] = s]
Emit(kind, r, n, row, counts) ==
    events' = Append(events, [kind |-> kind, id |-> r, at |-> n, row |-> row, summary |-> counts])
Last(r) == index[r] = Length
Rest(r) == Length - index[r]

\* After a request that went wrong the run stops, if it is to; else the next one, or
\* the end.
GoOn(r, counted, wrong) ==
    IF wrong /\ r \in stopping
    THEN /\ summary' = [summary EXCEPT ![r] = [counted EXCEPT !.state = "stopped", !.skipped = Rest(r)]]
         /\ Reach(r, "ending")
         /\ UNCHANGED index
    ELSE /\ summary' = [summary EXCEPT ![r] = counted]
         /\ Reach(r, IF Last(r) THEN "ending" ELSE "head")
         /\ index' = [index EXCEPT ![r] = @ + 1]

-----------------------------------------------------------------------------
(* A run.                                                                  *)

\* No collection, no such folder, or none to run: an error.  Else the run is
\* registered and its plan goes out before its sequence begins.
Begin(r, who, stop) ==
    /\ step[r] = "unmade" /\ \A q \in 1..(r - 1) : step[q] # "unmade"
    /\ by' = [by EXCEPT ![r] = who]
    /\ stopping' = IF stop THEN stopping \cup {r} ELSE stopping
    /\ \/ Reach(r, "refused") /\ UNCHANGED <<inflight, events>>
       \/ /\ Reach(r, "head")
          /\ inflight' = inflight \cup {r}
          /\ Emit("started", r, 0, "empty", <<>>)
    /\ UNCHANGED <<index, summary, cancelled, windowVars>>

\* Mutant of AtHead: a cancelled run says it stopped of itself.
HeadUnmarked(r) ==
    /\ step[r] = "head"
    /\ IF r \in cancelled
       THEN /\ summary' = [summary EXCEPT ![r].state = "stopped", ![r].skipped = Rest(r) + 1]
            /\ Reach(r, "ending")
       ELSE /\ Reach(r, IF by[r] = "agent" THEN "asking" ELSE "sending")
            /\ UNCHANGED summary
    /\ UNCHANGED <<planVars, index, cancelVars, events, windowVars>>

\* The head of the loop: a cancelled run leaves the rest.
AtHead(r) ==
    /\ step[r] = "head"
    /\ IF r \in cancelled
       THEN /\ summary' = [summary EXCEPT ![r].state = "cancelled", ![r].skipped = Rest(r) + 1]
            /\ Reach(r, "ending")
       ELSE /\ Reach(r, IF by[r] = "agent" THEN "asking" ELSE "sending")
            /\ UNCHANGED summary
    /\ UNCHANGED <<planVars, index, cancelVars, events, windowVars>>

\* Mutant of Decline: the request declined is counted with those not reached.
DeclineTwice(r) ==
    /\ step[r] = "asking"
    /\ LET counted == [summary[r] EXCEPT !.refused = @ + 1]
       IN  IF r \in stopping
           THEN /\ summary' = [summary EXCEPT ![r] = [counted EXCEPT !.state = "stopped",
                                                                     !.skipped = Rest(r) + 1]]
                /\ Reach(r, "ending") /\ UNCHANGED index
           ELSE GoOn(r, counted, TRUE)
    /\ UNCHANGED <<planVars, cancelVars, events, windowVars>>

\* The hook declines the request: it is not sent, and no result goes out.
Decline(r) ==
    /\ step[r] = "asking"
    /\ GoOn(r, [summary[r] EXCEPT !.refused = @ + 1], TRUE)
    /\ UNCHANGED <<planVars, cancelVars, events, windowVars>>

Agree(r) ==
    /\ step[r] = "asking"
    /\ Reach(r, "sending")
    /\ UNCHANGED <<planVars, index, summary, cancelVars, events, windowVars>>

\* The request is sent: it passes, or it fails, of a status, an error or the
\* cancellation; either is a result.
Send(r) ==
    /\ step[r] = "sending"
    /\ \/ /\ GoOn(r, [summary[r] EXCEPT !.passed = @ + 1], FALSE)
          /\ Emit("result", r, index[r], "passed", <<>>)
       \/ /\ GoOn(r, [summary[r] EXCEPT !.failed = @ + 1], TRUE)
          /\ Emit("result", r, index[r], "failed", <<>>)
    /\ UNCHANGED <<planVars, cancelVars, windowVars>>

\* Mutant of Finish: a cancelled run ends without a summary.
FinishSilently(r) ==
    /\ step[r] = "ending"
    /\ Reach(r, "done")
    /\ LET s == summary[r]
       IN  IF r \in cancelled THEN UNCHANGED events ELSE Emit("complete", r, 0, "empty", s)
    /\ inflight' = inflight \ {r} /\ cancelled' = cancelled \ {r}
    /\ UNCHANGED <<planVars, index, summary, windowVars>>

\* A run cancelled during its last request says so; the summary goes out, and the
\* cancel function is released.
Finish(r) ==
    /\ step[r] = "ending"
    /\ summary' = [summary EXCEPT ![r].state =
                      IF r \in cancelled /\ @ = "finished" THEN "cancelled" ELSE @]
    /\ Emit("complete", r, 0, "empty", summary'[r])
    /\ Reach(r, "done")
    /\ inflight' = inflight \ {r} /\ cancelled' = cancelled \ {r}
    /\ UNCHANGED <<planVars, index, windowVars>>

\* The context of an agent's run is its call's, and goes with it.
Abandon(r) ==
    /\ gestures < MaxGestures /\ gestures' = gestures + 1
    /\ by[r] = "agent" /\ r \in inflight
    /\ cancelled' = cancelled \cup {r}
    /\ UNCHANGED <<step, planVars, index, summary, inflight, events, panel, known, cancels>>

-----------------------------------------------------------------------------
(* The window.                                                             *)

Running == panel.shown /\ panel.id # 0 /\ panel.summary = <<>>

\* The folder's id is looked up among all the runs the window has heard of, and the
\* first is taken.
PressCancel ==
    /\ gestures < MaxGestures /\ gestures' = gestures + 1
    /\ Running
    /\ cancels' = cancels \cup {[id |-> Head(known), shown |-> panel.id]}
    /\ UNCHANGED <<step, planVars, index, summary, cancelVars, events, panel, known>>

ServeCancel(c) ==
    /\ c \in cancels
    /\ cancels' = cancels \ {c}
    /\ cancelled' = cancelled \cup ({c.id} \cap inflight)
    /\ UNCHANGED <<step, planVars, index, summary, inflight, events, panel, known, gestures>>

\* A run of the window's that never started has no id and no rows.
TakeRefusal(r) ==
    /\ step[r] = "refused"
    /\ Reach(r, "done")
    /\ panel' = IF by[r] = "window" THEN [NoPanel EXCEPT !.shown = TRUE] ELSE panel
    /\ UNCHANGED <<planVars, index, summary, cancelVars, events, known, cancels, gestures>>

\* Mutant of Shows: a result is matched to the folder alone.
ShowsAny(r) == panel.shown

Shows(r) == panel.shown /\ panel.id = r

Redrawn(e) ==
    CASE e.kind = "started" -> [shown |-> TRUE, id |-> e.id, rows |-> NoRows, summary |-> <<>>]
      [] e.kind = "result" /\ Shows(e.id)   -> [panel EXCEPT !.rows[e.at] = e.row]
      [] e.kind = "complete" /\ Shows(e.id) -> [panel EXCEPT !.summary = e.summary]
      [] OTHER -> panel

TakeEvent ==
    /\ events # <<>>
    /\ LET e == Head(events)
       IN  /\ panel' = Redrawn(e)
           /\ known' = IF e.kind = "started" THEN Append(known, e.id) ELSE known
    /\ events' = Tail(events)
    /\ UNCHANGED <<step, planVars, index, summary, cancelVars, cancels, gestures>>

-----------------------------------------------------------------------------
Sequence(r) ==
    \/ AtHead(r)
    \/ Decline(r)
    \/ Agree(r)
    \/ Send(r)
    \/ Finish(r)
    \/ TakeRefusal(r)

Next ==
    \/ \E r \in RunId, who \in {"window", "agent"}, stop \in BOOLEAN : Begin(r, who, stop)
    \/ \E r \in RunId : Sequence(r)
    \/ \E r \in RunId : Abandon(r)
    \/ PressCancel
    \/ \E c \in cancels : ServeCancel(c)
    \/ TakeEvent

Spec == Init /\ [][Next]_allVars

\* The goroutine of a run is scheduled and its requests time out; events arrive.
FairSpec ==
    /\ Spec
    /\ \A r \in RunId : WF_allVars(Sequence(r))
    /\ WF_allVars(TakeEvent)

-----------------------------------------------------------------------------
(* Properties.                                                             *)

\* Every request of the plan is in the summary once: it passed, it failed, it was
\* declined, or the run never reached it, however the run ended (runFolder).
AllAccountedFor ==
    \A r \in RunId : step[r] = "ending" =>
        LET s == summary[r] IN s.passed + s.failed + s.refused + s.skipped = Length

\* The summary says how the run ended: one that finished left nothing out and was not
\* cancelled; one that stopped was told to and had a reason; one that says cancelled
\* was (runFolder, to its RunComplete).
SummaryTellsHow ==
    [][\A r \in RunId : step[r] = "ending" /\ step'[r] = "done" =>
        LET s == summary'[r]
        IN  /\ s.state = "finished" => s.skipped = 0 /\ r \notin cancelled
            /\ s.state = "stopped" => r \in stopping /\ s.failed + s.refused > 0
            /\ s.state = "cancelled" => r \in cancelled]_allVars

\* The panel is of one run: the rows it shows add up to the summary it shows, even
\* when two runs of the folder report at once (run-context.tsx, RunResult and
\* RunComplete, which drop what is of another run).
RowsTellTheSummary ==
    panel.summary # <<>> =>
        LET rows(s) == Cardinality({n \in Request : panel.rows[n] = s})
        IN  /\ rows("passed") = panel.summary.passed
            /\ rows("failed") = panel.summary.failed
            /\ rows("empty") = panel.summary.refused + panel.summary.skipped

\* A run the window shows as going is over sooner or later, in the window too, unless
\* another took its place.
ShownRunEnds ==
    \A r \in RunId : (panel.id = r) ~> (panel.id # r \/ panel.summary # <<>>)

\* Cancel is for the run in flight that the window shows (run-context.tsx, cancel and
\* what its comment says).
CancelReachesTheRun == \A c \in cancels : c.id = c.shown
=============================================================================
