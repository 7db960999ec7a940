-------------------------- MODULE FolderRunProofs --------------------------
(***************************************************************************)
(* Whatever the folder's length, however many runs there are and however   *)
(* each of them ends: the summary of a run accounts for every request and  *)
(* says how the run ended, and the rows of the panel add up to it.         *)
(***************************************************************************)
EXTENDS FolderRun, FiniteSetTheorems, TLAPS

Counts == [passed : Nat, failed : Nat, refused : Nat, skipped : Nat,
           state : {"finished", "stopped", "cancelled"}]

Reached(s) == s.passed + s.failed + s.refused

\* What one run has counted, by how far it has come: between requests, all those before
\* the one it stands at; at the end, all, with those it never reached.
Counted(r) ==
    /\ step[r] \in {"unmade", "refused"} => summary[r] = Nothing /\ index[r] = 1
    /\ step[r] \in {"head", "asking", "sending"} =>
          /\ index[r] \in Request
          /\ summary[r].skipped = 0
          /\ Reached(summary[r]) = index[r] - 1
    /\ step[r] = "ending" => Reached(summary[r]) + summary[r].skipped = Length

Shape ==
    /\ step \in [RunId -> Steps]
    /\ summary \in [RunId -> Counts]
    /\ index \in [RunId -> Nat]

IInv == Shape /\ \A r \in RunId : Counted(r)

\* What a step leaves alone in every other run stays counted there.
LEMMA OthersCounted ==
    ASSUME IInv, NEW r \in RunId, NEW q \in RunId, q # r,
           step'[q] = step[q], summary'[q] = summary[q], index'[q] = index[q]
    PROVE  Counted(q)'
  BY DEF IInv, Counted

\* A request that was sent or declined brings its run to the next one or to its end.
LEMMA GoOnCounts ==
    ASSUME IInv, NEW r \in RunId, step[r] \in {"asking", "sending"},
           NEW s \in Counts, NEW wrong \in BOOLEAN,
           Reached(s) = Reached(summary[r]) + 1, s.skipped = 0,
           GoOn(r, s, wrong)
    PROVE  IInv'
  <1>1. /\ Length \in Nat \ {0} /\ index[r] \in Request
        /\ Reached(s) = index[r] /\ s.passed \in Nat /\ s.failed \in Nat /\ s.refused \in Nat
    BY FolderRunAssumption DEF IInv, Shape, Counted, Request, Counts
  <1>2. CASE wrong /\ r \in stopping
    <2> DEFINE t == [[s EXCEPT !.state = "stopped"] EXCEPT !.skipped = Rest(r)]
    <2>1. /\ summary' = [summary EXCEPT ![r] = t]
          /\ step' = [step EXCEPT ![r] = "ending"] /\ index' = index
      BY <1>2 DEF GoOn, Reach
    <2>2. Rest(r) \in Nat /\ Rest(r) = Length - index[r]
      BY <1>1 DEF Rest, Request
    <2>3. /\ t \in Counts /\ Reached(t) = Reached(s) /\ t.skipped = Rest(r)
      BY <2>2 DEF Counts, Reached
    <2> HIDE DEF t
    <2>4. Shape'
      BY <2>1, <2>3 DEF IInv, Shape, Steps, UnderWay
    <2>5. /\ step'[r] = "ending" /\ summary'[r] = t
      BY <2>1 DEF IInv, Shape
    <2>6. Counted(r)'
      BY <1>1, <2>2, <2>3, <2>5 DEF Counted, Request
    <2>7. \A q \in RunId : q # r => Counted(q)'
      BY <2>1, OthersCounted DEF IInv, Shape
    <2> QED
      BY <2>4, <2>6, <2>7 DEF IInv
  <1>3. CASE ~(wrong /\ r \in stopping)
    <2> DEFINE at == IF Last(r) THEN "ending" ELSE "head"
    <2>1. /\ summary' = [summary EXCEPT ![r] = s]
          /\ step' = [step EXCEPT ![r] = at]
          /\ index' = [index EXCEPT ![r] = index[r] + 1]
      BY <1>3 DEF GoOn, Reach
    <2>2. at \in {"ending", "head"}
      OBVIOUS
    <2>3. Shape'
      BY <1>1, <2>1, <2>2 DEF IInv, Shape, Steps, UnderWay, Request
    <2>4. step'[r] = at /\ summary'[r] = s /\ index'[r] = index[r] + 1
      BY <2>1 DEF IInv, Shape
    <2>5. index[r] = Length => Counted(r)'
      BY <1>1, <2>4 DEF Counted, Last, Reached
    <2>6. index[r] # Length => Counted(r)'
      BY <1>1, <2>4 DEF Counted, Last, Request
    <2>7. \A q \in RunId : q # r => Counted(q)'
      BY <2>1, OthersCounted DEF IInv, Shape
    <2> QED
      BY <2>3, <2>5, <2>6, <2>7 DEF IInv
  <1> QED
    BY <1>2, <1>3

LEMMA BeginCounts ==
    ASSUME IInv, NEW r \in RunId, NEW who \in {"window", "agent"}, NEW stop \in BOOLEAN,
           Begin(r, who, stop)
    PROVE  IInv'
  <1>1. PICK at \in {"refused", "head"} : step' = [step EXCEPT ![r] = at]
    BY DEF Begin, Reach
  <1>2. summary' = summary /\ index' = index /\ step[r] = "unmade"
    BY DEF Begin
  <1>3. Shape'
    BY <1>1, <1>2 DEF IInv, Shape, Steps, UnderWay
  <1>4. Counted(r)'
    BY <1>1, <1>2, FolderRunAssumption DEF IInv, Shape, Counted, Reached, Nothing, Request
  <1>5. \A q \in RunId : q # r => Counted(q)'
    BY <1>1, <1>2, OthersCounted DEF IInv, Shape
  <1> QED
    BY <1>3, <1>4, <1>5 DEF IInv

LEMMA AtHeadCounts ==
    ASSUME IInv, NEW r \in RunId, AtHead(r)
    PROVE  IInv'
  <1>1. /\ index[r] \in Request /\ Length \in Nat \ {0} /\ index' = index
        /\ summary[r] \in Counts /\ summary[r].skipped = 0
        /\ Reached(summary[r]) = index[r] - 1
    BY FolderRunAssumption DEF AtHead, IInv, Shape, Counted
  <1>2. CASE r \in cancelled
    <2> DEFINE left == Rest(r) + 1
               t == [[summary[r] EXCEPT !.state = "cancelled"] EXCEPT !.skipped = left]
    <2>1. /\ summary' = [summary EXCEPT ![r] = t]
          /\ step' = [step EXCEPT ![r] = "ending"]
      BY <1>2 DEF AtHead, Reach, IInv, Shape
    <2>2. Rest(r) \in Nat /\ Rest(r) = Length - index[r]
      BY <1>1 DEF Rest, Request
    <2>3. left \in Nat /\ left = Length - index[r] + 1
      BY <2>2
    <2> HIDE DEF left
    <2>4. /\ t \in Counts /\ t.skipped = left
          /\ t.passed = summary[r].passed /\ t.failed = summary[r].failed
          /\ t.refused = summary[r].refused
      BY <1>1, <2>3 DEF Counts
    <2>5. Reached(t) = index[r] - 1
      BY <1>1, <2>4 DEF Reached
    <2> HIDE DEF t
    <2>6. Shape'
      BY <1>1, <2>1, <2>4 DEF IInv, Shape, Steps, UnderWay
    <2>7. step'[r] = "ending" /\ summary'[r] = t
      BY <2>1 DEF IInv, Shape
    <2>8. Reached(t) + t.skipped = Length
      BY <1>1, <2>3, <2>4, <2>5 DEF Request
    <2>9. Counted(r)'
      BY <2>7, <2>8 DEF Counted
    <2>10. \A q \in RunId : q # r => Counted(q)'
      BY <1>1, <2>1, OthersCounted DEF IInv, Shape
    <2> QED
      BY <2>6, <2>9, <2>10 DEF IInv
  <1>3. CASE r \notin cancelled
    <2>1. PICK at \in {"asking", "sending"} : step' = [step EXCEPT ![r] = at]
      BY <1>3 DEF AtHead, Reach
    <2>2. summary' = summary
      BY <1>3 DEF AtHead
    <2>3. Shape'
      BY <1>1, <2>1, <2>2 DEF IInv, Shape, Steps, UnderWay
    <2>4. Counted(r)'
      BY <1>1, <2>1, <2>2 DEF IInv, Shape, Counted
    <2>5. \A q \in RunId : q # r => Counted(q)'
      BY <1>1, <2>1, <2>2, OthersCounted DEF IInv, Shape
    <2> QED
      BY <2>3, <2>4, <2>5 DEF IInv
  <1> QED
    BY <1>2, <1>3

LEMMA DeclineCounts ==
    ASSUME IInv, NEW r \in RunId, Decline(r)
    PROVE  IInv'
  <1> DEFINE s == [summary[r] EXCEPT !.refused = @ + 1]
  <1>1. /\ s \in Counts /\ Reached(s) = Reached(summary[r]) + 1 /\ s.skipped = 0
    BY DEF Decline, IInv, Shape, Counted, Counts, Reached
  <1>2. step[r] = "asking" /\ GoOn(r, s, TRUE)
    BY DEF Decline
  <1> HIDE DEF s
  <1> QED
    BY <1>1, <1>2, GoOnCounts

LEMMA SendCounts ==
    ASSUME IInv, NEW r \in RunId, Send(r)
    PROVE  IInv'
  <1> DEFINE p == [summary[r] EXCEPT !.passed = @ + 1]
             f == [summary[r] EXCEPT !.failed = @ + 1]
  <1>1. summary[r] \in Counts /\ summary[r].skipped = 0
    BY DEF Send, IInv, Shape, Counted
  <1>2. /\ p \in Counts /\ Reached(p) = Reached(summary[r]) + 1 /\ p.skipped = 0
        /\ f \in Counts /\ Reached(f) = Reached(summary[r]) + 1 /\ f.skipped = 0
    <2>1. p \in Counts /\ p.skipped = 0 /\ f \in Counts /\ f.skipped = 0
      BY <1>1 DEF Counts
    <2>2. Reached(p) = Reached(summary[r]) + 1
      BY <1>1 DEF Counts, Reached
    <2>3. Reached(f) = Reached(summary[r]) + 1
      BY <1>1 DEF Counts, Reached
    <2> QED
      BY <2>1, <2>2, <2>3
  <1>3. step[r] = "sending" /\ (GoOn(r, p, FALSE) \/ GoOn(r, f, TRUE))
    BY DEF Send
  <1> HIDE DEF p, f
  <1> QED
    BY <1>2, <1>3, GoOnCounts

\* A step that only moves a run on, to a place where nothing more is asked of its counts.
LEMMA MoveCounts ==
    ASSUME IInv, NEW r \in RunId, NEW at \in Steps, step' = [step EXCEPT ![r] = at],
           index' = index, summary' \in [RunId -> Counts],
           \A q \in RunId : q # r => summary'[q] = summary[q],
           \/ at = "done"
           \/ at = "sending" /\ step[r] = "asking" /\ summary' = summary
    PROVE  IInv'
  <1>1. Shape'
    BY DEF IInv, Shape
  <1>2. Counted(r)'
    BY DEF IInv, Shape, Counted
  <1>3. \A q \in RunId : q # r => Counted(q)'
    BY OthersCounted DEF IInv, Shape
  <1> QED
    BY <1>1, <1>2, <1>3 DEF IInv

LEMMA FinishCounts ==
    ASSUME IInv, NEW r \in RunId, Finish(r)
    PROVE  IInv'
  <1> DEFINE to == IF r \in cancelled /\ summary[r].state = "finished" THEN "cancelled"
                   ELSE summary[r].state
  <1>1. summary' = [summary EXCEPT ![r].state = to]
    BY DEF Finish
  <1>2. summary[r] \in Counts /\ to \in {"finished", "stopped", "cancelled"}
    BY DEF IInv, Shape, Counts
  <1> HIDE DEF to
  <1>3. summary' \in [RunId -> Counts] /\ \A q \in RunId : q # r => summary'[q] = summary[q]
    BY <1>1, <1>2 DEF IInv, Shape, Counts
  <1>4. step' = [step EXCEPT ![r] = "done"] /\ index' = index /\ "done" \in Steps
    BY DEF Finish, Reach, Steps
  <1> QED
    BY <1>3, <1>4, MoveCounts

LEMMA SequenceCounts ==
    ASSUME IInv, NEW r \in RunId, Sequence(r)
    PROVE  IInv'
  <1>1. CASE Agree(r)
    <2>1. /\ step[r] = "asking" /\ step' = [step EXCEPT ![r] = "sending"]
          /\ index' = index /\ summary' = summary /\ "sending" \in Steps
      BY <1>1 DEF Agree, Reach, Steps, UnderWay
    <2> QED
      BY <2>1, MoveCounts DEF IInv, Shape
  <1>2. CASE TakeRefusal(r)
    <2>1. /\ step' = [step EXCEPT ![r] = "done"]
          /\ index' = index /\ summary' = summary /\ "done" \in Steps
      BY <1>2 DEF TakeRefusal, Reach, Steps
    <2> QED
      BY <2>1, MoveCounts DEF IInv, Shape
  <1> QED
    BY <1>1, <1>2, AtHeadCounts, DeclineCounts, SendCounts, FinishCounts DEF Sequence

LEMMA InitCounts == Init => IInv
  BY FolderRunAssumption
     DEF Init, IInv, Shape, Counted, Counts, Nothing, Steps, UnderWay, RunId

LEMMA NextCounts == IInv /\ [Next]_allVars => IInv'
  <1> SUFFICES ASSUME IInv, [Next]_allVars PROVE IInv'
    OBVIOUS
  <1>1. CASE UNCHANGED <<step, index, summary>>
    BY <1>1 DEF IInv, Shape, Counted
  <1>2. ASSUME NEW r \in RunId, NEW who \in {"window", "agent"}, NEW stop \in BOOLEAN,
               Begin(r, who, stop)
        PROVE  IInv'
    BY <1>2, BeginCounts
  <1>3. ASSUME NEW r \in RunId, Sequence(r)
        PROVE  IInv'
    BY <1>3, SequenceCounts
  <1>4. ASSUME NEW r \in RunId, Abandon(r)
        PROVE  UNCHANGED <<step, index, summary>>
    BY <1>4 DEF Abandon
  <1>5. PressCancel => UNCHANGED <<step, index, summary>>
    BY DEF PressCancel
  <1>6. ASSUME NEW c \in cancels, ServeCancel(c)
        PROVE  UNCHANGED <<step, index, summary>>
    BY <1>6 DEF ServeCancel
  <1>7. TakeEvent => UNCHANGED <<step, index, summary>>
    BY DEF TakeEvent
  <1>8. UNCHANGED allVars => UNCHANGED <<step, index, summary>>
    BY DEF allVars
  <1> QED
    BY <1>1, <1>2, <1>3, <1>4, <1>5, <1>6, <1>7, <1>8 DEF Next

\* The summary that goes out accounts for every request of the plan once: those sent,
\* those declined and those the run never reached (runFolder).
THEOREM EveryRequestAccountedFor == Spec => []AllAccountedFor
  <1>1. IInv => AllAccountedFor
    BY DEF IInv, Shape, Counted, Reached, Counts, AllAccountedFor
  <1> QED
    BY InitCounts, NextCounts, <1>1, PTL DEF Spec

-----------------------------------------------------------------------------
(* How a run says it ended.                                                *)

\* Until it ends a run says nothing of how; once it does, what it says has its reason.
Reason(r) ==
    /\ step[r] \in {"unmade", "head", "asking", "sending"} => summary[r].state = "finished"
    /\ step[r] = "ending" =>
          /\ summary[r].state = "finished" => summary[r].skipped = 0
          /\ summary[r].state = "stopped" =>
                r \in stopping /\ summary[r].failed + summary[r].refused > 0
          /\ summary[r].state = "cancelled" => r \in cancelled

\* What a step leaves alone of a run keeps its reason, if nobody takes back what it was
\* told or cancelled.
LEMMA OthersReason ==
    ASSUME NEW q \in RunId, Reason(q), step'[q] = step[q], summary'[q] = summary[q],
           q \in stopping => q \in stopping', q \in cancelled => q \in cancelled'
    PROVE  Reason(q)'
  BY DEF Reason

\* A request that was sent or declined: a run that stops had something go wrong.
LEMMA GoOnReason ==
    ASSUME IInv, NEW r \in RunId, step[r] \in {"asking", "sending"}, Reason(r),
           NEW s \in Counts, s.state = "finished", s.skipped = 0,
           NEW wrong \in BOOLEAN, wrong => s.failed + s.refused > 0,
           GoOn(r, s, wrong), UNCHANGED <<stopping, cancelled>>
    PROVE  Reason(r)'
  <1>1. CASE wrong /\ r \in stopping
    <2> DEFINE t == [s EXCEPT !.state = "stopped", !.skipped = Rest(r)]
    <2>1. step'[r] = "ending" /\ summary'[r] = t
      BY <1>1 DEF GoOn, Reach, IInv, Shape
    <2>2. t.state = "stopped" /\ t.failed = s.failed /\ t.refused = s.refused
      BY DEF Counts
    <2> HIDE DEF t
    <2> QED
      BY <1>1, <2>1, <2>2 DEF Reason
  <1>2. CASE ~(wrong /\ r \in stopping)
    BY <1>2 DEF GoOn, Reach, IInv, Shape, Reason
  <1> QED
    BY <1>1, <1>2

LEMMA SequenceReason ==
    ASSUME IInv, NEW r \in RunId, Reason(r), Sequence(r)
    PROVE  Reason(r)'
  <1>1. summary[r] \in Counts
    BY DEF IInv, Shape
  <1>2. CASE AtHead(r)
    <2>1. CASE r \in cancelled
      <3>1. /\ step'[r] = "ending" /\ summary'[r].state = "cancelled" /\ cancelled' = cancelled
        BY <1>1, <1>2, <2>1 DEF AtHead, Reach, cancelVars, IInv, Shape, Counts
      <3> QED
        BY <2>1, <3>1 DEF Reason
    <2>2. CASE r \notin cancelled
      BY <1>2, <2>2 DEF AtHead, Reach, IInv, Shape, Reason
    <2> QED
      BY <2>1, <2>2
  <1>3. CASE Decline(r)
    <2> DEFINE s == [summary[r] EXCEPT !.refused = @ + 1]
    <2>1. /\ s \in Counts /\ s.state = "finished" /\ s.skipped = 0 /\ s.failed + s.refused > 0
      BY <1>1, <1>3 DEF Decline, Reason, IInv, Counted, Counts
    <2>2. step[r] = "asking" /\ GoOn(r, s, TRUE) /\ UNCHANGED <<stopping, cancelled>>
      BY <1>3 DEF Decline, planVars, cancelVars
    <2> HIDE DEF s
    <2> QED
      BY <2>1, <2>2, GoOnReason
  <1>4. CASE Send(r)
    <2> DEFINE p == [summary[r] EXCEPT !.passed = @ + 1]
               f == [summary[r] EXCEPT !.failed = @ + 1]
    <2>1. /\ p \in Counts /\ p.state = "finished" /\ p.skipped = 0
          /\ f \in Counts /\ f.state = "finished" /\ f.skipped = 0 /\ f.failed + f.refused > 0
      BY <1>1, <1>4 DEF Send, Reason, IInv, Counted, Counts
    <2>2. /\ step[r] = "sending" /\ UNCHANGED <<stopping, cancelled>>
          /\ GoOn(r, p, FALSE) \/ GoOn(r, f, TRUE)
      BY <1>4 DEF Send, planVars, cancelVars
    <2> HIDE DEF p, f
    <2> QED
      BY <2>1, <2>2, GoOnReason
  <1>5. CASE Agree(r) \/ Finish(r) \/ TakeRefusal(r)
    BY <1>5 DEF Agree, Finish, TakeRefusal, Reach, IInv, Shape, Reason
  <1> QED
    BY <1>2, <1>3, <1>4, <1>5 DEF Sequence

LEMMA NextReason ==
    ASSUME IInv, \A r \in RunId : Reason(r), [Next]_allVars
    PROVE  \A r \in RunId : Reason(r)'
  <1> SUFFICES ASSUME NEW q \in RunId PROVE Reason(q)'
    OBVIOUS
  <1>1. ASSUME NEW r \in RunId, NEW who \in {"window", "agent"}, NEW stop \in BOOLEAN,
               Begin(r, who, stop)
        PROVE  Reason(q)'
    <2>1. /\ summary' = summary /\ cancelled' = cancelled /\ stopping \subseteq stopping'
          /\ step[r] = "unmade" /\ step'[r] \in {"refused", "head"}
          /\ q # r => step'[q] = step[q]
      BY <1>1 DEF Begin, Reach, IInv, Shape
    <2> QED
      BY <2>1, OthersReason DEF Reason
  <1>2. ASSUME NEW r \in RunId, Sequence(r) PROVE Reason(q)'
    <2>1. CASE q = r
      BY <1>2, <2>1, SequenceReason
    <2>2. CASE q # r
      <3>1. /\ step'[q] = step[q] /\ summary'[q] = summary[q] /\ stopping' = stopping
            /\ q \in cancelled => q \in cancelled'
        <4> USE DEF Reach, GoOn, planVars, cancelVars, IInv, Shape
        <4>1. CASE AtHead(r) \/ Agree(r) \/ TakeRefusal(r)
          BY <2>2, <4>1 DEF AtHead, Agree, TakeRefusal
        <4>2. CASE Decline(r) \/ Send(r)
          BY <2>2, <4>2 DEF Decline, Send
        <4>3. CASE Finish(r)
          BY <2>2, <4>3 DEF Finish
        <4> QED
          BY <1>2, <4>1, <4>2, <4>3 DEF Sequence
      <3> QED
        BY <3>1, OthersReason
    <2> QED
      BY <2>1, <2>2
  <1>3. CASE \/ \E r \in RunId : Abandon(r)
             \/ PressCancel \/ (\E c \in cancels : ServeCancel(c)) \/ TakeEvent
             \/ UNCHANGED allVars
    <2>1. UNCHANGED <<step, summary, stopping>> /\ cancelled \subseteq cancelled'
      BY <1>3 DEF Abandon, PressCancel, ServeCancel, TakeEvent, planVars, cancelVars, allVars
    <2> QED
      BY <2>1, OthersReason
  <1> QED
    BY <1>1, <1>2, <1>3 DEF Next

\* The summary says how the run ended: what finished left nothing out and was not
\* cancelled, what stopped was told to and had a reason, what says cancelled was
\* (runFolder, to its RunComplete).
THEOREM TheSummaryTellsHow == Spec => SummaryTellsHow
  <1> DEFINE Reasons == \A r \in RunId : Reason(r)
             Tells == \A r \in RunId : step[r] = "ending" /\ step'[r] = "done" =>
                LET s == summary'[r]
                IN  /\ s.state = "finished" => s.skipped = 0 /\ r \notin cancelled
                    /\ s.state = "stopped" => r \in stopping /\ s.failed + s.refused > 0
                    /\ s.state = "cancelled" => r \in cancelled
  <1>1. Init => Reasons
    BY DEF Init, Reason, Nothing
  <1>2. IInv /\ Reasons /\ [Next]_allVars => Reasons'
    BY NextReason
  <1>3. IInv /\ Reasons /\ [Next]_allVars => Tells
    <2> SUFFICES ASSUME IInv, Reasons, [Next]_allVars, NEW r \in RunId,
                        step[r] = "ending", step'[r] = "done"
                 PROVE  /\ summary'[r].state = "finished" =>
                              summary'[r].skipped = 0 /\ r \notin cancelled
                        /\ summary'[r].state = "stopped" =>
                              r \in stopping /\ summary'[r].failed + summary'[r].refused > 0
                        /\ summary'[r].state = "cancelled" => r \in cancelled
      OBVIOUS
    <2>1. Finish(r)
      <3>1. ASSUME NEW q \in RunId, Sequence(q) PROVE Finish(r)
        <4> USE DEF Reach, GoOn, IInv, Shape
        <4>1. CASE AtHead(q) \/ Agree(q) \/ TakeRefusal(q)
          BY <4>1 DEF AtHead, Agree, TakeRefusal
        <4>2. CASE Decline(q) \/ Send(q)
          BY <4>2 DEF Decline, Send
        <4>3. CASE Finish(q)
          BY <4>3 DEF Finish
        <4> QED
          BY <3>1, <4>1, <4>2, <4>3 DEF Sequence
      <3>2. ASSUME NEW q \in RunId, NEW who \in {"window", "agent"}, NEW stop \in BOOLEAN,
                   Begin(q, who, stop)
            PROVE  FALSE
        BY <3>2 DEF Begin, Reach, IInv, Shape
      <3>3. ASSUME \/ \E q \in RunId : Abandon(q)
                   \/ PressCancel \/ (\E c \in cancels : ServeCancel(c)) \/ TakeEvent
                   \/ UNCHANGED allVars
            PROVE  FALSE
        BY <3>3 DEF Abandon, PressCancel, ServeCancel, TakeEvent, allVars
      <3> QED
        BY <3>1, <3>2, <3>3 DEF Next
    <2> DEFINE said == summary[r].state
               to == IF r \in cancelled /\ said = "finished" THEN "cancelled" ELSE said
    <2>2. summary' = [summary EXCEPT ![r].state = to]
      BY <2>1 DEF Finish
    <2>3. /\ summary'[r].state = to /\ summary'[r].skipped = summary[r].skipped
          /\ summary'[r].failed = summary[r].failed
          /\ summary'[r].refused = summary[r].refused
      BY <2>2 DEF IInv, Shape, Counts
    <2> QED
      BY <2>3 DEF Reason
  <1> HIDE DEF Reasons
  <1> QED
    BY InitCounts, NextCounts, <1>1, <1>2, <1>3, PTL DEF Spec, SummaryTellsHow

-----------------------------------------------------------------------------
(* What the window shows of a run.                                         *)

Event == [kind : {"started", "result", "complete"}, id : RunId, at : 0..Length, row : Row,
          summary : Counts \cup {<<>>}]
Panel == [shown : BOOLEAN, id : 0..MaxRuns, rows : [Request -> Row],
          summary : Counts \cup {<<>>}]

Positions == 1..Len(events)
Going == {"head", "asking", "sending"}
NeverRan == {"unmade", "refused"}
Whole(s) == s.passed + s.failed + s.refused + s.skipped = Length

Started(k, r) == events[k].kind = "started" /\ events[k].id = r
ResultOf(k, r, n) == events[k].kind = "result" /\ events[k].id = r /\ events[k].at = n

\* The requests of a run with such a row, in the panel or on its way there.
Told(r, row) ==
    {n \in Request :
        \/ \E k \in Positions : ResultOf(k, r, n) /\ events[k].row = row
        \/ panel.id = r /\ panel.rows[n] = row}

\* The window shows the run, or is about to.
Live(r) == panel.id = r \/ \E k \in Positions : Started(k, r)

Tallied(r) ==
    Live(r) => /\ Cardinality(Told(r, "passed")) = summary[r].passed
               /\ Cardinality(Told(r, "failed")) = summary[r].failed

\* The events of a run come in their order and none comes twice.
Queued(k) ==
    LET e == events[k]
        r == events[k].id
    IN  /\ step[r] \notin NeverRan
        /\ e.kind = "started" => panel.id # r /\ \A l \in 1..(k - 1) : events[l].id # r
        /\ e.kind = "result" =>
              /\ e.row \in {"passed", "failed"} /\ e.at \in Request
              /\ step[r] \in Going => e.at < index[r]
              /\ panel.id = r => panel.rows[e.at] = "empty"
              /\ \A l \in Positions : ResultOf(l, r, e.at) => l = k
        /\ e.kind = "complete" =>
              /\ step[r] = "done" /\ e.summary = summary[r] /\ Whole(summary[r])
              /\ \A l \in (k + 1)..Len(events) : events[l].id # r

\* The panel has no row of a request its run has not come to, and a summary only when
\* nothing more is to come.
Drawn ==
    /\ panel.id # 0 =>
        /\ panel.shown
        /\ step[panel.id] \notin NeverRan
        /\ step[panel.id] \in Going =>
              \A n \in Request : panel.rows[n] # "empty" => n < index[panel.id]
    /\ panel.summary # <<>> =>
        /\ panel.id # 0 /\ step[panel.id] = "done"
        /\ panel.summary = summary[panel.id] /\ Whole(summary[panel.id])
        /\ \A k \in Positions : events[k].id # panel.id

Follows ==
    /\ events \in Seq(Event) /\ panel \in Panel
    /\ Drawn
    /\ \A k \in Positions : Queued(k)
    /\ \A r \in RunId : Tallied(r)

\* What such a step does to a run concerns no one who watches it.
Quietly(q) ==
    /\ step[q] \notin NeverRan => step'[q] \notin NeverRan
    /\ step'[q] \in Going /\ step[q] \notin NeverRan =>
          step[q] \in Going /\ index'[q] >= index[q]
    /\ step[q] = "done" => step'[q] = "done" /\ summary'[q] = summary[q]
    /\ summary'[q].passed = summary[q].passed /\ summary'[q].failed = summary[q].failed

LEMMA QuietFollows ==
    ASSUME IInv, Follows, IInv', events' = events, panel' = panel,
           \A q \in RunId : Quietly(q)
    PROVE  Follows'
  <1>1. /\ events \in Seq(Event) /\ panel \in Panel /\ Positions' = Positions
        /\ \A k \in Positions : events[k] \in Event
    BY DEF Follows, Positions
  <1>2. Drawn'
    <2>1. panel.id # 0 => panel.id \in RunId
      BY <1>1, FolderRunAssumption DEF Panel, RunId
    <2>2. panel.id # 0 => Quietly(panel.id)
      BY <2>1
    <2>3. /\ Drawn /\ index \in [RunId -> Nat] /\ index' \in [RunId -> Nat]
      BY DEF Follows, IInv, Shape
    <2> QED
      BY <1>1, <2>1, <2>2, <2>3 DEF Drawn, Quietly, Positions, Request
  <1>3. ASSUME NEW k \in Positions PROVE Queued(k)'
    <2>1. /\ Queued(k) /\ events[k] \in Event /\ events[k].id \in RunId /\ Quietly(events[k].id)
      BY <1>1 DEF Follows, Event
    <2>2. index[events[k].id] \in Nat /\ index'[events[k].id] \in Nat
      BY <2>1 DEF IInv, Shape
    <2> QED
      BY <1>1, <2>1, <2>2 DEF Queued, Quietly, ResultOf, Request
  <1>4. ASSUME NEW r \in RunId PROVE Tallied(r)'
    <2>1. Live(r)' = Live(r) /\ Told(r, "passed")' = Told(r, "passed")
          /\ Told(r, "failed")' = Told(r, "failed")
      BY <1>1 DEF Live, Told, Started, ResultOf
    <2> QED
      BY <2>1 DEF Tallied, Follows, Quietly
  <1> QED
    BY <1>1, <1>2, <1>3, <1>4 DEF Follows

\* A run that never started leaves the window with no run.
LEMMA ResetFollows ==
    ASSUME IInv, Follows, IInv', events' = events, panel' = [NoPanel EXCEPT !.shown = TRUE],
           \A q \in RunId : Quietly(q)
    PROVE  Follows'
  <1>1. /\ events \in Seq(Event) /\ Positions' = Positions
        /\ \A k \in Positions : events[k] \in Event
    BY DEF Follows, Positions
  <1>2. /\ panel' \in Panel /\ panel'.id = 0 /\ panel'.summary = <<>>
    <2>1. panel' = [shown |-> TRUE, id |-> 0, rows |-> NoRows, summary |-> <<>>]
      BY DEF NoPanel
    <2>2. NoRows \in [Request -> Row] /\ 0 \in 0..MaxRuns
      BY FolderRunAssumption DEF NoRows, Row
    <2>3. <<>> \in Counts \cup {<<>>}
      OBVIOUS
    <2>4. \A c \in Counts \cup {<<>>} :
             [shown |-> TRUE, id |-> 0, rows |-> NoRows, summary |-> c] \in Panel
      BY <2>2 DEF Panel
    <2>5. panel' \in Panel
      BY <2>1, <2>3, <2>4
    <2> QED
      BY <2>1, <2>5
  <1>3. Drawn'
    BY <1>2 DEF Drawn
  <1>4. ASSUME NEW k \in Positions PROVE Queued(k)'
    <2>1. /\ Queued(k) /\ events[k] \in Event /\ events[k].id \in RunId /\ Quietly(events[k].id)
          /\ events[k].id # 0
      BY <1>1, FolderRunAssumption DEF Follows, Event, RunId
    <2>2. index[events[k].id] \in Nat /\ index'[events[k].id] \in Nat
      BY <2>1 DEF IInv, Shape
    <2> QED
      BY <1>1, <1>2, <2>1, <2>2 DEF Queued, Quietly, ResultOf, Request
  <1>5. ASSUME NEW r \in RunId, Live(r)' PROVE Tallied(r)'
    <2>1. PICK k \in Positions : Started(k, r)
      BY <1>1, <1>2, <1>5, FolderRunAssumption DEF Live, RunId, Started
    <2>2. panel.id # r /\ Live(r)
      BY <2>1 DEF Follows, Queued, Started, Live
    <2>3. r # 0
      BY FolderRunAssumption DEF RunId
    <2>4. Told(r, "passed")' = Told(r, "passed") /\ Told(r, "failed")' = Told(r, "failed")
      BY <1>1, <1>2, <2>2, <2>3 DEF Told, ResultOf
    <2> QED
      BY <2>2, <2>4 DEF Tallied, Follows, Quietly
  <1> QED
    BY <1>1, <1>2, <1>3, <1>4, <1>5 DEF Follows, Tallied

LEMMA EmitFacts ==
    ASSUME events \in Seq(Event), NEW e \in Event, events' = Append(events, e)
    PROVE  /\ events' \in Seq(Event) /\ Len(events) \in Nat /\ Len(events') = Len(events) + 1
           /\ Positions' = Positions \cup {Len(events) + 1} /\ Len(events) + 1 \notin Positions
           /\ \A k \in Positions : events'[k] = events[k] /\ events[k] \in Event
           /\ events'[Len(events) + 1] = e
  BY DEF Positions

LEMMA TakeFacts ==
    ASSUME events \in Seq(Event), events # <<>>, events' = Tail(events)
    PROVE  /\ events' \in Seq(Event) /\ Len(events) \in Nat \ {0} /\ Len(events') = Len(events) - 1
           /\ 1 \in Positions /\ Head(events) = events[1]
           /\ \A k \in Positions : events[k] \in Event
           /\ \A k \in Positions' : k + 1 \in Positions /\ events'[k] = events[k + 1]
           /\ \A k \in Positions : k # 1 => k - 1 \in Positions' /\ events'[k - 1] = events[k]
  BY DEF Positions

LEMMA BeginFollows ==
    ASSUME IInv, Follows, IInv', NEW r \in RunId, step[r] = "unmade",
           step' = [step EXCEPT ![r] = "head"], index' = index, summary' = summary,
           panel' = panel, Emit("started", r, 0, "empty", <<>>)
    PROVE  Follows'
  <1> DEFINE e == [kind |-> "started", id |-> r, at |-> 0, row |-> "empty", summary |-> <<>>]
  <1> PICK new : new = Len(events) + 1
    OBVIOUS
  <1>1. e \in Event /\ e.kind = "started" /\ e.id = r
    BY FolderRunAssumption DEF Event, Row
  <1>2. events' = Append(events, e)
    BY DEF Emit
  <1> HIDE DEF e
  <1>3. /\ events' \in Seq(Event) /\ Len(events) \in Nat /\ Len(events') = new
        /\ Positions' = Positions \cup {new} /\ new \notin Positions
        /\ \A k \in Positions : events'[k] = events[k] /\ events[k] \in Event
        /\ events'[new] = e
    BY <1>1, <1>2, EmitFacts DEF Follows
  <1>4. \A k \in Positions : events[k].id # r
    BY DEF Follows, Queued, NeverRan
  <1>5. panel.id # r /\ panel \in Panel
    BY FolderRunAssumption DEF Follows, Drawn, NeverRan, RunId
  <1>6. \A q \in RunId : q # r => step'[q] = step[q]
    BY DEF IInv, Shape
  <1>7. step'[r] = "head"
    BY DEF IInv, Shape
  <1>8. Drawn'
    <2>1. panel.id # 0 => panel.id \in RunId
      BY <1>5 DEF Panel, RunId
    <2>2. \A k \in Positions' : events'[k].id = events[k].id \/ events'[k].id = r
      BY <1>1, <1>3
    <2>3. panel.summary # <<>> => \A k \in Positions' : events'[k].id # panel.id
      BY <1>1, <1>3, <1>5 DEF Drawn, Follows
    <2> QED
      BY <1>5, <1>6, <2>1, <2>3 DEF Drawn, Follows
  <1>9. ASSUME NEW k \in Positions PROVE Queued(k)'
    <2>1. Queued(k) /\ events[k].id # r /\ events[k].id \in RunId /\ events'[k] = events[k] /\ k \in Nat
      BY <1>3, <1>4 DEF Follows, Event, Positions
    <2>2. step'[events[k].id] = step[events[k].id]
      BY <1>6, <2>1
    <2>3. \A l \in 1..(k - 1) : l \in Positions
      BY <1>3, <2>1 DEF Positions
    <2>4. \A l \in (k + 1)..Len(events') : l \in (k + 1)..Len(events) \/ l = new
      BY <1>3, <2>1
    <2>5. \A l \in (k + 1)..Len(events) : l \in Positions
      BY <1>3, <2>1 DEF Positions
    <2> QED
      BY <1>1, <1>3, <2>1, <2>2, <2>3, <2>4, <2>5 DEF Queued, ResultOf
  <1>10. Queued(new)'
    <2>1. \A l \in 1..(new - 1) : l \in Positions
      BY <1>3 DEF Positions
    <2> QED
      BY <1>1, <1>3, <1>4, <1>5, <1>7, <2>1 DEF Queued, NeverRan
  <1>11. ASSUME NEW q \in RunId PROVE Tallied(q)'
    <2>1. Told(q, "passed")' = Told(q, "passed") /\ Told(q, "failed")' = Told(q, "failed")
      BY <1>1, <1>3 DEF Told, ResultOf
    <2>2. CASE q = r
      <3>1. Told(r, "passed") = {} /\ Told(r, "failed") = {}
        BY <1>4, <1>5 DEF Told, ResultOf
      <3>2. summary[r].passed = 0 /\ summary[r].failed = 0
        BY DEF IInv, Counted, Nothing
      <3> QED
        BY <2>1, <2>2, <3>1, <3>2, FS_EmptySet DEF Tallied
    <2>3. CASE q # r
      <3>1. Live(q)' = Live(q)
        BY <1>1, <1>3, <2>3 DEF Live, Started
      <3> QED
        BY <2>1, <3>1 DEF Tallied, Follows
    <2> QED
      BY <2>2, <2>3
  <1> QED
    BY <1>3, <1>5, <1>8, <1>9, <1>10, <1>11 DEF Follows

\* The result of a request goes out: it is told, and it was not before.
LEMMA SendFollows ==
    ASSUME IInv, Follows, IInv', NEW r \in RunId, step[r] = "sending",
           NEW row \in {"passed", "failed"}, Emit("result", r, index[r], row, <<>>),
           panel' = panel,
           \A q \in RunId : q # r =>
              step'[q] = step[q] /\ index'[q] = index[q] /\ summary'[q] = summary[q],
           \/ step'[r] = "head" /\ index'[r] = index[r] + 1
           \/ step'[r] = "ending",
           summary'[r].passed = summary[r].passed + (IF row = "passed" THEN 1 ELSE 0),
           summary'[r].failed = summary[r].failed + (IF row = "failed" THEN 1 ELSE 0)
    PROVE  Follows'
  <1> PICK n : n = index[r]
    OBVIOUS
  <1> DEFINE e == [kind |-> "result", id |-> r, at |-> n, row |-> row, summary |-> <<>>]
  <1> PICK new : new = Len(events) + 1
    OBVIOUS
  <1>0. n \in Request /\ n \in Nat
    BY FolderRunAssumption DEF IInv, Counted, Request
  <1>1. e \in Event /\ e.kind = "result" /\ e.id = r /\ e.at = n /\ e.row = row
    BY <1>0, FolderRunAssumption DEF Event, Row, Request
  <1>2. events' = Append(events, e)
    BY DEF Emit
  <1> HIDE DEF e
  <1>3. /\ events' \in Seq(Event) /\ Len(events) \in Nat /\ Len(events') = new
        /\ Positions' = Positions \cup {new} /\ new \notin Positions
        /\ \A k \in Positions : events'[k] = events[k] /\ events[k] \in Event
        /\ events'[new] = e
    BY <1>1, <1>2, EmitFacts DEF Follows
  <1>4. \A k \in Positions, m \in Request : ResultOf(k, r, m) => m < n
    BY DEF Follows, Queued, Going, ResultOf
  <1>5. \A k \in Positions : events[k].id = r => events[k].kind # "complete"
    BY DEF Follows, Queued
  <1>6. /\ panel \in Panel /\ (panel.id = r => panel.summary = <<>>)
        /\ panel.id = r => \A m \in Request : panel.rows[m] # "empty" => m < n
    <2>1. panel \in Panel /\ Drawn
      BY DEF Follows
    <2>2. panel.id = r => panel.summary = <<>>
      BY <2>1 DEF Drawn
    <2>3. panel.id = r /\ r # 0 => \A m \in Request : panel.rows[m] # "empty" => m < n
      BY <2>1 DEF Drawn, Going
    <2>4. r # 0
      BY FolderRunAssumption DEF RunId
    <2> QED
      BY <2>1, <2>2, <2>3, <2>4
  <1>7. Drawn'
    <2>1. panel.id # 0 => panel.id \in RunId
      BY <1>6, FolderRunAssumption DEF Panel, RunId
    <2>2. panel.summary # <<>> => \A k \in Positions' : events'[k].id # panel.id
      BY <1>1, <1>3, <1>6 DEF Drawn, Follows
    <2>3. CASE panel.id = r
      BY <1>0, <1>6, <2>3 DEF Drawn, Follows, Going, NeverRan, Request
    <2>4. CASE panel.id # r
      BY <2>1, <2>2, <2>4 DEF Drawn, Follows
    <2> QED
      BY <2>3, <2>4
  <1>8. ASSUME NEW k \in Positions PROVE Queued(k)'
    <2>1. Queued(k) /\ events[k] \in Event /\ events[k].id \in RunId /\ events'[k] = events[k] /\ k \in Nat
      BY <1>3 DEF Follows, Event, Positions
    <2>2. \A l \in 1..(k - 1) : l \in Positions
      BY <1>3, <2>1 DEF Positions
    <2>3. \A l \in (k + 1)..Len(events') : l \in (k + 1)..Len(events) \/ l = new
      BY <1>3, <2>1
    <2>4. \A l \in (k + 1)..Len(events) : l \in Positions
      BY <1>3, <2>1 DEF Positions
    <2>5. CASE events[k].id = r
      <3>1. events[k].kind = "result" => ResultOf(k, r, events[k].at) /\ events[k].at < n
        BY <1>4, <2>1, <2>5 DEF ResultOf, Queued
      <3>2. events[k].at \in Nat
        BY <2>1, FolderRunAssumption DEF Event
      <3>3. /\ step'[r] \notin NeverRan
            /\ events[k].kind # "complete"
            /\ events[k].kind = "started" =>
                  panel'.id # r /\ \A l \in 1..(k - 1) : events'[l].id # r
        BY <1>3, <1>5, <2>1, <2>2, <2>5 DEF Queued, NeverRan
      <3>4. ASSUME events[k].kind = "result"
            PROVE  /\ events[k].row \in {"passed", "failed"} /\ events[k].at \in Request
                   /\ step'[r] \in Going => events[k].at < index'[r]
                   /\ panel'.id = r => panel'.rows[events[k].at] = "empty"
                   /\ \A l \in Positions' : ResultOf(l, r, events[k].at)' => l = k
        <4>1. /\ events[k].row \in {"passed", "failed"} /\ events[k].at \in Request
              /\ panel.id = r => panel.rows[events[k].at] = "empty"
              /\ \A l \in Positions : ResultOf(l, r, events[k].at) => l = k
          BY <2>1, <2>5, <3>4 DEF Queued
        <4>2. step'[r] \in Going => events[k].at < index'[r]
          BY <1>0, <3>1, <3>2, <3>4 DEF Going
        <4>3. ~ ResultOf(new, r, events[k].at)'
          BY <1>0, <1>1, <1>3, <3>1, <3>2, <3>4 DEF ResultOf
        <4>4. \A l \in Positions : ResultOf(l, r, events[k].at)' => ResultOf(l, r, events[k].at)
          BY <1>3 DEF ResultOf
        <4> QED
          BY <1>3, <4>1, <4>2, <4>3, <4>4
      <3> QED
        BY <2>1, <2>5, <3>3, <3>4 DEF Queued, ResultOf
    <2>6. CASE events[k].id # r
      BY <1>1, <1>3, <2>1, <2>2, <2>3, <2>4, <2>6 DEF Queued, ResultOf
    <2> QED
      BY <2>5, <2>6
  <1>9. Queued(new)'
    <2>1. \A l \in Positions' : ResultOf(l, r, n)' => l = new
      BY <1>0, <1>3, <1>4 DEF ResultOf
    <2>2. panel.id = r => panel.rows[n] = "empty"
      BY <1>0, <1>6
    <2> QED
      BY <1>0, <1>1, <1>3, <2>1, <2>2 DEF Queued, NeverRan, Going
  <1>10. ASSUME NEW q \in RunId PROVE Tallied(q)'
    <2>1. Live(q)' = Live(q)
      BY <1>1, <1>3 DEF Live, Started
    <2>2. CASE q # r
      <3>1. Told(q, "passed")' = Told(q, "passed") /\ Told(q, "failed")' = Told(q, "failed")
        BY <1>1, <1>3, <2>2 DEF Told, ResultOf
      <3> QED
        BY <2>1, <2>2, <3>1 DEF Tallied, Follows
    <2>3. CASE q = r
      <3>1. Told(r, row)' = Told(r, row) \cup {n}
        BY <1>0, <1>1, <1>3 DEF Told, ResultOf
      <3>2. \A other \in {"passed", "failed"} : other # row => Told(r, other)' = Told(r, other)
        BY <1>1, <1>3 DEF Told, ResultOf
      <3>3. n \notin Told(r, row)
        BY <1>0, <1>4, <1>6 DEF Told
      <3>4. IsFiniteSet(Request) /\ Told(r, row) \in SUBSET Request
        <4>1. Length \in Int /\ 1 \in Int
          BY FolderRunAssumption
        <4>2. IsFiniteSet(Request)
          BY <4>1, FS_Interval DEF Request
        <4> QED
          BY <4>2 DEF Told
      <3>5. Cardinality(Told(r, row)') = Cardinality(Told(r, row)) + 1
        BY <3>1, <3>3, <3>4, FS_Subset, FS_AddElement
      <3>6. summary[r].passed \in Nat /\ summary[r].failed \in Nat
        BY DEF IInv, Shape, Counts
      <3>7. Tallied(r)
        BY DEF Follows
      <3>8. CASE row = "passed"
        BY <2>1, <2>3, <3>2, <3>5, <3>6, <3>7, <3>8 DEF Tallied
      <3>9. CASE row = "failed"
        BY <2>1, <2>3, <3>2, <3>5, <3>6, <3>7, <3>9 DEF Tallied
      <3> QED
        BY <3>8, <3>9
    <2> QED
      BY <2>2, <2>3
  <1> QED
    BY <1>3, <1>6, <1>7, <1>8, <1>9, <1>10 DEF Follows

LEMMA FinishFollows ==
    ASSUME IInv, Follows, IInv', NEW r \in RunId, step[r] = "ending",
           Emit("complete", r, 0, "empty", summary'[r]),
           panel' = panel, index' = index, step' = [step EXCEPT ![r] = "done"],
           \A q \in RunId : q # r => summary'[q] = summary[q],
           summary'[r].passed = summary[r].passed, summary'[r].failed = summary[r].failed,
           Whole(summary'[r])
    PROVE  Follows'
  <1> DEFINE e == [kind |-> "complete", id |-> r, at |-> 0, row |-> "empty",
                   summary |-> summary'[r]]
  <1> PICK new : new = Len(events) + 1
    OBVIOUS
  <1>0. /\ step'[r] = "done" /\ \A q \in RunId : q # r => step'[q] = step[q]
        /\ summary'[r] \in Counts
    BY DEF IInv, Shape
  <1>1. /\ e \in Event /\ e.kind = "complete" /\ e.id = r /\ e.summary = summary'[r]
    BY <1>0, FolderRunAssumption DEF Event, Row
  <1>2. events' = Append(events, e)
    BY DEF Emit
  <1> HIDE DEF e
  <1>3. /\ events' \in Seq(Event) /\ Len(events) \in Nat /\ Len(events') = new
        /\ Positions' = Positions \cup {new} /\ new \notin Positions
        /\ \A k \in Positions : events'[k] = events[k] /\ events[k] \in Event
        /\ events'[new] = e
    BY <1>1, <1>2, EmitFacts DEF Follows
  <1>4. \A k \in Positions : events[k].id = r => events[k].kind # "complete"
    BY DEF Follows, Queued
  <1>5. panel \in Panel /\ (panel.id = r => panel.summary = <<>>)
    BY DEF Follows, Drawn
  <1>6. Drawn'
    <2>1. panel.id # 0 => panel.id \in RunId
      BY <1>5, FolderRunAssumption DEF Panel, RunId
    <2>2. panel.summary # <<>> => \A k \in Positions' : events'[k].id # panel.id
      BY <1>1, <1>3, <1>5 DEF Drawn, Follows
    <2>3. CASE panel.id = r
      BY <1>0, <1>5, <2>3 DEF Drawn, Follows, Going, NeverRan
    <2>4. CASE panel.id # r
      BY <1>0, <2>1, <2>2, <2>4 DEF Drawn, Follows
    <2> QED
      BY <2>3, <2>4
  <1>7. ASSUME NEW k \in Positions PROVE Queued(k)'
    <2>1. Queued(k) /\ events[k] \in Event /\ events[k].id \in RunId /\ events'[k] = events[k] /\ k \in Nat
      BY <1>3 DEF Follows, Event, Positions
    <2>2. \A l \in 1..(k - 1) : l \in Positions
      BY <1>3, <2>1 DEF Positions
    <2>3. \A l \in (k + 1)..Len(events') : l \in (k + 1)..Len(events) \/ l = new
      BY <1>3, <2>1
    <2>4. \A l \in (k + 1)..Len(events) : l \in Positions
      BY <1>3, <2>1 DEF Positions
    <2>5. CASE events[k].id = r
      BY <1>0, <1>1, <1>3, <1>4, <2>1, <2>2, <2>5 DEF Queued, ResultOf, Going, NeverRan
    <2>6. CASE events[k].id # r
      BY <1>0, <1>1, <1>3, <2>1, <2>2, <2>3, <2>4, <2>6 DEF Queued, ResultOf
    <2> QED
      BY <2>5, <2>6
  <1>8. Queued(new)'
    <2>1. \A l \in (new + 1)..Len(events') : FALSE
      BY <1>3
    <2> QED
      BY <1>0, <1>1, <1>3, <2>1 DEF Queued, NeverRan
  <1>9. ASSUME NEW q \in RunId PROVE Tallied(q)'
    <2>1. Live(q)' = Live(q)
      BY <1>1, <1>3 DEF Live, Started
    <2>2. Told(q, "passed")' = Told(q, "passed") /\ Told(q, "failed")' = Told(q, "failed")
      BY <1>1, <1>3 DEF Told, ResultOf
    <2> QED
      BY <2>1, <2>2 DEF Tallied, Follows
  <1> QED
    BY <1>3, <1>5, <1>6, <1>7, <1>8, <1>9 DEF Follows

\* The window takes the first event, whichever of these it is.
LEMMA TakeFollows ==
    ASSUME IInv, Follows, IInv', TakeEvent
    PROVE  Follows'
  <1> DEFINE e == events[1]
  <1> PICK r : r = events[1].id
    OBVIOUS
  <1>1. /\ events' \in Seq(Event) /\ Len(events) \in Nat \ {0} /\ Len(events') = Len(events) - 1
        /\ 1 \in Positions /\ Head(events) = e
        /\ \A k \in Positions : events[k] \in Event
        /\ \A k \in Positions' : k + 1 \in Positions /\ events'[k] = events[k + 1]
        /\ \A k \in Positions : k # 1 => k - 1 \in Positions' /\ events'[k - 1] = events[k]
    BY TakeFacts DEF TakeEvent, Follows
  <1>2. /\ UNCHANGED <<step, index, summary>> /\ panel' = Redrawn(e)
    BY <1>1 DEF TakeEvent
  <1>3. /\ e \in Event /\ r \in RunId /\ r # 0 /\ e.id = r /\ Queued(1)
        /\ panel \in Panel /\ Drawn
    <2>1. e \in Event /\ Queued(1) /\ panel \in Panel /\ Drawn
      BY <1>1 DEF Follows
    <2>2. r \in RunId
      BY <2>1 DEF Event
    <2> QED
      BY <2>1, <2>2, FolderRunAssumption DEF RunId
  <1>4. panel.id # 0 => panel.shown
    BY <1>3 DEF Drawn
  \* What remains queued, when the panel agrees with it.
  <1>5. ASSUME NEW k \in Positions',
               events'[k].kind = "started" => panel'.id # events'[k].id,
               events'[k].kind = "result" /\ panel'.id = events'[k].id =>
                  panel'.rows[events'[k].at] = "empty"
        PROVE  Queued(k)'
    <2>1. /\ k \in Nat \ {0} /\ k + 1 \in Positions /\ events'[k] = events[k + 1] /\ Queued(k + 1)
      BY <1>1 DEF Positions, Follows
    <2>2. ASSUME NEW l \in 1..(k - 1)
          PROVE  l + 1 \in 1..k /\ l \in Positions' /\ events'[l] = events[l + 1]
      <3>1. l \in Nat \ {0} /\ l + 1 \in 1..k
        BY <2>1
      <3>2. Len(events') \in Nat
        BY <1>1
      <3>3. k \in 1..Len(events')
        BY DEF Positions
      <3>4. l \in 1..Len(events')
        BY <2>1, <3>2, <3>3
      <3>5. l \in Positions'
        BY <3>4 DEF Positions
      <3>6. events'[l] = events[l + 1]
        BY <1>1, <3>5
      <3> QED
        BY <3>1, <3>5, <3>6
    <2>3. \A l \in (k + 1)..Len(events') :
             l + 1 \in (k + 2)..Len(events) /\ l \in Positions' /\ events'[l] = events[l + 1]
      BY <1>1, <2>1 DEF Positions
    <2>4. \A l \in Positions' : l \in Nat /\ l + 1 \in Positions /\ events'[l] = events[l + 1]
      BY <1>1 DEF Positions
    <2>5. /\ step[events'[k].id] \notin NeverRan
          /\ events'[k].kind = "started" => \A l \in 1..(k - 1) : events'[l].id # events'[k].id
      BY <2>1, <2>2 DEF Queued
    <2>6. events'[k].kind = "result" =>
             /\ events'[k].row \in {"passed", "failed"} /\ events'[k].at \in Request
             /\ step[events'[k].id] \in Going => events'[k].at < index[events'[k].id]
      BY <2>1 DEF Queued
    <2>7. ASSUME events'[k].kind = "result", NEW l \in Positions',
                 events'[l].kind = "result", events'[l].id = events'[k].id,
                 events'[l].at = events'[k].at
          PROVE  l = k
      <3>1. ResultOf(l + 1, events[k + 1].id, events[k + 1].at)
        BY <2>1, <2>4, <2>7 DEF ResultOf
      <3>2. l + 1 = k + 1
        BY <2>1, <2>4, <2>7, <3>1 DEF Queued
      <3> QED
        BY <2>1, <2>4, <3>2
    <2>8. events'[k].kind = "complete" =>
             /\ step[events'[k].id] = "done"
             /\ events'[k].summary = summary[events'[k].id] /\ Whole(summary[events'[k].id])
             /\ \A l \in (k + 1)..Len(events') : events'[l].id # events'[k].id
      <3> SUFFICES ASSUME events[k + 1].kind = "complete"
                   PROVE  /\ step[events[k + 1].id] = "done"
                          /\ events[k + 1].summary = summary[events[k + 1].id]
                          /\ Whole(summary[events[k + 1].id])
                          /\ \A l \in (k + 1)..Len(events') : events'[l].id # events[k + 1].id
        BY <2>1
      <3>1. /\ step[events[k + 1].id] = "done"
            /\ events[k + 1].summary = summary[events[k + 1].id] /\ Whole(summary[events[k + 1].id])
            /\ \A l \in (k + 2)..Len(events) : events[l].id # events[k + 1].id
        BY <2>1 DEF Queued
      <3> QED
        BY <2>3, <3>1
    <2> QED
      BY <1>2, <1>5, <2>1, <2>5, <2>6, <2>7, <2>8 DEF Queued, ResultOf, Whole
  <1>6. CASE e.kind = "started"
    <2>1. panel' = [shown |-> TRUE, id |-> r, rows |-> NoRows, summary |-> <<>>]
      BY <1>2, <1>3, <1>6 DEF Redrawn
    <2>2. panel' \in Panel
      <3>1. NoRows \in [Request -> Row] /\ r \in 0..MaxRuns /\ <<>> \in Counts \cup {<<>>}
        BY <1>3, FolderRunAssumption DEF NoRows, Row, RunId
      <3>2. \A c \in Counts \cup {<<>>} :
               [shown |-> TRUE, id |-> r, rows |-> NoRows, summary |-> c] \in Panel
        BY <3>1 DEF Panel
      <3> QED
        BY <2>1, <3>1, <3>2
    <2>3. panel'.id = r /\ panel'.shown /\ panel'.summary = <<>> /\ panel'.rows = NoRows
      BY <2>1
    <2>4. panel.id # r /\ step[r] \notin NeverRan
      BY <1>3, <1>6 DEF Queued
    <2>5. Drawn'
      BY <1>2, <2>3, <2>4 DEF Drawn, NoRows
    <2>6. \A k \in Positions' : events'[k].kind = "started" => events'[k].id # r
      <3> SUFFICES ASSUME NEW k \in Positions', events'[k].kind = "started" PROVE events'[k].id # r
        OBVIOUS
      <3>1. k + 1 \in Positions /\ events'[k] = events[k + 1] /\ Queued(k + 1) /\ 1 \in 1..((k + 1) - 1)
        BY <1>1 DEF Follows, Positions
      <3> QED
        BY <1>3, <3>1 DEF Queued
    <2>7. \A k \in Positions' : Queued(k)'
      <3> SUFFICES ASSUME NEW k \in Positions' PROVE Queued(k)'
        OBVIOUS
      <3>1. events'[k].kind = "result" => events'[k].at \in Request
        <4>1. k + 1 \in Positions /\ events'[k] = events[k + 1] /\ Queued(k + 1)
          BY <1>1 DEF Follows
        <4> QED
          BY <4>1 DEF Queued
      <3> QED
        BY <1>5, <2>3, <2>6, <3>1 DEF NoRows
    <2>8. ASSUME NEW q \in RunId, Live(q)' PROVE Tallied(q)'
      <3>1. panel.id # q
        <4>1. CASE q = r
          BY <2>4, <4>1
        <4>2. CASE q # r
          <5>1. PICK k \in Positions' : Started(k, q)'
            BY <2>3, <2>8, <4>2 DEF Live
          <5>2. k + 1 \in Positions /\ Started(k + 1, q) /\ Queued(k + 1)
            BY <1>1, <5>1 DEF Started, Follows
          <5> QED
            BY <5>2 DEF Started, Queued
        <4> QED
          BY <4>1, <4>2
      <3>2. Live(q)
        <4>1. CASE q = r
          BY <1>1, <1>3, <1>6, <4>1 DEF Live, Started
        <4>2. CASE q # r
          BY <1>1, <2>3, <2>8, <4>2 DEF Live, Started
        <4> QED
          BY <4>1, <4>2
      <3>3. \A row \in {"passed", "failed"} : Told(q, row)' = Told(q, row)
        <4> SUFFICES ASSUME NEW row \in {"passed", "failed"}, NEW n \in Request
                     PROVE  (\E k \in Positions' : ResultOf(k, q, n)' /\ events'[k].row = row)
                            <=> (\E k \in Positions : ResultOf(k, q, n) /\ events[k].row = row)
          BY <2>3, <3>1 DEF Told, NoRows
        <4> QED
          BY <1>1, <1>6 DEF ResultOf
      <3> QED
        BY <1>2, <3>2, <3>3 DEF Tallied, Follows
    <2> QED
      BY <1>1, <2>2, <2>5, <2>7, <2>8 DEF Follows, Tallied
  <1>7. CASE e.kind = "result" /\ panel.id = r
    <2> PICK n : n = e.at
      OBVIOUS
    <2> PICK here : here = e.row
      OBVIOUS
    <2>1. n \in Request /\ here \in {"passed", "failed"} /\ here \in Row
      BY <1>3, <1>7 DEF Queued, Row
    <2>2. panel' = [panel EXCEPT !.rows[n] = here]
      BY <1>2, <1>3, <1>4, <1>7 DEF Redrawn, Shows
    <2>3. panel.rows \in [Request -> Row]
      BY <1>3 DEF Panel
    <2>4. /\ panel' \in Panel
          /\ panel'.id = r /\ panel'.shown = panel.shown /\ panel'.summary = panel.summary
          /\ panel'.rows = [panel.rows EXCEPT ![n] = here]
      BY <1>3, <1>7, <2>1, <2>2, <2>3 DEF Panel
    <2>5. panel.summary = <<>> /\ step[r] \notin NeverRan /\ panel.shown
      BY <1>1, <1>3, <1>7 DEF Drawn
    <2>6. \A m \in Request : step[r] \in Going /\ panel'.rows[m] # "empty" => m < index[r]
      BY <1>3, <1>7, <2>1, <2>3, <2>4 DEF Drawn, Queued
    <2>7. Drawn'
      BY <1>2, <2>4, <2>5, <2>6 DEF Drawn
    <2>8. \A k \in Positions' : Queued(k)'
      <3> SUFFICES ASSUME NEW k \in Positions' PROVE Queued(k)'
        OBVIOUS
      <3>1. k \in Nat \ {0} /\ k + 1 \in Positions /\ events'[k] = events[k + 1] /\ Queued(k + 1)
        BY <1>1 DEF Follows, Positions
      <3>2. events'[k].kind = "started" => panel'.id # events'[k].id
        BY <1>7, <2>4, <3>1 DEF Queued
      <3>3. events'[k].kind = "result" /\ events'[k].id = r =>
               events'[k].at # n /\ events'[k].at \in Request
               /\ panel.rows[events'[k].at] = "empty"
        BY <1>1, <1>3, <1>7, <3>1 DEF Queued, ResultOf
      <3> QED
        BY <1>5, <2>3, <2>4, <3>2, <3>3
    <2>9. ASSUME NEW q \in RunId PROVE Tallied(q)'
      <3>1. Live(q)' => Live(q)
        BY <1>1, <1>7, <2>4 DEF Live, Started
      <3>2. \A row \in {"passed", "failed"} : Told(q, row)' = Told(q, row)
        <4> SUFFICES ASSUME NEW row \in {"passed", "failed"}, NEW m \in Request
                     PROVE  m \in Told(q, row)' <=> m \in Told(q, row)
          BY DEF Told
        <4>1. (\E k \in Positions : ResultOf(k, q, m) /\ events[k].row = row)
              <=> \/ q = r /\ m = n /\ row = here
                  \/ \E k \in Positions' : ResultOf(k, q, m)' /\ events'[k].row = row
          BY <1>1, <1>3, <1>7 DEF ResultOf
        <4>2. CASE q = r /\ m = n
          <5>1. panel.rows[n] = "empty" /\ panel'.rows[n] = here
            BY <1>3, <1>7, <2>1, <2>3, <2>4 DEF Queued
          <5>2. \A k \in Positions' : ~ ResultOf(k, r, n)'
            <6> SUFFICES ASSUME NEW k \in Positions', ResultOf(k, r, n)' PROVE FALSE
              OBVIOUS
            <6>1. k \in Nat \ {0} /\ k + 1 \in Positions /\ ResultOf(k + 1, r, n)
              BY <1>1 DEF Positions, ResultOf
            <6>2. k + 1 = 1
              BY <1>3, <1>7, <6>1 DEF Queued
            <6> QED
              BY <6>1, <6>2
          <5> QED
            BY <1>7, <2>4, <4>1, <4>2, <5>1, <5>2 DEF Told
        <4>3. CASE ~(q = r /\ m = n)
          BY <1>7, <2>3, <2>4, <4>1, <4>3 DEF Told
        <4> QED
          BY <4>2, <4>3
      <3> QED
        BY <1>2, <3>1, <3>2 DEF Tallied, Follows
    <2> QED
      BY <1>1, <2>4, <2>7, <2>8, <2>9 DEF Follows
  <1>8. CASE e.kind = "complete" /\ panel.id = r
    <2>1. panel' = [panel EXCEPT !.summary = e.summary]
      BY <1>2, <1>3, <1>4, <1>8 DEF Redrawn, Shows
    <2>2. /\ panel' \in Panel /\ panel'.summary = e.summary
          /\ panel'.id = r /\ panel'.shown = panel.shown /\ panel'.rows = panel.rows
      BY <1>3, <1>8, <2>1 DEF Panel, Event
    <2>3. /\ step[r] = "done" /\ e.summary = summary[r] /\ Whole(summary[r])
          /\ \A l \in 2..Len(events) : events[l].id # r
      BY <1>3, <1>8 DEF Queued
    <2>4. \A k \in Positions' : events'[k].id # r
      <3> SUFFICES ASSUME NEW k \in Positions' PROVE events'[k].id # r
        OBVIOUS
      <3>1. k + 1 \in 2..Len(events) /\ events'[k] = events[k + 1]
        BY <1>1 DEF Positions
      <3> QED
        BY <2>3, <3>1
    <2>5. Drawn'
      BY <1>2, <1>3, <1>4, <1>8, <2>2, <2>3, <2>4 DEF Drawn, Going, NeverRan, Whole
    <2>6. \A k \in Positions' : Queued(k)'
      BY <1>5, <2>2, <2>4
    <2>7. ASSUME NEW q \in RunId PROVE Tallied(q)'
      <3>1. Live(q)' => Live(q)
        BY <1>1, <1>8, <2>2 DEF Live, Started
      <3>2. \A row \in {"passed", "failed"} : Told(q, row)' = Told(q, row)
        <4> SUFFICES ASSUME NEW row \in {"passed", "failed"}, NEW n \in Request
                     PROVE  (\E k \in Positions' : ResultOf(k, q, n)' /\ events'[k].row = row)
                            <=> (\E k \in Positions : ResultOf(k, q, n) /\ events[k].row = row)
          BY <1>8, <2>2 DEF Told
        <4> QED
          BY <1>1, <1>8 DEF ResultOf
      <3> QED
        BY <1>2, <3>1, <3>2 DEF Tallied, Follows
    <2> QED
      BY <1>1, <2>2, <2>5, <2>6, <2>7 DEF Follows
  <1>9. CASE e.kind # "started" /\ panel.id # r
    <2>1. panel' = panel
      BY <1>2, <1>3, <1>9 DEF Redrawn, Shows
    <2>2. Drawn'
      BY <1>1, <1>2, <1>3, <2>1 DEF Drawn, Whole
    <2>3. \A k \in Positions' : Queued(k)'
      <3> SUFFICES ASSUME NEW k \in Positions' PROVE Queued(k)'
        OBVIOUS
      <3>1. k + 1 \in Positions /\ events'[k] = events[k + 1] /\ Queued(k + 1)
        BY <1>1 DEF Follows
      <3> QED
        BY <1>5, <2>1, <3>1 DEF Queued
    <2>4. ASSUME NEW q \in RunId, Live(q)' PROVE Tallied(q)'
      <3>1. q # r
        <4>1. SUFFICES ASSUME q = r PROVE FALSE
          OBVIOUS
        <4>2. PICK k \in Positions' : Started(k, r)'
          BY <1>9, <2>1, <2>4, <4>1 DEF Live
        <4>3. /\ k + 1 \in Positions /\ Started(k + 1, r) /\ Queued(k + 1)
              /\ 1 \in 1..((k + 1) - 1)
          BY <1>1, <4>2 DEF Started, Follows, Positions
        <4> QED
          BY <1>3, <4>3 DEF Started, Queued
      <3>2. Live(q)
        BY <1>1, <2>1, <2>4 DEF Live, Started
      <3>3. \A row \in {"passed", "failed"} : Told(q, row)' = Told(q, row)
        <4> SUFFICES ASSUME NEW row \in {"passed", "failed"}, NEW n \in Request
                     PROVE  (\E k \in Positions' : ResultOf(k, q, n)' /\ events'[k].row = row)
                            <=> (\E k \in Positions : ResultOf(k, q, n) /\ events[k].row = row)
          BY <2>1 DEF Told
        <4>1. events[1].id # q
          BY <3>1
        <4> QED
          BY <1>1, <4>1 DEF ResultOf
      <3> QED
        BY <1>2, <3>2, <3>3 DEF Tallied, Follows
    <2> QED
      BY <1>1, <1>3, <2>1, <2>2, <2>3, <2>4 DEF Follows, Tallied
  <1> QED
    BY <1>3, <1>6, <1>7, <1>8, <1>9 DEF Event

LEMMA InitFollows == Init => Follows
  <1> SUFFICES ASSUME Init PROVE Follows
    OBVIOUS
  <1>1. events = <<>> /\ events \in Seq(Event) /\ Positions = {}
    BY DEF Init, Positions
  <1>2. NoRows \in [Request -> Row] /\ 0 \in 0..MaxRuns /\ <<>> \in Counts \cup {<<>>}
    BY FolderRunAssumption DEF NoRows, Row
  <1>3. \A c \in Counts \cup {<<>>} :
           [shown |-> FALSE, id |-> 0, rows |-> NoRows, summary |-> c] \in Panel
    BY <1>2 DEF Panel
  <1>4. panel \in Panel /\ panel.id = 0 /\ panel.summary = <<>>
    BY <1>2, <1>3 DEF Init, NoPanel
  <1>5. \A r \in RunId : ~ Live(r)
    BY <1>1, <1>4, FolderRunAssumption DEF Live, RunId
  <1> QED
    BY <1>1, <1>4, <1>5 DEF Follows, Drawn, Tallied

LEMMA SequenceFollows ==
    ASSUME IInv, Follows, IInv', NEW r \in RunId, Sequence(r)
    PROVE  Follows'
  <1>1. /\ summary[r] \in Counts /\ summary'[r] \in Counts /\ index[r] \in Nat
        /\ \A q \in RunId : index[q] \in Nat
    BY DEF IInv, Shape
  <1>2. CASE AtHead(r)
    <2>1. /\ \A q \in RunId : q # r => step'[q] = step[q] /\ summary'[q] = summary[q]
          /\ step[r] = "head" /\ step'[r] \in {"ending", "asking", "sending"}
          /\ index' = index /\ events' = events /\ panel' = panel
          /\ summary'[r].passed = summary[r].passed /\ summary'[r].failed = summary[r].failed
      BY <1>1, <1>2 DEF AtHead, Reach, IInv, Shape, Counts, windowVars
    <2>2. \A q \in RunId : Quietly(q)
      BY <1>1, <2>1 DEF Quietly, Going, NeverRan
    <2> QED
      BY <2>1, <2>2, QuietFollows
  <1>3. CASE Decline(r)
    <2> DEFINE s == [summary[r] EXCEPT !.refused = @ + 1]
    <2>1. s \in Counts /\ s.passed = summary[r].passed /\ s.failed = summary[r].failed
      BY <1>1 DEF Counts
    <2>2. step[r] = "asking" /\ GoOn(r, s, TRUE) /\ events' = events /\ panel' = panel
      BY <1>3 DEF Decline, windowVars
    <2> HIDE DEF s
    <2>3. /\ \A q \in RunId : q # r =>
                step'[q] = step[q] /\ summary'[q] = summary[q] /\ index'[q] = index[q]
          /\ step'[r] \in {"ending", "head"} /\ index'[r] \in {index[r], index[r] + 1}
      BY <2>2 DEF GoOn, Reach, IInv, Shape
    <2>4. summary'[r].passed = s.passed /\ summary'[r].failed = s.failed
      <3>1. summary \in [RunId -> Counts]
        BY DEF IInv, Shape
      <3>2. CASE summary' = [summary EXCEPT ![r] = s]
        BY <3>1, <3>2
      <3>3. CASE summary' = [summary EXCEPT ![r] = [s EXCEPT !.state = "stopped", !.skipped = Rest(r)]]
        <4>1. summary'[r] = [s EXCEPT !.state = "stopped", !.skipped = Rest(r)]
          BY <3>1, <3>3
        <4> QED
          BY <2>1, <4>1 DEF Counts
      <3> QED
        BY <2>2, <3>2, <3>3 DEF GoOn
    <2>5. \A q \in RunId : Quietly(q)
      BY <1>1, <2>1, <2>2, <2>3, <2>4 DEF Quietly, Going, NeverRan
    <2> QED
      BY <2>2, <2>5, QuietFollows
  <1>4. CASE Agree(r)
    <2>1. /\ \A q \in RunId : q # r => step'[q] = step[q]
          /\ step[r] = "asking" /\ step'[r] = "sending"
          /\ index' = index /\ summary' = summary /\ events' = events /\ panel' = panel
      BY <1>4 DEF Agree, Reach, IInv, Shape, windowVars
    <2>2. \A q \in RunId : Quietly(q)
      BY <1>1, <2>1 DEF Quietly, Going, NeverRan
    <2> QED
      BY <2>1, <2>2, QuietFollows
  <1>5. CASE TakeRefusal(r)
    <2>1. /\ \A q \in RunId : q # r => step'[q] = step[q]
          /\ step[r] = "refused" /\ step'[r] = "done"
          /\ index' = index /\ summary' = summary /\ events' = events
          /\ panel' = panel \/ panel' = [NoPanel EXCEPT !.shown = TRUE]
      BY <1>5 DEF TakeRefusal, Reach, IInv, Shape
    <2>2. \A q \in RunId : Quietly(q)
      BY <1>1, <2>1 DEF Quietly, Going, NeverRan
    <2> QED
      BY <2>1, <2>2, QuietFollows, ResetFollows
  <1>6. CASE Send(r)
    <2> DEFINE p == [summary[r] EXCEPT !.passed = @ + 1]
               f == [summary[r] EXCEPT !.failed = @ + 1]
    <2>1. /\ p \in Counts /\ p.passed = summary[r].passed + 1 /\ p.failed = summary[r].failed
          /\ f \in Counts /\ f.failed = summary[r].failed + 1 /\ f.passed = summary[r].passed
      BY <1>1 DEF Counts
    <2>2. PICK row \in {"passed", "failed"} :
             /\ Emit("result", r, index[r], row, <<>>)
             /\ row = "passed" => GoOn(r, p, FALSE)
             /\ row = "failed" => GoOn(r, f, TRUE)
      BY <1>6 DEF Send
    <2>3. step[r] = "sending" /\ panel' = panel
      BY <1>6 DEF Send, windowVars
    <2> HIDE DEF p, f
    <2>4. PICK s \in {p, f}, wrong \in BOOLEAN :
             GoOn(r, s, wrong) /\ s = IF row = "passed" THEN p ELSE f
      BY <2>2
    <2>5. /\ s \in Counts
          /\ s.passed = summary[r].passed + (IF row = "passed" THEN 1 ELSE 0)
          /\ s.failed = summary[r].failed + (IF row = "failed" THEN 1 ELSE 0)
      BY <1>1, <2>1, <2>4 DEF Counts
    <2>6. /\ \A q \in RunId : q # r =>
                step'[q] = step[q] /\ summary'[q] = summary[q] /\ index'[q] = index[q]
          /\ \/ step'[r] = "head" /\ index'[r] = index[r] + 1
             \/ step'[r] = "ending"
      BY <2>4 DEF GoOn, Reach, IInv, Shape
    <2>7. summary'[r].passed = s.passed /\ summary'[r].failed = s.failed
      <3> DEFINE t == [s EXCEPT !.state = "stopped", !.skipped = Rest(r)]
      <3>1. t.passed = s.passed /\ t.failed = s.failed
        BY <2>5 DEF Counts
      <3>2. summary'[r] = s \/ summary'[r] = t
        BY <2>4 DEF GoOn, IInv, Shape
      <3> QED
        BY <3>1, <3>2
    <2> QED
      BY <2>2, <2>3, <2>5, <2>6, <2>7, SendFollows
  <1>7. CASE Finish(r)
    <2> DEFINE to == IF r \in cancelled /\ summary[r].state = "finished" THEN "cancelled"
                     ELSE summary[r].state
    <2>1. summary' = [summary EXCEPT ![r].state = to]
      BY <1>7 DEF Finish
    <2>2. /\ summary'[r].passed = summary[r].passed /\ summary'[r].failed = summary[r].failed
          /\ summary'[r].refused = summary[r].refused /\ summary'[r].skipped = summary[r].skipped
          /\ \A q \in RunId : q # r => summary'[q] = summary[q]
      BY <1>1, <2>1 DEF IInv, Shape, Counts
    <2>3. /\ step[r] = "ending" /\ step' = [step EXCEPT ![r] = "done"]
          /\ index' = index /\ panel' = panel
          /\ Emit("complete", r, 0, "empty", summary'[r])
      BY <1>7 DEF Finish, Reach, windowVars
    <2>4. Whole(summary'[r])
      BY <1>1, <2>2, <2>3 DEF IInv, Counted, Reached, Whole, Counts
    <2> QED
      BY <2>2, <2>3, <2>4, FinishFollows
  <1> QED
    BY <1>2, <1>3, <1>4, <1>5, <1>6, <1>7 DEF Sequence

LEMMA NextFollows == IInv /\ Follows /\ [Next]_allVars => Follows'
  <1> SUFFICES ASSUME IInv, Follows, [Next]_allVars PROVE Follows'
    OBVIOUS
  <1>0. IInv'
    BY NextCounts
  <1>1. ASSUME NEW r \in RunId, NEW who \in {"window", "agent"}, NEW stop \in BOOLEAN,
               Begin(r, who, stop)
        PROVE  Follows'
    <2>1. step[r] = "unmade" /\ index' = index /\ summary' = summary /\ panel' = panel
      BY <1>1 DEF Begin, windowVars
    <2>2. CASE step' = [step EXCEPT ![r] = "head"] /\ Emit("started", r, 0, "empty", <<>>)
      BY <1>0, <2>1, <2>2, BeginFollows
    <2>3. CASE step' = [step EXCEPT ![r] = "refused"] /\ events' = events
      <3>1. \A q \in RunId : Quietly(q)
        BY <2>1, <2>3 DEF Quietly, Going, NeverRan, IInv, Shape
      <3> QED
        BY <1>0, <2>1, <2>3, <3>1, QuietFollows
    <2> QED
      BY <1>1, <2>2, <2>3 DEF Begin, Reach
  <1>2. ASSUME NEW r \in RunId, Sequence(r) PROVE Follows'
    BY <1>0, <1>2, SequenceFollows
  <1>3. CASE TakeEvent
    BY <1>0, <1>3, TakeFollows
  <1>4. CASE \/ \E r \in RunId : Abandon(r)
             \/ PressCancel \/ (\E c \in cancels : ServeCancel(c)) \/ UNCHANGED allVars
    <2>1. UNCHANGED <<step, index, summary, events, panel>>
      BY <1>4 DEF Abandon, PressCancel, ServeCancel, allVars, windowVars
    <2>2. \A q \in RunId : Quietly(q)
      BY <2>1 DEF Quietly, IInv, Shape
    <2> QED
      BY <1>0, <2>1, <2>2, QuietFollows
  <1> QED
    BY <1>1, <1>2, <1>3, <1>4 DEF Next

\* When nothing more is to come, the panel holds all that was told of its run.
LEMMA ThePanelIsTheRun == IInv /\ Follows => RowsTellTheSummary
  <1> SUFFICES ASSUME IInv, Follows, panel.summary # <<>>
               PROVE  /\ Cardinality({n \in Request : panel.rows[n] = "passed"})
                            = panel.summary.passed
                      /\ Cardinality({n \in Request : panel.rows[n] = "failed"})
                            = panel.summary.failed
                      /\ Cardinality({n \in Request : panel.rows[n] = "empty"})
                            = panel.summary.refused + panel.summary.skipped
    BY DEF RowsTellTheSummary
  <1> DEFINE r == panel.id
             of(row) == {n \in Request : panel.rows[n] = row}
             s == panel.summary
  <1>1. /\ r \in RunId /\ s = summary[r] /\ Whole(s) /\ s \in Counts
        /\ \A k \in Positions : events[k].id # r
        /\ panel.rows \in [Request -> Row]
    <2>1. panel \in Panel /\ Drawn
      BY DEF Follows
    <2>2. r \in RunId /\ panel.rows \in [Request -> Row]
      BY <2>1, FolderRunAssumption DEF Drawn, Panel, RunId
    <2>3. s = summary[r] /\ Whole(s) /\ \A k \in Positions : events[k].id # r
      BY <2>1 DEF Drawn
    <2> QED
      BY <2>2, <2>3 DEF IInv, Shape
  <1>2. \A row \in {"passed", "failed"} : Told(r, row) = of(row)
    BY <1>1 DEF Told, ResultOf
  <1>3. Cardinality(of("passed")) = s.passed /\ Cardinality(of("failed")) = s.failed
    BY <1>1, <1>2 DEF Follows, Tallied, Live
  <1>4. /\ IsFiniteSet(Request) /\ Cardinality(Request) = Length /\ Length \in Nat
    <2>1. Length \in Nat \ {0} /\ 1 \in Int /\ Length \in Int
      BY FolderRunAssumption
    <2>2. /\ IsFiniteSet(1..Length)
          /\ Cardinality(1..Length) = IF 1 > Length THEN 0 ELSE Length - 1 + 1
      BY <2>1, FS_Interval
    <2> QED
      BY <2>1, <2>2 DEF Request
  <1>5. \A row : IsFiniteSet(of(row)) /\ Cardinality(of(row)) \in Nat
    BY <1>4, FS_Subset, FS_CardinalityType
  <1>6. /\ Request = (of("passed") \cup of("failed")) \cup of("empty")
        /\ of("passed") \cap of("failed") = {}
        /\ (of("passed") \cup of("failed")) \cap of("empty") = {}
    BY <1>1 DEF Row
  <1> PICK P, F, E : P = of("passed") /\ F = of("failed") /\ E = of("empty")
    OBVIOUS
  <1>7. /\ IsFiniteSet(P) /\ Cardinality(P) = s.passed
        /\ IsFiniteSet(F) /\ Cardinality(F) = s.failed
        /\ IsFiniteSet(E) /\ Cardinality(E) \in Nat
    BY <1>3, <1>5
  <1>8. Request = (P \cup F) \cup E /\ P \cap F = {} /\ (P \cup F) \cap E = {}
    BY <1>6
  <1> HIDE DEF of, s
  <1>9. Cardinality(E) = s.refused + s.skipped
    <2>1. s.passed \in Nat /\ s.failed \in Nat /\ s.refused \in Nat /\ s.skipped \in Nat
      BY <1>1 DEF Counts
    <2>2. /\ IsFiniteSet(P \cup F)
          /\ Cardinality(P \cup F) = Cardinality(P) + Cardinality(F) - Cardinality(P \cap F)
      BY <1>7, FS_Union
    <2>3. Cardinality((P \cup F) \cup E)
             = Cardinality(P \cup F) + Cardinality(E) - Cardinality((P \cup F) \cap E)
      BY <1>7, <2>2, FS_Union
    <2>4. Cardinality({}) = 0
      BY FS_EmptySet
    <2>5. /\ Cardinality(P \cap F) = 0 /\ Cardinality((P \cup F) \cap E) = 0
          /\ Cardinality((P \cup F) \cup E) = Cardinality(Request)
      BY <1>8, <2>4, Zenon
    <2>6. Cardinality(P \cup F) = s.passed + s.failed
      BY <1>7, <2>1, <2>2, <2>5
    <2>7. Length = s.passed + s.failed + Cardinality(E)
      BY <1>4, <1>7, <2>1, <2>3, <2>5, <2>6
    <2>8. s.passed + s.failed + s.refused + s.skipped = Length
      BY <1>1 DEF Whole
    <2> QED
      BY <1>7, <2>1, <2>7, <2>8
  <1> QED
    BY <1>3, <1>9 DEF of, s

\* The rows the panel shows add up to the summary it shows, however the events of
\* several runs of the folder mix on their way (run-context.tsx, RunResult and
\* RunComplete).
THEOREM TheRowsTellTheSummary == Spec => []RowsTellTheSummary
  <1> QED
    BY InitCounts, NextCounts, InitFollows, NextFollows, ThePanelIsTheRun, PTL DEF Spec
=============================================================================
