-------------------------- MODULE AgentToolsProofs --------------------------
(***************************************************************************)
(* That the other tools act as agreed and that their log is true           *)
(* (AgentTools), for any number of calls, requests, environments and       *)
(* values, any budget, and however often a person changes their mind.      *)
(***************************************************************************)
EXTENDS AgentTools, FiniteSetTheorems, WellFoundedInduction, TLAPS

-----------------------------------------------------------------------------
(* The shape of the state.                                                 *)

\* The steps of a session write from the presenting of its intent on, and of a run from
\* its first request on.
Consented == {"redeem", "pay", "recheck", "set"}
Writing   == {"verify", "judge", "asked"} \cup Consented
AtOne     == {"asked of one", "pay for one", "send one", "refused one"}
Looping   == {"head"} \cup AtOne
Running   == {"redeem run", "run"} \cup Looping
Places    == {"idle", "arrived", "entry", "save text", "done"}
             \cup Gated \cup OnEntry \cup Writing \cup Running

Decisions == {"none", "allowed", "confirmed", "refused", "denied-by-policy", "rate-limited"}
Tools     == Gated \cup OnEntry

Permits == [tool : Gated, print : Value \cup Plans]

\* What a run has left: some of the folder's requests, each as its file was.
Lists == UNION {[R -> Version] : R \in SUBSET Request}

Calls == [at : Places, tool : Tools, value : Value \cup {None}, intent : PermitId \cup {None},
          text : BOOLEAN, stop : BOOLEAN, environment : Environment, defined : BOOLEAN,
          plan : Plans \cup {<<>>}, left : Lists \cup {<<>>}, node : Request \cup {None},
          confirmed : BOOLEAN, surface : {"not-asked", "window"}, decision : Decisions,
          agreed : SUBSET (Value \cup {None} \cup Request), clean : BOOLEAN, free : BOOLEAN, began : Nat]

Requests == [call : Call, request : Request, version : Version, address : Address,
             agreed : BOOLEAN, clean : BOOLEAN, moved : BOOLEAN]

WorldShape ==
    /\ grants \in Switches /\ active \in Environment /\ settings \in BOOLEAN
    /\ listing \subseteq Request /\ version \in [Request -> Version]
    /\ session \in Value \cup {None} /\ edits \in Nat

StoreShape ==
    /\ budget \in [Capabilities -> Nat]
    /\ permits \in [PermitId -> Permits \cup {None}] /\ shown \in [PermitId -> Permits \cup {None}]
    /\ wrote \subseteq Call /\ sent \subseteq Requests

CallShape == calls \in [Call -> Calls]

-----------------------------------------------------------------------------
(* What is settled by the place a call has come to.                        *)

\* An intent that is outstanding is of what was shown for it, and what is shown is never
\* shown anew.
StoreIsSound ==
    /\ \A i \in PermitId : permits[i] # None => permits[i] = shown[i]
    /\ \A c \in Call : calls[c].at # "done" => shown[c] = None
    /\ \A c \in Call : calls[c].intent # None => shown[calls[c].intent] # None

\* Of any call: its tool, and that nothing is decided before it is done.
Placed(call) ==
    /\ call.at \in Tools => call.tool = call.at
    /\ call.at = "entry" => call.tool \in OnEntry
    /\ call.at # "idle" => call.value \in Value
    /\ call.at = "idle" => call.intent = None
    /\ call.at \in Writing => call.tool = "set_session_variable"
    /\ call.at = "redeem run" => call.tool = "run_folder"
    /\ call.at \in Writing \cup {"redeem run"} => call.intent \in PermitId
    /\ call.at # "done" => call.decision = "none"
    /\ call.agreed # {} \/ call.decision = "confirmed" => call.confirmed
    /\ call.confirmed => call.surface = "window"

\* Of a session write: it was shown, a person agreed to it, and the name, where it is free
\* now, has been found so since.
Wanted(call) ==
    /\ call.at \in Consented => call.value \in call.agreed /\ (call.free \/ (call.at # "set" /\ ~Free))
    /\ call.at \in Consented \ {"redeem"} =>
          shown[call.intent] = [tool |-> "set_session_variable", print |-> call.value]

PlanShown(call) == [tool |-> "run_folder", print |-> call.plan]

\* The request that a run is at: the first of those it has left.
First(call) == CHOOSE r \in DOMAIN call.left : \A q \in DOMAIN call.left : r <= q

\* Of a run: its plan is what was shown, and while nothing moves it is the folder's, and
\* what the run has left is as it is now.
OnCourse(call) ==
    /\ call.at \in Running =>
          call.began <= edits /\ call.plan \in Plans /\ call.intent \in PermitId
    /\ call.at \in Running /\ call.began = edits => call.plan = Planned(listing)
    /\ call.at \in {"run"} \cup Looping => shown[call.intent] = PlanShown(call)
    /\ call.at \in Looping /\ call.began = edits =>
          /\ call.environment = active /\ call.defined = settings
          /\ \A r \in DOMAIN call.left : r \in listing /\ call.left[r] = version[r]
    /\ call.at \in AtOne => DOMAIN call.left # {}
    /\ call.at \in AtOne /\ call.clean /\ call.began = edits => version[First(call)] = 0
    /\ call.at \in {"pay for one", "send one"} => call.clean \/ First(call) \in call.agreed

-----------------------------------------------------------------------------
(* What was done.                                                          *)

Ended(call) == call.at = "done" /\ call.decision = IF call.confirmed THEN "confirmed" ELSE "allowed"

\* Who wrote has ended, and who sent has ended or is at it.
Recorded ==
    /\ \A c \in wrote :
          calls[c].at = "done" /\ calls[c].decision = "confirmed" /\ calls[c].intent \in PermitId
    /\ \A s \in sent :
          /\ calls[s.call].at \in Looping \/ Ended(calls[s.call])
          /\ s.agreed => calls[s.call].confirmed
          /\ calls[s.call].intent \in PermitId

\* Paid for and not yet sent, or not yet set.
Sending == {c \in Call : calls[c].at = "send one"}
Setting == {c \in Call : calls[c].at \in {"recheck", "set"}}

\* What was done and what is in hand is within what was taken out of the bucket.
Within(done, inHand, left) ==
    /\ IsFiniteSet(done) /\ IsFiniteSet(inHand)
    /\ Cardinality(done) + Cardinality(inHand) + left <= Budget

Paid == Within(sent, Sending, budget["run"]) /\ Within(wrote, Setting, budget["session"])

IInv ==
    /\ WorldShape /\ StoreShape /\ CallShape
    /\ StoreIsSound
    /\ \A c \in Call : Placed(calls[c]) /\ Wanted(calls[c]) /\ OnCourse(calls[c])
    /\ Recorded
    /\ ActsAsAgreed
    /\ Paid

-----------------------------------------------------------------------------
(* A call takes a step.                                                    *)

\* What a call that is not over may become, whatever it does to the store, the folder and
\* the record, so that all but the accounts is kept.
Proper(c, new) ==
    /\ new \in Calls
    /\ Placed(new)
    /\ calls[c].confirmed => new.confirmed
    /\ calls[c].at \in Looping =>
          new.intent = calls[c].intent /\ (new.at \in Looping \/ Ended(new))

\* The folder and the session value are as they were, or something moved.
Folder ==
    /\ listing' \subseteq Request /\ version' \in [Request -> Version]
    /\ session' \in Value \cup {None}
    /\ UNCHANGED <<listing, version, session, edits>> \/ edits' = edits + 1

\* Intents are spent, or the call's own is issued as it was shown.
Store(c, new) ==
    /\ permits' \in [PermitId -> Permits \cup {None}]
    /\ \A i \in PermitId : permits'[i] \in {None, permits[i]} \/ (i = c /\ permits'[i] = shown'[i])
    /\ shown' \in [PermitId -> Permits \cup {None}]
    /\ shown' = shown \/ (new.at = "done" /\ \A i \in PermitId : i # c => shown'[i] = shown[i])

Writes(c, new) ==
    \/ wrote' = wrote
    \/ /\ wrote' = wrote \cup {c}
       /\ new.at = "done" /\ new.decision = "confirmed"
       /\ shown[new.intent] = [tool |-> "set_session_variable", print |-> new.value]
       /\ new.intent \in PermitId /\ new.value \in new.agreed /\ new.free /\ shown' = shown

Sendings(c, new) ==
    \/ sent' = sent
    \/ \E s \in Requests :
          /\ sent' = sent \cup {s}
          /\ s.call = c /\ new.at \in Looping
          /\ s.agreed => new.confirmed
          /\ s.agreed \/ (s.clean /\ (s.version = 0 \/ s.moved))
          /\ s.moved \/ Covers(shown[new.intent], s)

\* Some places and decisions, as members of their sets.
LEMMA SomePlaces ==
    /\ {"arrived", "head", "done", "redeem", "recheck", "asked of one", "pay for one", "send one", "refused one"} \subseteq Places
    /\ {"allowed", "confirmed", "refused"} \subseteq Decisions
  BY DEF Places, Decisions, Gated, OnEntry, Writing, Consented, Running, Looping, AtOne

LEMMA CallKeeps ==
    ASSUME AgentToolsAssumption, IInv, NEW c \in Call, calls[c].at # "done",
           NEW new, Become(c, new), Proper(c, new),
           new.intent = calls[c].intent \/ (new.intent \in PermitId /\ shown[new.intent] # None),
           UNCHANGED <<grants, active, settings>>, Folder, Store(c, new),
           budget' \in [Capabilities -> Nat],
           Wanted(new)', OnCourse(new)', Writes(c, new), Sendings(c, new), Paid'
    PROVE  IInv'
  <1>1. /\ calls \in [Call -> Calls] /\ calls' \in [Call -> Calls] /\ calls'[c] = new
        /\ \A d \in Call : d # c => calls'[d] = calls[d]
        /\ edits \in Nat /\ c \in PermitId
    BY DEF IInv, CallShape, WorldShape, Become, Proper, PermitId
  <1>2. WorldShape' /\ CallShape'
    BY <1>1 DEF IInv, WorldShape, CallShape, Folder
  <1>3. StoreShape'
    BY <1>1 DEF IInv, StoreShape, Store, Writes, Sendings
  <1>4. \A i \in PermitId : shown[i] # None => shown'[i] = shown[i]
    BY <1>1 DEF IInv, StoreIsSound, Store
  <1>5. StoreIsSound'
    <2>1. ASSUME NEW i \in PermitId
          PROVE  permits'[i] # None => permits'[i] = shown'[i]
      BY <1>4 DEF IInv, StoreIsSound, Store
    <2>2. ASSUME NEW d \in Call
          PROVE  /\ calls'[d].at # "done" => shown'[d] = None
                 /\ calls'[d].intent # None => shown'[calls'[d].intent] # None
      <3>1. d \in PermitId /\ calls'[d].intent \in PermitId \cup {None}
        BY <1>1 DEF PermitId, Calls
      <3>2. CASE d = c
        BY <3>1, <3>2, <1>1, <1>4 DEF IInv, StoreIsSound, Store
      <3>3. CASE d # c
        BY <3>1, <3>3, <1>1, <1>4 DEF IInv, StoreIsSound, Store
      <3> QED
        BY <3>2, <3>3
    <2> QED
      BY <2>1, <2>2 DEF StoreIsSound
  <1>6. ASSUME NEW d \in Call
        PROVE  Placed(calls'[d]) /\ Wanted(calls[d])' /\ OnCourse(calls[d])'
    <2>1. CASE d = c
      BY <2>1, <1>1 DEF Proper, Wanted, OnCourse
    <2>2. CASE d # c
      <3>1. calls'[d] = calls[d] /\ calls[d].intent \in PermitId \cup {None} /\ calls[d].began \in Nat
        BY <2>2, <1>1 DEF Calls
      <3>2. Placed(calls[d]) /\ Wanted(calls[d]) /\ OnCourse(calls[d])
        BY DEF IInv
      <3>2a. calls[d].at \in Consented \cup Running =>
                calls[d].intent \in PermitId /\ shown'[calls[d].intent] = shown[calls[d].intent]
        <4>1. calls[d].at \in Consented \cup Running => calls[d].intent \in PermitId
          BY <3>2 DEF Placed, OnCourse, Writing
        <4>2. None \notin PermitId
          BY DEF AgentToolsAssumption, PermitId
        <4> QED
          BY <4>1, <4>2, <1>4 DEF IInv, StoreIsSound
      <3>3. Wanted(calls[d])'
        <4>1. Free' = Free
          BY DEF Free
        <4> QED
          BY <3>1, <3>2, <3>2a, <4>1 DEF Wanted
      <3>4. OnCourse(calls[d])'
        <4>0. /\ calls[d].at \in {"run"} \cup Looping => shown[calls[d].intent] = PlanShown(calls[d])
              /\ calls[d].at \in {"run"} \cup Looping => calls[d].at \in Running
          BY <3>2 DEF OnCourse, Running
        <4>0a. calls[d].at \in {"run"} \cup Looping => shown'[calls'[d].intent] = PlanShown(calls'[d])
          BY <3>1, <3>2a, <4>0
        <4>1. CASE UNCHANGED <<listing, version, session, edits>>
          <5>1. Planned(listing)' = Planned(listing)
            BY <4>1 DEF Planned, Around
          <5>2. First(calls[d])' = First(calls[d])
            BY <3>1 DEF First
          <5> QED
            BY <3>1, <3>2, <4>0a, <4>1, <5>1, <5>2 DEF OnCourse
        <4>2. CASE edits' = edits + 1
          <5>1. calls[d].at \in Running => calls[d].began <= edits
            BY <3>2 DEF OnCourse
          <5>2. calls[d].at \in Running => calls[d].began <= edits' /\ calls[d].began # edits'
            BY <3>1, <4>2, <5>1, <1>1
          <5> QED
            BY <3>1, <3>2, <4>0a, <5>2 DEF OnCourse, First, Running, Looping, AtOne
        <4> QED
          BY <4>1, <4>2 DEF Folder
      <3> QED
        BY <3>1, <3>2, <3>3, <3>4
    <2> QED
      BY <2>1, <2>2
  <1>7. Recorded'
    <2>1. c \notin wrote
      BY DEF IInv, Recorded
    <2>2. \A d \in wrote' :
            calls'[d].at = "done" /\ calls'[d].decision = "confirmed" /\ calls'[d].intent \in PermitId
      <3>1. wrote \subseteq Call
        BY DEF IInv, StoreShape
      <3> QED
        BY <2>1, <3>1, <1>1 DEF IInv, Recorded, Writes
    <2>3. ASSUME NEW s \in sent'
          PROVE  /\ calls'[s.call].at \in Looping \/ Ended(calls'[s.call])
                 /\ s.agreed => calls'[s.call].confirmed
                 /\ calls'[s.call].intent \in PermitId
      <3>1. CASE s \in sent
        <4>1. s.call \in Call
          BY <3>1 DEF IInv, StoreShape, Requests
        <4>2. CASE s.call = c
          BY <3>1, <4>2, <1>1 DEF IInv, Recorded, Proper, Ended
        <4>3. CASE s.call # c
          BY <3>1, <4>1, <4>3, <1>1 DEF IInv, Recorded
        <4> QED
          BY <4>2, <4>3
      <3>2. CASE s \notin sent
        <4>1. new.at \in Looping => new.intent \in PermitId
          BY <1>1 DEF OnCourse, Running
        <4> QED
          BY <3>2, <4>1, <1>1 DEF Sendings
      <3> QED
        BY <3>1, <3>2
    <2> QED
      BY <2>2, <2>3 DEF Recorded
  <1>8. ActsAsAgreed'
    <2>1. SessionWritesWereAgreed'
      <3>1. ASSUME NEW d \in wrote'
            PROVE  /\ shown'[calls'[d].intent] = [tool |-> "set_session_variable", print |-> calls'[d].value]
                   /\ calls'[d].value \in calls'[d].agreed
                   /\ calls'[d].free
        <4>1. CASE d \in wrote
          <5>1. d # c /\ d \in Call /\ calls'[d] = calls[d] /\ calls[d].intent \in PermitId \cup {None}
            BY <4>1, <1>1 DEF IInv, Recorded, StoreShape, Calls
          <5>2. /\ shown[calls[d].intent] = [tool |-> "set_session_variable", print |-> calls[d].value]
                /\ calls[d].value \in calls[d].agreed /\ calls[d].free
            BY <4>1 DEF IInv, ActsAsAgreed, SessionWritesWereAgreed
          <5>3. calls[d].intent \in PermitId
            BY <4>1, <5>1 DEF IInv, Recorded
          <5> QED
            <6>1. None \notin PermitId
              BY DEF AgentToolsAssumption, PermitId
            <6> QED
              BY <5>1, <5>2, <5>3, <6>1, <1>4 DEF IInv, StoreIsSound
        <4>2. CASE d \notin wrote
          BY <4>2, <1>1 DEF Writes
        <4> QED
          BY <4>1, <4>2
      <3> QED
        BY <3>1 DEF SessionWritesWereAgreed
    <2>2. ASSUME NEW s \in sent'
          PROVE  /\ s.agreed \/ (s.clean /\ (s.version = 0 \/ s.moved))
                 /\ s.moved \/ Covers(shown'[calls'[s.call].intent], s)
      <3>0. None \notin PermitId
        BY DEF AgentToolsAssumption, PermitId
      <3>1. CASE s \in sent
        <4>1. s.call \in Call /\ calls[s.call].intent \in PermitId
          BY <3>1 DEF IInv, StoreShape, Requests, Recorded
        <4>2. shown'[calls[s.call].intent] = shown[calls[s.call].intent]
          BY <3>0, <4>1, <1>4 DEF IInv, StoreIsSound
        <4>3. calls'[s.call].intent = calls[s.call].intent
          <5>1. CASE s.call = c
            BY <3>1, <5>1, <1>1 DEF IInv, Recorded, Proper, Ended
          <5>2. CASE s.call # c
            BY <4>1, <5>2, <1>1
          <5> QED
            BY <5>1, <5>2
        <4> QED
          BY <3>1, <4>2, <4>3 DEF IInv, ActsAsAgreed, RunsWereAgreed
      <3>2. CASE s \notin sent
        <4>1. new.at \in Looping => new.intent \in PermitId
          BY <1>1 DEF OnCourse, Running
        <4>2. s.call = c /\ new.at \in Looping
          BY <3>2 DEF Sendings
        <4>3. shown'[new.intent] = shown[new.intent]
          BY <3>0, <4>1, <4>2, <1>4, <1>1 DEF IInv, StoreIsSound
        <4> QED
          BY <3>2, <4>2, <4>3, <1>1 DEF Sendings
      <3> QED
        BY <3>1, <3>2
    <2>3. RunsWereAgreed'
      BY <2>2 DEF RunsWereAgreed, Covers
    <2> QED
      BY <2>1, <2>3 DEF ActsAsAgreed
  <1> QED
    BY <1>2, <1>3, <1>5, <1>6, <1>7, <1>8, <1>1 DEF IInv

-----------------------------------------------------------------------------
(* The accounts.                                                           *)

LEMMA NoMoreInHand ==
    ASSUME AgentToolsAssumption, NEW D, NEW H, NEW H2 \in SUBSET H, NEW b \in Nat, NEW b2 \in Nat, b2 <= b,
           Within(D, H, b)
    PROVE  Within(D, H2, b2)
  <1>1. IsFiniteSet(H2) /\ Cardinality(H2) <= Cardinality(H)
    BY FS_Subset DEF Within
  <1>2. Cardinality(D) \in Nat /\ Cardinality(H) \in Nat /\ Cardinality(H2) \in Nat /\ Budget \in Nat
    BY <1>1, FS_CardinalityType DEF Within, AgentToolsAssumption
  <1> QED
    BY <1>1, <1>2 DEF Within

LEMMA OneMoreInHand ==
    ASSUME AgentToolsAssumption, NEW D, NEW H, NEW x, NEW b \in Nat, b # 0, Within(D, H, b)
    PROVE  Within(D, H \cup {x}, b - 1)
  <1>1. IsFiniteSet(H \cup {x}) /\ Cardinality(H \cup {x}) <= Cardinality(H) + 1
    <2>1. /\ IsFiniteSet(H \cup {x})
          /\ Cardinality(H \cup {x}) = IF x \in H THEN Cardinality(H) ELSE Cardinality(H) + 1
      BY FS_AddElement DEF Within
    <2>2. Cardinality(H) \in Nat
      BY FS_CardinalityType DEF Within
    <2> QED
      BY <2>1, <2>2
  <1>2. Cardinality(D) \in Nat /\ Cardinality(H) \in Nat /\ Cardinality(H \cup {x}) \in Nat /\ Budget \in Nat
    BY <1>1, FS_CardinalityType DEF Within, AgentToolsAssumption
  <1> QED
    BY <1>1, <1>2 DEF Within

LEMMA OutOfHand ==
    ASSUME AgentToolsAssumption, NEW D, NEW H, NEW x \in H, NEW y, NEW b \in Nat, Within(D, H, b)
    PROVE  Within(D \cup {y}, H \ {x}, b)
  <1>1. IsFiniteSet(H \ {x}) /\ Cardinality(H \ {x}) = Cardinality(H) - 1
    BY FS_RemoveElement DEF Within
  <1>2. /\ IsFiniteSet(D \cup {y})
        /\ Cardinality(D \cup {y}) = IF y \in D THEN Cardinality(D) ELSE Cardinality(D) + 1
    BY FS_AddElement DEF Within
  <1>3. Cardinality(D) \in Nat /\ Cardinality(H) \in Nat /\ Budget \in Nat
    BY FS_CardinalityType DEF Within, AgentToolsAssumption
  <1> QED
    BY <1>1, <1>2, <1>3 DEF Within

\* Nothing but calls, intents and budget changes; intents are only voided; budget only spent.
Still  == UNCHANGED <<worldVars, session, edits, shown, wrote, sent>>
Voids  == permits' \in [PermitId -> Permits \cup {None}]
          /\ \A i \in PermitId : permits'[i] \in {None, permits[i]}
Spends == budget' \in [Capabilities -> Nat] /\ \A k \in Capabilities : budget'[k] <= budget[k]

\* Of a step that neither sends nor sets anything, nor pays for either.
LEMMA CallOwesNothing ==
    ASSUME AgentToolsAssumption, IInv, NEW c \in Call, NEW new, Become(c, new),
           new.at \notin {"send one", "recheck"}, new.at = "set" => calls[c].at = "recheck",
           Spends, UNCHANGED <<sent, wrote>>
    PROVE  Paid'
  <1>1. /\ calls \in [Call -> Calls] /\ calls'[c] = new
        /\ \A d \in Call : d # c => calls'[d] = calls[d]
    BY DEF IInv, CallShape, Become
  <1>2. Sending' \in SUBSET Sending /\ Setting' \in SUBSET Setting
    BY <1>1 DEF Sending, Setting
  <1>3. /\ "run" \in Capabilities /\ "session" \in Capabilities
        /\ budget["run"] \in Nat /\ budget["session"] \in Nat
        /\ budget'["run"] \in Nat /\ budget'["session"] \in Nat
        /\ budget'["run"] <= budget["run"] /\ budget'["session"] <= budget["session"]
    BY DEF IInv, StoreShape, Capabilities, Spends
  <1>4. Within(sent, Sending, budget["run"]) /\ Within(wrote, Setting, budget["session"])
    BY DEF IInv, Paid
  <1>5. Within(sent, Sending', budget'["run"]) /\ Within(wrote, Setting', budget'["session"])
    BY <1>2, <1>3, <1>4, NoMoreInHand
  <1> QED
    BY <1>5 DEF Paid

\* Of a step that changes nothing but the call itself, what is left to spend, and intents
\* that it voids.
LEMMA CallPays ==
    ASSUME AgentToolsAssumption, IInv, NEW c \in Call, calls[c].at # "done",
           NEW new, Become(c, new), Proper(c, new), new.intent = calls[c].intent,
           Still, Voids, Spends,
           Wanted(new), OnCourse(new), Paid'
    PROVE  IInv'
  <1>2. WorldShape /\ StoreShape
    BY DEF IInv
  <1>3. Folder
    BY <1>2 DEF Folder, WorldShape, worldVars, Still
  <1>4. Store(c, new)
    BY <1>2 DEF Store, StoreShape, Still, Voids
  <1>5. Wanted(new)' /\ OnCourse(new)'
    BY DEF worldVars, Wanted, Free, OnCourse, PlanShown, Planned, Around, First, Still
  <1>6. UNCHANGED <<grants, active, settings>>
    BY DEF worldVars, Still
  <1>7. Writes(c, new) /\ Sendings(c, new)
    BY DEF Writes, Sendings, Still
  <1> QED
    BY <1>3, <1>4, <1>5, <1>6, <1>7, CallKeeps DEF Spends

COROLLARY CallGoesOn ==
    ASSUME AgentToolsAssumption, IInv, NEW c \in Call, calls[c].at # "done",
           NEW new, Become(c, new), Proper(c, new), new.intent = calls[c].intent,
           Still, Voids, Spends,
           new.at \notin {"send one", "recheck"}, new.at = "set" => calls[c].at = "recheck",
           Wanted(new), OnCourse(new)
    PROVE  IInv'
  <1>1. Paid'
    BY CallOwesNothing DEF Still
  <1> QED
    BY <1>1, CallPays

-----------------------------------------------------------------------------
(* What every step of a call may take for granted.                         *)

LEMMA OfAnyCall ==
    ASSUME IInv, NEW c \in Call
    PROVE  /\ calls[c] \in Calls /\ Placed(calls[c]) /\ Wanted(calls[c]) /\ OnCourse(calls[c])
           /\ c \in PermitId
           /\ WorldShape /\ StoreShape
  BY DEF IInv, CallShape, PermitId

LEMMA NothingSpent ==
    ASSUME IInv, UNCHANGED budget
    PROVE  Spends
  <1>1. budget \in [Capabilities -> Nat]
    BY DEF IInv, StoreShape
  <1> QED
    BY <1>1 DEF Spends

LEMMA OneSpent ==
    ASSUME IInv, NEW k \in Capabilities, budget[k] # 0, Spent(k)
    PROVE  Spends
  <1>1. budget \in [Capabilities -> Nat]
    BY DEF IInv, StoreShape
  <1> QED
    BY <1>1 DEF Spends, Spent

LEMMA NothingVoided ==
    ASSUME IInv, UNCHANGED permits
    PROVE  Voids
  BY DEF IInv, StoreShape, Voids

LEMMA OneVoided ==
    ASSUME IInv, NEW c \in Call, Redeemed(c)
    PROVE  Voids
  BY DEF IInv, StoreShape, Voids, Redeemed

\* A call's capability is one of those there are.
LEMMA AsksOne ==
    ASSUME IInv, NEW c \in Call
    PROVE  Asks(c) \in Capabilities
  <1>1. calls[c].tool \in Tools
    BY OfAnyCall DEF Calls
  <1> QED
    BY <1>1 DEF Asks, CapabilityOf, Capabilities, Tools, Gated, OnEntry

\* A call ends, its decision the right one.
LEMMA CallEnds ==
    ASSUME AgentToolsAssumption, IInv, NEW c \in Call, calls[c].at \notin {"done", "idle"},
           NEW decision \in Decisions, Done(c, calls[c], decision),
           decision = "confirmed" => calls[c].confirmed,
           calls[c].at \in Looping => decision = IF calls[c].confirmed THEN "confirmed" ELSE "allowed",
           Still, Voids, Spends
    PROVE  IInv'
  <1> DEFINE new == [calls[c] EXCEPT !.at = "done", !.decision = decision]
  <1>1. calls[c] \in Calls /\ Placed(calls[c])
    BY OfAnyCall
  <1>2. new \in Calls
    BY <1>1 DEF Calls, Places
  <1>3. /\ new.at = "done" /\ new.decision = decision /\ new.tool = calls[c].tool
        /\ new.value = calls[c].value /\ new.intent = calls[c].intent /\ new.agreed = calls[c].agreed
        /\ new.confirmed = calls[c].confirmed /\ new.surface = calls[c].surface
    BY <1>1 DEF Calls
  <1>4. Become(c, new)
    BY DEF Done
  <1> HIDE DEF new
  <1>5. Placed(new)
    BY <1>1, <1>3 DEF Placed, Tools, Gated, OnEntry, Writing, Consented
  <1>6. Proper(c, new)
    BY <1>1, <1>2, <1>3, <1>5 DEF Proper, Ended
  <1>7. Wanted(new) /\ OnCourse(new)
    BY <1>3 DEF Wanted, OnCourse, Consented, Running, Looping, AtOne
  <1> QED
    BY <1>3, <1>4, <1>6, <1>7, CallGoesOn

\* A call goes from one place to the next with nothing else about it changed.
LEMMA CallMoves ==
    ASSUME AgentToolsAssumption, IInv, NEW c \in Call, calls[c].at \notin {"done", "idle"},
           NEW step \in Places \ {"done", "idle"}, Goto(c, step),
           step \in Tools => calls[c].tool = step,
           step = "entry" => calls[c].tool \in OnEntry,
           step \in Writing => calls[c].at \in Writing,
           step \in Running => calls[c].at \in Running,
           step = "redeem run" => calls[c].at = step,
           step \in Looping <=> calls[c].at \in Looping,
           step \in AtOne => calls[c].at \in AtOne,
           step = "run" => shown[calls[c].intent] = PlanShown(calls[c]),
           step \in {"pay for one", "send one"} => calls[c].at \in {"pay for one", "send one"},
           step \in Consented => calls[c].at \in Consented,
           step \in Consented \ {"redeem"} =>
               \/ calls[c].at \in Consented \ {"redeem"}
               \/ shown[calls[c].intent] = [tool |-> "set_session_variable", print |-> calls[c].value],
           step = "set" => (calls[c].at = "recheck" /\ calls[c].free),
           step \notin {"send one", "recheck"},
           Still, Voids, Spends
    PROVE  IInv'
  <1> DEFINE new == [calls[c] EXCEPT !.at = step]
  <1>1. calls[c] \in Calls /\ Placed(calls[c]) /\ Wanted(calls[c]) /\ OnCourse(calls[c])
    BY OfAnyCall
  <1>2. new \in Calls
    BY <1>1 DEF Calls
  <1>3. /\ new.at = step /\ new.decision = calls[c].decision /\ new.tool = calls[c].tool
        /\ new.value = calls[c].value /\ new.intent = calls[c].intent /\ new.agreed = calls[c].agreed
        /\ new.confirmed = calls[c].confirmed /\ new.surface = calls[c].surface
        /\ new.free = calls[c].free /\ new.began = calls[c].began /\ new.plan = calls[c].plan
        /\ new.left = calls[c].left /\ new.clean = calls[c].clean
        /\ new.environment = calls[c].environment /\ new.defined = calls[c].defined
    BY <1>1 DEF Calls
  <1>4. Become(c, new)
    BY DEF Goto
  <1> HIDE DEF new
  <1>5. Placed(new)
    BY <1>1, <1>3 DEF Placed
  <1>6. Proper(c, new)
    BY <1>1, <1>2, <1>3, <1>5 DEF Proper
  <1>7. Wanted(new)
    BY <1>1, <1>3 DEF Wanted
  <1>8. OnCourse(new)
    <2>1. First(new) = First(calls[c])
      BY <1>3 DEF First
    <2> QED
      BY <1>1, <1>3, <2>1 DEF OnCourse, PlanShown
  <1> QED
    BY <1>3, <1>4, <1>6, <1>7, <1>8, CallGoesOn

-----------------------------------------------------------------------------
(* The wrapper.                                                            *)

LEMMA ArriveKeeps ==
    ASSUME AgentToolsAssumption, IInv, NEW c \in Call, NEW tool \in DOMAIN CapabilityOf, NEW v \in Value,
           NEW i \in PermitId \cup {None}, NEW flag \in BOOLEAN, Arrive(c, tool, v, i, flag)
    PROVE  IInv'
  <1>1. /\ calls[c] \in Calls /\ Placed(calls[c]) /\ calls[c].at = "idle"
        /\ WorldShape /\ StoreShape
    BY OfAnyCall DEF Arrive, At
  <1>2. tool \in Tools
    BY DEF CapabilityOf, Tools, Gated, OnEntry
  <1>3. PICK new \in Calls : new = [calls[c] EXCEPT !.at = "arrived", !.tool = tool, !.value = v,
                                                    !.intent = i, !.stop = flag, !.text = flag]
    <2>1. [calls[c] EXCEPT !.at = "arrived", !.tool = tool, !.value = v,
                           !.intent = i, !.stop = flag, !.text = flag] \in Calls
      <3>1. "arrived" \in Places
        BY SomePlaces
      <3> QED
        BY <1>1, <1>2, <3>1 DEF Calls
    <2> QED
      BY <2>1
  <1>4. /\ new.at = "arrived" /\ new.value = v /\ new.intent = i
        /\ new.decision = calls[c].decision /\ new.agreed = calls[c].agreed
        /\ new.confirmed = calls[c].confirmed /\ new.surface = calls[c].surface
    BY <1>1, <1>3 DEF Calls
  <1>5. Become(c, new) /\ (i # None => shown[i] # None)
    BY <1>3 DEF Arrive
  <1>6. Placed(new)
    BY <1>1, <1>4 DEF Placed, Tools, Gated, OnEntry, Writing, Consented
  <1>7. Proper(c, new)
    BY <1>1, <1>3, <1>4, <1>6 DEF Proper, Looping, AtOne
  <1>8. Wanted(new)' /\ OnCourse(new)'
    BY <1>4 DEF Wanted, OnCourse, Consented, Running, Looping, AtOne
  <1>9. /\ UNCHANGED <<worldVars, budget, permits, session, edits, shown, wrote, sent>>
        /\ UNCHANGED <<grants, active, settings>>
    BY DEF Arrive, worldVars
  <1>10. Spends
    BY <1>9, NothingSpent
  <1>11. Paid'
    BY <1>4, <1>5, <1>9, <1>10, CallOwesNothing
  <1>12. Folder /\ Store(c, new) /\ Writes(c, new) /\ Sendings(c, new)
    BY <1>1, <1>9 DEF WorldShape, StoreShape, worldVars, Folder, Store, Writes, Sendings
  <1>13. new.intent = calls[c].intent \/ (new.intent \in PermitId /\ shown[new.intent] # None)
    <2>1. CASE i # None
      BY <2>1, <1>4, <1>5
    <2>2. CASE i = None
      BY <2>2, <1>1, <1>4 DEF Placed
    <2> QED
      BY <2>1, <2>2
  <1> QED
    BY <1>1, <1>5, <1>7, <1>8, <1>9, <1>10, <1>11, <1>12, <1>13, CallKeeps DEF Spends

LEMMA CheckCapabilityKeeps ==
    ASSUME AgentToolsAssumption, IInv, NEW c \in Call, CheckCapability(c)
    PROVE  IInv'
  <1>1. calls[c].at = "arrived" /\ calls[c] \in Calls
    BY OfAnyCall DEF CheckCapability, At
  <1>2. Still /\ UNCHANGED budget /\ UNCHANGED permits
    BY DEF CheckCapability, Still
  <1>3. Spends /\ Voids
    BY <1>2, NothingSpent, NothingVoided
  <1>4. CASE Asks(c) \notin grants.held
    <2>1. Done(c, calls[c], "denied-by-policy")
      BY <1>4 DEF CheckCapability
    <2> QED
      BY <2>1, <1>1, <1>2, <1>3, CallEnds DEF Decisions, Looping, AtOne
  <1>5. CASE Asks(c) \in grants.held
    <2> DEFINE step == IF calls[c].tool \in OnEntry THEN "entry" ELSE calls[c].tool
    <2>1. Goto(c, step)
      BY <1>5 DEF CheckCapability
    <2>2. /\ step \in Places \ {"done", "idle"} /\ step \in Gated \cup {"entry"}
          /\ step \in Tools => calls[c].tool = step
          /\ step = "entry" => calls[c].tool \in OnEntry
      BY <1>1 DEF Calls, Tools, Places, Gated, OnEntry
    <2> HIDE DEF step
    <2> QED
      BY <2>1, <2>2, <1>1, <1>2, <1>3, CallMoves
      DEF Gated, Writing, Consented, Running, Looping, AtOne
  <1> QED
    BY <1>4, <1>5

LEMMA SpendOnEntryKeeps ==
    ASSUME AgentToolsAssumption, IInv, NEW c \in Call, SpendOnEntry(c)
    PROVE  IInv'
  <1>1. calls[c].at = "entry" /\ calls[c] \in Calls /\ calls[c].tool \in OnEntry
    BY OfAnyCall DEF SpendOnEntry, At, Placed
  <1>2. Still /\ UNCHANGED permits /\ Voids
    BY NothingVoided DEF SpendOnEntry, Still
  <1>3. CASE budget[Asks(c)] = 0
    <2>1. Done(c, calls[c], "rate-limited") /\ UNCHANGED budget
      BY <1>3 DEF SpendOnEntry
    <2> QED
      BY <2>1, <1>1, <1>2, NothingSpent, CallEnds DEF Decisions, Looping, AtOne
  <1>4. CASE budget[Asks(c)] # 0
    <2>1. Goto(c, calls[c].tool) /\ Spends
      BY <1>4, OneSpent, AsksOne DEF SpendOnEntry
    <2>2. calls[c].tool \in Places \ {"done", "idle"}
      BY <1>1 DEF Places, OnEntry
    <2> QED
      BY <2>1, <2>2, <1>1, <1>2, CallMoves
      DEF OnEntry, Writing, Consented, Running, Looping, AtOne
  <1> QED
    BY <1>3, <1>4

LEMMA NotFoundKeeps ==
    ASSUME AgentToolsAssumption, IInv, NEW c \in Call, NotFound(c)
    PROVE  IInv'
  <1>1. calls[c].at \in Gated \cup OnEntry \cup {"run"} /\ Done(c, calls[c], "refused")
    BY DEF NotFound, Refuse
  <1>2. Still /\ UNCHANGED permits /\ UNCHANGED budget
    BY DEF NotFound, Still
  <1> QED
    BY <1>1, <1>2, NothingSpent, NothingVoided, CallEnds DEF Decisions, Looping, AtOne, Gated, OnEntry

LEMMA ReadKeeps ==
    ASSUME AgentToolsAssumption, IInv, NEW c \in Call, Read(c)
    PROVE  IInv'
  <1>1. calls[c].at = "read" /\ Done(c, calls[c], "allowed")
    BY DEF Read, At
  <1>2. Still /\ UNCHANGED permits /\ UNCHANGED budget
    BY DEF Read, Still
  <1> QED
    BY <1>1, <1>2, NothingSpent, NothingVoided, CallEnds DEF Decisions, Looping, AtOne

-----------------------------------------------------------------------------
(* Intents and session writes.                                             *)

\* The environment a call has seen, the plan it has made and the edits there were leave
\* the rest of it as it was.
LEMMA PreviewKeeps ==
    ASSUME AgentToolsAssumption, IInv, NEW c \in Call, calls[c].at \in Gated,
           NEW seen \in Calls, NEW print \in Value \cup Plans, Preview(c, seen, print),
           seen.tool = calls[c].tool, seen.value = calls[c].value, seen.intent = calls[c].intent,
           seen.agreed = calls[c].agreed, seen.confirmed = calls[c].confirmed,
           seen.surface = calls[c].surface,
           UNCHANGED <<worldVars, session, edits, wrote, sent>>
    PROVE  IInv'
  <1>1. /\ calls[c] \in Calls /\ Placed(calls[c]) /\ calls[c].tool \in Gated
        /\ WorldShape /\ StoreShape /\ c \in PermitId
    BY OfAnyCall DEF Placed, Tools
  <1>2. PICK d \in {"refused", "allowed"} : Become(c, [seen EXCEPT !.at = "done", !.decision = d])
    BY DEF Preview, Done
  <1>3. PICK new \in Calls : new = [seen EXCEPT !.at = "done", !.decision = d]
    <2>1. "done" \in Places /\ d \in Decisions
      BY SomePlaces
    <2>2. [seen EXCEPT !.at = "done", !.decision = d] \in Calls
      BY <2>1 DEF Calls
    <2> QED
      BY <2>2
  <1>4. /\ new.at = "done" /\ new.decision = d /\ new.value = calls[c].value
        /\ new.intent = calls[c].intent /\ new.agreed = calls[c].agreed
        /\ new.confirmed = calls[c].confirmed /\ new.surface = calls[c].surface
    BY <1>3 DEF Calls
  <1>5. Become(c, new)
    BY <1>2, <1>3
  <1>6. Placed(new)
    BY <1>1, <1>4 DEF Placed, Tools, Gated, OnEntry, Writing, Consented
  <1>7. Proper(c, new)
    BY <1>3, <1>4, <1>6 DEF Proper, Gated, Looping, AtOne
  <1>8. Wanted(new)' /\ OnCourse(new)'
    BY <1>4 DEF Wanted, OnCourse, Consented, Running, Looping, AtOne
  <1>9. Spends
    <2>1. CASE budget[Asks(c)] = 0
      BY <2>1, NothingSpent DEF Preview
    <2>2. CASE budget[Asks(c)] # 0
      BY <2>2, AsksOne, OneSpent DEF Preview
    <2> QED
      BY <2>1, <2>2
  <1>10. Store(c, new)
    <2>1. CASE UNCHANGED <<permits, shown>>
      BY <2>1, <1>1 DEF Store, StoreShape
    <2>2. CASE /\ permits' = [permits EXCEPT ![c] = Permit(c, print)]
               /\ shown' = [shown EXCEPT ![c] = Permit(c, print)]
      <3>1. Permit(c, print) \in Permits
        BY <1>1 DEF Permit, Permits
      <3> HIDE DEF Permit
      <3> QED
        BY <2>2, <3>1, <1>1, <1>4 DEF Store, StoreShape
    <2> QED
      BY <2>1, <2>2 DEF Preview
  <1>11. UNCHANGED <<grants, active, settings>> /\ Folder /\ Writes(c, new) /\ Sendings(c, new)
    BY <1>1 DEF worldVars, WorldShape, Folder, Writes, Sendings
  <1>12. Paid'
    BY <1>4, <1>5, <1>9, CallOwesNothing
  <1>13. calls[c].at # "done"
    BY DEF Gated
  <1> QED
    BY <1>4, <1>5, <1>7, <1>8, <1>9, <1>10, <1>11, <1>12, <1>13, CallKeeps DEF Spends

LEMMA SessionTargetKeeps ==
    ASSUME AgentToolsAssumption, IInv, NEW c \in Call, SessionTarget(c)
    PROVE  IInv'
  <1> DEFINE new == [calls[c] EXCEPT !.environment = active, !.at = "verify"]
  <1>1. /\ calls[c] \in Calls /\ Placed(calls[c]) /\ calls[c].at = "set_session_variable"
        /\ WorldShape
    BY OfAnyCall DEF SessionTarget, At
  <1>2. new \in Calls
    BY <1>1 DEF Calls, Places, Writing, WorldShape
  <1>3. /\ new.at = "verify" /\ new.tool = calls[c].tool /\ new.value = calls[c].value
        /\ new.intent = calls[c].intent /\ new.agreed = calls[c].agreed
        /\ new.confirmed = calls[c].confirmed /\ new.surface = calls[c].surface
        /\ new.decision = calls[c].decision
    BY <1>1 DEF Calls
  <1>4. /\ UNCHANGED <<worldVars, session, edits, wrote, sent>>
        /\ \/ calls[c].intent = None /\ Preview(c, new, calls[c].value)
           \/ calls[c].intent # None /\ Become(c, new) /\ UNCHANGED <<budget, permits, shown>>
    BY DEF SessionTarget
  <1> HIDE DEF new
  <1>5. calls[c].value \in Value /\ calls[c].tool = "set_session_variable"
    BY <1>1 DEF Placed, Tools, Gated
  <1>6. CASE calls[c].intent = None
    BY <1>1, <1>2, <1>3, <1>4, <1>5, <1>6, PreviewKeeps DEF Gated
  <1>7. CASE calls[c].intent # None
    <2>1. calls[c].intent \in PermitId
      BY <1>1, <1>7 DEF Calls
    <2>2. Proper(c, new)
      BY <1>1, <1>2, <1>3, <1>5, <2>1 DEF Proper, Placed, Looping, AtOne, Tools, Gated, OnEntry, Writing
    <2>3. Wanted(new) /\ OnCourse(new)
      BY <1>3 DEF Wanted, OnCourse, Consented, Running, Looping, AtOne
    <2>4. Still /\ Voids /\ Spends
      BY <1>4, <1>7, NothingVoided, NothingSpent DEF Still
    <2> QED
      BY <1>1, <1>3, <1>4, <1>7, <2>2, <2>3, <2>4, CallGoesOn
  <1> QED
    BY <1>6, <1>7

LEMMA VerifyIntentKeeps ==
    ASSUME AgentToolsAssumption, IInv, NEW c \in Call, VerifyIntent(c)
    PROVE  IInv'
  <1>1. calls[c].at = "verify"
    BY DEF VerifyIntent, At
  <1>2. Still /\ Spends
    BY NothingSpent DEF VerifyIntent, Still
  <1>3. CASE Matches(c, calls[c].value)
    <2>1. Goto(c, "judge") /\ Voids
      BY <1>3, NothingVoided DEF VerifyIntent
    <2> QED
      BY <2>1, <1>1, <1>2, CallMoves
      DEF Places, Tools, Gated, OnEntry, Writing, Consented, Running, Looping, AtOne
  <1>4. CASE ~Matches(c, calls[c].value)
    <2>1. Done(c, calls[c], "refused") /\ Voids
      BY <1>4, OneVoided DEF VerifyIntent, Refuse
    <2> QED
      BY <2>1, <1>1, <1>2, CallEnds DEF Decisions, Looping, AtOne
  <1> QED
    BY <1>3, <1>4

LEMMA JudgeSessionWriteKeeps ==
    ASSUME AgentToolsAssumption, IInv, NEW c \in Call, JudgeSessionWrite(c)
    PROVE  IInv'
  <1>1. /\ calls[c].at = "judge"
        /\ Done(c, calls[c], "denied-by-policy") \/ Goto(c, "asked")
    BY DEF JudgeSessionWrite, At
  <1>2. Still /\ Spends /\ Voids
    BY NothingSpent, NothingVoided DEF JudgeSessionWrite, Still
  <1>3. CASE Done(c, calls[c], "denied-by-policy")
    BY <1>3, <1>1, <1>2, CallEnds DEF Decisions, Looping, AtOne
  <1>4. CASE Goto(c, "asked")
    BY <1>4, <1>1, <1>2, CallMoves
    DEF Places, Tools, Gated, OnEntry, Writing, Consented, Running, Looping, AtOne
  <1> QED
    BY <1>1, <1>3, <1>4

LEMMA RedeemIntentKeeps ==
    ASSUME AgentToolsAssumption, IInv, NEW c \in Call, RedeemIntent(c)
    PROVE  IInv'
  <1>1. /\ calls[c].at = "redeem" /\ calls[c] \in Calls /\ Placed(calls[c])
        /\ calls[c].tool = "set_session_variable" /\ calls[c].intent \in PermitId
    BY OfAnyCall DEF RedeemIntent, At, Placed, Writing, Consented
  <1>2. Still /\ Spends /\ Voids
    BY NothingSpent, OneVoided DEF RedeemIntent, Still
  <1>3. CASE Matches(c, calls[c].value)
    <2>1. Goto(c, "pay")
      BY <1>3 DEF RedeemIntent
    <2>2. permits[calls[c].intent] = [tool |-> "set_session_variable", print |-> calls[c].value]
      BY <1>1, <1>3 DEF Matches, Permit
    <2>3. permits[calls[c].intent] \in Permits
      <3>1. calls[c].value \in Value
        BY <1>1 DEF Placed
      <3> QED
        BY <2>2, <3>1 DEF Permits, Gated
    <2>4. None \notin Permits
      BY DEF AgentToolsAssumption, Permits
    <2>5. shown[calls[c].intent] = [tool |-> "set_session_variable", print |-> calls[c].value]
      BY <1>1, <2>2, <2>3, <2>4 DEF IInv, StoreIsSound
    <2> QED
      BY <2>1, <2>5, <1>1, <1>2, CallMoves
      DEF Places, Tools, Gated, OnEntry, Writing, Consented, Running, Looping, AtOne
  <1>4. CASE ~Matches(c, calls[c].value)
    <2>1. Done(c, calls[c], "refused")
      BY <1>4 DEF RedeemIntent, Refuse
    <2> QED
      BY <2>1, <1>1, <1>2, CallEnds DEF Decisions, Looping, AtOne
  <1> QED
    BY <1>3, <1>4

LEMMA PayForWriteKeeps ==
    ASSUME AgentToolsAssumption, IInv, NEW c \in Call, PayForWrite(c)
    PROVE  IInv'
  <1>1. /\ calls[c].at = "pay" /\ calls[c] \in Calls
        /\ Placed(calls[c]) /\ Wanted(calls[c]) /\ OnCourse(calls[c])
    BY OfAnyCall DEF PayForWrite, At
  <1>2. Still /\ Voids
    BY NothingVoided DEF PayForWrite, Still
  <1>3. CASE budget["session"] = 0
    <2>1. Done(c, calls[c], "refused") /\ Spends
      BY <1>3, NothingSpent DEF PayForWrite, Refuse
    <2> QED
      BY <2>1, <1>1, <1>2, CallEnds DEF Decisions, Looping, AtOne
  <1>4. CASE budget["session"] # 0
    <2> DEFINE new == [calls[c] EXCEPT !.at = "recheck"]
    <2>1. Become(c, new) /\ Spent("session") /\ Spends
      BY <1>4, OneSpent DEF PayForWrite, Goto, Capabilities
    <2>2. /\ new \in Calls /\ new.at = "recheck" /\ new.decision = calls[c].decision
          /\ new.tool = calls[c].tool /\ new.value = calls[c].value /\ new.intent = calls[c].intent
          /\ new.agreed = calls[c].agreed /\ new.confirmed = calls[c].confirmed
          /\ new.surface = calls[c].surface /\ new.free = calls[c].free
      <3>1. "recheck" \in Places
        BY SomePlaces
      <3>2. new \in Calls
        BY <1>1, <3>1 DEF Calls
      <3> QED
        BY <1>1, <3>2 DEF Calls
    <2> HIDE DEF new
    <2>3. Proper(c, new)
      BY <1>1, <2>2 DEF Proper, Placed, Tools, Gated, OnEntry, Writing, Consented, Looping, AtOne
    <2>4. Wanted(new) /\ OnCourse(new)
      BY <1>1, <2>2 DEF Wanted, OnCourse, Consented, Running, Looping, AtOne
    <2>5. Paid'
      <3>1. /\ calls \in [Call -> Calls] /\ calls'[c] = new
            /\ \A d \in Call : d # c => calls'[d] = calls[d]
            /\ UNCHANGED <<sent, wrote>>
        BY <2>1, <1>2 DEF IInv, CallShape, Become, Still
      <3>2. Sending' \in SUBSET Sending /\ Setting' \in SUBSET (Setting \cup {c})
        BY <3>1, <2>2 DEF Sending, Setting
      <3>3. /\ budget["run"] \in Nat /\ budget["session"] \in Nat /\ budget["session"] - 1 \in Nat
            /\ budget'["run"] = budget["run"] /\ budget'["session"] = budget["session"] - 1
        BY <2>1, <1>4 DEF IInv, StoreShape, Capabilities, Spent
      <3>4. Within(sent, Sending', budget'["run"])
        BY <3>2, <3>3, NoMoreInHand DEF IInv, Paid
      <3>5. Within(wrote, Setting \cup {c}, budget["session"] - 1)
        BY <1>4, <3>3, OneMoreInHand DEF IInv, Paid
      <3>6. Within(wrote, Setting', budget["session"] - 1)
        BY <3>2, <3>3, <3>5, NoMoreInHand
      <3> QED
        BY <3>1, <3>3, <3>4, <3>6 DEF Paid
    <2> QED
      BY <1>1, <1>2, <2>1, <2>2, <2>3, <2>4, <2>5, CallPays
  <1> QED
    BY <1>3, <1>4

LEMMA CheckAgainKeeps ==
    ASSUME AgentToolsAssumption, IInv, NEW c \in Call, CheckAgain(c)
    PROVE  IInv'
  <1>1. /\ calls[c].at = "recheck" /\ calls[c] \in Calls /\ Wanted(calls[c])
    BY OfAnyCall DEF CheckAgain, At
  <1>2. Still /\ Voids /\ Spends
    BY NothingVoided, NothingSpent DEF CheckAgain, Still
  <1>3. CASE Free
    <2>1. Goto(c, "set") /\ calls[c].free
      BY <1>1, <1>3 DEF CheckAgain, Wanted, Consented
    <2> QED
      BY <2>1, <1>1, <1>2, CallMoves
      DEF Places, Tools, Gated, OnEntry, Writing, Consented, Running, Looping, AtOne
  <1>4. CASE ~Free
    <2>1. Done(c, calls[c], "refused")
      BY <1>4 DEF CheckAgain, Refuse
    <2> QED
      BY <2>1, <1>1, <1>2, CallEnds DEF Decisions, Looping, AtOne
  <1> QED
    BY <1>3, <1>4

LEMMA SetSessionVariableKeeps ==
    ASSUME AgentToolsAssumption, IInv, NEW c \in Call, SetSessionVariable(c)
    PROVE  IInv'
  <1>1. /\ calls[c].at = "set" /\ calls[c] \in Calls /\ Placed(calls[c]) /\ Wanted(calls[c])
        /\ WorldShape /\ StoreShape
    BY OfAnyCall DEF SetSessionVariable, At
  <1>2. PICK new \in Calls : new = [calls[c] EXCEPT !.at = "done", !.decision = "confirmed"]
    <2>1. "done" \in Places /\ "confirmed" \in Decisions
      BY SomePlaces
    <2>2. [calls[c] EXCEPT !.at = "done", !.decision = "confirmed"] \in Calls
      BY <1>1, <2>1 DEF Calls
    <2> QED
      BY <2>2
  <1>3. /\ new.at = "done" /\ new.decision = "confirmed"
        /\ new.tool = calls[c].tool /\ new.value = calls[c].value /\ new.intent = calls[c].intent
        /\ new.agreed = calls[c].agreed /\ new.confirmed = calls[c].confirmed
        /\ new.surface = calls[c].surface /\ new.free = calls[c].free
    BY <1>1, <1>2 DEF Calls
  <1>4. /\ Become(c, new) /\ wrote' = wrote \cup {c}
        /\ session' = new.value /\ edits' = edits + 1
        /\ UNCHANGED <<worldVars, budget, permits, shown, sent>>
    BY <1>2, <1>3 DEF SetSessionVariable, Done, Moved
  <1>5. /\ new.value \in new.agreed /\ new.free /\ new.intent \in PermitId
        /\ shown[new.intent] = [tool |-> "set_session_variable", print |-> new.value]
    BY <1>1, <1>3 DEF Placed, Wanted, Writing, Consented
  <1>6. Proper(c, new)
    BY <1>1, <1>3, <1>5 DEF Proper, Placed, Tools, Gated, OnEntry, Writing, Consented, Looping, AtOne
  <1>7. Wanted(new)' /\ OnCourse(new)'
    BY <1>3 DEF Wanted, OnCourse, Consented, Running, Looping, AtOne
  <1>8. Folder /\ Store(c, new) /\ Writes(c, new) /\ Sendings(c, new)
    <2>1. new.value \in Value
      BY <1>1, <1>3 DEF Placed
    <2> QED
      BY <2>1, <1>1, <1>3, <1>4, <1>5
    DEF WorldShape, StoreShape, worldVars, Folder, Store, Writes, Sendings
  <1>9. Paid'
    <2>1. /\ calls \in [Call -> Calls] /\ calls'[c] = new
          /\ \A d \in Call : d # c => calls'[d] = calls[d]
      BY <1>4 DEF IInv, CallShape, Become
    <2>2. Sending' = Sending /\ Setting' = Setting \ {c} /\ c \in Setting
      BY <2>1, <1>1, <1>3 DEF Sending, Setting
    <2>3. budget["session"] \in Nat
      BY <1>1 DEF StoreShape, Capabilities
    <2>4. Within(wrote \cup {c}, Setting \ {c}, budget["session"])
      BY <2>2, <2>3, OutOfHand DEF IInv, Paid
    <2> QED
      BY <1>4, <2>2, <2>4 DEF IInv, Paid
  <1>10. UNCHANGED <<grants, active, settings>> /\ budget' \in [Capabilities -> Nat]
    BY <1>1, <1>4 DEF worldVars, StoreShape
  <1> QED
    BY <1>1, <1>3, <1>4, <1>6, <1>7, <1>8, <1>9, <1>10, CallKeeps

-----------------------------------------------------------------------------
(* Folder runs.                                                            *)

LEMMA PlanIsAPlan ==
    ASSUME AgentToolsAssumption, WorldShape
    PROVE  Planned(listing) \in Plans
  <1>1. listing \in SUBSET Request
    BY DEF WorldShape
  <1>2. Around(active, settings) \in Surroundings
    BY DEF WorldShape, Around, Surroundings
  <1>3. ASSUME NEW r \in listing
        PROVE  AddressOf[r, version[r], Around(active, settings)] \in Address
    <2>1. r \in Request /\ version[r] \in Version
      BY <1>1 DEF WorldShape
    <2> QED
      BY <1>2, <2>1 DEF AgentToolsAssumption
  <1>4. Planned(listing) \in [listing -> Address]
    BY <1>3 DEF Planned
  <1> QED
    BY <1>1, <1>4 DEF Plans

\* What a run has left is some of the folder's requests.
LEMMA LeftIsOfRequests ==
    ASSUME NEW call \in Calls
    PROVE  /\ DOMAIN call.left \subseteq Request
           /\ \A r \in DOMAIN call.left : call.left[r] \in Version
           /\ \A R \in SUBSET DOMAIN call.left : [r \in R |-> call.left[r]] \in Lists
  <1>1. call.left \in Lists \cup {<<>>}
    BY DEF Calls
  <1>2. CASE call.left \in Lists
    <2>1. PICK S \in SUBSET Request : call.left \in [S -> Version]
      BY <1>2 DEF Lists
    <2>2. \A R \in SUBSET S : [r \in R |-> call.left[r]] \in [R -> Version]
      BY <2>1
    <2> QED
      BY <2>1, <2>2 DEF Lists
  <1>3. CASE call.left = <<>>
    <2>1. DOMAIN call.left = {}
      BY <1>3
    <2>2. \A R \in SUBSET {} : [r \in R |-> call.left[r]] \in [{} -> Version]
      OBVIOUS
    <2>3. [{} -> Version] \subseteq Lists
      BY DEF Lists
    <2> QED
      BY <2>1, <2>2, <2>3
  <1> QED
    BY <1>1, <1>2, <1>3

\* There is a first one of them.
LEMMA FirstIsLeft ==
    ASSUME AgentToolsAssumption, NEW call \in Calls, DOMAIN call.left # {}
    PROVE  First(call) \in DOMAIN call.left
  <1>1. DOMAIN call.left \subseteq Nat
    BY LeftIsOfRequests DEF AgentToolsAssumption
  <1>2. PICK r \in DOMAIN call.left : \A q \in DOMAIN call.left : <<q, r>> \notin OpToRel(<, Nat)
    BY <1>1, NatLessThanWellFounded, WFMin
  <1>3. \A q \in DOMAIN call.left : ~(q < r)
    BY <1>1, <1>2 DEF OpToRel
  <1>4. \A q \in DOMAIN call.left : r <= q
    BY <1>1, <1>3
  <1> QED
    BY <1>2, <1>4 DEF First

LEMMA PlanFolderKeeps ==
    ASSUME AgentToolsAssumption, IInv, NEW c \in Call, PlanFolder(c)
    PROVE  IInv'
  <1> DEFINE plan == Planned(listing)
             seen == [calls[c] EXCEPT !.plan = plan, !.environment = active, !.began = edits]
             new  == [seen EXCEPT !.at = "redeem run"]
  <1>1. /\ calls[c] \in Calls /\ Placed(calls[c]) /\ calls[c].at = "run_folder"
        /\ WorldShape /\ plan \in Plans
    BY OfAnyCall, PlanIsAPlan DEF PlanFolder, At
  <1>2. /\ UNCHANGED <<worldVars, session, edits, wrote, sent>>
        /\ \/ calls[c].intent = None /\ Preview(c, seen, plan)
           \/ calls[c].intent # None /\ Become(c, new) /\ UNCHANGED <<budget, permits, shown>>
    BY DEF PlanFolder
  <1> HIDE DEF plan
  <1>3. /\ seen \in Calls /\ seen.tool = calls[c].tool /\ seen.value = calls[c].value
        /\ seen.intent = calls[c].intent /\ seen.agreed = calls[c].agreed
        /\ seen.confirmed = calls[c].confirmed /\ seen.surface = calls[c].surface
        /\ seen.decision = calls[c].decision /\ seen.plan = plan /\ seen.began = edits
    BY <1>1 DEF Calls, WorldShape
  <1> HIDE DEF seen
  <1>4. /\ new \in Calls /\ new.at = "redeem run"
        /\ new.tool = calls[c].tool /\ new.value = calls[c].value
        /\ new.intent = calls[c].intent /\ new.agreed = calls[c].agreed
        /\ new.confirmed = calls[c].confirmed /\ new.surface = calls[c].surface
        /\ new.decision = calls[c].decision /\ new.plan = plan /\ new.began = edits
    BY <1>3 DEF Calls, Places, Running
  <1> HIDE DEF new
  <1>5. CASE calls[c].intent = None
    BY <1>1, <1>2, <1>3, <1>5, PreviewKeeps DEF Gated
  <1>6. CASE calls[c].intent # None
    <2>1. calls[c].intent \in PermitId
      BY <1>1, <1>6 DEF Calls
    <2>2. Proper(c, new)
      BY <1>1, <1>4, <2>1
      DEF Proper, Placed, Looping, AtOne, Tools, Gated, OnEntry, Writing, Consented
    <2>5. Wanted(new)
      BY <1>4 DEF Wanted, Consented
    <2>3. OnCourse(new)
      <3>1. new.at = "redeem run" /\ new.plan = Planned(listing)
        BY <1>4 DEF plan
      <3>2. edits <= edits
        BY <1>1 DEF WorldShape
      <3>3. new.began <= edits
        BY <1>4, <3>2
      <3>4. Planned(listing) \in Plans
        BY <1>1, PlanIsAPlan
      <3>5. new.plan \in Plans /\ new.intent \in PermitId
        BY <3>1, <3>4, <1>4, <2>1
      <3> QED
        BY <3>1, <3>3, <3>5 DEF OnCourse, Looping, AtOne
    <2>4. Still /\ Voids /\ Spends
      BY <1>2, <1>6, NothingVoided, NothingSpent DEF Still
    <2> QED
      BY <1>1, <1>2, <1>4, <1>6, <2>2, <2>3, <2>4, <2>5, CallGoesOn
  <1> QED
    BY <1>5, <1>6

LEMMA RedeemRunKeeps ==
    ASSUME AgentToolsAssumption, IInv, NEW c \in Call, RedeemRun(c)
    PROVE  IInv'
  <1>1. /\ calls[c].at = "redeem run" /\ calls[c] \in Calls /\ calls[c].tool \in Tools
        /\ calls[c].intent \in PermitId /\ StoreShape
    BY OfAnyCall DEF RedeemRun, At, Placed, Running, Calls
  <1>2. Still /\ Spends /\ Voids
    BY NothingSpent, OneVoided DEF RedeemRun, Still
  <1>3. CASE ~Matches(c, calls[c].plan)
    <2>1. Done(c, calls[c], "refused")
      BY <1>3 DEF RedeemRun, Refuse
    <2> QED
      BY <2>1, <1>1, <1>2, CallEnds DEF Decisions, Looping, AtOne
  <1>4. CASE Matches(c, calls[c].plan)
    <2>1. Goto(c, "run")
      BY <1>4 DEF RedeemRun
    <2>2. permits[calls[c].intent] = Permit(c, calls[c].plan)
      BY <1>4 DEF Matches
    <2>3. calls[c].tool = "run_folder" /\ calls[c].plan \in Plans
      <3>1. calls[c].tool = "run_folder"
        BY <1>1, OfAnyCall DEF Placed
      <3>2. calls[c].plan \in Plans
        BY <1>1, OfAnyCall DEF OnCourse, Running
      <3> QED
        BY <3>1, <3>2
    <2>4. Permit(c, calls[c].plan) = PlanShown(calls[c]) /\ PlanShown(calls[c]) \in Permits
      BY <2>3 DEF Permit, PlanShown, Permits, Gated
    <2>5. None \notin Permits
      BY DEF AgentToolsAssumption, Permits
    <2>6. shown[calls[c].intent] = PlanShown(calls[c])
      BY <1>1, <2>2, <2>4, <2>5 DEF IInv, StoreIsSound
    <2> QED
      BY <2>1, <2>6, <1>1, <1>2, CallMoves
      DEF Places, Tools, Gated, OnEntry, Writing, Consented, Running, Looping, AtOne
  <1> QED
    BY <1>3, <1>4

LEMMA BeginRunKeeps ==
    ASSUME AgentToolsAssumption, IInv, NEW c \in Call, BeginRun(c)
    PROVE  IInv'
  <1> DEFINE list == [r \in listing |-> version[r]]
             new  == [calls[c] EXCEPT !.at = "head", !.environment = active,
                                      !.defined = settings, !.left = list]
  <1>1. /\ calls[c] \in Calls /\ Placed(calls[c]) /\ OnCourse(calls[c]) /\ calls[c].at = "run"
        /\ WorldShape
    BY OfAnyCall DEF BeginRun, At
  <1>1a. list \in Lists
    <2>1. listing \in SUBSET Request /\ list \in [listing -> Version]
      BY <1>1 DEF WorldShape
    <2> QED
      BY <2>1 DEF Lists
  <1>2. Become(c, new) /\ Still /\ Voids /\ Spends
    BY NothingVoided, NothingSpent DEF BeginRun, Still
  <1>2a. \A r \in DOMAIN list : r \in listing /\ list[r] = version[r]
    OBVIOUS
  <1> HIDE DEF list
  <1>3. /\ new \in Calls /\ new.at = "head"
        /\ new.tool = calls[c].tool /\ new.value = calls[c].value
        /\ new.intent = calls[c].intent /\ new.agreed = calls[c].agreed
        /\ new.confirmed = calls[c].confirmed /\ new.surface = calls[c].surface
        /\ new.decision = calls[c].decision /\ new.plan = calls[c].plan
        /\ new.began = calls[c].began /\ new.left = list
        /\ new.environment = active /\ new.defined = settings
    <2>1. "head" \in Places
      BY SomePlaces
    <2>2. active \in Environment /\ settings \in BOOLEAN
      BY <1>1 DEF WorldShape
    <2>3. new \in Calls
      BY <1>1, <1>1a, <2>1, <2>2 DEF Calls
    <2> QED
      BY <1>1, <2>3 DEF Calls
  <1> HIDE DEF new
  <1>4. Proper(c, new)
    BY <1>1, <1>3 DEF Proper, Placed, Running, Looping, AtOne, Tools, Gated, OnEntry, Writing, Consented
  <1>5. Wanted(new) /\ OnCourse(new)
    BY <1>1, <1>2a, <1>3 DEF Wanted, OnCourse, PlanShown, Consented, Running, Looping, AtOne
  <1> QED
    BY <1>1, <1>2, <1>3, <1>4, <1>5, CallGoesOn

\* A run is done with its first request: it sent it, or it did not.
LEMMA RunGoesOn ==
    ASSUME AgentToolsAssumption, IInv, NEW c \in Call, calls[c].at \in Looping,
           DOMAIN calls[c].left # {}, NEW wrong \in BOOLEAN, GoOn(c, wrong)
    PROVE  \E new \in Calls :
              /\ Become(c, new) /\ Proper(c, new)
              /\ new.at = "head" /\ new.intent = calls[c].intent /\ new.confirmed = calls[c].confirmed
              /\ Wanted(new) /\ OnCourse(new)
  <1> DEFINE rest == DOMAIN calls[c].left \ {Current(c)}
             left == IF wrong /\ calls[c].stop THEN <<>> ELSE [r \in rest |-> calls[c].left[r]]
             new  == [calls[c] EXCEPT !.at = "head", !.agreed = @ \ {Current(c)}, !.left = left]
  <1>1. /\ calls[c] \in Calls /\ Placed(calls[c]) /\ OnCourse(calls[c])
    BY OfAnyCall
  <1>2. Become(c, new)
    BY <1>1 DEF GoOn, Calls
  <1>3. left \in Lists \cup {<<>>}
    BY <1>1, LeftIsOfRequests
  <1>4. \A r \in DOMAIN left : r \in DOMAIN calls[c].left /\ left[r] = calls[c].left[r]
    <2>1. CASE wrong /\ calls[c].stop
      <3>1. DOMAIN left = {}
        BY <2>1
      <3> QED
        BY <3>1
    <2>2. CASE ~(wrong /\ calls[c].stop)
      BY <2>2
    <2> QED
      BY <2>1, <2>2
  <1> HIDE DEF left
  <1>5. /\ new \in Calls /\ new.at = "head"
        /\ new.tool = calls[c].tool /\ new.value = calls[c].value
        /\ new.intent = calls[c].intent /\ new.agreed \subseteq calls[c].agreed
        /\ new.confirmed = calls[c].confirmed /\ new.surface = calls[c].surface
        /\ new.decision = calls[c].decision /\ new.plan = calls[c].plan
        /\ new.began = calls[c].began /\ new.left = left
        /\ new.environment = calls[c].environment /\ new.defined = calls[c].defined
    <2>1. "head" \in Places
      BY SomePlaces
    <2>2. calls[c].agreed \ {Current(c)} \in SUBSET (Value \cup {None} \cup Request)
      BY <1>1 DEF Calls
    <2>3. new \in Calls
      BY <1>1, <1>3, <2>1, <2>2 DEF Calls
    <2> QED
      BY <1>1, <2>3 DEF Calls
  <1> HIDE DEF new
  <1>6. Proper(c, new)
    BY <1>1, <1>5 DEF Proper, Placed, Looping, AtOne, Tools, Gated, OnEntry, Writing, Consented
  <1>7. Wanted(new)
    BY <1>5 DEF Wanted, Consented
  <1>8. OnCourse(new)
    BY <1>1, <1>4, <1>5 DEF OnCourse, PlanShown, Running, Looping, AtOne
  <1> QED
    BY <1>2, <1>5, <1>6, <1>7, <1>8

LEMMA GoOnKeeps ==
    ASSUME AgentToolsAssumption, IInv, NEW c \in Call, calls[c].at \in Looping,
           DOMAIN calls[c].left # {}, NEW wrong \in BOOLEAN, GoOn(c, wrong),
           Still, Voids, Spends
    PROVE  IInv'
  <1>1. PICK new \in Calls :
              /\ Become(c, new) /\ Proper(c, new)
              /\ new.at = "head" /\ new.intent = calls[c].intent
              /\ Wanted(new) /\ OnCourse(new)
    BY RunGoesOn
  <1> QED
    BY <1>1, CallGoesOn DEF Looping, AtOne

LEMMA JudgeRequestKeeps ==
    ASSUME AgentToolsAssumption, IInv, NEW c \in Call, JudgeRequest(c)
    PROVE  IInv'
  <1>1. /\ calls[c] \in Calls /\ Placed(calls[c]) /\ OnCourse(calls[c])
        /\ calls[c].at = "head" /\ DOMAIN calls[c].left # {}
    BY OfAnyCall DEF JudgeRequest, At
  <1>2. Still /\ Voids /\ Spends
    BY NothingVoided, NothingSpent DEF JudgeRequest, Still
  <1>3. CASE VerdictOn(c) = Deny
    <2>1. GoOn(c, TRUE)
      BY <1>3 DEF JudgeRequest
    <2> QED
      BY <2>1, <1>1, <1>2, GoOnKeeps DEF Looping
  <1>4. CASE VerdictOn(c) # Deny
    <2> DEFINE clean == ReviewNow(Current(c)) = "reviewed"
               step  == IF VerdictOn(c).outcome = "confirm" THEN "asked of one" ELSE "pay for one"
               new   == [calls[c] EXCEPT !.clean = clean, !.at = step]
    <2>1. Become(c, new)
      <3>1. Become(c, [[calls[c] EXCEPT !.clean = clean] EXCEPT !.at = step])
        BY <1>4 DEF JudgeRequest
      <3>2. [[calls[c] EXCEPT !.clean = clean] EXCEPT !.at = step] = new
        BY <1>1 DEF Calls
      <3> QED
        BY <3>1, <3>2
    <2>2. Current(c) = First(calls[c])
      BY DEF Current, First
    <2>3. clean => version[First(calls[c])] = 0
      BY <2>2 DEF ReviewNow
    <2>4. step = "pay for one" => clean
      <3>1. ReviewNow(Current(c)) \in {"reviewed", "unreviewed"}
        BY DEF ReviewNow
      <3>2. ASSUME ReviewNow(Current(c)) = "unreviewed"
            PROVE  VerdictOn(c) \in {Deny, AskInWindow}
        BY <3>2 DEF VerdictOn, Decide
      <3> QED
        BY <1>4, <3>1, <3>2 DEF AskInWindow
    <2>5. step \in {"asked of one", "pay for one"} /\ clean \in BOOLEAN
      OBVIOUS
    <2> HIDE DEF clean, step
    <2>5a. new \in Calls
      <3>1. step \in Places
        BY <2>5, SomePlaces
      <3> QED
        BY <1>1, <2>5, <3>1 DEF Calls
    <2>6. /\ new.at = step /\ new.tool = calls[c].tool /\ new.value = calls[c].value
          /\ new.intent = calls[c].intent /\ new.agreed = calls[c].agreed
          /\ new.confirmed = calls[c].confirmed /\ new.surface = calls[c].surface
          /\ new.decision = calls[c].decision /\ new.plan = calls[c].plan
          /\ new.began = calls[c].began /\ new.left = calls[c].left /\ new.clean = clean
          /\ new.environment = calls[c].environment /\ new.defined = calls[c].defined
      BY <1>1, <2>5 DEF Calls
    <2> HIDE DEF new
    <2>7. Proper(c, new)
      BY <1>1, <2>5, <2>5a, <2>6
      DEF Proper, Placed, Looping, AtOne, Tools, Gated, OnEntry, Writing, Consented
    <2>8. Wanted(new)
      BY <2>5, <2>6 DEF Wanted, Consented
    <2>9. OnCourse(new)
      <3>1. First(new) = First(calls[c])
        BY <2>6 DEF First
      <3>2. /\ calls[c].at \in Running /\ calls[c].at \in Looping
            /\ new.at \in {"asked of one", "pay for one"}
        BY <1>1, <2>5, <2>6 DEF Running, Looping
      <3>3. DOMAIN new.left # {}
        BY <1>1, <2>6
      <3>4. /\ new.began <= edits /\ new.plan \in Plans /\ new.intent \in PermitId
            /\ new.began = edits => new.plan = Planned(listing)
            /\ shown[new.intent] = PlanShown(new)
            /\ new.began = edits =>
                  /\ new.environment = active /\ new.defined = settings
                  /\ \A r \in DOMAIN new.left : r \in listing /\ new.left[r] = version[r]
        BY <1>1, <2>6, <3>2 DEF OnCourse, PlanShown
      <3>5. /\ new.clean => version[First(new)] = 0
            /\ new.at = "pay for one" => new.clean
            /\ new.at # "send one"
        BY <2>3, <2>4, <2>6, <3>1, <3>2
      <3> QED
        BY <3>3, <3>4, <3>5 DEF OnCourse
    <2> QED
      BY <1>1, <1>2, <2>1, <2>5, <2>6, <2>7, <2>8, <2>9, CallGoesOn
  <1> QED
    BY <1>3, <1>4

LEMMA RefuseRequestKeeps ==
    ASSUME AgentToolsAssumption, IInv, NEW c \in Call, RefuseRequest(c)
    PROVE  IInv'
  <1>1. calls[c].at \in Looping /\ DOMAIN calls[c].left # {} /\ GoOn(c, TRUE)
    BY OfAnyCall DEF RefuseRequest, At, Looping, AtOne, OnCourse
  <1>2. Still /\ Voids /\ Spends
    BY NothingVoided, NothingSpent DEF RefuseRequest, Still
  <1> QED
    BY <1>1, <1>2, GoOnKeeps

LEMMA AnswerKeeps ==
    ASSUME AgentToolsAssumption, IInv, NEW c \in Call, NEW yes \in BOOLEAN, Answer(c, yes)
    PROVE  IInv'
  <1>1. /\ calls[c] \in Calls /\ Placed(calls[c]) /\ Wanted(calls[c]) /\ OnCourse(calls[c])
        /\ calls[c].at \in {"asked", "asked of one"}
    BY OfAnyCall DEF Answer
  <1>2. Still /\ Voids /\ Spends
    BY NothingVoided, NothingSpent DEF Answer, Still
  <1>3. CASE calls[c].at = "asked" /\ yes
    <2> DEFINE new == [calls[c] EXCEPT !.surface = "window", !.free = Free, !.at = "redeem",
                                       !.confirmed = TRUE, !.agreed = @ \cup {calls[c].value}]
    <2>1. Become(c, new)
      BY <1>1, <1>3 DEF Answer, Calls
    <2>2. Free \in BOOLEAN
      BY DEF Free
    <2>3a. new \in Calls
      <3>1. "redeem" \in Places /\ "window" \in {"not-asked", "window"} /\ TRUE \in BOOLEAN
        BY SomePlaces
      <3>2. calls[c].agreed \cup {calls[c].value} \in SUBSET (Value \cup {None} \cup Request)
        BY <1>1 DEF Calls
      <3> QED
        BY <1>1, <2>2, <3>1, <3>2 DEF Calls
    <2>3. /\ new \in Calls /\ new.at = "redeem" /\ new.surface = "window" /\ new.confirmed
          /\ new.tool = calls[c].tool /\ new.value = calls[c].value
          /\ new.intent = calls[c].intent /\ new.agreed = calls[c].agreed \cup {calls[c].value}
          /\ new.decision = calls[c].decision /\ new.free = Free
      BY <1>1, <2>3a DEF Calls
    <2> HIDE DEF new
    <2>4. Proper(c, new)
      BY <1>1, <1>3, <2>3
      DEF Proper, Placed, Looping, AtOne, Tools, Gated, OnEntry, Writing, Consented
    <2>5. Wanted(new) /\ OnCourse(new)
      BY <2>3 DEF Wanted, OnCourse, Consented, Running, Looping, AtOne
    <2> QED
      BY <1>1, <1>2, <2>1, <2>3, <2>4, <2>5, CallGoesOn
  <1>4. CASE calls[c].at = "asked" /\ ~yes
    <2> DEFINE new == [calls[c] EXCEPT !.surface = "window", !.free = Free, !.at = "done",
                                       !.decision = "refused"]
    <2>1. Become(c, new)
      BY <1>1, <1>4 DEF Answer, Done, Calls
    <2>2. Free \in BOOLEAN
      BY DEF Free
    <2>3a. new \in Calls
      <3>1. "done" \in Places /\ "refused" \in Decisions
        BY SomePlaces
      <3> QED
        BY <1>1, <2>2, <3>1 DEF Calls
    <2>3. /\ new.at = "done" /\ new.surface = "window"
          /\ new.confirmed = calls[c].confirmed
          /\ new.tool = calls[c].tool /\ new.value = calls[c].value
          /\ new.intent = calls[c].intent /\ new.agreed = calls[c].agreed
          /\ new.decision = "refused"
      BY <1>1, <2>2 DEF Calls
    <2> HIDE DEF new
    <2>4. Proper(c, new)
      BY <1>1, <1>4, <2>3, <2>3a
      DEF Proper, Placed, Looping, AtOne, Tools, Gated, OnEntry, Writing, Consented
    <2>5. Wanted(new) /\ OnCourse(new)
      BY <2>3 DEF Wanted, OnCourse, Consented, Running, Looping, AtOne
    <2> QED
      BY <1>1, <1>2, <2>1, <2>3, <2>4, <2>5, CallGoesOn
  <1>5. CASE calls[c].at = "asked of one" /\ yes
    <2> DEFINE first == First(calls[c])
               new   == [calls[c] EXCEPT !.surface = "window", !.free = Free, !.at = "pay for one",
                                         !.confirmed = TRUE, !.agreed = @ \cup {first}]
    <2>1. Become(c, new)
      <3>1. Current(c) = first
        BY DEF Current, First
      <3> QED
        BY <1>1, <1>5, <3>1 DEF Answer, Calls
    <2>2. Free \in BOOLEAN /\ first \in Request
      <3>1. DOMAIN calls[c].left # {}
        BY <1>1, <1>5 DEF OnCourse, AtOne
      <3> QED
        BY <1>1, <3>1, FirstIsLeft, LeftIsOfRequests DEF Free
    <2> HIDE DEF first
    <2>3a. new \in Calls
      <3>1. "pay for one" \in Places /\ "window" \in {"not-asked", "window"} /\ TRUE \in BOOLEAN
        BY SomePlaces
      <3>2. calls[c].agreed \cup {first} \in SUBSET (Value \cup {None} \cup Request)
        BY <1>1, <2>2 DEF Calls
      <3> QED
        BY <1>1, <2>2, <3>1, <3>2 DEF Calls
    <2>3. /\ new \in Calls /\ new.at = "pay for one" /\ new.surface = "window" /\ new.confirmed
          /\ new.tool = calls[c].tool /\ new.value = calls[c].value
          /\ new.intent = calls[c].intent /\ new.agreed = calls[c].agreed \cup {first}
          /\ new.decision = calls[c].decision /\ new.plan = calls[c].plan
          /\ new.began = calls[c].began /\ new.left = calls[c].left /\ new.clean = calls[c].clean
          /\ new.environment = calls[c].environment /\ new.defined = calls[c].defined
      BY <1>1, <2>3a DEF Calls
    <2> HIDE DEF new
    <2>4. Proper(c, new)
      BY <1>1, <1>5, <2>3
      DEF Proper, Placed, Looping, AtOne, Tools, Gated, OnEntry, Writing, Consented
    <2>5. Wanted(new)
      BY <2>3 DEF Wanted, Consented
    <2>6. OnCourse(new)
      <3>1. First(new) = First(calls[c])
        BY <2>3 DEF First
      <3>2. calls[c].at \in Running /\ calls[c].at \in Looping /\ calls[c].at \in AtOne
        BY <1>5 DEF Running, Looping, AtOne
      <3>3. /\ new.began <= edits /\ new.plan \in Plans /\ new.intent \in PermitId
            /\ new.began = edits => new.plan = Planned(listing)
            /\ shown[new.intent] = PlanShown(new)
            /\ new.began = edits =>
                  /\ new.environment = active /\ new.defined = settings
                  /\ \A r \in DOMAIN new.left : r \in listing /\ new.left[r] = version[r]
        <4>1. OnCourse(calls[c])
          BY <1>1
        <4>2. PlanShown(new) = PlanShown(calls[c])
          BY <2>3 DEF PlanShown
        <4>3. /\ calls[c].began <= edits /\ calls[c].plan \in Plans /\ calls[c].intent \in PermitId
              /\ calls[c].began = edits => calls[c].plan = Planned(listing)
              /\ shown[calls[c].intent] = PlanShown(calls[c])
          BY <3>2, <4>1 DEF OnCourse
        <4>4. calls[c].began = edits =>
                /\ calls[c].environment = active /\ calls[c].defined = settings
                /\ \A r \in DOMAIN calls[c].left : r \in listing /\ calls[c].left[r] = version[r]
          BY <3>2, <4>1 DEF OnCourse
        <4> QED
          BY <2>3, <4>2, <4>3, <4>4
      <3>4. /\ DOMAIN new.left # {}
            /\ new.clean /\ new.began = edits => version[First(new)] = 0
        BY <1>1, <2>3, <3>1, <3>2 DEF OnCourse
      <3>5. First(new) \in new.agreed
        BY <2>3, <3>1 DEF first
      <3> QED
        BY <3>3, <3>4, <3>5 DEF OnCourse
    <2> QED
      BY <1>1, <1>2, <2>1, <2>3, <2>4, <2>5, <2>6, CallGoesOn
  <1>6. CASE calls[c].at = "asked of one" /\ ~yes
    <2>1. Goto(c, "refused one")
      BY <1>1, <1>6 DEF Answer
    <2> QED
      BY <2>1, <1>1, <1>2, <1>6, CallMoves
      DEF Places, Tools, Gated, OnEntry, Writing, Consented, Running, Looping, AtOne
  <1> QED
    BY <1>1, <1>3, <1>4, <1>5, <1>6

LEMMA PayForRequestKeeps ==
    ASSUME AgentToolsAssumption, IInv, NEW c \in Call, PayForRequest(c)
    PROVE  IInv'
  <1>1. /\ calls[c] \in Calls /\ Placed(calls[c]) /\ OnCourse(calls[c])
        /\ calls[c].at = "pay for one" /\ DOMAIN calls[c].left # {}
    BY OfAnyCall DEF PayForRequest, At, OnCourse, AtOne
  <1>2. Still /\ Voids
    BY NothingVoided DEF PayForRequest, Still
  <1>3. CASE budget["run"] = 0
    <2>1. GoOn(c, TRUE) /\ Spends
      BY <1>3, NothingSpent DEF PayForRequest
    <2> QED
      BY <2>1, <1>1, <1>2, GoOnKeeps DEF Looping, AtOne
  <1>4. CASE budget["run"] # 0
    <2> DEFINE new == [calls[c] EXCEPT !.at = "send one"]
    <2>1. Become(c, new) /\ Spent("run") /\ Spends
      BY <1>4, OneSpent DEF PayForRequest, Goto, Capabilities
    <2>2. new \in Calls
      BY <1>1 DEF Calls, Places, Running, Looping, AtOne
    <2>3. /\ new.at = "send one" /\ new.decision = calls[c].decision
          /\ new.tool = calls[c].tool /\ new.value = calls[c].value /\ new.intent = calls[c].intent
          /\ new.agreed = calls[c].agreed /\ new.confirmed = calls[c].confirmed
          /\ new.surface = calls[c].surface /\ new.plan = calls[c].plan
          /\ new.began = calls[c].began /\ new.left = calls[c].left /\ new.clean = calls[c].clean
          /\ new.environment = calls[c].environment /\ new.defined = calls[c].defined
      BY <1>1 DEF Calls
    <2> HIDE DEF new
    <2>4. Proper(c, new)
      BY <1>1, <2>2, <2>3
      DEF Proper, Placed, Tools, Gated, OnEntry, Writing, Consented, Looping, AtOne
    <2>5. Wanted(new)
      BY <2>3 DEF Wanted, Consented
    <2>6. OnCourse(new)
      <3>1. First(new) = First(calls[c])
        BY <2>3 DEF First
      <3> QED
        BY <1>1, <2>3, <3>1 DEF OnCourse, PlanShown, Running, Looping, AtOne
    <2>7. Paid'
      <3>1. /\ calls \in [Call -> Calls] /\ calls'[c] = new
            /\ \A d \in Call : d # c => calls'[d] = calls[d]
            /\ UNCHANGED <<sent, wrote>>
        BY <2>1, <1>2 DEF IInv, CallShape, Become, Still
      <3>2. Setting' \in SUBSET Setting /\ Sending' \in SUBSET (Sending \cup {c})
        BY <3>1, <2>3 DEF Sending, Setting
      <3>3. /\ budget["session"] \in Nat /\ budget["run"] \in Nat /\ budget["run"] - 1 \in Nat
            /\ budget'["session"] = budget["session"] /\ budget'["run"] = budget["run"] - 1
        BY <2>1, <1>4 DEF IInv, StoreShape, Capabilities, Spent
      <3>4. Within(wrote, Setting', budget'["session"])
        BY <3>2, <3>3, NoMoreInHand DEF IInv, Paid
      <3>5. Within(sent, Sending \cup {c}, budget["run"] - 1)
        BY <1>4, <3>3, OneMoreInHand DEF IInv, Paid
      <3>6. Within(sent, Sending', budget["run"] - 1)
        BY <3>2, <3>3, <3>5, NoMoreInHand
      <3> QED
        BY <3>1, <3>3, <3>4, <3>6 DEF Paid
    <2> QED
      BY <1>1, <1>2, <2>1, <2>3, <2>4, <2>5, <2>6, <2>7, CallPays
  <1> QED
    BY <1>3, <1>4

LEMMA SendRequestKeeps ==
    ASSUME AgentToolsAssumption, IInv, NEW c \in Call, NEW wrong \in BOOLEAN,
           NEW scripted \in {session} \cup Value, SendRequest(c, wrong, scripted)
    PROVE  IInv'
  <1> DEFINE call  == calls[c]
             first == First(call)
             place == Around(call.environment, call.defined)
             s     == [call |-> c, request |-> first, version |-> call.left[first],
                       address |-> AddressOf[first, call.left[first], place],
                       agreed |-> first \in call.agreed, clean |-> call.clean,
                       moved |-> edits > call.began]
  <1>1. /\ call \in Calls /\ Placed(call) /\ OnCourse(call)
        /\ call.at = "send one" /\ DOMAIN call.left # {}
        /\ WorldShape /\ StoreShape
    BY OfAnyCall DEF SendRequest, At, OnCourse, AtOne
  <1>2. first \in DOMAIN call.left /\ first \in Request /\ call.left[first] \in Version
    BY <1>1, FirstIsLeft, LeftIsOfRequests
  <1>3. /\ sent' = sent \cup {s} /\ GoOn(c, wrong)
        /\ UNCHANGED <<worldVars, budget, permits, shown, wrote>>
        /\ UNCHANGED <<session, edits>> \/ edits' = edits + 1
        /\ session' \in Value \cup {None}
    <2>1. Current(c) = first
      BY DEF Current, First
    <2>2. scripted \in Value \cup {None}
      BY <1>1 DEF WorldShape
    <2> QED
      BY <2>1, <2>2 DEF SendRequest, Moved
  <1>4. PICK new \in Calls :
              /\ Become(c, new) /\ Proper(c, new)
              /\ new.at = "head" /\ new.intent = call.intent /\ new.confirmed = call.confirmed
              /\ Wanted(new) /\ OnCourse(new)
    BY <1>1, <1>3, RunGoesOn DEF Looping, AtOne
  <1>5. s \in Requests
    <2>1. call.clean \in BOOLEAN /\ place \in Surroundings
      <3>1. call.clean \in BOOLEAN /\ call.environment \in Environment /\ call.defined \in BOOLEAN
        BY <1>1 DEF Calls
      <3> QED
        BY <1>1, <3>1 DEF WorldShape, Around, Surroundings
    <2> HIDE DEF first, place
    <2>2. AddressOf[first, call.left[first], place] \in Address
      <3>1. AddressOf \in [Request \X Version \X Surroundings -> Address]
        BY DEF AgentToolsAssumption
      <3> QED
        BY <1>2, <2>1, <3>1
    <2>3. (first \in call.agreed) \in BOOLEAN /\ (edits > call.began) \in BOOLEAN
      OBVIOUS
    <2> QED
      BY <1>2, <2>1, <2>2, <2>3 DEF Requests
  <1>6. s.agreed => new.confirmed
    BY <1>1, <1>4 DEF Placed
  <1>7. call.began <= edits /\ call.began \in Nat /\ edits \in Nat
    BY <1>1 DEF OnCourse, Running, Looping, AtOne, Calls, WorldShape
  <1>8. ASSUME call.began = edits
        PROVE  /\ call.plan = Planned(listing)
               /\ call.environment = active /\ call.defined = settings
               /\ first \in listing /\ call.left[first] = version[first]
               /\ call.clean => version[first] = 0
    BY <1>1, <1>2, <1>8 DEF OnCourse, Running, Looping, AtOne
  <1>9. s.moved \/ call.began = edits
    <2>1. edits > call.began \/ call.began = edits
      BY <1>7
    <2> QED
      BY <2>1
  <1>10. s.agreed \/ (s.clean /\ (s.version = 0 \/ s.moved))
    <2>1. call.clean \/ first \in call.agreed
      BY <1>1 DEF OnCourse
    <2>2. ASSUME call.began = edits, call.clean
          PROVE  s.version = 0
      BY <1>8, <2>2
    <2> QED
      BY <1>9, <2>1, <2>2
  <1>11. s.moved \/ Covers(shown[call.intent], s)
    <2>1. shown[call.intent] = PlanShown(call)
      BY <1>1 DEF OnCourse, Looping, AtOne
    <2>2. ASSUME call.began = edits
          PROVE  Covers(PlanShown(call), s)
      <3>1. first \in DOMAIN Planned(listing) /\ Planned(listing)[first] = s.address
        BY <1>8, <2>2 DEF Planned
      <3>2. PlanShown(call).tool = "run_folder" /\ PlanShown(call).print = Planned(listing)
        BY <1>8, <2>2 DEF PlanShown
      <3>3. s.request = first
        OBVIOUS
      <3> HIDE DEF s, first
      <3> QED
        BY <3>1, <3>2, <3>3 DEF Covers
    <2> QED
      BY <1>9, <2>1, <2>2
  <1> HIDE DEF first
  <1>12. Sendings(c, new)
    <2>1. s.call = c /\ new.at \in Looping
      BY <1>4 DEF Looping
    <2> HIDE DEF s
    <2> QED
      BY <1>3, <1>4, <1>5, <1>6, <1>10, <1>11, <2>1 DEF Sendings
  <1> HIDE DEF s
  <1>13. Wanted(new)' /\ OnCourse(new)'
    <2>1. Wanted(new)'
      BY <1>4 DEF Wanted, Consented
    <2>2. new.began <= edits /\ new.began \in Nat /\ edits \in Nat
      BY <1>1, <1>4 DEF OnCourse, Running, Looping, Calls, WorldShape
    <2>3. CASE UNCHANGED <<session, edits>>
      <3>1. UNCHANGED <<listing, version, active, settings, session, edits, shown>>
        BY <2>3, <1>3 DEF worldVars
      <3>2. Planned(listing)' = Planned(listing)
        BY <3>1 DEF Planned, Around
      <3>3. First(new)' = First(new) /\ PlanShown(new)' = PlanShown(new)
        BY DEF First, PlanShown
      <3> QED
        BY <1>4, <2>1, <3>1, <3>2, <3>3 DEF OnCourse
    <2>4. CASE edits' = edits + 1
      <3>1. new.began <= edits' /\ new.began # edits'
        BY <2>2, <2>4
      <3>2. shown[new.intent] = PlanShown(new) /\ new.plan \in Plans /\ new.intent \in PermitId
        BY <1>4 DEF OnCourse, Running, Looping
      <3>3. new.at = "head" /\ shown' = shown /\ PlanShown(new)' = PlanShown(new)
        BY <1>3, <1>4 DEF PlanShown
      <3> QED
        BY <2>1, <3>1, <3>2, <3>3 DEF OnCourse, AtOne
    <2> QED
      BY <2>1, <2>3, <2>4, <1>3
  <1>14. Folder /\ Store(c, new) /\ Writes(c, new) /\ UNCHANGED <<grants, active, settings>>
    BY <1>1, <1>3 DEF WorldShape, StoreShape, worldVars, Folder, Store, Writes
  <1>15. Paid'
    <2>1. /\ calls \in [Call -> Calls] /\ calls'[c] = new
          /\ \A d \in Call : d # c => calls'[d] = calls[d]
      BY <1>4 DEF IInv, CallShape, Become
    <2>2. Setting' = Setting /\ Sending' = Sending \ {c} /\ c \in Sending
      BY <2>1, <1>1, <1>4 DEF Sending, Setting
    <2>3. budget["run"] \in Nat
      BY <1>1 DEF StoreShape, Capabilities
    <2>4. Within(sent \cup {s}, Sending \ {c}, budget["run"])
      BY <2>2, <2>3, OutOfHand DEF IInv, Paid
    <2> QED
      BY <1>3, <2>2, <2>4 DEF IInv, Paid
  <1>16. budget' \in [Capabilities -> Nat] /\ calls[c].at # "done"
    BY <1>1, <1>3 DEF StoreShape
  <1> QED
    BY <1>4, <1>12, <1>13, <1>14, <1>15, <1>16, CallKeeps

LEMMA EndRunKeeps ==
    ASSUME AgentToolsAssumption, IInv, NEW c \in Call, EndRun(c)
    PROVE  IInv'
  <1> DEFINE decision == IF calls[c].confirmed THEN "confirmed" ELSE "allowed"
  <1>1. calls[c].at = "head" /\ Done(c, calls[c], decision)
    BY DEF EndRun, At
  <1>2. Still /\ Voids /\ Spends
    BY NothingVoided, NothingSpent DEF EndRun, Still
  <1>3. decision \in Decisions /\ (decision = "confirmed" => calls[c].confirmed)
    BY DEF Decisions
  <1> QED
    BY <1>1, <1>2, <1>3, CallEnds

-----------------------------------------------------------------------------
(* The writing tools.                                                      *)

LEMMA FolderIsWritten ==
    ASSUME AgentToolsAssumption, IInv, NEW c \in Call, Folder,
           calls[c].at \in {"create_request", "update_request", "save text"},
           NEW new \in Calls, Become(c, new), new.at \in {"save text", "done"},
           new.decision = IF new.at = "done" THEN "allowed" ELSE "none",
           new.value = calls[c].value, new.intent = calls[c].intent, new.agreed = calls[c].agreed,
           new.confirmed = calls[c].confirmed, new.surface = calls[c].surface,
           UNCHANGED <<grants, active, settings, budget, permits, shown, wrote, sent>>
    PROVE  IInv'
  <1>1. calls[c] \in Calls /\ Placed(calls[c]) /\ StoreShape
    BY OfAnyCall
  <1>2. Proper(c, new)
    BY <1>1 DEF Proper, Placed, Tools, Gated, OnEntry, Writing, Consented, Looping, AtOne
  <1>3. Wanted(new)' /\ OnCourse(new)'
    BY DEF Wanted, OnCourse, Consented, Running, Looping, AtOne
  <1>4. Spends
    BY NothingSpent
  <1>5. Paid'
    BY <1>4, CallOwesNothing
  <1>6. Store(c, new) /\ Writes(c, new) /\ Sendings(c, new)
    BY <1>1 DEF StoreShape, Store, Writes, Sendings
  <1> QED
    BY <1>2, <1>3, <1>4, <1>5, <1>6, CallKeeps DEF Spends

LEMMA CreateRequestKeeps ==
    ASSUME AgentToolsAssumption, IInv, NEW c \in Call, NEW r \in Request, CreateRequest(c, r)
    PROVE  IInv'
  <1>1. calls[c] \in Calls /\ Placed(calls[c]) /\ calls[c].at = "create_request" /\ WorldShape
    BY OfAnyCall DEF CreateRequest, At
  <1>2. /\ Folder
        /\ UNCHANGED <<grants, active, settings, budget, permits, shown, wrote, sent>>
    BY <1>1 DEF CreateRequest, Moved, Folder, WorldShape
  <1>3. CASE calls[c].text
    <2> DEFINE new == [calls[c] EXCEPT !.at = "save text", !.node = r]
    <2>1. Become(c, new)
      BY <1>3 DEF CreateRequest
    <2>2. /\ new \in Calls /\ new.at = "save text" /\ new.decision = "none"
          /\ new.value = calls[c].value /\ new.intent = calls[c].intent
          /\ new.agreed = calls[c].agreed /\ new.confirmed = calls[c].confirmed
          /\ new.surface = calls[c].surface
      BY <1>1 DEF Calls, Places, Placed
    <2> HIDE DEF new
    <2> QED
      BY <1>1, <1>2, <2>1, <2>2, FolderIsWritten
  <1>4. CASE ~calls[c].text
    <2> DEFINE new == [calls[c] EXCEPT !.at = "done", !.decision = "allowed"]
    <2>1. Become(c, new)
      BY <1>4 DEF CreateRequest, Done
    <2>2. /\ new \in Calls /\ new.at = "done" /\ new.decision = "allowed"
          /\ new.value = calls[c].value /\ new.intent = calls[c].intent
          /\ new.agreed = calls[c].agreed /\ new.confirmed = calls[c].confirmed
          /\ new.surface = calls[c].surface
      <3>1. "done" \in Places /\ "allowed" \in Decisions
        BY SomePlaces
      <3> QED
        BY <1>1, <3>1 DEF Calls
    <2> HIDE DEF new
    <2> QED
      BY <1>1, <1>2, <2>1, <2>2, FolderIsWritten
  <1> QED
    BY <1>3, <1>4

LEMMA SaveTextKeeps ==
    ASSUME AgentToolsAssumption, IInv, NEW c \in Call, NEW r \in Request, NEW text,
           SaveText(c, r, text)
    PROVE  IInv'
  <1>1. /\ calls[c] \in Calls /\ calls[c].at \in {"update_request", "save text"}
        /\ WorldShape
        /\ UNCHANGED <<grants, active, settings, listing, budget, permits, session, shown, wrote, sent>>
    BY OfAnyCall DEF SaveText, At
  <1>2. CASE text \in Version
    <2> DEFINE new == [calls[c] EXCEPT !.at = "done", !.decision = "allowed"]
    <2>1. Become(c, new) /\ Folder
      BY <1>1, <1>2 DEF SaveText, Done, Moved, Folder, WorldShape
    <2>2. /\ new \in Calls /\ new.at = "done" /\ new.decision = "allowed"
          /\ new.value = calls[c].value /\ new.intent = calls[c].intent
          /\ new.agreed = calls[c].agreed /\ new.confirmed = calls[c].confirmed
          /\ new.surface = calls[c].surface
      <3>1. "done" \in Places /\ "allowed" \in Decisions
        BY SomePlaces
      <3> QED
        BY <1>1, <3>1 DEF Calls
    <2> HIDE DEF new
    <2> QED
      BY <1>1, <2>1, <2>2, FolderIsWritten
  <1>3. CASE text \notin Version
    <2>1. Done(c, calls[c], "refused") /\ Still /\ Voids /\ Spends
      BY <1>1, <1>3, NothingVoided, NothingSpent DEF SaveText, Refuse, Still, worldVars
    <2> QED
      BY <2>1, <1>1, CallEnds DEF Decisions, Looping, AtOne
  <1> QED
    BY <1>2, <1>3

-----------------------------------------------------------------------------
(* Time passes and people work.                                            *)

\* What holds of each call holds of it while neither it nor what it looks at changes.
LEMMA EachIsKept ==
    ASSUME IInv, UNCHANGED <<worldVars, session, edits, calls, shown>>
    PROVE  \A c \in Call : Placed(calls'[c]) /\ Wanted(calls[c])' /\ OnCourse(calls[c])'
  <1>1. TAKE c \in Call
  <1>2. Placed(calls[c]) /\ Wanted(calls[c]) /\ OnCourse(calls[c])
    BY OfAnyCall
  <1>3. Free' = Free /\ Planned(listing)' = Planned(listing)
    BY DEF worldVars, Free, Planned, Around
  <1>4. First(calls[c])' = First(calls[c])
    BY DEF First
  <1>5. Wanted(calls[c])'
    BY <1>2, <1>3 DEF Wanted
  <1>6. OnCourse(calls[c])'
    BY <1>2, <1>3, <1>4 DEF OnCourse, PlanShown, worldVars
  <1> QED
    BY <1>2, <1>5, <1>6

LEMMA ExpireKeeps ==
    ASSUME AgentToolsAssumption, IInv, NEW i \in PermitId, Expire(i)
    PROVE  IInv'
  <1>1. /\ permits' = [permits EXCEPT ![i] = None]
        /\ UNCHANGED <<worldVars, budget, session, calls, edits, shown, wrote, sent>>
    BY DEF Expire
  <1>2. WorldShape' /\ StoreShape' /\ CallShape' /\ StoreIsSound'
    BY <1>1 DEF IInv, WorldShape, StoreShape, CallShape, StoreIsSound, worldVars
  <1>3. \A c \in Call : Placed(calls'[c]) /\ Wanted(calls[c])' /\ OnCourse(calls[c])'
    BY <1>1, EachIsKept
  <1>4. Recorded' /\ ActsAsAgreed'
    BY <1>1 DEF IInv, Recorded, Ended, ActsAsAgreed, SessionWritesWereAgreed, RunsWereAgreed
  <1>5. Paid'
    BY <1>1 DEF IInv, Paid, Sending, Setting
  <1> QED
    BY <1>1, <1>2, <1>3, <1>4, <1>5 DEF IInv

LEMMA PersonWorksKeeps ==
    ASSUME AgentToolsAssumption, IInv, PersonWorks
    PROVE  IInv'
  <1>1. /\ edits' = edits + 1 /\ edits \in Nat
        /\ calls' = [c \in Call |-> FreeFrom(c)]
        /\ UNCHANGED <<budget, permits, session, shown, wrote, sent>>
        /\ calls \in [Call -> Calls]
        /\ WorldShape
    BY DEF PersonWorks, Moved, IInv, WorldShape, CallShape
  <1>2. WorldShape'
    <2>1. CASE \E r \in listing : \E text \in Version \ {version[r]} :
                                    version' = [version EXCEPT ![r] = text]
                                 /\ UNCHANGED <<grants, active, settings, listing>>
      BY <2>1, <1>1 DEF WorldShape
    <2>2. CASE \E r \in Request \ listing : listing' = listing \cup {r}
                                           /\ UNCHANGED <<grants, active, settings, version>>
      BY <2>2, <1>1 DEF WorldShape
    <2>3. CASE settings' = ~settings /\ UNCHANGED <<grants, active, listing, version>>
      BY <2>3, <1>1 DEF WorldShape
    <2>4. CASE active' \in Environment \ {active} /\ UNCHANGED <<grants, settings, listing, version>>
      BY <2>4, <1>1 DEF WorldShape
    <2>5. CASE /\ \E k \in {"run", "session"} :
                    grants' = [grants EXCEPT !.held = IF k \in @ THEN @ \ {k} ELSE @ \cup {k}]
               /\ UNCHANGED <<active, settings, listing, version>>
      <3>1. grants' \in Switches
        BY <2>5, <1>1 DEF WorldShape, Switches, Capabilities
      <3> QED
        BY <2>5, <3>1, <1>1 DEF WorldShape
    <2> QED
      BY <2>1, <2>2, <2>3, <2>4, <2>5 DEF PersonWorks
  <1>3. ASSUME NEW c \in Call
        PROVE  /\ calls'[c] \in Calls
               /\ calls'[c].at = calls[c].at /\ calls'[c].tool = calls[c].tool
               /\ calls'[c].value = calls[c].value /\ calls'[c].intent = calls[c].intent
               /\ calls'[c].agreed = calls[c].agreed /\ calls'[c].confirmed = calls[c].confirmed
               /\ calls'[c].surface = calls[c].surface /\ calls'[c].decision = calls[c].decision
               /\ calls'[c].plan = calls[c].plan /\ calls'[c].left = calls[c].left
               /\ calls'[c].began = calls[c].began /\ calls'[c].clean = calls[c].clean
               /\ calls'[c].free = (calls[c].free \/ Free')
    <2>1. calls'[c] = [calls[c] EXCEPT !.free = @ \/ Free'] /\ calls[c] \in Calls
      BY <1>1 DEF FreeFrom, Free
    <2>2. Free' \in BOOLEAN /\ calls[c].free \in BOOLEAN
      BY <2>1 DEF Free, Calls
    <2>3. (calls[c].free \/ Free') \in BOOLEAN
      BY <2>2
    <2>4. calls'[c] \in Calls
      BY <2>1, <2>3 DEF Calls
    <2> QED
      BY <2>1, <2>4 DEF Calls
  <1>4. StoreShape' /\ CallShape'
    <2>1. CallShape'
      BY <1>1, <1>3 DEF CallShape
    <2> QED
      BY <2>1, <1>1 DEF IInv, StoreShape
  <1>5. StoreIsSound'
    BY <1>1, <1>3 DEF IInv, StoreIsSound
  <1>6. ASSUME NEW c \in Call
        PROVE  Placed(calls'[c]) /\ Wanted(calls[c])' /\ OnCourse(calls[c])'
    <2>1. Placed(calls[c]) /\ Wanted(calls[c]) /\ OnCourse(calls[c]) /\ calls[c].began \in Nat
      BY <1>1 DEF IInv, Calls
    <2>2. Placed(calls'[c])
      BY <2>1, <1>3 DEF Placed
    <2>3. Wanted(calls[c])'
      BY <2>1, <1>3, <1>1 DEF Wanted
    <2>4. OnCourse(calls[c])'
      <3>1. First(calls'[c]) = First(calls[c])
        BY <1>3 DEF First
      <3>2. calls[c].at \in Running => calls[c].began <= edits' /\ calls[c].began # edits'
        <4>1. calls[c].at \in Running => calls[c].began <= edits
          BY <2>1 DEF OnCourse
        <4> QED
          BY <2>1, <4>1, <1>1
      <3> QED
        BY <2>1, <3>1, <3>2, <1>1, <1>3 DEF OnCourse, PlanShown, Running, Looping, AtOne, First
    <2> QED
      BY <2>2, <2>3, <2>4
  <1>7. Recorded'
    <2>1. wrote \subseteq Call /\ \A s \in sent : s.call \in Call
      BY DEF IInv, StoreShape, Requests
    <2> QED
      BY <2>1, <1>1, <1>3 DEF IInv, Recorded, Ended
  <1>8. ActsAsAgreed'
    <2>1. wrote \subseteq Call
      BY DEF IInv, StoreShape
    <2> QED
      <3>1. SessionWritesWereAgreed'
        <4>1. ASSUME NEW d \in wrote
              PROVE  /\ shown[calls'[d].intent] = [tool |-> "set_session_variable", print |-> calls'[d].value]
                     /\ calls'[d].value \in calls'[d].agreed
                     /\ calls'[d].free
          <5>1. /\ shown[calls[d].intent] = [tool |-> "set_session_variable", print |-> calls[d].value]
                /\ calls[d].value \in calls[d].agreed
                /\ calls[d].free
            BY DEF IInv, ActsAsAgreed, SessionWritesWereAgreed
          <5> QED
            BY <2>1, <5>1, <1>3
        <4> QED
          BY <4>1, <1>1 DEF SessionWritesWereAgreed
      <3>2. RunsWereAgreed'
        <4>1. \A s \in sent : s.call \in Call
          BY DEF IInv, StoreShape, Requests
        <4> QED
          BY <4>1, <1>1, <1>3 DEF IInv, ActsAsAgreed, RunsWereAgreed, Covers
      <3> QED
        BY <3>1, <3>2 DEF ActsAsAgreed
  <1>9. Paid'
    <2>1. Sending' = Sending /\ Setting' = Setting
      BY <1>3 DEF Sending, Setting
    <2> QED
      BY <2>1, <1>1 DEF IInv, Paid
  <1> QED
    BY <1>2, <1>4, <1>5, <1>6, <1>7, <1>8, <1>9 DEF IInv

-----------------------------------------------------------------------------
(* The beginning, and the theorems.                                        *)

LEMMA InitHolds ==
    ASSUME AgentToolsAssumption, ToolsInit
    PROVE  IInv
  <1>1. \A c \in Call : calls[c] = Fresh
    BY DEF ToolsInit
  <1>2. WorldShape
    BY DEF AgentToolsAssumption, ToolsInit, WorldShape, Switches
  <1>3. Planned(listing) \in Plans
    BY <1>2, PlanIsAPlan
  <1>4. \A i \in PermitId : permits[i] \in Permits \cup {None} /\ (i # Earlier => permits[i] = None)
    <2>1. PICK permit \in {[tool |-> "run_folder", print |-> Planned(listing)]}
                          \cup [tool : {"set_session_variable"}, print : Value] :
             permits = [i \in PermitId |-> IF i = Earlier THEN permit ELSE None]
      BY DEF ToolsInit
    <2>2. permit \in Permits
      BY <1>3 DEF Permits, Gated
    <2> QED
      BY <2>1, <2>2
  <1>5. StoreShape
    <2>1. budget \in [Capabilities -> Nat]
      BY DEF ToolsInit, AgentToolsAssumption
    <2>2. permits \in [PermitId -> Permits \cup {None}] /\ shown = permits
      BY <1>4 DEF ToolsInit
    <2>3. wrote = {} /\ sent = {}
      BY DEF ToolsInit
    <2> QED
      BY <2>1, <2>2, <2>3 DEF StoreShape
  <1>6. CallShape
    <2>1. Fresh \in Calls
      BY <1>2 DEF WorldShape, Fresh, Calls, Places, Tools, OnEntry, Decisions
    <2> QED
      BY <2>1 DEF ToolsInit, CallShape
  <1>7. StoreIsSound
    <2>1. \A c \in Call : c \in PermitId /\ c # Earlier
      BY DEF AgentToolsAssumption, PermitId
    <2>2. shown = permits
      BY DEF ToolsInit
    <2>3. \A c \in Call : calls[c].intent = None
      BY <1>1 DEF Fresh
    <2> QED
      BY <1>4, <2>1, <2>2, <2>3 DEF StoreIsSound
  <1>8. ASSUME NEW c \in Call
        PROVE  Placed(calls[c]) /\ Wanted(calls[c]) /\ OnCourse(calls[c])
    <2>1. /\ calls[c].at = "idle" /\ calls[c].intent = None /\ calls[c].decision = "none"
          /\ calls[c].agreed = {} /\ ~calls[c].confirmed
      BY <1>1 DEF Fresh
    <2> QED
      BY <2>1 DEF Placed, Wanted, OnCourse, Tools, Gated, OnEntry, Writing, Consented,
                  Running, Looping, AtOne
  <1>9. Recorded /\ ActsAsAgreed
    BY DEF ToolsInit, Recorded, ActsAsAgreed, SessionWritesWereAgreed, RunsWereAgreed
  <1>10. Paid
    <2>1. Sending = {} /\ Setting = {}
      <3>1. \A c \in Call : calls[c].at = "idle"
        BY <1>1 DEF Fresh
      <3> QED
        BY <3>1 DEF Sending, Setting
    <2>2. IsFiniteSet({}) /\ Cardinality({}) = 0
      BY FS_EmptySet
    <2>3. sent = {} /\ wrote = {} /\ budget["run"] = Budget /\ budget["session"] = Budget
      BY DEF ToolsInit, Capabilities
    <2> QED
      BY <2>1, <2>2, <2>3 DEF Paid, Within, AgentToolsAssumption
  <1> QED
    BY <1>2, <1>5, <1>6, <1>7, <1>8, <1>9, <1>10 DEF IInv

LEMMA NextKeeps ==
    ASSUME AgentToolsAssumption, IInv, [ToolsNext]_toolVars
    PROVE  IInv'
  <1>1. ASSUME NEW c \in Call, NEW tool \in DOMAIN CapabilityOf, NEW v \in Value,
               NEW i \in PermitId \cup {None}, NEW flag \in BOOLEAN, Arrive(c, tool, v, i, flag)
        PROVE  IInv'
    BY <1>1, ArriveKeeps
  <1>2. ASSUME NEW c \in Call,
               \/ CheckCapability(c) \/ SpendOnEntry(c) \/ NotFound(c) \/ Read(c)
               \/ \E yes \in BOOLEAN : Answer(c, yes)
        PROVE  IInv'
    BY <1>2, CheckCapabilityKeeps, SpendOnEntryKeeps, NotFoundKeeps, ReadKeeps, AnswerKeeps
  <1>3. ASSUME NEW c \in Call,
               \/ SessionTarget(c) \/ VerifyIntent(c) \/ JudgeSessionWrite(c) \/ RedeemIntent(c)
               \/ PayForWrite(c) \/ CheckAgain(c) \/ SetSessionVariable(c)
        PROVE  IInv'
    BY <1>3, SessionTargetKeeps, VerifyIntentKeeps, JudgeSessionWriteKeeps, RedeemIntentKeeps,
       PayForWriteKeeps, CheckAgainKeeps, SetSessionVariableKeeps
  <1>4. ASSUME NEW c \in Call,
               \/ PlanFolder(c) \/ RedeemRun(c) \/ BeginRun(c) \/ JudgeRequest(c)
               \/ RefuseRequest(c) \/ PayForRequest(c) \/ EndRun(c)
               \/ \E wrong \in BOOLEAN, v \in {session} \cup Value : SendRequest(c, wrong, v)
        PROVE  IInv'
    BY <1>4, PlanFolderKeeps, RedeemRunKeeps, BeginRunKeeps, JudgeRequestKeeps, RefuseRequestKeeps,
       PayForRequestKeeps, EndRunKeeps, SendRequestKeeps
  <1>5. ASSUME NEW c \in Call,
               \/ \E r \in Request : CreateRequest(c, r)
               \/ \E r \in Request, text \in Version \cup {None} : SaveText(c, r, text)
        PROVE  IInv'
    BY <1>5, CreateRequestKeeps, SaveTextKeeps
  <1>6. ASSUME PersonWorks \/ \E i \in PermitId : Expire(i)
        PROVE  IInv'
    BY <1>6, PersonWorksKeeps, ExpireKeeps
  <1>7. ASSUME UNCHANGED toolVars
        PROVE  IInv'
    <2>1. UNCHANGED <<worldVars, budget, permits, session, calls, edits, shown, wrote, sent>>
      BY <1>7 DEF toolVars
    <2>2. WorldShape' /\ StoreShape' /\ CallShape' /\ StoreIsSound'
      BY <2>1 DEF worldVars, IInv, WorldShape, StoreShape, CallShape, StoreIsSound
    <2>3. \A c \in Call : Placed(calls'[c]) /\ Wanted(calls[c])' /\ OnCourse(calls[c])'
      BY <2>1, EachIsKept
    <2>4. Recorded' /\ ActsAsAgreed' /\ Paid'
      BY <2>1 DEF IInv, Recorded, Ended, ActsAsAgreed, SessionWritesWereAgreed, RunsWereAgreed,
         Paid, Sending, Setting
    <2> QED
      BY <2>1, <2>2, <2>3, <2>4 DEF IInv
  <1> QED
    BY <1>1, <1>2, <1>3, <1>4, <1>5, <1>6, <1>7 DEF ToolsNext

\* IInv is inductive.
THEOREM Invariance == ToolsSpec => []IInv
  BY AgentToolsAssumption, InitHolds, NextKeeps, PTL DEF ToolsSpec

\* Type correctness: what the agents and the store hold is always of the shape the code
\* gives it.
THEOREM Typing == ToolsSpec => [](WorldShape /\ StoreShape /\ CallShape)
  <1>1. IInv => WorldShape /\ StoreShape /\ CallShape
    BY DEF IInv
  <1> QED
    BY <1>1, Invariance, PTL

\* A session value is set as the person who was asked agreed to it, and a run sends what
\* its agent was shown at the addresses it was shown, unless something moves between the
\* second plan and the sending (the handlers of tools.go and agentBridge's
\* SetSessionVariable and RunFolder).
THEOREM TheToolsActAsAgreed == ToolsSpec => []ActsAsAgreed
  <1>1. IInv => ActsAsAgreed
    BY DEF IInv
  <1> QED
    BY <1>1, Invariance, PTL

\* What is sent and set is paid for, and the line in the audit log tells what a call came
\* to (register in tools.go, allow in mcp.go).
THEOREM CallsAreAccounted == ToolsSpec => []CallsAreAccountedFor
  <1>1. IInv => CallsAreAccountedFor
    <2> SUFFICES ASSUME IInv PROVE CallsAreAccountedFor
      OBVIOUS
    <2>1. ASSUME NEW c \in Call
          PROVE  /\ calls[c].decision = "confirmed" => calls[c].surface = "window"
                 /\ calls[c].decision = "allowed" =>
                       c \notin wrote /\ \A s \in sent : s.call = c => ~s.agreed
                 /\ calls[c].decision \in {"refused", "denied-by-policy", "rate-limited"} =>
                       c \notin wrote /\ \A s \in sent : s.call # c
      <3>1. Placed(calls[c])
        BY OfAnyCall
      <3>2. calls[c].decision # "confirmed" => c \notin wrote
        BY DEF IInv, Recorded
      <3>3. ASSUME NEW s \in sent, s.call = c
            PROVE  /\ calls[c].at \in Looping \/ Ended(calls[c])
                   /\ s.agreed => calls[c].confirmed
        BY <3>3 DEF IInv, Recorded
      <3>4. calls[c].decision # "none" => calls[c].at \notin Looping
        BY <3>1 DEF Placed, Looping, AtOne
      <3> QED
        BY <3>1, <3>2, <3>3, <3>4 DEF Placed, Ended
    <2>2. /\ Cardinality(sent) <= Budget - budget["run"]
          /\ Cardinality(wrote) <= Budget - budget["session"]
      <3>1. /\ IsFiniteSet(sent) /\ IsFiniteSet(Sending)
            /\ IsFiniteSet(wrote) /\ IsFiniteSet(Setting)
            /\ Cardinality(sent) + Cardinality(Sending) + budget["run"] <= Budget
            /\ Cardinality(wrote) + Cardinality(Setting) + budget["session"] <= Budget
        BY DEF IInv, Paid, Within
      <3>2. /\ Cardinality(sent) \in Nat /\ Cardinality(Sending) \in Nat
            /\ Cardinality(wrote) \in Nat /\ Cardinality(Setting) \in Nat
        BY <3>1, FS_CardinalityType
      <3>3. budget["run"] \in Nat /\ budget["session"] \in Nat /\ Budget \in Nat
        BY AgentToolsAssumption DEF IInv, StoreShape, Capabilities, AgentToolsAssumption
      <3> QED
        BY <3>1, <3>2, <3>3
    <2> QED
      BY <2>1, <2>2 DEF CallsAreAccountedFor
  <1> QED
    BY <1>1, Invariance, PTL
=============================================================================
