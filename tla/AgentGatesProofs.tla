-------------------------- MODULE AgentGatesProofs --------------------------
(***************************************************************************)
(* Theorems about what stands between an agent and what it asks for, one   *)
(* part after another: the store of previews, the buckets and the policy.  *)
(* They share no variable, as in MCAgents.                                 *)
(***************************************************************************)
EXTENDS Intents, Limiter, AgentPolicy, TLAPS

-----------------------------------------------------------------------------
(* Previews: for any sets of ids, tools and fingerprints, any clock.       *)

\* Truncating to a second goes back by less than a second, to a whole one.
LEMMA TruncatedBounds ==
    ASSUME NEW t \in Nat
    PROVE  /\ Truncated(t) \in WholeSecond
           /\ Truncated(t) <= t
           /\ Truncated(t) > t - Second
  <1> DEFINE q == t \div Second
  <1>1. t = Second * q + (t % Second) /\ q \in Int /\ t % Second \in 0..(Second - 1)
    BY IntentsAssumption
  <1>2. \A x \in Int : (Second * x) % Second = 0
    BY IntentsAssumption
  <1> HIDE DEF q
  <1>3. Truncated(t) = Second * q
    BY <1>1, IntentsAssumption DEF Truncated
  <1>4. Truncated(t) % Second = 0
    BY <1>1, <1>2, <1>3
  <1> QED
    BY <1>1, <1>4, IntentsAssumption DEF Truncated, WholeSecond

LEMMA ExpiryBounds ==
    ASSUME NEW t \in Nat
    PROVE  /\ ExpiryFrom(t) \in WholeSecond
           /\ ExpiryFrom(t) \in Int
           /\ ExpiryFrom(t) <= t + IntentTTL
           /\ ExpiryFrom(t) > t + IntentTTL - Second
  <1> DEFINE u == t + IntentTTL
             e == Truncated(u)
  <1>1. u \in Nat
    BY IntentsAssumption
  <1>2. ExpiryFrom(t) = e
    BY DEF ExpiryFrom
  <1> HIDE DEF u, e
  <1>3. e \in WholeSecond /\ e <= u /\ e > u - Second
    BY <1>1, TruncatedBounds DEF e
  <1>4. e \in Int
    BY <1>3 DEF WholeSecond
  <1> QED
    BY <1>2, <1>3, <1>4, IntentsAssumption DEF u

\* A record of the store is not the mark of an absent key.
LEMMA RecordsAreNotAbsent ==
    ASSUME NEW t \in Tool, NEW p \in Fingerprint, NEW n \in Int
    PROVE  /\ [tool |-> t, print |-> p, expires |-> n] # NoIntent
           /\ [tool |-> t, print |-> p, at |-> n] # NoIntent
  BY NoIntentAssumption

\* The type invariant holds of every behaviour of the store.
THEOREM PreviewsKeepTypes == Spec => []TypeOK
  <1>1. Init => TypeOK
    BY IntentsAssumption DEF Init, TypeOK
  <1>2. TypeOK /\ [Next]_vars => TypeOK'
    <2> SUFFICES ASSUME TypeOK, [Next]_vars
                 PROVE  TypeOK'
      OBVIOUS
    <2> USE DEF TypeOK
    <2>1. ASSUME NEW i \in IntentId, NEW t \in Tool, NEW p \in Fingerprint,
                 Issue(i, t, p)
          PROVE  TypeOK'
      <3>1. now \in Nat
        BY IntentsAssumption
      <3>2. ExpiryFrom(now) \in WholeSecond
        BY <3>1, ExpiryBounds
      <3> QED
        BY <2>1, <3>1, <3>2 DEF Issue, Swept, Intent, Receipt
    <2>2. ASSUME NEW i \in Known, NEW t \in Tool, NEW p \in Fingerprint,
                 Verify(i, t, p)
          PROVE  TypeOK'
      BY <2>2 DEF Verify, RefusedAfter, Known
    <2>3. ASSUME NEW i \in Known, NEW t \in Tool, NEW p \in Fingerprint,
                 Redeem(i, t, p)
          PROVE  TypeOK'
      <3>1. now \in Int
        BY IntentsAssumption
      <3> QED
        BY <2>3, <3>1 DEF Redeem, RefusedAfter, Known, Receipt
    <2>4. CASE VoidAll
      BY <2>4 DEF VoidAll
    <2>5. CASE Outstanding
      BY <2>5 DEF Outstanding, Swept
    <2>6. CASE Tick
      BY <2>6, IntentsAssumption DEF Tick
    <2>7. CASE UNCHANGED vars
      BY <2>7 DEF vars
    <2> QED
      BY <2>1, <2>2, <2>3, <2>4, <2>5, <2>6, <2>7 DEF Next
  <1> QED
    BY <1>1, <1>2, PTL DEF Spec

-----------------------------------------------------------------------------
StoreInv == TypeOK /\ Consistent /\ SpentAsPreviewed /\ NoSecondTry

\* What an "ok" answer is worth: the entry is there, unexpired, and matches.
LEMMA GoodMeans ==
    ASSUME NEW i \in IntentId, NEW t, NEW p, Good(i, t, p)
    PROVE  i \in Held /\ ~Expired(i) /\ by[i].tool = t /\ by[i].print = p
  BY DEF Good, Outcome

LEMMA ExpiredMeans ==
    ASSUME TypeOK, NEW i \in Held
    PROVE  /\ by[i] \in Intent
           /\ by[i].expires \in Int
           /\ now \in Nat
           /\ Expired(i) <=> now >= by[i].expires
  BY IntentsAssumption DEF TypeOK, Held, Intent, WholeSecond, Expired

\* One previewed operation more.
LEMMA IssueKeeps ==
    ASSUME StoreInv, TypeOK',
           NEW i \in IntentId, NEW t \in Tool, NEW p \in Fingerprint,
           Issue(i, t, p)
    PROVE  StoreInv'
  <1> DEFINE new == [tool |-> t, print |-> p, expires |-> ExpiryFrom(now)]
             shown == [tool |-> t, print |-> p, at |-> now]
  <1> USE DEF StoreInv
  <1>1. now \in Nat /\ now \in Int /\ ExpiryFrom(now) \in Int
    BY IntentsAssumption, ExpiryBounds DEF TypeOK
  <1>2. new # NoIntent /\ shown # NoIntent
    BY <1>1, RecordsAreNotAbsent
  <1>3. /\ by'[i] = new
        /\ preview'[i] = shown
        /\ \A j \in IntentId \ {i} : preview'[j] = preview[j]
        /\ \A j \in IntentId \ {i} : by'[j] = NoIntent \/ by'[j] = by[j]
    BY DEF Issue, Swept, TypeOK
  <1>4. paid' = paid /\ refused' = refused /\ now' = now
    BY DEF Issue
  <1>5. paid[i] = NoIntent /\ i \notin refused
    BY DEF Issue, Consistent
  <1>6. \A j \in Held' : j = i \/ (j \in Held /\ by'[j] = by[j] /\ preview'[j] = preview[j])
    BY <1>3 DEF Held
  <1>7. Consistent'
    <2>1. ASSUME NEW j \in Held'
          PROVE  /\ preview'[j] # NoIntent
                 /\ by'[j].tool = preview'[j].tool
                 /\ by'[j].print = preview'[j].print
                 /\ by'[j].expires = ExpiryFrom(preview'[j].at)
      <3>1. CASE j = i
        BY <3>1, <1>2, <1>3
      <3>2. CASE j # i
        BY <3>2, <1>6 DEF Consistent
      <3> QED
        BY <3>1, <3>2
    <2>2. ASSUME NEW j \in IntentId, preview'[j] # NoIntent
          PROVE  preview'[j].at \in 0..now'
      <3>1. CASE j = i
        BY <3>1, <1>1, <1>3, <1>4
      <3>2. CASE j # i
        BY <3>2, <2>2, <1>3, <1>4 DEF Consistent
      <3> QED
        BY <3>1, <3>2
    <2>3. ASSUME NEW j \in IntentId, preview'[j] = NoIntent
          PROVE  by'[j] = NoIntent /\ paid'[j] = NoIntent /\ j \notin refused'
      BY <2>3, <1>2, <1>3, <1>4 DEF Consistent
    <2> QED
      BY <2>1, <2>2, <2>3 DEF Consistent, ExpiryFrom, Truncated
  <1>8. SpentAsPreviewed'
    BY <1>3, <1>4, <1>5 DEF SpentAsPreviewed
  <1>9. NoSecondTry'
    BY <1>4, <1>5, <1>6 DEF NoSecondTry
  <1> QED
    BY <1>7, <1>8, <1>9

\* A step that only removes entries, and answers some ids with an error.
LEMMA DroppingKeeps ==
    ASSUME StoreInv, TypeOK',
           now' = now, preview' = preview, paid' = paid,
           \A j \in IntentId : by'[j] = NoIntent \/ by'[j] = by[j],
           \A j \in refused' : j \in refused \/ (preview[j] # NoIntent /\ by'[j] = NoIntent)
    PROVE  StoreInv'
  <1> USE DEF StoreInv
  <1>1. \A j \in Held' : j \in Held /\ by'[j] = by[j]
    BY DEF Held
  <1>2. Consistent'
    BY <1>1 DEF Consistent, ExpiryFrom, Truncated
  <1>3. SpentAsPreviewed'
    BY DEF SpentAsPreviewed
  <1>4. NoSecondTry'
    BY <1>1 DEF NoSecondTry, Held
  <1> QED
    BY <1>2, <1>3, <1>4

LEMMA VerifyKeeps ==
    ASSUME StoreInv, TypeOK', NEW i \in Known, NEW t \in Tool, NEW p \in Fingerprint,
           Verify(i, t, p)
    PROVE  StoreInv'
  <1>1. i \in IntentId /\ preview[i] # NoIntent
    BY DEF Known
  <1>2. \A j \in IntentId : by'[j] = NoIntent \/ by'[j] = by[j]
    BY DEF Verify, StoreInv, TypeOK
  <1>3. \A j \in refused' : j \in refused \/ (preview[j] # NoIntent /\ by'[j] = NoIntent)
    BY <1>1 DEF Verify, RefusedAfter, StoreInv, TypeOK
  <1> QED
    BY <1>2, <1>3, DroppingKeeps DEF Verify

\* The one step that spends: the entry it removes is the one that was shown.
LEMMA SpendingKeeps ==
    ASSUME StoreInv, TypeOK', NEW i \in Known, NEW t \in Tool, NEW p \in Fingerprint,
           Redeem(i, t, p)
    PROVE  StoreInv'
  <1> DEFINE bought == [tool |-> t, print |-> p, at |-> now]
  <1>1. i \in IntentId /\ preview[i] # NoIntent
    BY DEF Known
  <1>2. by'[i] = NoIntent /\ \A j \in IntentId : by'[j] = NoIntent \/ by'[j] = by[j]
    BY <1>1 DEF Redeem, StoreInv, TypeOK
  <1>3. now' = now /\ preview' = preview
    BY DEF Redeem
  <1>4. CASE ~Good(i, t, p)
    <2>1. paid' = paid
      BY <1>4 DEF Redeem
    <2>2. \A j \in refused' : j \in refused \/ (preview[j] # NoIntent /\ by'[j] = NoIntent)
      BY <1>1, <1>2 DEF Redeem, RefusedAfter
    <2> QED
      BY <1>2, <1>3, <2>1, <2>2, DroppingKeeps
  <1>5. CASE Good(i, t, p)
    <2>1. i \in Held /\ ~Expired(i) /\ by[i].tool = t /\ by[i].print = p
      BY <1>1, <1>5, GoodMeans
    <2>2. /\ paid'[i] = bought
          /\ \A j \in IntentId \ {i} : paid'[j] = paid[j]
          /\ refused' = refused
      BY <1>1, <1>5 DEF Redeem, RefusedAfter, StoreInv, TypeOK
    <2>3. \A j \in Held' : j \in Held /\ j # i /\ by'[j] = by[j]
      BY <1>2 DEF Held
    <2>4. Consistent'
      BY <1>1, <1>2, <1>3, <2>2, <2>3 DEF Consistent, StoreInv, ExpiryFrom, Truncated
    <2>5. NoSecondTry'
      BY <2>2, <2>3 DEF NoSecondTry, StoreInv, Held
    <2>6. /\ preview[i].at \in 0..now
          /\ preview[i].tool = t /\ preview[i].print = p
          /\ by[i].expires = ExpiryFrom(preview[i].at)
      BY <1>1, <2>1 DEF StoreInv, Consistent
    <2>7. now < by[i].expires /\ now \in Nat
      BY <2>1, ExpiredMeans, IntentsAssumption DEF StoreInv, TypeOK, Intent, WholeSecond, Held
    <2>8. preview[i].at \in Nat /\ preview[i].at <= now
      BY <2>6, <2>7
    <2>9. now < preview[i].at + IntentTTL
      <3>1. ExpiryFrom(preview[i].at) <= preview[i].at + IntentTTL
               /\ ExpiryFrom(preview[i].at) \in Int
        BY <2>8, ExpiryBounds
      <3> QED
        BY <3>1, <2>6, <2>7, <2>8, IntentsAssumption
    <2>10. SpentAsPreviewed'
      <3> SUFFICES ASSUME NEW j \in IntentId, paid'[j] # NoIntent
                   PROVE  /\ preview'[j] # NoIntent
                          /\ paid'[j].tool = preview'[j].tool
                          /\ paid'[j].print = preview'[j].print
                          /\ preview'[j].at <= paid'[j].at
                          /\ paid'[j].at < preview'[j].at + IntentTTL
        BY DEF SpentAsPreviewed
      <3>1. CASE j = i
        BY <3>1, <1>1, <1>3, <2>2, <2>6, <2>8, <2>9
      <3>2. CASE j # i
        BY <3>2, <1>3, <2>2 DEF StoreInv, SpentAsPreviewed
      <3> QED
        BY <3>1, <3>2
    <2> QED
      BY <2>4, <2>5, <2>10 DEF StoreInv
  <1> QED
    BY <1>4, <1>5

LEMMA TickKeeps ==
    ASSUME StoreInv, TypeOK', Tick
    PROVE  StoreInv'
  <1> USE DEF StoreInv, Tick
  <1>1. now \in Nat /\ now' = now + 1
    BY IntentsAssumption DEF TypeOK
  <1>2. Held' = Held
    BY DEF Held
  <1>3. Consistent'
    <2>1. \A j \in IntentId : preview[j] # NoIntent => preview[j].at \in 0..now'
      BY <1>1 DEF Consistent
    <2> QED
      BY <1>2, <2>1 DEF Consistent, ExpiryFrom, Truncated
  <1>4. SpentAsPreviewed' /\ NoSecondTry'
    BY <1>2 DEF SpentAsPreviewed, NoSecondTry
  <1> QED
    BY <1>3, <1>4

\* The inductive invariant.
THEOREM StoreInvariance == Spec => []StoreInv
  <1>1. Init => StoreInv
    <2> SUFFICES ASSUME Init PROVE StoreInv
      OBVIOUS
    <2>1. TypeOK
      BY IntentsAssumption DEF Init, TypeOK
    <2> QED
      BY <2>1 DEF Init, StoreInv, Consistent, SpentAsPreviewed, NoSecondTry, Held
  <1>2. TypeOK' /\ StoreInv /\ [Next]_vars => StoreInv'
    <2> SUFFICES ASSUME TypeOK', StoreInv, [Next]_vars
                 PROVE  StoreInv'
      OBVIOUS
    <2>1. ASSUME NEW i \in IntentId, NEW t \in Tool, NEW p \in Fingerprint,
                 Issue(i, t, p)
          PROVE  StoreInv'
      BY <2>1, IssueKeeps
    <2>2. ASSUME NEW i \in Known, NEW t \in Tool, NEW p \in Fingerprint,
                 Verify(i, t, p)
          PROVE  StoreInv'
      BY <2>2, VerifyKeeps
    <2>3. ASSUME NEW i \in Known, NEW t \in Tool, NEW p \in Fingerprint,
                 Redeem(i, t, p)
          PROVE  StoreInv'
      BY <2>3, SpendingKeeps
    <2>4. CASE VoidAll
      BY <2>4, DroppingKeeps DEF VoidAll
    <2>5. CASE Outstanding
      BY <2>5, DroppingKeeps DEF Outstanding, Swept
    <2>6. CASE Tick
      BY <2>6, TickKeeps
    <2>7. CASE UNCHANGED vars
      <3>1. Held' = Held
        BY <2>7 DEF vars, Held
      <3> QED
        BY <2>7, <3>1 DEF vars, StoreInv, Consistent, SpentAsPreviewed, NoSecondTry,
                          ExpiryFrom, Truncated
    <2> QED
      BY <2>1, <2>2, <2>3, <2>4, <2>5, <2>6, <2>7 DEF Next
  <1> QED
    BY <1>1, <1>2, PreviewsKeepTypes, PTL DEF Spec

\* An intent buys exactly the operation that was shown, within its minute.
THEOREM SpendsWhatWasShown == Spec => []SpentAsPreviewed
  <1>1. StoreInv => SpentAsPreviewed
    BY DEF StoreInv
  <1> QED
    BY <1>1, StoreInvariance, PTL

\* No id can be tried twice, whatever came of the first attempt.
THEOREM OneTry == Spec => []NoSecondTry
  <1>1. StoreInv => NoSecondTry
    BY DEF StoreInv
  <1> QED
    BY <1>1, StoreInvariance, PTL

\* While it is fresh a preview has not run out, and is what it was shown as.
LEMMA FreshIsGood ==
    ASSUME StoreInv, NEW i \in Held, Unexpired(i)
    PROVE  ~Expired(i) /\ Good(i, preview[i].tool, preview[i].print)
  <1>1. /\ preview[i].at \in Nat
        /\ by[i].expires = ExpiryFrom(preview[i].at)
        /\ by[i].tool = preview[i].tool /\ by[i].print = preview[i].print
    BY IntentsAssumption DEF StoreInv, Consistent, Held
  <1>2. by[i].expires > preview[i].at + IntentTTL - Second
    BY <1>1, ExpiryBounds
  <1>3. ~Expired(i)
    BY <1>1, <1>2, ExpiredMeans, IntentsAssumption DEF StoreInv, Unexpired
  <1> QED
    BY <1>1, <1>3 DEF Good, Outcome

\* A preview is not taken away, within its minute less a second, from whoever looks at it.
THEOREM FreshPreviewsStay == Spec => FreshUntilUsed
  <1>1. StoreInv /\ [Next]_vars =>
          [\A i \in Held : Unexpired(i) =>
              /\ Good(i, preview[i].tool, preview[i].print)
              /\ i \notin Held' => paid'[i] # NoIntent \/ i \in refused' \/ VoidAll]_vars
    <2> SUFFICES ASSUME StoreInv, Next, NEW i \in Held, Unexpired(i), i \notin Held'
                 PROVE  paid'[i] # NoIntent \/ i \in refused' \/ VoidAll
      BY FreshIsGood
    <2> i \in IntentId /\ preview[i] # NoIntent /\ by[i] # NoIntent /\ ~Expired(i)
      BY FreshIsGood DEF Held, StoreInv, Consistent
    <2>0. by'[i] = NoIntent
      BY DEF Held
    <2>1. ASSUME NEW j \in IntentId, NEW t \in Tool, NEW p \in Fingerprint, Issue(j, t, p)
          PROVE  FALSE
      <3>1. j # i
        BY <2>1 DEF Issue
      <3> QED
        BY <2>0, <2>1, <3>1 DEF Issue, Swept
    <2>2. ASSUME NEW j \in Known, NEW t \in Tool, NEW p \in Fingerprint, Verify(j, t, p)
          PROVE  i \in refused'
      <3>1. j = i /\ ~Good(j, t, p)
        BY <2>0, <2>2 DEF Verify, StoreInv, TypeOK
      <3> QED
        BY <2>2, <3>1 DEF Verify, RefusedAfter
    <2>3. ASSUME NEW j \in Known, NEW t \in Tool, NEW p \in Fingerprint, Redeem(j, t, p)
          PROVE  paid'[i] # NoIntent \/ i \in refused'
      <3>1. j = i
        BY <2>0, <2>3 DEF Redeem, StoreInv, TypeOK
      <3>2. CASE Good(i, t, p)
        <4>1. now \in Int
          BY IntentsAssumption DEF StoreInv, TypeOK
        <4> QED
          BY <2>3, <3>1, <3>2, <4>1, RecordsAreNotAbsent DEF Redeem, StoreInv, TypeOK
      <3>3. CASE ~Good(i, t, p)
        BY <2>3, <3>1, <3>3 DEF Redeem, RefusedAfter
      <3> QED
        BY <3>2, <3>3
    <2>4. CASE Outstanding
      BY <2>0, <2>4 DEF Outstanding, Swept
    <2>5. CASE Tick
      BY <2>0, <2>5 DEF Tick
    <2> QED
      BY <2>1, <2>2, <2>3, <2>4, <2>5 DEF Next
  <1> QED
    BY <1>1, StoreInvariance, PTL DEF Spec, FreshUntilUsed

-----------------------------------------------------------------------------
(* Refinement: every step of the store is a step of a permit, or none.     *)

\* Where an id stands, read off the store.
LEMMA StageOf ==
    ASSUME StoreInv, NEW i \in IntentId
    PROVE  /\ i \in Held => Stage[i] = "live"
           /\ i \notin Held /\ paid[i] # NoIntent => Stage[i] = "spent"
           /\ i \notin Held /\ paid[i] = NoIntent /\ preview[i] # NoIntent
                => Stage[i] = "void"
           /\ preview[i] = NoIntent => Stage[i] = "unused"
  <1>1. /\ i \in Held => paid[i] = NoIntent /\ preview[i] # NoIntent
        /\ preview[i] = NoIntent => i \notin Held /\ paid[i] = NoIntent
    BY DEF StoreInv, NoSecondTry, Consistent, Held
  <1> QED
    BY <1>1 DEF Stage

\* The same of the state a step leads to.
LEMMA StageOfPrime ==
    ASSUME StoreInv', NEW i \in IntentId
    PROVE  /\ i \in Held' => Stage'[i] = "live"
           /\ i \notin Held' /\ paid'[i] # NoIntent => Stage'[i] = "spent"
           /\ i \notin Held' /\ paid'[i] = NoIntent /\ preview'[i] # NoIntent
                => Stage'[i] = "void"
           /\ preview'[i] = NoIntent => Stage'[i] = "unused"
  <1>1. /\ i \in Held' => paid'[i] = NoIntent /\ preview'[i] # NoIntent
        /\ preview'[i] = NoIntent => i \notin Held' /\ paid'[i] = NoIntent
    BY DEF StoreInv, NoSecondTry, Consistent, Held
  <1> QED
    BY <1>1 DEF Stage

LEMMA StageIsAFunction ==
    /\ Stage = [j \in IntentId |-> Stage[j]]
    /\ Stage' = [j \in IntentId |-> Stage'[j]]
  BY DEF Stage

\* A step that removes some entries and does nothing else cancels them.
LEMMA DroppingCancels ==
    ASSUME StoreInv, StoreInv', preview' = preview, paid' = paid,
           \A j \in IntentId : by'[j] = NoIntent \/ by'[j] = by[j]
    PROVE  Promise!Next
  <1> DEFINE lost == Held \ Held'
  <1>1. lost \subseteq Promise!LiveIds /\ lost \in SUBSET IntentId
    BY StageOf DEF Promise!LiveIds, Promise!Live, Held
  <1>2. ASSUME NEW j \in IntentId
        PROVE  Stage'[j] = IF j \in lost THEN "void" ELSE Stage[j]
    <2>1. j \in Held' => j \in Held
      BY DEF Held
    <2>2. j \in Held => paid[j] = NoIntent /\ preview[j] # NoIntent
      BY DEF StoreInv, NoSecondTry, Consistent
    <2> QED
      BY <2>1, <2>2, StageOf, StageOfPrime
  <1>3. Stage' = [j \in IntentId |-> IF j \in lost THEN "void" ELSE Stage[j]]
    BY <1>2, StageIsAFunction
  <1> HIDE DEF lost
  <1>4. Promise!Cancel(lost)
    BY <1>1, <1>3 DEF Promise!Cancel, Promise!Void
  <1> QED
    BY <1>1, <1>4 DEF Promise!Next

\* Issuing hands out one permit, and lets the ones that ran out lapse.
LEMMA IssueHandsOut ==
    ASSUME StoreInv, StoreInv', NEW i \in IntentId, NEW t \in Tool, NEW p \in Fingerprint,
           Issue(i, t, p)
    PROVE  Promise!Next
  <1> DEFINE lapsed == Held \ Held'
  <1>1. now \in Nat /\ ExpiryFrom(now) \in Int
    BY IntentsAssumption, ExpiryBounds DEF StoreInv, TypeOK
  <1>2. /\ by'[i] # NoIntent
        /\ \A j \in IntentId \ {i} : by'[j] = NoIntent \/ by'[j] = by[j]
        /\ \A j \in IntentId \ {i} : preview'[j] = preview[j]
        /\ preview[i] = NoIntent /\ paid' = paid
    BY <1>1, RecordsAreNotAbsent DEF Issue, Swept, StoreInv, TypeOK
  <1>3. i \in Held' /\ i \notin Held
    BY <1>2 DEF Held, StoreInv, Consistent
  <1>4. lapsed \subseteq Promise!LiveIds /\ lapsed \in SUBSET IntentId
    BY StageOf DEF Promise!LiveIds, Promise!Live, Held
  <1>5. ASSUME NEW j \in IntentId
        PROVE  Stage'[j] = IF j = i THEN "live"
                           ELSE IF j \in lapsed THEN "void" ELSE Stage[j]
    <2>1. j # i /\ j \in Held' => j \in Held
      BY <1>2 DEF Held
    <2>2. j \in Held => paid[j] = NoIntent /\ preview[j] # NoIntent
      BY DEF StoreInv, NoSecondTry, Consistent
    <2> QED
      BY <2>1, <2>2, <1>2, <1>3, StageOf, StageOfPrime
  <1>6. Stage' = [j \in IntentId |-> IF j = i THEN "live"
                                     ELSE IF j \in lapsed THEN "void" ELSE Stage[j]]
    BY <1>5, StageIsAFunction
  <1>7. Stage[i] = "unused"
    BY <1>2, StageOf
  <1> HIDE DEF lapsed
  <1>8. Promise!HandOut(i, lapsed)
    BY <1>4, <1>6, <1>7 DEF Promise!HandOut, Promise!Unused, Promise!Live, Promise!Void
  <1> QED
    BY <1>4, <1>8 DEF Promise!Next

\* Redeeming with everything right spends the permit; anything else voids it.
LEMMA RedeemSpends ==
    ASSUME StoreInv, StoreInv', NEW i \in Known, NEW t \in Tool, NEW p \in Fingerprint,
           Redeem(i, t, p)
    PROVE  Promise!Next
  <1>1. i \in IntentId /\ preview[i] # NoIntent
    BY DEF Known
  <1>2. /\ by'[i] = NoIntent
        /\ \A j \in IntentId \ {i} : by'[j] = by[j]
        /\ preview' = preview
    BY <1>1 DEF Redeem, StoreInv, TypeOK
  <1>3. CASE ~Good(i, t, p)
    BY <1>2, <1>3, DroppingCancels DEF Redeem
  <1>4. CASE Good(i, t, p)
    <2>1. i \in Held
      BY <1>1, <1>4, GoodMeans
    <2>2. now \in Int
      BY IntentsAssumption DEF StoreInv, TypeOK
    <2>3. paid'[i] # NoIntent /\ \A j \in IntentId \ {i} : paid'[j] = paid[j]
      BY <1>1, <1>4, <2>2, RecordsAreNotAbsent DEF Redeem, StoreInv, TypeOK
    <2>4. ASSUME NEW j \in IntentId
          PROVE  Stage'[j] = IF j = i THEN "spent" ELSE Stage[j]
      <3>1. j # i => (j \in Held' <=> j \in Held)
        BY <1>2 DEF Held
      <3>2. i \notin Held'
        BY <1>2 DEF Held
      <3>3. j \in Held => paid[j] = NoIntent /\ preview[j] # NoIntent
        BY DEF StoreInv, NoSecondTry, Consistent
      <3> QED
        BY <3>1, <3>2, <3>3, <1>1, <1>2, <2>3, StageOf, StageOfPrime
    <2>5. Stage' = [Stage EXCEPT ![i] = "spent"]
      BY <2>4, StageIsAFunction
    <2>6. Stage[i] = "live"
      BY <1>1, <2>1, StageOf
    <2>7. Promise!Spend(i)
      BY <2>5, <2>6 DEF Promise!Spend, Promise!Live, Promise!Spent
    <2> QED
      BY <1>1, <2>7 DEF Promise!Next
  <1> QED
    BY <1>3, <1>4

\* The store keeps the promise of a permit.
THEOREM StoreKeepsPromise == Spec => KeepsPromise
  <1>1. Init => Promise!Init
    BY DEF Init, Promise!Init, Promise!Unused, Stage, Held
  <1>2. StoreInv /\ StoreInv' /\ [Next]_vars => [Promise!Next]_Stage
    <2> SUFFICES ASSUME StoreInv, StoreInv', [Next]_vars
                 PROVE  Promise!Next \/ Stage' = Stage
      OBVIOUS
    <2>1. ASSUME NEW i \in IntentId, NEW t \in Tool, NEW p \in Fingerprint,
                 Issue(i, t, p)
          PROVE  Promise!Next
      BY <2>1, IssueHandsOut
    <2>2. ASSUME NEW i \in Known, NEW t \in Tool, NEW p \in Fingerprint,
                 Verify(i, t, p)
          PROVE  Promise!Next
      BY <2>2, DroppingCancels DEF Verify, StoreInv, TypeOK
    <2>3. ASSUME NEW i \in Known, NEW t \in Tool, NEW p \in Fingerprint,
                 Redeem(i, t, p)
          PROVE  Promise!Next
      BY <2>3, RedeemSpends
    <2>4. CASE VoidAll
      BY <2>4, DroppingCancels DEF VoidAll
    <2>5. CASE Outstanding
      BY <2>5, DroppingCancels DEF Outstanding, Swept
    <2>6. CASE Tick \/ UNCHANGED vars
      <3>1. by' = by /\ paid' = paid /\ preview' = preview
        BY <2>6 DEF Tick, vars
      <3>2. Held' = Held
        BY <3>1 DEF Held
      <3> QED
        BY <3>1, <3>2 DEF Stage
    <2> QED
      BY <2>1, <2>2, <2>3, <2>4, <2>5, <2>6 DEF Next
  <1> QED
    BY <1>1, <1>2, StoreInvariance, PTL DEF Spec, KeepsPromise, Promise!Spec

-----------------------------------------------------------------------------
-----------------------------------------------------------------------------
(* Buckets: for every table of prices and bursts.                          *)

\* A full bucket holds at least one token.
LEMMA CapacityType ==
    ASSUME NEW c \in Rated
    PROVE  Capacity(c) \in Nat /\ Price[c] \in Nat \ {0}
  BY LimiterAssumption DEF Capacity

LEMMA RefilledBounds ==
    ASSUME LimiterTypeOK, NEW c \in Rated
    PROVE  /\ Refilled(c) \in Nat
           /\ Refilled(c) <= Capacity(c)
           /\ c \in seen => Refilled(c) <= tokens[c] + (clock - last[c])
  <1>1. Capacity(c) \in Nat
    BY CapacityType
  <1>2. tokens[c] \in Nat /\ tokens[c] <= Capacity(c)
    BY <1>1 DEF LimiterTypeOK
  <1>3. clock \in Nat /\ last[c] \in Nat /\ last[c] <= clock
    BY LimiterAssumption DEF LimiterTypeOK
  <1> HIDE DEF Capacity
  <1> QED
    BY <1>1, <1>2, <1>3 DEF Refilled, AtMost

\* A bucket no call has touched has let nothing through.
Untouched == \A c \in Rated \ seen : admitted[c] = 0

BucketInv == LimiterTypeOK /\ Untouched /\ NothingEarnedTwice

\* The types of one bucket's figures, for the arithmetic below.
LEMMA BucketTypes ==
    ASSUME LimiterTypeOK, NEW c \in Rated
    PROVE  /\ clock \in Nat
           /\ tokens[c] \in Nat /\ tokens[c] <= Capacity(c)
           /\ last[c] \in Nat /\ last[c] <= clock
           /\ admitted[c] \in Nat
           /\ mark[c] \in Nat /\ mark[c] <= clock
  <1>1. Capacity(c) \in Nat
    BY CapacityType
  <1> QED
    BY <1>1, LimiterAssumption DEF LimiterTypeOK

LEMMA AllowTypes ==
    ASSUME LimiterTypeOK, NEW c \in Capability, Allow(c)
    PROVE  LimiterTypeOK'
  <1>1. CASE c \notin Rated
    BY <1>1 DEF Allow, Admits, LimiterTypeOK, Capacity
  <1>2. CASE c \in Rated
    <2>1. /\ Refilled(c) \in Nat /\ Refilled(c) <= Capacity(c)
          /\ Capacity(c) \in Nat /\ Price[c] \in Nat \ {0}
      BY <1>2, RefilledBounds, CapacityType
    <2>2. /\ tokens' = [tokens EXCEPT ![c] = IF Admits(c) THEN Refilled(c) - Price[c]
                                             ELSE Refilled(c)]
          /\ last' = [last EXCEPT ![c] = clock] /\ seen' = seen \cup {c}
          /\ clock' = clock /\ mark' = mark
      BY <1>2 DEF Allow, Credit
    <2>3. tokens'[c] \in Nat /\ tokens'[c] <= Capacity(c)
      BY <1>2, <2>1, <2>2 DEF Admits, LimiterTypeOK
    <2>4. /\ tokens' \in [Rated -> Int]
          /\ \A d \in Rated : 0 <= tokens'[d] /\ tokens'[d] <= Capacity(d)
      <3>1. \A d \in Rated : d # c => tokens'[d] = tokens[d]
        BY <2>2 DEF LimiterTypeOK
      <3>2. tokens' \in [Rated -> Int]
        <4>1. Refilled(c) - Price[c] \in Int /\ Refilled(c) \in Int
          BY <2>1
        <4> QED
          BY <2>2, <4>1 DEF LimiterTypeOK
      <3>3. ASSUME NEW d \in Rated
            PROVE  0 <= tokens'[d] /\ tokens'[d] <= Capacity(d)
        BY <2>3, <3>1 DEF LimiterTypeOK
      <3> QED
        BY <3>2, <3>3
    <2>5. /\ admitted' \in [Rated -> Nat] /\ turnedAway' \in SUBSET Capability
      BY <1>2, <2>1 DEF Allow, LimiterTypeOK
    <2>6. last' \in [Rated -> 0..LastTick] /\ \A d \in Rated : last'[d] <= clock'
      <3>1. last'[c] = clock /\ \A d \in Rated : d # c => last'[d] = last[d]
        BY <1>2, <2>2 DEF LimiterTypeOK
      <3>2. clock \in Nat
        BY LimiterAssumption DEF LimiterTypeOK
      <3>3. last' \in [Rated -> 0..LastTick]
        BY <2>2 DEF LimiterTypeOK
      <3>4. ASSUME NEW d \in Rated
            PROVE  last'[d] <= clock'
        <4>1. CASE d = c
          BY <4>1, <2>2, <3>1, <3>2
        <4>2. CASE d # c
          BY <4>2, <2>2, <3>1 DEF LimiterTypeOK
        <4> QED
          BY <4>1, <4>2
      <3> QED
        BY <3>3, <3>4
    <2> QED
      BY <1>2, <2>2, <2>4, <2>5, <2>6 DEF LimiterTypeOK, Capacity
  <1> QED
    BY <1>1, <1>2

\* The type invariant holds of every behaviour of the limiter.
THEOREM BucketsKeepTypes == LimiterSpec => []LimiterTypeOK
  <1>1. LimiterInit => LimiterTypeOK
    <2>1. \A c \in Rated : Capacity(c) \in Nat
      BY CapacityType
    <2> QED
      BY <2>1, LimiterAssumption DEF LimiterInit, LimiterTypeOK
  <1>2. LimiterTypeOK /\ [LimiterNext]_limiterVars => LimiterTypeOK'
    <2> SUFFICES ASSUME LimiterTypeOK, [LimiterNext]_limiterVars
                 PROVE  LimiterTypeOK'
      OBVIOUS
    <2>1. ASSUME NEW c \in Capability, Allow(c)
          PROVE  LimiterTypeOK'
      BY <2>1, AllowTypes
    <2>2. CASE Pass
      BY <2>2, LimiterAssumption DEF Pass, LimiterTypeOK, Capacity
    <2>3. ASSUME NEW c \in Rated, StartCount(c)
          PROVE  LimiterTypeOK'
      BY <2>3, LimiterAssumption DEF StartCount, LimiterTypeOK, Capacity
    <2>4. CASE UNCHANGED limiterVars
      BY <2>4 DEF limiterVars, LimiterTypeOK, Capacity
    <2> QED
      BY <2>1, <2>2, <2>3, <2>4 DEF LimiterNext
  <1> QED
    BY <1>1, <1>2, PTL DEF LimiterSpec

-----------------------------------------------------------------------------
\* What a call does to the buckets: the one it asks pays at most what it holds,
\* the others are as they were.
LEMMA AllowKeeps ==
    ASSUME BucketInv, LimiterTypeOK', NEW c \in Capability, Allow(c)
    PROVE  BucketInv'
  <1> USE DEF BucketInv
  <1>1. CASE c \notin Rated
    BY <1>1 DEF Allow, Admits, Untouched, NothingEarnedTwice, Available, Refilled,
                Capacity, AtMost
  <1>2. CASE c \in Rated
    <2>1. /\ clock' = clock /\ mark' = mark /\ seen' = seen \cup {c}
          /\ last'[c] = clock
          /\ \A d \in Rated : d # c => /\ tokens'[d] = tokens[d] /\ last'[d] = last[d]
                                       /\ admitted'[d] = admitted[d]
      BY <1>2 DEF Allow, Credit, LimiterTypeOK
    <2>2. \/ tokens'[c] = Refilled(c) /\ admitted'[c] = admitted[c]
          \/ /\ tokens'[c] = Refilled(c) - Price[c]
             /\ admitted'[c] = admitted[c] + Price[c]
      BY <1>2 DEF Allow, Credit, LimiterTypeOK
    <2>3. ASSUME NEW d \in Rated, d # c
          PROVE  admitted'[d] + Available(d)' <= Capacity(d) + (clock' - mark'[d])
      <3>1. Available(d)' = Available(d)
        BY <2>1, <2>3 DEF Available, Refilled, Capacity, AtMost
      <3> QED
        BY <2>1, <2>3, <3>1 DEF NothingEarnedTwice
    <2>4. admitted'[c] + Available(c)' <= Capacity(c) + (clock' - mark'[c])
      <3>1. /\ Refilled(c) \in Nat /\ Price[c] \in Nat /\ admitted[c] \in Nat
            /\ Capacity(c) \in Nat /\ clock \in Nat /\ mark[c] \in Nat
        BY <1>2, RefilledBounds, CapacityType, BucketTypes
      <3>2. Refilled(c)' <= tokens'[c] /\ Refilled(c)' \in Nat
        <4>1. LimiterTypeOK' => /\ tokens'[c] \in Int
                         /\ 0 <= tokens'[c] /\ tokens'[c] <= Capacity(c)
          BY <1>2 DEF LimiterTypeOK, Capacity
        <4>2. c \in seen' /\ clock' = clock /\ last'[c] = clock
          BY <2>1
        <4>3. Refilled(c)' = AtMost(Capacity(c), tokens'[c] + (clock - clock))
          BY <4>2 DEF Refilled, Capacity, AtMost
        <4> HIDE DEF Capacity
        <4> QED
          BY <3>1, <4>1, <4>3 DEF AtMost
      <3>3. admitted[c] + Refilled(c) <= Capacity(c) + (clock - mark[c])
        BY <1>2 DEF NothingEarnedTwice, Available
      <3>4. Available(c)' = Refilled(c)'
        BY <1>2 DEF Available
      <3>5. tokens'[c] + admitted'[c] = Refilled(c) + admitted[c]
              /\ admitted'[c] \in Nat /\ tokens'[c] \in Int
        BY <2>2, <3>1
      <3> HIDE DEF Capacity
      <3> QED
        BY <2>1, <3>1, <3>2, <3>3, <3>4, <3>5
    <2>5. NothingEarnedTwice'
      BY <2>3, <2>4 DEF NothingEarnedTwice, Capacity
    <2>6. Untouched'
      BY <2>1 DEF Untouched
    <2> QED
      BY <2>5, <2>6
  <1> QED
    BY <1>1, <1>2

\* A tick earns a bucket at most one part.
LEMMA PassKeeps ==
    ASSUME BucketInv, LimiterTypeOK', Pass
    PROVE  BucketInv'
  <1> USE DEF BucketInv
  <1>1. ASSUME NEW c \in Rated
        PROVE  admitted'[c] + Available(c)' <= Capacity(c) + (clock' - mark'[c])
    <2>1. /\ clock \in Nat /\ tokens[c] \in Nat /\ last[c] \in Nat
          /\ admitted[c] \in Nat /\ mark[c] \in Nat /\ Capacity(c) \in Nat
      BY BucketTypes, CapacityType
    <2>2. /\ clock' = clock + 1 /\ seen' = seen /\ tokens'[c] = tokens[c]
          /\ last'[c] = last[c] /\ admitted'[c] = admitted[c] /\ mark'[c] = mark[c]
      BY DEF Pass
    <2>3. admitted[c] + Refilled(c) <= Capacity(c) + (clock - mark[c])
      BY DEF NothingEarnedTwice, Available
    <2>4. Available(c)' = IF c \notin seen THEN Capacity(c)
                          ELSE AtMost(Capacity(c), tokens[c] + ((clock + 1) - last[c]))
      BY <2>2 DEF Available, Refilled, Capacity, AtMost
    <2> HIDE DEF Capacity
    <2> QED
      BY <2>1, <2>2, <2>3, <2>4 DEF Refilled, AtMost
  <1>2. NothingEarnedTwice'
    BY <1>1 DEF NothingEarnedTwice, Capacity
  <1>3. Untouched'
    BY DEF Pass, Untouched
  <1> QED
    BY <1>2, <1>3

\* Starting to count again is always safe: a bucket never holds more than its burst.
LEMMA CountKeeps ==
    ASSUME BucketInv, LimiterTypeOK', NEW c \in Rated, StartCount(c)
    PROVE  BucketInv'
  <1> USE DEF BucketInv
  <1>1. /\ clock' = clock /\ seen' = seen /\ tokens' = tokens /\ last' = last
        /\ mark'[c] = clock /\ admitted'[c] = 0
        /\ \A d \in Rated : d # c => mark'[d] = mark[d] /\ admitted'[d] = admitted[d]
    BY DEF StartCount, LimiterTypeOK
  <1>2. \A d \in Rated : Available(d)' = Refilled(d)
    BY <1>1 DEF Available, Refilled, Capacity, AtMost
  <1>3. ASSUME NEW d \in Rated
        PROVE  admitted'[d] + Available(d)' <= Capacity(d) + (clock' - mark'[d])
    <2>1. /\ Refilled(d) \in Nat /\ Refilled(d) <= Capacity(d)
          /\ Capacity(d) \in Nat /\ clock \in Nat
      BY RefilledBounds, CapacityType, BucketTypes
    <2>2. admitted[d] + Refilled(d) <= Capacity(d) + (clock - mark[d])
      BY DEF NothingEarnedTwice, Available
    <2> HIDE DEF Capacity
    <2> QED
      BY <1>1, <1>2, <2>1, <2>2
  <1>4. NothingEarnedTwice'
    BY <1>3 DEF NothingEarnedTwice, Capacity
  <1>5. Untouched'
    BY <1>1 DEF Untouched
  <1> QED
    BY <1>4, <1>5

\* The inductive invariant.
THEOREM BucketInvariance == LimiterSpec => []BucketInv
  <1>1. LimiterInit => BucketInv
    <2> SUFFICES ASSUME LimiterInit
                 PROVE  BucketInv
      OBVIOUS
    <2>1. LimiterTypeOK
      <3>1. \A c \in Rated : Capacity(c) \in Nat
        BY CapacityType
      <3> QED
        BY <3>1, LimiterAssumption DEF LimiterInit, LimiterTypeOK
    <2>2. \A c \in Rated : Capacity(c) \in Nat
      BY CapacityType
    <2>3. NothingEarnedTwice
      BY <2>2 DEF LimiterInit, NothingEarnedTwice, Available, Refilled
    <2> QED
      BY <2>1, <2>3 DEF LimiterInit, BucketInv, Untouched
  <1>2. BucketInv /\ LimiterTypeOK' /\ [LimiterNext]_limiterVars => BucketInv'
    <2> SUFFICES ASSUME BucketInv, LimiterTypeOK', [LimiterNext]_limiterVars
                 PROVE  BucketInv'
      OBVIOUS
    <2>1. ASSUME NEW c \in Capability, Allow(c)
          PROVE  BucketInv'
      BY <2>1, AllowKeeps
    <2>2. CASE Pass
      BY <2>2, PassKeeps
    <2>3. ASSUME NEW c \in Rated, StartCount(c)
          PROVE  BucketInv'
      BY <2>3, CountKeeps
    <2>4. CASE UNCHANGED limiterVars
      BY <2>4 DEF limiterVars, BucketInv, LimiterTypeOK, Untouched, NothingEarnedTwice, Available,
                  Refilled, Capacity, AtMost
    <2> QED
      BY <2>1, <2>2, <2>3, <2>4 DEF LimiterNext
  <1> QED
    BY <1>1, <1>2, BucketsKeepTypes, PTL DEF LimiterSpec

\* The rate limit itself: over any span, at most a burst and what the span earns.
THEOREM RateIsBounded == LimiterSpec => []RateBound
  <1>1. BucketInv => RateBound
    <2> SUFFICES ASSUME BucketInv, NEW c \in Rated
                 PROVE  admitted[c] <= Capacity(c) + (clock - mark[c])
      BY DEF RateBound
    <2>1. Refilled(c) \in Nat /\ Capacity(c) \in Nat
      BY RefilledBounds, CapacityType DEF BucketInv
    <2>2. clock \in Nat /\ admitted[c] \in Nat /\ mark[c] \in Nat
      BY BucketTypes DEF BucketInv
    <2>3. admitted[c] + Refilled(c) <= Capacity(c) + (clock - mark[c])
      BY DEF BucketInv, NothingEarnedTwice, Available
    <2> HIDE DEF Capacity
    <2> QED
      BY <2>1, <2>2, <2>3
  <1> QED
    BY <1>1, BucketInvariance, PTL

-----------------------------------------------------------------------------
\* A call a full price after the last one finds a token, in a bucket that earned one
\* since or that was full.
LEMMA ThePatientAreAdmitted ==
    ASSUME LimiterTypeOK, NEW c \in Rated, clock - last[c] >= Price[c]
    PROVE  Admits(c)
  <1>1. Price[c] \in Nat \ {0} /\ Burst[c] \in Nat \ {0}
    BY LimiterAssumption
  <1>2. Capacity(c) \in Nat /\ Price[c] <= Capacity(c)
    BY <1>1 DEF Capacity
  <1>3. clock \in Nat /\ tokens[c] \in Nat /\ last[c] \in Nat
    BY BucketTypes
  <1> HIDE DEF Capacity
  <1> QED
    BY <1>1, <1>2, <1>3 DEF Admits, Refilled, AtMost

\* An agent that keeps to the sustained rate never meets the limit (limit.go, Allow).
THEOREM ThePatientAreNeverRefused == LimiterSpec => NeverRefusesThePatient
  <1>1. LimiterTypeOK =>
          \A c \in Rated : Allow(c) /\ clock - last[c] >= Price[c] => turnedAway' = {}
    BY ThePatientAreAdmitted DEF Allow
  <1> QED
    BY BucketsKeepTypes, <1>1, PTL DEF NeverRefusesThePatient, LimiterSpec

-----------------------------------------------------------------------------
-----------------------------------------------------------------------------
(* The rules: for every combination of switches, environment and file.     *)
(*                                                                         *)
(* Most of it needs no state: what holds of Decide for every grant and     *)
(* every send holds in every state whose variables have their types.       *)

LEMMA SendType == PolicyTypeOK => TheSend \in Sends /\ switches \in Switches
  BY DEF PolicyTypeOK, TheSend, Sends, Environments, ValidEnv, ReviewOf, Reviews

\* The scale is one: distinct verdicts are of distinct strictness.
LEMMA Scale ==
    /\ Strictness(Proceed) = 0 /\ Strictness(AskAnywhere) = 1
    /\ Strictness(AskInWindow) = 2 /\ Strictness(AskAsDanger) = 3
    /\ Strictness(Deny) = 4
  BY DEF Strictness, Proceed, AskAnywhere, AskInWindow, AskAsDanger, Deny

\* What Decide answers, gate by gate: the strictest.
LEMMA StrictestGate ==
    ASSUME NEW g \in Switches, NEW s \in Sends
    PROVE  LET verdict == Strictness(Decide(g, s))
           IN  verdict \in Gates(g, s) /\ \A gate \in Gates(g, s) : gate <= verdict
  <1>1. s.env.agents \in AgentPolicies /\ s.env.confirmBeforeSend \in BOOLEAN
    BY DEF Sends, Environments
  <1>2. CASE "run" \notin g.held \/ s.env.agents = "deny"
    <2>1. Decide(g, s) = Deny
      BY <1>2 DEF Decide, EffectivePolicy
    <2> QED
      BY <1>2, <2>1, Scale DEF Gates
  <1>3. CASE "run" \in g.held /\ s.env.agents # "deny"
    <2>1. CASE s.review = "unreviewed"
      <3>1. Decide(g, s) = IF s.usesSecret THEN AskAsDanger ELSE AskInWindow
        BY <1>3, <2>1 DEF Decide, EffectivePolicy
      <3> QED
        BY <1>3, <2>1, <3>1, Scale DEF Gates
    <2>2. CASE s.review # "unreviewed" /\ s.env.confirmBeforeSend
      <3>1. Decide(g, s) = AskInWindow
        BY <1>3, <2>2 DEF Decide, EffectivePolicy
      <3> QED
        BY <1>3, <2>2, <3>1, Scale DEF Gates
    <2>3. CASE s.review # "unreviewed" /\ ~s.env.confirmBeforeSend
      <3>1. CASE s.env.agents \in {"unset", "confirm"} \/ g.alwaysConfirmSends
        <4>1. Decide(g, s) = AskAnywhere
          BY <1>3, <2>3, <3>1 DEF Decide, EffectivePolicy
        <4> QED
          BY <1>3, <2>3, <3>1, <4>1, Scale DEF Gates
      <3>2. CASE s.env.agents = "allow" /\ ~g.alwaysConfirmSends
        <4>1. Decide(g, s) = Proceed
          BY <1>3, <2>3, <3>2 DEF Decide, EffectivePolicy
        <4> QED
          BY <1>3, <2>3, <3>2, <4>1, Scale DEF Gates
      <3> QED
        BY <1>1, <1>3, <3>1, <3>2 DEF AgentPolicies
    <2> QED
      BY <2>1, <2>2, <2>3
  <1> QED
    BY <1>2, <1>3

-----------------------------------------------------------------------------
LEMMA PolicyInitTypes == PolicyInit => PolicyTypeOK
  BY DEF PolicyInit, PolicyTypeOK, Switches, NoEnvironment, AgentPolicies, GitStatuses

LEMMA PolicyNextTypes == PolicyTypeOK /\ [PolicyNext]_policyVars => PolicyTypeOK'
  <1> SUFFICES ASSUME PolicyTypeOK, [PolicyNext]_policyVars PROVE PolicyTypeOK'
    OBVIOUS
  <1>1. ASSUME NEW c \in Capabilities, Grant(c) \/ Withdraw(c)
        PROVE  PolicyTypeOK'
    BY <1>1 DEF Grant, Withdraw, PolicyTypeOK, Switches
  <1>2. ASSUME NEW on \in BOOLEAN, SetAlwaysConfirmSends(on)
        PROVE  PolicyTypeOK'
    BY <1>2 DEF SetAlwaysConfirmSends, PolicyTypeOK, Switches
  <1>3. ASSUME NEW m \in [agents : AgentPolicies, confirmBeforeSend : BOOLEAN],
               SaveEnvironment(m)
        PROVE  PolicyTypeOK'
    BY <1>3 DEF SaveEnvironment, ValidEnv, PolicyTypeOK
  <1>4. CASE SelectNone
    BY <1>4 DEF SelectNone, NoEnvironment, AgentPolicies, PolicyTypeOK
  <1>5. CASE Edit \/ StageFile \/ Commit
    BY <1>5 DEF Edit, StageFile, Commit, GitStatuses, PolicyTypeOK
  <1>6. CASE UNCHANGED policyVars
    BY <1>6 DEF policyVars, PolicyTypeOK
  <1> QED
    BY <1>1, <1>2, <1>3, <1>4, <1>5, <1>6 DEF PolicyNext

\* The switches, the environment and the file's status keep their types, and an
\* environment that both allows and confirms is never the current one.
THEOREM PolicyKeepsTypes == PolicySpec => []PolicyTypeOK
  BY PolicyInitTypes, PolicyNextTypes, PTL DEF PolicySpec

\* The strictest gate decides, in every state: no order of the clauses of Decide can
\* let one gate cancel another (policy.go, Decide).
THEOREM TheStrictestGateDecides == PolicySpec => []StrictestGateDecides
  <1>1. PolicyTypeOK => StrictestGateDecides
    BY SendType, StrictestGate DEF StrictestGateDecides
  <1> QED
    BY PolicyKeepsTypes, <1>1, PTL

\* A file that git does not report clean is never sent without a person in the window
\* (policy.go, ReviewOf and Decide).
THEOREM UncommittedIsNeverQuiet == PolicySpec => []OnlyCommittedGoesQuietly
  <1>1. PolicyTypeOK => OnlyCommittedGoesQuietly
    <2> SUFFICES ASSUME PolicyTypeOK, status \in {"modified", "staged", "untracked"}
                 PROVE  /\ Decide(switches, TheSend).outcome # "proceed"
                        /\ Decide(switches, TheSend).surface # "either"
      BY DEF OnlyCommittedGoesQuietly
    <2>1. TheSend.review = "unreviewed"
      BY DEF TheSend, ReviewOf
    <2>2. Decide(switches, TheSend) \in {Deny, AskAsDanger, AskInWindow}
      BY <2>1 DEF Decide
    <2> QED
      BY <2>2 DEF Deny, AskAsDanger, AskInWindow
  <1> QED
    BY PolicyKeepsTypes, <1>1, PTL

\* Both together: whatever is granted, set, selected or edited, the strictest gate decides
\* and what nobody committed is not sent without a person in the window.
THEOREM GatesAlwaysHold == PolicySpec => []GatesHold
  BY TheStrictestGateDecides, UncommittedIsNeverQuiet, PTL DEF GatesHold

-----------------------------------------------------------------------------
(* Tightening.                                                             *)

\* Whoever meets every gate that another meets is answered at least as strictly.
LEMMA MoreGatesAreStricter ==
    ASSUME NEW g \in Switches, NEW h \in Switches, NEW s \in Sends, NEW t \in Sends,
           Gates(g, s) \subseteq Gates(h, t)
    PROVE  Strictness(Decide(h, t)) >= Strictness(Decide(g, s))
  <1>1. Strictness(Decide(g, s)) \in Gates(g, s)
    BY StrictestGate
  <1>2. \A gate \in Gates(h, t) : gate <= Strictness(Decide(h, t))
    BY StrictestGate
  <1>3. Strictness(Decide(g, s)) \in Int /\ Strictness(Decide(h, t)) \in Int
    BY DEF Strictness
  <1> QED
    BY <1>1, <1>2, <1>3

\* Fewer switches, or the machine's own setting, add gates and take none away.
LEMMA TighterSwitchesAddGates ==
    ASSUME NEW g \in Switches, NEW h \in Switches, NEW s \in Sends,
           h.held \subseteq g.held, g.alwaysConfirmSends => h.alwaysConfirmSends
    PROVE  Gates(g, s) \subseteq Gates(h, s)
  BY DEF Gates

\* So does editing a file that was clean.
LEMMA EditingAddsGates ==
    ASSUME NEW g \in Switches, NEW s \in Sends, NEW t \in Sends,
           s.env = t.env, s.review = "reviewed"
    PROVE  Gates(g, s) \subseteq Gates(g, t)
  BY DEF Gates

\* A session write asks the same of everybody who may ask at all.
LEMMA TighterSessionWrites ==
    ASSUME NEW g, NEW h, NEW m, h.held \subseteq g.held
    PROVE  Strictness(DecideSessionWrite(h, m)) >= Strictness(DecideSessionWrite(g, m))
  BY Scale DEF DecideSessionWrite

\* Withdrawing a capability, tightening the machine's setting or editing a clean file
\* never makes a send or a session write easier (policy.go, Decide).
THEOREM TighteningIsMonotone == PolicySpec => TighteningNeverLoosens
  <1>1. PolicyTypeOK /\ PolicyTypeOK' => NeverLooser
    <2> SUFFICES ASSUME PolicyTypeOK, PolicyTypeOK', TighterStep
                 PROVE  /\ Strictness(Decide(switches', TheSend'))
                             >= Strictness(Decide(switches, TheSend))
                        /\ Strictness(DecideSessionWrite(switches', env'))
                             >= Strictness(DecideSessionWrite(switches, env))
      BY DEF NeverLooser
    <2>1. /\ TheSend \in Sends /\ switches \in Switches
          /\ TheSend' \in Sends /\ switches' \in Switches
      <3>1. TheSend' \in Sends /\ switches' \in Switches
        BY DEF PolicyTypeOK, TheSend, Sends, Environments, ValidEnv, ReviewOf, Reviews
      <3> QED
        BY <3>1, SendType
    <2>2. CASE /\ UNCHANGED <<env, usesSecret, status>>
               /\ switches'.held \subseteq switches.held
               /\ switches.alwaysConfirmSends => switches'.alwaysConfirmSends
      <3>1. TheSend' = TheSend
        BY <2>2 DEF TheSend
      <3>2. Strictness(Decide(switches', TheSend)) >= Strictness(Decide(switches, TheSend))
        BY <2>1, <2>2, TighterSwitchesAddGates, MoreGatesAreStricter
      <3> QED
        BY <2>2, <3>1, <3>2, TighterSessionWrites
    <2>3. CASE UNCHANGED <<switches, env, usesSecret>> /\ status = "clean"
      <3>1. TheSend.review = "reviewed" /\ TheSend.env = TheSend'.env
        BY <2>3 DEF TheSend, ReviewOf
      <3>2. Strictness(Decide(switches, TheSend')) >= Strictness(Decide(switches, TheSend))
        BY <2>1, <3>1, EditingAddsGates, MoreGatesAreStricter
      <3> QED
        BY <2>3, <3>2, TighterSessionWrites
    <2> QED
      BY <2>2, <2>3 DEF TighterStep
  <1> QED
    BY PolicyKeepsTypes, <1>1, PTL DEF TighteningNeverLoosens, PolicySpec
=============================================================================
