--------------------------- MODULE SendPaneProofs ---------------------------
(***************************************************************************)
(* That the response pane and the store of responses agree (SendPane, on   *)
(* Sends), proved for any number of sends, collections and gestures, any   *)
(* limits of the store and any sizes of what it holds.                     *)
(*                                                                         *)
(* Four facts are kept, each of a concern of its own: what has reported an *)
(* end has ended, the newest response is the last in the store, a          *)
(* collection in which nothing is under way as it changes leaves nothing,  *)
(* and a pane that knows no id is alone with its send.                     *)
(***************************************************************************)
EXTENDS SendPane, SequenceTheorems, WellFoundedInduction, TLAPS

\* What was reported as ended is done, and so is what the pane shows.
Ended ==
    /\ \A n \in DOMAIN events :
          /\ events[n].kind # "opened" => events[n].id \in Id
          /\ events[n].kind \in {"complete", "error", "cancelled"} => step[events[n].id] = "done"
    /\ pane.meta # 0 => step[pane.meta] = "done"

\* While no send was under way at a change of collection, those under way are of the open
\* one, none is while it changes, and a change that comes to its last step has either
\* reset the store or changes nothing.
Apart ==
    ~crossed =>
        /\ closing # <<>> => UnderWay = {}
        /\ \A i \in UnderWay : owner[i] = open
        /\ closing = <<"open">> => target = open \/ (order = <<>> /\ vars = {} /\ jar = NoCollection)

Unsettled1(i) == step[i] \notin {"unmade", "refused", "done"}

\* A pane that knows no id can learn none but its send's.
Alone ==
    ~mixed /\ pane # NoPane =>
        /\ pane.at \in {0, newest} /\ pane.meta \in {0, newest}
        /\ pane.at = 0 =>
              /\ pane.meta = 0 /\ newest # 0
              /\ \A i \in Id : Unsettled1(i) => i = newest
              /\ asked \subseteq {newest}
              /\ \A n \in DOMAIN events : events[n].kind # "opened" => events[n].id = newest

IInv ==
    /\ TypeOK
    /\ Ended
    /\ NewestIsHeld
    /\ Apart /\ NothingLeftBehind
    /\ Alone

-----------------------------------------------------------------------------
(* What the operators do.                                                  *)

Entries == [id : Id, cost : Sizes]

\* What is evicted is a beginning of what is held, and never the newest: there is a
\* longest rest that fits, since the newest alone always does.
LEMMA EvictsTheOldest ==
    ASSUME NEW s \in Seq(Entries), s # <<>>
    PROVE  \E k \in 1..Len(s) : Evicted(s) = SubSeq(s, k, Len(s))
  <1> DEFINE fits(n) == LET rest == SubSeq(s, n, Len(s)) IN
                        \/ Len(rest) = 1
                        \/ Len(rest) <= MaxKeptResponses /\ Footprint(rest) <= MaxKeptBytes
             Fitting == {n \in 1..Len(s) : fits(n)}
             Below == OpToRel(<, Nat)
  <1>1. Len(s) \in 1..Len(s) /\ Len(SubSeq(s, Len(s), Len(s))) = 1
    OBVIOUS
  <1>2. Len(s) \in Fitting
    BY <1>1
  <1>3. Fitting \subseteq Nat
    OBVIOUS
  <1> HIDE DEF Fitting
  <1>4. PICK k \in Fitting : \A m \in Fitting : ~(<<m, k>> \in Below)
    <2>1. Fitting # {}
      BY <1>2
    <2> QED
      BY <1>3, <2>1, NatLessThanWellFounded, WFMin
  <1>5. \A m \in Fitting : ~(m < k)
    BY <1>3, <1>4 DEF OpToRel
  <1>6. k \in 1..Len(s) /\ fits(k) /\ \A m \in 1..(k - 1) : ~fits(m)
    <2>1. k \in 1..Len(s) /\ fits(k)
      BY DEF Fitting
    <2>2. ASSUME NEW m \in 1..(k - 1), fits(m)
          PROVE  FALSE
      <3>1. m \in 1..Len(s) /\ m < k
        BY <2>1
      <3>2. m \in Fitting
        BY <2>2, <3>1 DEF Fitting
      <3> QED
        BY <1>5, <3>1, <3>2
    <2> QED
      BY <2>1, <2>2
  <1>7. DEFINE first == CHOOSE n \in 1..Len(s) : fits(n) /\ \A m \in 1..(n - 1) : ~fits(m)
  <1>8. first \in 1..Len(s)
    <2> HIDE DEF fits
    <2> QED
      BY <1>6
  <1>9. Evicted(s) = SubSeq(s, first, Len(s))
    BY DEF Evicted
  <1> QED
    BY <1>8, <1>9

LEMMA EvictionKeepsTheNewest ==
    ASSUME NEW s \in Seq(Entries), NEW e \in Entries
    PROVE  \E t \in Seq(Entries) :
           /\ t = Evicted(Append(s, e)) /\ t # <<>> /\ t[Len(t)] = e
           /\ \A n \in DOMAIN t : t[n] = e \/ \E m \in DOMAIN s : t[n] = s[m]
  <1> PICK a : a = Append(s, e)
    OBVIOUS
  <1>1. a \in Seq(Entries) /\ a # <<>> /\ Len(a) = Len(s) + 1 /\ Len(s) \in Nat
    OBVIOUS
  <1>2. PICK k \in 1..Len(a) : Evicted(a) = SubSeq(a, k, Len(a))
    BY <1>1, EvictsTheOldest
  <1> PICK t : t = SubSeq(a, k, Len(a))
    OBVIOUS
  <1>3. /\ t \in Seq(Entries) /\ Len(t) = Len(a) - k + 1 /\ DOMAIN t = 1..Len(t)
        /\ \A n \in 1..Len(t) : t[n] = a[k + n - 1]
    BY <1>1
  <1>4. t # <<>> /\ t[Len(t)] = e
    <2>1. Len(t) \in 1..Len(t) /\ k + Len(t) - 1 = Len(s) + 1
      BY <1>1, <1>3
    <2>2. t[Len(t)] = a[Len(s) + 1]
      BY <1>3, <2>1
    <2>3. a[Len(s) + 1] = e
      OBVIOUS
    <2>4. t # <<>>
      <3>1. \A w : w = <<>> => Len(w) = 0
        OBVIOUS
      <3>2. Len(t) # 0
        BY <2>1
      <3> QED
        BY <3>1, <3>2, Zenon
    <2> QED
      BY <2>2, <2>3, <2>4
  <1>5. ASSUME NEW n \in DOMAIN t
        PROVE  t[n] = e \/ \E m \in DOMAIN s : t[n] = s[m]
    <2>1. k + n - 1 \in 1..(Len(s) + 1) /\ t[n] = a[k + n - 1]
      BY <1>1, <1>3
    <2>2. \A m \in 1..(Len(s) + 1) : a[m] = e \/ (m \in DOMAIN s /\ a[m] = s[m])
      OBVIOUS
    <2> QED
      BY <2>1, <2>2
  <1> QED
    BY <1>2, <1>3, <1>4, <1>5

\* What is left of a sequence without its k-th element.
LEMMA WithoutOne ==
    ASSUME NEW S, NEW s \in Seq(S), NEW k \in 1..Len(s)
    PROVE  /\ RemoveAt(s, k) \in Seq(S) /\ Len(RemoveAt(s, k)) = Len(s) - 1
           /\ \A n \in 1..(Len(s) - 1) : RemoveAt(s, k)[n] = IF n < k THEN s[n] ELSE s[n + 1]
  <1> DEFINE f == SubSeq(s, 1, k - 1)
             g == SubSeq(s, k + 1, Len(s))
  <1>1. Len(s) \in Nat /\ k \in Nat /\ 1 <= k /\ k <= Len(s) /\ \A n \in 1..Len(s) : s[n] \in S
    OBVIOUS
  <1>2. /\ f \in Seq(S) /\ Len(f) = (IF 1 <= k - 1 THEN (k - 1) - 1 + 1 ELSE 0)
        /\ \A n \in 1..((k - 1) - 1 + 1) : f[n] = s[1 + n - 1]
    <2>1. 1 \in Int /\ k - 1 \in Int /\ \A n \in 1..(k - 1) : s[n] \in S
      BY <1>1
    <2> QED
      BY <2>1, SubSeqProperties
  <1>3. /\ g \in Seq(S) /\ Len(g) = (IF k + 1 <= Len(s) THEN Len(s) - (k + 1) + 1 ELSE 0)
        /\ \A n \in 1..(Len(s) - (k + 1) + 1) : g[n] = s[(k + 1) + n - 1]
    <2>1. k + 1 \in Int /\ Len(s) \in Int /\ \A n \in (k + 1)..Len(s) : s[n] \in S
      BY <1>1
    <2> QED
      BY <2>1, SubSeqProperties
  <1>4. RemoveAt(s, k) = f \o g
    BY DEF RemoveAt
  <1> HIDE DEF f, g
  <1>5. Len(f) = k - 1 /\ Len(g) = Len(s) - k
    BY <1>1, <1>2, <1>3
  <1>6. /\ f \o g \in Seq(S) /\ Len(f \o g) = Len(f) + Len(g)
        /\ \A n \in 1..(Len(f) + Len(g)) : (f \o g)[n] = IF n <= Len(f) THEN f[n] ELSE g[n - Len(f)]
    BY <1>2, <1>3, ConcatProperties
  <1>7. ASSUME NEW n \in 1..(Len(s) - 1)
        PROVE  (f \o g)[n] = IF n < k THEN s[n] ELSE s[n + 1]
    <2>1. (f \o g)[n] = IF n <= k - 1 THEN f[n] ELSE g[n - (k - 1)]
      <3>1. n \in 1..(Len(f) + Len(g))
        BY <1>1, <1>5
      <3> QED
        BY <3>1, <1>5, <1>6
    <2>2. CASE n < k
      <3>1. n <= k - 1 /\ n \in 1..((k - 1) - 1 + 1) /\ 1 + n - 1 = n
        BY <1>1, <2>2
      <3> QED
        BY <2>1, <2>2, <3>1, <1>2
    <2>3. CASE ~(n < k)
      <3>1. ~(n <= k - 1) /\ n - (k - 1) \in 1..(Len(s) - (k + 1) + 1) /\ (k + 1) + (n - (k - 1)) - 1 = n + 1
        BY <1>1, <2>3
      <3> QED
        BY <2>1, <2>3, <3>1, <1>3
    <2> QED
      BY <2>2, <2>3
  <1>8. Len(f) + Len(g) = Len(s) - 1
    BY <1>1, <1>5
  <1> QED
    BY <1>4, <1>6, <1>7, <1>8

\* A response dropped takes nothing with it and leaves the newest where it is.
LEMMA DroppingKeepsTheRest ==
    ASSUME order \in Seq(Entries), NEW i \in Id
    PROVE  /\ Dropped(i) \in Seq(Entries)
           /\ \A n \in DOMAIN Dropped(i) : \E m \in DOMAIN order : Dropped(i)[n] = order[m]
           /\ order # <<>> /\ order[Len(order)].id # i =>
                 Dropped(i) # <<>> /\ Dropped(i)[Len(Dropped(i))] = order[Len(order)]
  <1> DEFINE places == {n \in DOMAIN order : order[n].id = i}
  <1>1. CASE places = {}
    <2>1. Dropped(i) = order
      BY <1>1 DEF Dropped
    <2> QED
      BY <2>1
  <1>2. CASE places # {}
    <2>1. PICK k \in DOMAIN order : order[k].id = i /\ Dropped(i) = RemoveAt(order, k)
      BY <1>2 DEF Dropped
    <2>2. k \in 1..Len(order) /\ Len(order) \in Nat
      OBVIOUS
    <2>3. /\ Dropped(i) \in Seq(Entries) /\ Len(Dropped(i)) = Len(order) - 1
          /\ \A n \in 1..(Len(order) - 1) : Dropped(i)[n] = IF n < k THEN order[n] ELSE order[n + 1]
      BY <2>1, <2>2, WithoutOne
    <2> HIDE DEF places
    <2>4. ASSUME NEW n \in DOMAIN Dropped(i)
          PROVE  \E m \in DOMAIN order : Dropped(i)[n] = order[m]
      <3>1. n \in 1..(Len(order) - 1)
        BY <2>3
      <3>2. n \in DOMAIN order /\ n + 1 \in DOMAIN order
        BY <3>1, <2>2
      <3> QED
        BY <3>1, <3>2, <2>3
    <2>5. ASSUME order[Len(order)].id # i
          PROVE  Dropped(i) # <<>> /\ Dropped(i)[Len(Dropped(i))] = order[Len(order)]
      <3>1. k # Len(order)
        BY <2>1, <2>5
      <3>2. Len(order) - 1 \in 1..(Len(order) - 1) /\ ~(Len(order) - 1 < k) /\ (Len(order) - 1) + 1 = Len(order)
        BY <2>2, <3>1
      <3>3. Len(Dropped(i)) # 0
        BY <2>3, <3>2
      <3> QED
        BY <2>3, <3>2, <3>3
    <2> QED
      BY <2>3, <2>4, <2>5
  <1> QED
    BY <1>1, <1>2

-----------------------------------------------------------------------------
(* The steps.                                                              *)

LEMMA Emitted ==
    ASSUME events \in Seq(Event), NEW e \in Event, Emit(e)
    PROVE  /\ events' \in Seq(Event)
           /\ \A n \in DOMAIN events' :
                 (n \in DOMAIN events /\ events'[n] = events[n]) \/ events'[n] = e
  BY DEF Emit

\* A send under way goes on, or ends: it adds nothing that is not its own.
LEMMA SendGoesOn ==
    ASSUME SendsAssumption, IInv, NEW i \in UnderWay, NEW s \in Steps,
           s \notin {"unmade", "called", "refused"}, Reach(i, s),
           UNCHANGED <<owner, changeVars, crossed, windowVars>>,
           inflight' \subseteq Id, cancelled' \subseteq inflight',
           order' \in Seq(Entries), \A n \in DOMAIN order' :
               order'[n].id = i \/ \E m \in DOMAIN order : order'[n] = order[m],
           vars' \subseteq vars \cup {owner[i]}, jar' \in {jar, owner[i]},
           last' \in 0..MaxSends, NewestIsHeld',
           \/ events' = events
           \/ \E e \in Event : /\ Emit(e) /\ e.id = i /\ e.kind # "opened"
                               /\ e.kind # "started" => s = "done"
    PROVE  IInv'
  <1>1. /\ i \in Id /\ step \in [Id -> Steps] /\ owner \in [Id -> Places]
        /\ step[i] \notin {"unmade", "called", "refused", "done"}
        /\ step' \in [Id -> Steps] /\ step'[i] = s /\ \A j \in Id : j # i => step'[j] = step[j]
        /\ owner[i] \in Places
    BY DEF IInv, TypeOK, ServiceTypeOK, UnderWay, Reach
  <1>2. /\ events' \in Seq(Event)
        /\ \A n \in DOMAIN events' :
              \/ n \in DOMAIN events /\ events'[n] = events[n]
              \/ /\ events'[n].id = i /\ events'[n].kind # "opened"
                 /\ events'[n].kind # "started" => s = "done"
    <2>1. CASE events' = events
      BY <2>1 DEF IInv, TypeOK, ServiceTypeOK
    <2>2. CASE \E e \in Event : /\ Emit(e) /\ e.id = i /\ e.kind # "opened"
                                /\ e.kind # "started" => s = "done"
      BY <2>2, Emitted DEF IInv, TypeOK, ServiceTypeOK
    <2> QED
      BY <2>1, <2>2
  <1>3. TypeOK'
    BY <1>1, <1>2 DEF IInv, TypeOK, ServiceTypeOK, changeVars, windowVars, Entries
  <1>4. Ended'
    <2>1. ASSUME NEW n \in DOMAIN events'
          PROVE  /\ events'[n].kind # "opened" => events'[n].id \in Id
                 /\ events'[n].kind \in {"complete", "error", "cancelled"} => step'[events'[n].id] = "done"
      <3>1. CASE n \in DOMAIN events /\ events'[n] = events[n]
        BY <3>1, <1>1 DEF IInv, Ended
      <3>2. CASE /\ events'[n].id = i /\ events'[n].kind # "opened"
                 /\ events'[n].kind # "started" => s = "done"
        BY <3>2, <1>1
      <3> QED
        BY <1>2, <3>1, <3>2
    <2>2. pane'.meta # 0 => step'[pane'.meta] = "done"
      BY <1>1 DEF IInv, Ended, TypeOK, Id, windowVars
    <2> QED
      BY <2>1, <2>2 DEF Ended
  <1>5. UnderWay' \subseteq UnderWay
    BY <1>1 DEF UnderWay
  <1>6. Apart' /\ NothingLeftBehind'
    <2>1. SUFFICES ASSUME ~crossed
                   PROVE  Apart' /\ NothingLeftBehind'
      BY DEF Apart, NothingLeftBehind
    <2>2. closing = <<>> /\ owner[i] = open /\ \A j \in UnderWay : owner[j] = open
      BY <2>1 DEF IInv, Apart
    <2>3. Apart'
      BY <2>2, <1>5 DEF Apart, changeVars
    <2>4. ASSUME NEW j \in Held'
          PROVE  owner[j] = open
      <3>1. PICK n \in DOMAIN order' : j = order'[n].id
        BY DEF Held
      <3> QED
        BY <3>1, <2>1, <2>2 DEF IInv, NothingLeftBehind, Held
    <2> QED
      BY <2>1, <2>2, <2>3, <2>4 DEF IInv, NothingLeftBehind, changeVars
  <1>7. Alone'
    <2>1. SUFFICES ASSUME ~mixed, pane # NoPane
                   PROVE  Alone'
      BY DEF Alone, windowVars
    <2>2. CASE pane.at = 0
      <3>1. Unsettled1(i)
        BY <1>1 DEF Unsettled1
      <3>2. i = newest
        BY <2>1, <2>2, <3>1, <1>1 DEF IInv, Alone
      <3>3. \A j \in Id : Unsettled1(j)' => Unsettled1(j)
        BY <1>1 DEF Unsettled1
      <3> QED
        BY <2>1, <2>2, <3>2, <3>3, <1>2 DEF IInv, Alone, windowVars
    <2>3. CASE pane.at # 0
      BY <2>1, <2>3 DEF IInv, Alone, windowVars
    <2> QED
      BY <2>2, <2>3
  <1> QED
    BY <1>3, <1>4, <1>6, <1>7 DEF IInv

LEMMA EndGoesOn ==
    ASSUME SendsAssumption, IInv, NEW i \in UnderWay, NEW kind \in {"complete", "error", "cancelled"},
           End(i, Sent(kind, i)),
           UNCHANGED <<owner, order, changeVars, historyVars, windowVars>>,
           vars' \subseteq vars \cup {owner[i]}, jar' \in {jar, owner[i]}
    PROVE  IInv'
  <1>1. i \in Id /\ Id \subseteq 0..MaxSends
    BY DEF UnderWay, Id, SendsAssumption
  <1>2. Sent(kind, i) \in Event /\ Sent(kind, i).id = i /\ Sent(kind, i).kind = kind
    BY <1>1 DEF Sent, Event, Places
  <1>3. \E e \in Event : Emit(e) /\ e.id = i /\ e.kind # "opened" /\ (e.kind # "started" => "done" = "done")
    BY <1>2 DEF End
  <1>4. /\ inflight' \subseteq Id /\ cancelled' \subseteq inflight' /\ order \in Seq(Entries)
        /\ last' \in 0..MaxSends /\ crossed' = crossed
    BY DEF IInv, TypeOK, ServiceTypeOK, Entries, historyVars, End
  <1>5. NewestIsHeld'
    BY DEF IInv, NewestIsHeld, historyVars
  <1>6. Reach(i, "done") /\ "done" \in Steps
    BY DEF End, Steps
  <1>7. order' \in Seq(Entries) /\ \A n \in DOMAIN order' :
            order'[n].id = i \/ \E m \in DOMAIN order : order'[n] = order[m]
    BY <1>4
  <1> QED
    BY <1>3, <1>4, <1>5, <1>6, <1>7, SendGoesOn

LEMMA WorkPreserves ==
    ASSUME SendsAssumption, IInv, NEW i \in Id, Work(i)
    PROVE  IInv'
  <1> USE DEF Work
  <1>0. /\ order \in Seq(Entries) /\ inflight \subseteq Id /\ cancelled \subseteq inflight
        /\ last \in 0..MaxSends /\ Id \subseteq 0..MaxSends /\ NewestIsHeld
    BY DEF IInv, TypeOK, ServiceTypeOK, Entries, Id, SendsAssumption
  <1>1. ASSUME step[i] \notin {"unmade", "called", "refused", "done"}
        PROVE  i \in UnderWay
    BY <1>1 DEF UnderWay
  <1>2. UNCHANGED order => /\ order' \in Seq(Entries)
                           /\ \A n \in DOMAIN order' : \E m \in DOMAIN order : order'[n] = order[m]
    BY <1>0
  <1>3. UNCHANGED <<order, last>> => NewestIsHeld'
    BY <1>0 DEF NewestIsHeld
  <1>a. CASE Register(i)
    <2>1. /\ i \in UnderWay /\ Reach(i, "running") /\ "running" \in Steps
          /\ UNCHANGED <<owner, changeVars, crossed, windowVars>> /\ UNCHANGED <<order, last>>
          /\ vars' = vars /\ jar' = jar /\ events' = events
          /\ inflight' = inflight \cup {i} /\ cancelled' = cancelled
      BY <1>a, <1>1 DEF Register, Steps, storeVars, historyVars
    <2>2. inflight' \subseteq Id /\ cancelled' \subseteq inflight' /\ last' \in 0..MaxSends
      BY <2>1, <1>0
    <2> QED
      BY <2>1, <2>2, <1>2, <1>3, SendGoesOn
  <1>b. CASE Resolve(i)
    <2>1. i \in UnderWay
      BY <1>b, <1>1 DEF Resolve
    <2>2. CASE Fail(i)
      BY <2>1, <2>2, EndGoesOn DEF Fail, storeVars
    <2>3. CASE /\ vars' = vars \cup {owner[i]}
               /\ Reach(i, "resolved")
               /\ UNCHANGED <<owner, cancelVars, order, jar, changeVars, events, historyVars>>
      <3>1. /\ "resolved" \in Steps /\ inflight' \subseteq Id /\ cancelled' \subseteq inflight'
            /\ last' \in 0..MaxSends /\ UNCHANGED <<owner, changeVars, crossed, windowVars>>
            /\ UNCHANGED <<order, last, jar, events>>
        BY <2>3, <1>0 DEF Steps, cancelVars, historyVars
      <3> QED
        BY <3>1, <2>1, <2>3, <1>2, <1>3, SendGoesOn
    <2> QED
      BY <1>b, <2>2, <2>3 DEF Resolve
  <1>c. CASE Prepare(i)
    <2>1. i \in UnderWay
      BY <1>c, <1>1 DEF Prepare
    <2>2. CASE End(i, Sent("error", i))
      BY <1>c, <2>1, <2>2, EndGoesOn DEF Prepare
    <2>3. CASE Reach(i, "wire") /\ Emit(Sent("started", i)) /\ UNCHANGED cancelVars
      <3>1. Sent("started", i) \in Event /\ Sent("started", i).id = i /\ Sent("started", i).kind = "started"
        BY <1>0 DEF Sent, Event, Places
      <3>2. \E e \in Event : Emit(e) /\ e.id = i /\ e.kind # "opened" /\ (e.kind # "started" => "wire" = "done")
        BY <3>1, <2>3
      <3>3. /\ "wire" \in Steps /\ inflight' \subseteq Id /\ cancelled' \subseteq inflight'
            /\ last' \in 0..MaxSends /\ UNCHANGED <<owner, changeVars, crossed, windowVars>>
            /\ UNCHANGED <<order, last, vars>> /\ jar' = owner[i]
        BY <1>c, <2>3, <1>0 DEF Prepare, Steps, cancelVars, historyVars
      <3> QED
        BY <3>2, <3>3, <2>1, <2>3, <1>2, <1>3, SendGoesOn
    <2> QED
      BY <1>c, <2>2, <2>3 DEF Prepare
  <1>d. CASE Exchange(i)
    <2>1. i \in UnderWay /\ UNCHANGED <<owner, order, jar, changeVars, historyVars>>
      BY <1>d, <1>1 DEF Exchange
    <2>2. CASE Reach(i, "answered") /\ vars' = vars \cup {owner[i]} /\ UNCHANGED <<events, cancelVars>>
      <3>1. /\ "answered" \in Steps /\ inflight' \subseteq Id /\ cancelled' \subseteq inflight'
            /\ last' \in 0..MaxSends /\ UNCHANGED <<owner, changeVars, crossed, windowVars>>
            /\ UNCHANGED <<order, last, jar, events>>
        BY <2>1, <2>2, <1>0 DEF Steps, cancelVars, historyVars
      <3> QED
        BY <3>1, <2>1, <2>2, <1>2, <1>3, SendGoesOn
    <2>3. CASE End(i, Sent("error", i)) /\ UNCHANGED vars
      BY <2>1, <2>3, EndGoesOn
    <2>4. CASE End(i, Sent("cancelled", i)) /\ UNCHANGED vars
      BY <2>1, <2>4, EndGoesOn
    <2> QED
      BY <1>d, <2>2, <2>3, <2>4 DEF Exchange
  <1>e. CASE Keep(i)
    <2>1. /\ i \in UnderWay /\ Reach(i, "kept") /\ "kept" \in Steps
          /\ UNCHANGED <<owner, changeVars, crossed, windowVars>>
          /\ UNCHANGED <<vars, jar, events, inflight, cancelled>> /\ last' = i
      BY <1>e, <1>1 DEF Keep, Steps, cancelVars
    <2>2. PICK e \in Entries : e.id = i /\ order' = Evicted(Append(order, e))
      BY <1>e DEF Keep, Entries
    <2>3. PICK t \in Seq(Entries) :
             /\ t = Evicted(Append(order, e)) /\ t # <<>> /\ t[Len(t)] = e
             /\ \A n \in DOMAIN t : t[n] = e \/ \E m \in DOMAIN order : t[n] = order[m]
      BY <1>0, EvictionKeepsTheNewest
    <2>4. order' = t
      BY <2>2, <2>3
    <2>5. inflight' \subseteq Id /\ cancelled' \subseteq inflight' /\ last' \in 0..MaxSends
      BY <2>1, <1>0
    <2>6. /\ order' \in Seq(Entries) /\ NewestIsHeld'
          /\ \A n \in DOMAIN order' : order'[n].id = i \/ \E m \in DOMAIN order : order'[n] = order[m]
      BY <2>1, <2>2, <2>3, <2>4 DEF NewestIsHeld
    <2> QED
      BY <2>1, <2>5, <2>6, SendGoesOn
  <1>f. CASE Complete(i)
    <2>1. i \in UnderWay
      BY <1>f, <1>1 DEF Complete
    <2> QED
      BY <1>f, <2>1, EndGoesOn DEF Complete, storeVars
  <1>g. CASE Load(i)
    <2>0. /\ step \in [Id -> Steps] /\ owner \in [Id -> Places] /\ step[i] = "called" /\ open \in Places
          /\ UNCHANGED <<cancelVars, storeVars, changeVars, events, last, windowVars>>
      BY <1>g DEF Load, IInv, TypeOK, ServiceTypeOK
    <2>1. NewestIsHeld'
      BY <2>0, <1>3 DEF storeVars
    <2>2. CASE Reach(i, "refused") /\ UNCHANGED <<owner, crossed>>
      <3>1. /\ step' \in [Id -> Steps] /\ step'[i] = "refused"
            /\ \A j \in Id : j # i => step'[j] = step[j]
        BY <2>0, <2>2 DEF Reach, Steps
      <3>2. TypeOK'
        BY <2>0, <2>2, <3>1 DEF IInv, TypeOK, ServiceTypeOK, cancelVars, storeVars, changeVars, windowVars
      <3>3. Ended'
        BY <2>0, <3>1 DEF IInv, Ended, TypeOK, Id, windowVars
      <3>4. UnderWay' = UnderWay
        BY <2>0, <3>1 DEF UnderWay
      <3>5. Apart' /\ NothingLeftBehind'
        BY <2>0, <2>2, <3>4 DEF IInv, Apart, NothingLeftBehind, storeVars, changeVars, Held
      <3>6. Alone'
        BY <2>0, <3>1 DEF IInv, Alone, Unsettled1, windowVars
      <3> QED
        BY <2>1, <3>2, <3>3, <3>5, <3>6 DEF IInv
    <2>3. CASE /\ Reach(i, "loaded")
               /\ owner' = [owner EXCEPT ![i] = open]
               /\ crossed' = (crossed \/ closing # <<>>)
      <3>1. /\ step' \in [Id -> Steps] /\ step'[i] = "loaded"
            /\ \A j \in Id : j # i => step'[j] = step[j]
        BY <2>0, <2>3 DEF Reach, Steps
      <3>2. /\ owner' \in [Id -> Places] /\ owner'[i] = open
            /\ \A j \in Id : j # i => owner'[j] = owner[j]
        BY <2>0, <2>3
      <3>3. TypeOK'
        BY <2>0, <2>3, <3>1, <3>2 DEF IInv, TypeOK, ServiceTypeOK, cancelVars, storeVars, changeVars, windowVars
      <3>4. Ended'
        BY <2>0, <3>1 DEF IInv, Ended, TypeOK, Id, windowVars
      <3>5. UnderWay' \subseteq UnderWay \cup {i}
        BY <2>0, <3>1 DEF UnderWay
      <3>6. Held' = Held /\ Held \subseteq Id
        <4>1. ASSUME NEW n \in DOMAIN order
              PROVE  order[n].id \in Id
          <5>1. order[n] \in Entries
            BY <1>0
          <5> QED
            BY <5>1 DEF Entries
        <4> QED
          BY <2>0, <4>1 DEF Held, storeVars
      <3>7. Apart' /\ NothingLeftBehind'
        <4>1. SUFFICES ASSUME ~crossed'
                       PROVE  Apart' /\ NothingLeftBehind'
          BY DEF Apart, NothingLeftBehind
        <4>2. ~crossed /\ closing = <<>> /\ closing' = <<>> /\ open' = open
          BY <4>1, <2>0, <2>3 DEF changeVars
        <4>3. (\A j \in UnderWay : owner[j] = open) /\ (\A j \in Held : owner[j] = open)
          BY <4>2 DEF IInv, Apart, NothingLeftBehind
        <4>4. UnderWay \subseteq Id
          BY DEF UnderWay
        <4>5. (\A j \in UnderWay' : owner'[j] = open) /\ (\A j \in Held' : owner'[j] = open)
          BY <4>3, <4>4, <3>2, <3>5, <3>6
        <4> QED
          BY <4>2, <4>5, <2>0 DEF IInv, Apart, NothingLeftBehind, storeVars, changeVars
      <3>8. Alone'
        BY <2>0, <3>1 DEF IInv, Alone, Unsettled1, windowVars
      <3> QED
        BY <2>1, <3>3, <3>4, <3>7, <3>8 DEF IInv
    <2> QED
      BY <1>g, <2>2, <2>3 DEF Load
  <1> QED
    BY <1>a, <1>b, <1>c, <1>d, <1>e, <1>f, <1>g DEF Run

\* A send that is asked for disturbs none of the others.
LEMMA CallPreserves ==
    ASSUME SendsAssumption, IInv, NEW i \in Id, Press(i) \/ SendElsewhere(i)
    PROVE  IInv'
  <1>1. Call(i) /\ gestures' = gestures
    BY DEF Press, SendElsewhere
  <1>2. /\ step \in [Id -> Steps] /\ step[i] = "unmade"
        /\ step' \in [Id -> Steps] /\ step'[i] = "called" /\ \A j \in Id : j # i => step'[j] = step[j]
        /\ UNCHANGED <<owner, inflight, cancelled, order, jar, vars, open, closing, target, events, last, crossed>>
        /\ Id \subseteq 0..MaxSends
    BY <1>1 DEF Call, Reach, IInv, TypeOK, ServiceTypeOK, Steps, Id, SendsAssumption,
                cancelVars, storeVars, changeVars, historyVars
  <1>3. UnderWay' = UnderWay /\ Held' = Held
    BY <1>2 DEF UnderWay, Held
  <1>4. Apart' /\ NothingLeftBehind' /\ NewestIsHeld'
    BY <1>2, <1>3 DEF IInv, Apart, NothingLeftBehind, NewestIsHeld
  <1>5. ASSUME pane'.meta # 0 => step[pane'.meta] = "done" /\ pane'.meta \in Id
        PROVE  Ended'
    BY <1>2, <1>5 DEF IInv, Ended
  <1>a. CASE Press(i)
    <2>1. /\ pane' = Fresh /\ asked' = asked \cup {i} /\ newest' = i /\ mixed' = Unsettled
          /\ calls' = calls \cup Cancelling \cup Discarding
      BY <1>a DEF Press
    <2>2. calls' \subseteq [kind : {"cancel", "discard"}, id : Id]
      <3>1. pane.at # 0 => pane.at \in Id
        BY DEF IInv, TypeOK, Id
      <3>2. pane.meta # 0 => pane.meta \in Id
        BY DEF IInv, TypeOK, Id
      <3> QED
        BY <2>1, <3>1, <3>2 DEF IInv, TypeOK, Cancelling, Discarding
    <2>3. TypeOK'
      BY <2>1, <2>2, <1>1, <1>2 DEF IInv, TypeOK, ServiceTypeOK, Fresh, Unsettled
    <2>4. Ended'
      BY <2>1, <1>5 DEF Fresh
    <2>5. Alone'
      BY <2>1, <1>2 DEF IInv, TypeOK, Alone, Fresh, Unsettled, Unsettled1, Id, SendsAssumption
    <2> QED
      BY <2>3, <2>4, <2>5, <1>4 DEF IInv
  <1>b. CASE SendElsewhere(i)
    <2>1. /\ UNCHANGED <<pane, calls, asked, newest>>
          /\ mixed' = (mixed \/ (pane # NoPane /\ pane.at = 0))
      BY <1>b DEF SendElsewhere
    <2>2. TypeOK'
      BY <2>1, <1>1, <1>2 DEF IInv, TypeOK, ServiceTypeOK
    <2>3. Ended'
      BY <2>1, <1>5 DEF IInv, Ended, TypeOK, Id
    <2>4. Alone'
      BY <2>1 DEF IInv, Alone
    <2> QED
      BY <2>2, <2>3, <2>4, <1>4 DEF IInv
  <1> QED
    BY <1>a, <1>b

\* Where no event, no send and no question is added, and the pane knows no more than it
\* did, the pane and what has ended stay in step.
LEMMA WindowStays ==
    ASSUME IInv, UNCHANGED <<sendVars, newest, mixed>>, asked' \subseteq asked,
           UNCHANGED pane \/ pane' = NoPane,
           events' \in Seq(Event), \A n \in DOMAIN events' :
               (n \in DOMAIN events /\ events'[n] = events[n]) \/ events'[n].kind = "opened"
    PROVE  Ended' /\ Alone'
  <1>1. UNCHANGED <<step, owner>>
    BY DEF sendVars
  <1>2. Ended'
    BY <1>1 DEF IInv, Ended, NoPane
  <1>3. Alone'
    BY <1>1 DEF IInv, Alone, Unsettled1
  <1> QED
    BY <1>2, <1>3

LEMMA GesturePreserves ==
    ASSUME SendsAssumption, SendPaneAssumption, IInv,
           PressCancel \/ Forget \/ \E to \in Places : ChangeCollection(to)
    PROVE  IInv'
  <1>1. gestures' \in 0..MaxGestures
    BY DEF PressCancel, Forget, ChangeCollection, Gesture, IInv, TypeOK, SendPaneAssumption
  <1>2. pane.at # 0 => pane.at \in Id
    BY DEF IInv, TypeOK, Id
  <1>3. pane.meta # 0 => pane.meta \in Id
    BY DEF IInv, TypeOK, Id
  <1>4. ASSUME UNCHANGED <<serviceVars, asked, newest, mixed>>, UNCHANGED pane \/ pane' = NoPane,
               calls' \subseteq [kind : {"cancel", "discard"}, id : Id]
        PROVE  IInv'
    <2>1. UNCHANGED <<open, closing, target, step, owner, inflight, cancelled, order, jar, vars, events,
                      last, crossed>>
      BY <1>4 DEF serviceVars, sendVars, cancelVars, storeVars, changeVars, historyVars
    <2>2. Ended' /\ Alone'
      BY <1>4, <2>1, WindowStays DEF sendVars, IInv, TypeOK, ServiceTypeOK
    <2>3. TypeOK'
      BY <1>4, <1>1, <2>1 DEF IInv, TypeOK, ServiceTypeOK, NoPane, SendsAssumption
    <2>4. Apart' /\ NothingLeftBehind' /\ NewestIsHeld'
      BY <2>1 DEF IInv, Apart, NothingLeftBehind, NewestIsHeld, UnderWay, Held
    <2> QED
      BY <2>2, <2>3, <2>4 DEF IInv
  <1>a. CASE PressCancel
    <2>1. calls' \subseteq [kind : {"cancel", "discard"}, id : Id]
      BY <1>a, <1>2 DEF PressCancel, IInv, TypeOK
    <2> QED
      BY <1>a, <1>4, <2>1 DEF PressCancel
  <1>b. CASE Forget
    <2>1. calls' \subseteq [kind : {"cancel", "discard"}, id : Id]
      BY <1>b, <1>2, <1>3 DEF Forget, IInv, TypeOK, Cancelling, Discarding
    <2> QED
      BY <1>b, <1>4, <2>1 DEF Forget
  <1>c. ASSUME NEW to \in Places, ChangeCollection(to)
        PROVE  IInv'
    <2>1. /\ closing = <<>> /\ target' = to
          /\ closing' = IF to = open /\ to # NoCollection
                        THEN <<"open">> ELSE <<"cancel", "reset", "open">>
          /\ crossed' = (crossed \/ UnderWay # {})
          /\ UNCHANGED <<open, step, owner, inflight, cancelled, order, jar, vars, events, last>>
          /\ UNCHANGED <<pane, calls, asked, newest, mixed>>
      BY <1>c DEF ChangeCollection, Change, sendVars, cancelVars, storeVars
    <2>2. Ended' /\ Alone'
      BY <2>1, WindowStays DEF sendVars, IInv, TypeOK, ServiceTypeOK
    <2>3. TypeOK'
      BY <2>1, <1>1 DEF IInv, TypeOK, ServiceTypeOK
    <2>4. UnderWay' = UnderWay /\ Held' = Held
      BY <2>1 DEF UnderWay, Held
    <2>5. NothingLeftBehind' /\ NewestIsHeld'
      BY <2>1, <2>4 DEF IInv, NothingLeftBehind, NewestIsHeld
    <2>6. closing' = <<"open">> => to = open
      <3>1. <<"cancel", "reset", "open">> # <<"open">>
        OBVIOUS
      <3> QED
        BY <2>1, <3>1
    <2>7. Apart'
      BY <2>1, <2>4, <2>6 DEF Apart
    <2> QED
      BY <2>2, <2>3, <2>5, <2>7 DEF IInv
  <1> QED
    BY <1>a, <1>b, <1>c

LEMMA DeliverPreserves ==
    ASSUME SendsAssumption, IInv, Deliver
    PROVE  IInv'
  <1>0. /\ order \in Seq(Entries) /\ inflight \subseteq Id /\ cancelled \subseteq inflight
        /\ last \in 0..MaxSends /\ events \in Seq(Event)
    BY DEF IInv, TypeOK, ServiceTypeOK, Entries
  <1>a. ASSUME NEW i \in Id, ServeCancel(i)
        PROVE  IInv'
    <2>1. /\ UNCHANGED <<step, owner, inflight, order, jar, vars, open, closing, target, events, last, crossed>>
          /\ UNCHANGED <<pane, asked, gestures, newest, mixed>>
          /\ calls' \subseteq calls /\ cancelled' = cancelled \cup ({i} \cap inflight)
      BY <1>a DEF ServeCancel, Cancel, sendVars, storeVars, changeVars, historyVars
    <2>2. Ended' /\ Alone'
      BY <1>0, <2>1, WindowStays DEF sendVars
    <2>3. TypeOK'
      BY <2>1 DEF IInv, TypeOK, ServiceTypeOK
    <2>4. Apart' /\ NothingLeftBehind' /\ NewestIsHeld'
      BY <2>1 DEF IInv, Apart, NothingLeftBehind, NewestIsHeld, UnderWay, Held
    <2> QED
      BY <2>2, <2>3, <2>4 DEF IInv
  <1>b. ASSUME NEW i \in Id, ServeDiscard(i)
        PROVE  IInv'
    <2>1. /\ UNCHANGED <<step, owner, inflight, cancelled, jar, vars, open, closing, target, events, crossed>>
          /\ UNCHANGED <<pane, asked, gestures, newest, mixed>>
          /\ calls' \subseteq calls /\ order' = Dropped(i) /\ last' = IF last = i THEN 0 ELSE last
      BY <1>b DEF ServeDiscard, Discard, sendVars, cancelVars, changeVars
    <2>2. Ended' /\ Alone'
      BY <1>0, <2>1, WindowStays DEF sendVars
    <2>3. /\ order' \in Seq(Entries)
          /\ \A n \in DOMAIN order' : \E m \in DOMAIN order : order'[n] = order[m]
          /\ order # <<>> /\ order[Len(order)].id # i => order' # <<>> /\ order'[Len(order')] = order[Len(order)]
      BY <1>0, <2>1, DroppingKeepsTheRest
    <2>4. last' \in 0..MaxSends
      BY <1>0, <2>1 DEF SendsAssumption
    <2>5. TypeOK'
      BY <2>1, <2>3, <2>4 DEF IInv, TypeOK, ServiceTypeOK, Entries
    <2>6. NewestIsHeld'
      BY <2>1, <2>3 DEF IInv, NewestIsHeld
    <2>7. Held' \subseteq Held
      BY <2>3 DEF Held
    <2>8. NothingLeftBehind'
      BY <2>1, <2>7 DEF IInv, NothingLeftBehind
    <2>9. order = <<>> => order' = <<>>
      <3>1. order = <<>> => DOMAIN order = {}
        OBVIOUS
      <3>2. order' # <<>> => 1 \in DOMAIN order'
        BY <2>3
      <3> QED
        BY <2>3, <3>1, <3>2
    <2>10. Apart'
      BY <2>1, <2>9 DEF IInv, Apart, UnderWay
    <2> QED
      BY <2>2, <2>5, <2>6, <2>8, <2>10 DEF IInv
  <1>c. ASSUME NEW i \in Id, TakeAnswer(i) \/ TakeRefusal(i)
        PROVE  IInv'
    <2>1. /\ UNCHANGED <<step, owner, inflight, cancelled, order, jar, vars, open, closing, target, events,
                         last, crossed>>
          /\ UNCHANGED <<calls, gestures, newest, mixed>>
          /\ i \in asked /\ asked' = asked \ {i}
      BY <1>c DEF TakeAnswer, TakeRefusal, serviceVars, sendVars, cancelVars, storeVars, changeVars, historyVars
    <2>2. Apart' /\ NothingLeftBehind' /\ NewestIsHeld'
      BY <2>1 DEF IInv, Apart, NothingLeftBehind, NewestIsHeld, UnderWay, Held
    <2>3. /\ pane' \in [phase : {"absent", "in-flight", "complete", "failed", "cancelled"},
                        at : 0..MaxSends, meta : 0..MaxSends]
          /\ pane'.meta = pane.meta
          /\ pane = NoPane => pane' = NoPane
          /\ pane # NoPane => pane'.at = pane.at \/ (pane.at = 0 /\ pane'.at = i)
      BY <1>c DEF TakeAnswer, TakeRefusal, IInv, TypeOK, Id
    <2>4. TypeOK'
      BY <2>1, <2>3 DEF IInv, TypeOK, ServiceTypeOK
    <2>5. Ended'
      BY <2>1, <2>3 DEF IInv, Ended
    <2>6. Alone'
      <3>1. SUFFICES ASSUME ~mixed, pane # NoPane
                     PROVE  Alone'
        BY <2>1, <2>3 DEF Alone
      <3>2. CASE pane.at = 0
        <4>1. i = newest /\ pane.meta = 0
          BY <2>1, <3>1, <3>2 DEF IInv, Alone
        <4> QED
          BY <2>1, <2>3, <3>1, <3>2, <4>1 DEF IInv, Alone, Unsettled1
      <3>3. CASE pane.at # 0
        BY <2>1, <2>3, <3>1, <3>3 DEF IInv, Alone
      <3> QED
        BY <3>2, <3>3
    <2> QED
      BY <2>2, <2>4, <2>5, <2>6 DEF IInv
  <1>d. CASE TakeEvent
    <2>1. /\ UNCHANGED <<step, owner, inflight, cancelled, order, jar, vars, open, closing, target, last, crossed>>
          /\ UNCHANGED <<calls, asked, gestures, newest, mixed>>
          /\ events # <<>> /\ events' = Tail(events) /\ pane' = Redrawn(Head(events))
      BY <1>d DEF TakeEvent, sendVars, cancelVars, storeVars, changeVars, historyVars
    <2>2. Apart' /\ NothingLeftBehind' /\ NewestIsHeld'
      BY <2>1 DEF IInv, Apart, NothingLeftBehind, NewestIsHeld, UnderWay, Held
    <2>3. /\ events' \in Seq(Event) /\ \A n \in DOMAIN events' : n + 1 \in DOMAIN events /\ events'[n] = events[n + 1]
      BY <1>0, <2>1
    <2>4. PICK e \in Event : 1 \in DOMAIN events /\ e = events[1] /\ e = Head(events)
      BY <1>0, <2>1
    <2>5. e.kind # "opened" => /\ e.id \in Id
                               /\ e.kind \in {"complete", "error", "cancelled"} => step[e.id] = "done"
      BY <2>4 DEF IInv, Ended
    <2>6. /\ \A n \in DOMAIN events' :
                /\ events'[n].kind # "opened" => events'[n].id \in Id
                /\ events'[n].kind \in {"complete", "error", "cancelled"} => step'[events'[n].id] = "done"
      BY <2>1, <2>3 DEF IInv, Ended
    <2>7. \/ pane' = pane
          \/ pane' = NoPane
          \/ /\ pane # NoPane /\ pane.at \in {0, e.id} /\ e.kind # "opened"
             /\ pane'.at = e.id /\ pane'.meta \in {0, pane.meta, e.id}
             /\ pane'.meta = e.id => e.kind = "complete" \/ pane.meta = e.id
             /\ pane' \in [phase : {"absent", "in-flight", "complete", "failed", "cancelled"},
                           at : 0..MaxSends, meta : 0..MaxSends]
      <3>1. e.kind \in {"started", "complete", "error", "cancelled", "opened"}
        BY DEF Event
      <3>2. CASE e.kind = "opened"
        BY <2>1, <2>4, <3>2 DEF Redrawn
      <3>3. CASE e.kind # "opened" /\ ~Accepts(e.id)
        BY <2>1, <2>4, <3>3 DEF Redrawn
      <3>4. CASE e.kind # "opened" /\ Accepts(e.id)
        <4>1. pane' = Applied(e)
          BY <2>1, <2>4, <3>4 DEF Redrawn
        <4>2. e.id \in 0..MaxSends /\ 0 \in 0..MaxSends /\ e.id # 0
          BY <2>5, <3>4 DEF Id, SendsAssumption
        <4>3. pane \in [phase : {"absent", "in-flight", "complete", "failed", "cancelled"},
                        at : 0..MaxSends, meta : 0..MaxSends]
          BY DEF IInv, TypeOK
        <4>4. CASE e.kind = "started"
          BY <4>1, <4>2, <4>3, <4>4, <3>4 DEF Applied, Accepts
        <4>5. CASE e.kind = "complete"
          BY <4>1, <4>2, <4>3, <4>5, <3>4 DEF Applied, Accepts
        <4>6. CASE e.kind = "error"
          BY <4>1, <4>2, <4>3, <4>6, <3>4 DEF Applied, Accepts
        <4>7. CASE e.kind = "cancelled"
          BY <4>1, <4>2, <4>3, <4>7, <3>4 DEF Applied, Accepts
        <4> QED
          BY <3>1, <3>4, <4>4, <4>5, <4>6, <4>7
      <3> QED
        BY <3>2, <3>3, <3>4
    <2>8. TypeOK'
      BY <2>1, <2>3, <2>7 DEF IInv, TypeOK, ServiceTypeOK, NoPane, SendsAssumption
    <2>9. Ended'
      <3>1. pane'.meta # 0 => step'[pane'.meta] = "done"
        BY <2>1, <2>5, <2>7 DEF IInv, Ended, NoPane
      <3> QED
        BY <2>6, <3>1 DEF Ended
    <2>10. Alone'
      <3>1. SUFFICES ASSUME ~mixed, pane # NoPane, pane' # NoPane
                     PROVE  Alone'
        BY <2>1, <2>7 DEF Alone
      <3>2. CASE pane' = pane
        BY <2>1, <2>3, <3>1, <3>2 DEF IInv, Alone, Unsettled1
      <3>3. CASE pane' # pane
        <4>1. /\ pane.at \in {0, e.id} /\ e.kind # "opened"
              /\ pane'.at = e.id /\ pane'.meta \in {0, pane.meta, e.id}
          BY <2>7, <3>1, <3>3
        <4>2. e.id # 0
          BY <2>5, <4>1 DEF Id
        <4>3. e.id = newest
          BY <2>4, <3>1, <4>1, <4>2 DEF IInv, Alone
        <4> QED
          BY <2>1, <3>1, <4>1, <4>2, <4>3 DEF IInv, Alone
      <3> QED
        BY <3>2, <3>3
    <2> QED
      BY <2>2, <2>8, <2>9, <2>10 DEF IInv
  <1> QED
    BY <1>a, <1>b, <1>c, <1>d DEF Deliver

\* A change of collection goes on: it stops the sends, empties the store, and then the other
\* collection is the open one.
LEMMA ChangePreserves ==
    ASSUME SendsAssumption, IInv, ChangeOn
    PROVE  IInv'
  <1>0. /\ inflight \subseteq Id /\ cancelled \subseteq inflight /\ events \in Seq(Event)
        /\ closing \in {<<>>, <<"open">>, <<"reset", "open">>, <<"cancel", "reset", "open">>}
        /\ target \in Places /\ NoCollection \in Places
        /\ UNCHANGED windowVars
    BY DEF IInv, TypeOK, ServiceTypeOK, ChangeOn, Places
  <1>1. /\ NextOfChange("cancel") => closing # <<>> /\ closing' = <<"reset", "open">>
        /\ NextOfChange("reset") => closing # <<>> /\ closing' = <<"open">>
        /\ NextOfChange("open") => closing = <<"open">> /\ closing' = <<>>
    <2>1. CASE closing = <<>>
      BY <2>1 DEF NextOfChange
    <2>2. CASE closing = <<"open">>
      BY <2>2 DEF NextOfChange
    <2>3. CASE closing = <<"reset", "open">>
      <3>1. Head(closing) = "reset" /\ Tail(closing) = <<"open">>
        BY <2>3
      <3> QED
        BY <2>3, <3>1 DEF NextOfChange
    <2>4. CASE closing = <<"cancel", "reset", "open">>
      <3>1. Head(closing) = "cancel" /\ Tail(closing) = <<"reset", "open">>
        BY <2>4
      <3> QED
        BY <2>4, <3>1 DEF NextOfChange
    <2> QED
      BY <1>0, <2>1, <2>2, <2>3, <2>4
  <1>2. <<"reset", "open">> # <<"open">> /\ <<"reset", "open">> # <<>> /\ <<"open">> # <<>>
    OBVIOUS
  <1>a. CASE CancelAll
    <2>1. /\ UNCHANGED <<open, target, step, owner, inflight, order, jar, vars, events, last, crossed>>
          /\ closing # <<>> /\ closing' = <<"reset", "open">> /\ cancelled' = cancelled \cup inflight
          /\ UNCHANGED <<pane, calls, asked, gestures, newest, mixed>>
      BY <1>a, <1>0, <1>1 DEF CancelAll, sendVars, storeVars, historyVars, windowVars
    <2>2. Ended' /\ Alone'
      BY <1>0, <2>1, WindowStays DEF sendVars
    <2>3. TypeOK'
      BY <2>1 DEF IInv, TypeOK, ServiceTypeOK
    <2>4. Apart' /\ NothingLeftBehind' /\ NewestIsHeld'
      BY <2>1, <1>2 DEF IInv, Apart, NothingLeftBehind, NewestIsHeld, UnderWay, Held
    <2> QED
      BY <2>2, <2>3, <2>4 DEF IInv
  <1>b. CASE ResetStore
    <2>1. /\ UNCHANGED <<open, target, step, owner, inflight, cancelled, events, crossed>>
          /\ closing # <<>> /\ closing' = <<"open">>
          /\ jar' = NoCollection /\ order' = <<>> /\ vars' = {} /\ last' = 0
          /\ UNCHANGED <<pane, calls, asked, gestures, newest, mixed>>
      BY <1>b, <1>0, <1>1 DEF ResetStore, sendVars, cancelVars, windowVars
    <2>2. Ended' /\ Alone'
      BY <1>0, <2>1, WindowStays DEF sendVars
    <2>3. TypeOK'
      BY <2>1, <1>0 DEF IInv, TypeOK, ServiceTypeOK, SendsAssumption
    <2>4. Held' = {}
      BY <2>1 DEF Held
    <2>5. Apart' /\ NothingLeftBehind' /\ NewestIsHeld'
      BY <2>1, <2>4, <1>2 DEF IInv, Apart, NothingLeftBehind, NewestIsHeld, UnderWay
    <2> QED
      BY <2>2, <2>3, <2>5 DEF IInv
  <1>c. CASE MakeCurrent
    <2>1. /\ UNCHANGED <<step, owner, inflight, cancelled, order, jar, vars, last, crossed>>
          /\ closing = <<"open">> /\ closing' = <<>> /\ open' = target /\ target' = NoCollection
          /\ Emit(Opened(target))
          /\ UNCHANGED <<pane, calls, asked, gestures, newest, mixed>>
      BY <1>c, <1>0, <1>1 DEF MakeCurrent, sendVars, cancelVars, storeVars, historyVars, windowVars
    <2>2. Opened(target) \in Event /\ Opened(target).kind = "opened"
      BY <1>0 DEF Opened, Event, SendsAssumption
    <2>3. /\ events' \in Seq(Event)
          /\ \A n \in DOMAIN events' :
                (n \in DOMAIN events /\ events'[n] = events[n]) \/ events'[n] = Opened(target)
      BY <1>0, <2>1, <2>2, Emitted
    <2>4. Ended' /\ Alone'
      BY <2>1, <2>2, <2>3, WindowStays DEF sendVars
    <2>5. TypeOK'
      BY <1>0, <2>1, <2>3 DEF IInv, TypeOK, ServiceTypeOK
    <2>6. NewestIsHeld' /\ UnderWay' = UnderWay /\ Held' = Held
      BY <2>1 DEF IInv, NewestIsHeld, UnderWay, Held
    <2>7. ASSUME ~crossed
          PROVE  /\ UnderWay = {}
                 /\ target = open \/ (Held = {} /\ vars = {} /\ jar = NoCollection)
      <3>1. order = <<>> => Held = {}
        BY DEF Held
      <3> QED
        BY <2>1, <2>7, <1>2, <3>1 DEF IInv, Apart
    <2>8. Apart' /\ NothingLeftBehind'
      BY <2>1, <2>6, <2>7, <1>2 DEF IInv, Apart, NothingLeftBehind
    <2> QED
      BY <2>4, <2>5, <2>6, <2>8 DEF IInv
  <1> QED
    BY <1>a, <1>b, <1>c DEF ChangeOn, ContinueChange

-----------------------------------------------------------------------------
(* What follows.                                                           *)

\* What the pane and the store agree on is kept by every step of the sender and of the
\* window, with the facts above.
THEOREM Invariance == Spec => []IInv
  <1> USE SendsAssumption, SendPaneAssumption
  <1>1. Init => IInv
    <2>1. SUFFICES ASSUME Init
                   PROVE  IInv
      OBVIOUS
    <2>2. /\ open \in Places /\ target \in Places /\ NoCollection \in Places /\ 0 \in 0..MaxSends
          /\ 0 \in 0..MaxGestures
      BY <2>1 DEF Init, ServiceInit, Places, SendsAssumption, SendPaneAssumption
    <2>3. /\ events = <<>> /\ order = <<>> /\ DOMAIN events = {} /\ Held = {} /\ UnderWay = {}
      BY <2>1 DEF Init, ServiceInit, Held, UnderWay
    <2>4. TypeOK
      <3>1. step \in [Id -> Steps] /\ owner \in [Id -> Places]
        BY <2>1, <2>2 DEF Init, ServiceInit, Steps
      <3>2. order \in Seq([id : Id, cost : Sizes]) /\ events \in Seq(Event)
        BY <2>3
      <3>3. closing = <<>> /\ inflight = {} /\ cancelled = {} /\ vars = {} /\ jar \in Places
        BY <2>1, <2>2 DEF Init, ServiceInit
      <3>4. last = 0 /\ crossed = FALSE
        BY <2>1 DEF Init, ServiceInit
      <3>5. ServiceTypeOK
        BY <2>2, <3>1, <3>2, <3>3, <3>4 DEF ServiceTypeOK
      <3> QED
        BY <2>1, <2>2, <3>5 DEF Init, TypeOK, NoPane
    <2>5. Ended /\ NewestIsHeld /\ Apart /\ NothingLeftBehind /\ Alone
      BY <2>1, <2>3 DEF Init, ServiceInit, Ended, NewestIsHeld, Apart, NothingLeftBehind, Alone, NoPane
    <2> QED
      BY <2>4, <2>5 DEF IInv
  <1>2. IInv /\ [Next]_allVars => IInv'
    <2>1. SUFFICES ASSUME IInv, [Next]_allVars
                   PROVE  IInv'
      OBVIOUS
    <2>2. CASE Next
      BY <2>1, <2>2, CallPreserves, GesturePreserves, WorkPreserves, ChangePreserves, DeliverPreserves DEF Next
    <2>3. CASE UNCHANGED allVars
      <3>1. /\ UNCHANGED <<open, closing, target, step, owner, inflight, cancelled, order, jar, vars, events,
                           last, crossed>>
            /\ UNCHANGED <<pane, calls, asked, gestures, newest, mixed>>
        BY <2>3 DEF allVars, serviceVars, windowVars, sendVars, cancelVars, storeVars, changeVars, historyVars
      <3>2. TypeOK' /\ Ended' /\ Alone'
        BY <2>1, <3>1 DEF IInv, TypeOK, ServiceTypeOK, Ended, Alone, Unsettled1
      <3>3. Apart' /\ NothingLeftBehind' /\ NewestIsHeld'
        BY <2>1, <3>1 DEF IInv, Apart, NothingLeftBehind, NewestIsHeld, UnderWay, Held
      <3> QED
        BY <3>2, <3>3 DEF IInv
    <2> QED
      BY <2>1, <2>2, <2>3
  <1> QED
    BY <1>1, <1>2, PTL DEF Spec

\* Every variable of the sender and of the pane keeps its type: a cancelled send is one whose
\* cancel function is registered, and no call, question or event is of a send that is not.
THEOREM Typing == Spec => []TypeOK
  BY Invariance, PTL DEF IInv

\* The pane shows its own send where none was mixed with it, the store has the response that
\* the pane shows and the one that agents are told is the newest, and nothing of a collection
\* outlives it unless a send was under way (apply in send-context.tsx; keep, drop and
\* resetSession in send.go).
THEOREM PaneAndStoreGoTogether == Spec => []PaneAndStoreAgree
  <1>1. IInv => PaneAndStoreAgree
    <2>1. SUFFICES ASSUME IInv
                   PROVE  PaneAndStoreAgree
      OBVIOUS
    <2>2. PaneShowsItsOwnInTurn
      BY <2>1 DEF IInv, Alone, PaneShowsItsOwnInTurn, PaneShowsItsOwn
    <2>3. ShownIsHeld
      <3>1. last # 0 => Len(order) \in DOMAIN order
        BY <2>1 DEF IInv, NewestIsHeld, TypeOK, ServiceTypeOK
      <3> QED
        BY <2>1, <3>1 DEF IInv, Ended, NewestIsHeld, ShownIsHeld, Held
    <2> QED
      BY <2>1, <2>2, <2>3 DEF IInv, PaneAndStoreAgree, ResponsesAreHeld
  <1> QED
    BY <1>1, Invariance, PTL
=============================================================================
