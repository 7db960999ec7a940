--------------------------- MODULE WatchingProofs ---------------------------
(***************************************************************************)
(* That no write to the open collection goes unheard, and that the guard   *)
(* and the cache are of who and what they should be (Watching), proved for *)
(* any number of files, writers, opens and timer functions at once.        *)
(*                                                                         *)
(* A write that is owed to the window is always on somebody's way there:   *)
(* one of Otis' own with its writer, another editor's with the watcher of  *)
(* the open collection, which stays that watcher for as long as anything   *)
(* is owed.                                                                *)
(***************************************************************************)
EXTENDS Watching, FiniteSetTheorems, TLAPS

-----------------------------------------------------------------------------
(* The shape of the state.                                                 *)

AnyRoot == Root \cup {NoRoot}
Walks   == [root : AnyRoot, seen : [File -> Nat]]
Changes == SUBSET {"collection", "git"}
Writes  == File \X Nat \X BOOLEAN
Watches == [on : BOOLEAN, done : BOOLEAN, root : AnyRoot, events : SUBSET Writes,
            pending : Changes, timer : BOOLEAN]

Bare    == [at : {"taken", "reporting", "walking", "git"}, by : Watcher, change : Changes]
Walking == [at : {"walked", "caching"}, by : Watcher, change : Changes, walk : Walks]
Reports == {Idle} \cup Bare \cup Walking

Resting == [at : {"idle"}, left : Nat]
Busy    == [at : {"holding", "written", "letting go"}, left : Nat, file : File]
Telling == [at : {"walked"}, left : Nat, file : File, walk : Walks]
Writers == Resting \cup Busy \cup Telling

Reading  == [at : {"read", "stopped"}, walk : Walks]
Starting == [at : {"starting"}, as : Watcher, root : AnyRoot]
Started  == [at : {"started"}, as : Watcher]
Closing  == [at : {"closing"}]
Openers  == {Idle} \cup Reading \cup Starting \cup Started \cup Closing

Shape ==
    /\ disk \in [File -> Nat]
    /\ open \in AnyRoot /\ cached \in Walks
    /\ generation \in Nat /\ holder \in 0..MaxOpens
    /\ watch \in [Watcher -> Watches]
    /\ report \in [Slot -> Reports]
    /\ held \in [File -> Nat] /\ until \in [File -> BOOLEAN]
    /\ writer \in [Writer -> Writers]
    /\ opener \in [Opener -> Openers]
    /\ owed \subseteq Writes

-----------------------------------------------------------------------------
(* Opening and closing.                                                    *)

\* The calls whose generation is still to come.
ToCome == {o \in Opener : opener[o].at \in {"read", "stopped", "closing"}}

Launching == {o \in Opener : opener[o].at \in {"starting", "started"}}

\* There are watchers enough, each is started by one call, and that of the present
\* generation is, once on, on the collection that is open.
Generations ==
    /\ Begun <= MaxOpens
    /\ \A o \in Launching : opener[o].as <= generation
    /\ \A o, q \in Launching : opener[o].as = opener[q].as => o = q
    /\ \A o \in Opener : opener[o].at = "starting" =>
          /\ ~watch[opener[o].as].on
          /\ opener[o].as = generation => opener[o].root = open
    /\ \A w \in Watcher : w > generation => ~watch[w].on
    /\ generation > 0 /\ watch[generation].on => watch[generation].root = open

-----------------------------------------------------------------------------
(* What is owed is on its way.                                             *)

\* Otis' own write is still with a writer that will announce it.
WithItsWriter(e) ==
    \E o \in Writer :
        /\ writer[o].at \in {"written", "walked"} /\ writer[o].file = e[1]
        /\ writer[o].at = "walked" => writer[o].walk.seen[e[1]] >= e[2]

\* A report at work will tell of the write: it has yet to walk or saw it then, or it
\* has yet to read git's state.
Promises(r, e) ==
    /\ r # Idle
    /\ r.by = generation /\ Kind(e[1]) \in r.change
    /\ r.at \in {"walked", "caching"} /\ Kind(e[1]) = "collection" => r.walk.seen[e[1]] >= e[2]
    /\ r.at = "git" => Kind(e[1]) = "git"

WithTheWatcher(e) ==
    \/ e \in watch[generation].events
    \/ watch[generation].timer /\ Kind(e[1]) \in watch[generation].pending
    \/ \E n \in Slot : Promises(report[n], e)

Carried ==
    \A e \in owed :
        /\ Attended /\ e[2] <= disk[e[1]]
        /\ e[3] => WithItsWriter(e)
        /\ ~e[3] => WithTheWatcher(e)

IInv ==
    /\ Shape
    /\ Generations
    /\ Carried
    /\ GuardCoversEveryWriter
    /\ CachedWalkIsOfTheOpen

-----------------------------------------------------------------------------
(* Counting and frames.                                                    *)

LEMMA Finite ==
    /\ \A S \in SUBSET Writer : IsFiniteSet(S) /\ Cardinality(S) \in Nat
    /\ \A S \in SUBSET Opener : IsFiniteSet(S) /\ Cardinality(S) \in Nat
  BY FS_Subset, FS_CardinalityType, WatchingAssumption

\* There is a watcher of the present generation, unless nothing was ever opened.
LEMMA Numbered ==
    ASSUME Shape, Generations
    PROVE  generation \in 0..MaxOpens /\ ToCome \in SUBSET Opener
  <1>1. ToCome \in SUBSET Opener /\ Cardinality(ToCome) \in Nat
    BY Finite DEF ToCome
  <1>2. generation \in Nat /\ generation + Cardinality(ToCome) <= MaxOpens
    BY DEF Shape, Generations, Begun, ToCome
  <1> QED
    BY <1>1, <1>2, WatchingAssumption

\* Where no call of Open or Close goes on, their part stays as it was.
LEMMA GenerationsStay ==
    ASSUME Shape, Generations, UNCHANGED <<opener, generation, open>>,
           \A w \in Watcher : watch'[w].on = watch[w].on /\ watch'[w].root = watch[w].root
    PROVE  Generations'
  <1>1. /\ generation \in 0..MaxOpens
        /\ \A o \in Opener : opener[o].at = "starting" => opener[o].as \in Watcher
    BY Numbered DEF Shape, Openers, Idle, Reading, Starting, Started, Closing
  <1>2. Begun' = Begun /\ Launching' = Launching
    BY DEF Begun, Launching
  <1>3. /\ \A o \in Opener : opener'[o].at = "starting" =>
               /\ ~watch'[opener'[o].as].on
               /\ opener'[o].as = generation' => opener'[o].root = open'
        /\ \A w \in Watcher : w > generation' => ~watch'[w].on
        /\ \A o \in Launching' : opener'[o].as <= generation'
        /\ \A o, q \in Launching' : opener'[o].as = opener'[q].as => o = q
    BY <1>1, <1>2 DEF Generations
  <1>4. generation' > 0 /\ watch'[generation'].on => watch'[generation'].root = open'
    <2>1. generation > 0 => generation \in Watcher
      BY <1>1, WatchingAssumption DEF Watcher
    <2> QED
      BY <2>1 DEF Generations
  <1> QED
    BY <1>2, <1>3, <1>4 DEF Generations

\* Where no writer begins or ends, the guard is of the same ones.
LEMMA GuardStays ==
    ASSUME GuardCoversEveryWriter, UNCHANGED held,
           \A o \in Writer : /\ writer'[o].at = "idle" <=> writer[o].at = "idle"
                             /\ writer[o].at # "idle" => writer'[o].file = writer[o].file
    PROVE  GuardCoversEveryWriter'
  <1>1. ASSUME NEW p \in File
        PROVE  {o \in Writer : writer'[o].at # "idle" /\ writer'[o].file = p} =
                  {o \in Writer : writer[o].at # "idle" /\ writer[o].file = p}
    OBVIOUS
  <1> QED
    BY <1>1 DEF GuardCoversEveryWriter

\* What was owed and still is stays with the watcher whose queue, timer and reports
\* stay.
LEMMA CarriedStays ==
    ASSUME Carried, owed' \subseteq owed,
           UNCHANGED <<disk, open, generation, watch, report, writer>>
    PROVE  Carried'
  BY DEF Carried, Attended, Live, WithItsWriter, WithTheWatcher, Promises

-----------------------------------------------------------------------------
(* The disk and the guard.                                                 *)

\* A write is queued by the watcher of the open collection if it is owed at all; one of
\* Otis' own is with its writer.
LEMMA TouchKeeps ==
    ASSUME IInv, NEW p \in File, NEW own \in BOOLEAN, Touch(p, own),
           owed' = (IF Attended THEN owed \cup {<<p, disk[p] + 1, own>>} ELSE owed),
           UNCHANGED <<open, generation, report, opener>>,
           \A o \in Writer : writer[o].at \in {"written", "walked"} => writer'[o] = writer[o],
           own => \E o \in Writer : writer'[o].at = "written" /\ writer'[o].file = p
    PROVE  /\ disk' \in [File -> Nat] /\ watch' \in [Watcher -> Watches] /\ owed' \subseteq Writes
           /\ Generations' /\ Carried'
  <1> PICK e : e = <<p, disk[p] + 1, own>>
    OBVIOUS
  <1>0. generation \in 0..MaxOpens /\ (generation > 0 => generation \in Watcher)
    BY Numbered, WatchingAssumption DEF IInv, Watcher
  <1>1. e \in Writes /\ disk[p] + 1 \in Nat
    BY DEF IInv, Shape, Writes
  <1>2. disk' \in [File -> Nat] /\ owed' \subseteq Writes /\ \A q \in File : disk[q] <= disk'[q]
    BY <1>1 DEF IInv, Shape, Touch
  <1>3. ASSUME NEW w \in Watcher
        PROVE  /\ watch[w] \in Watches /\ watch'[w] \in Watches
               /\ watch'[w].on = watch[w].on /\ watch'[w].root = watch[w].root
               /\ watch'[w].done = watch[w].done /\ watch'[w].timer = watch[w].timer
               /\ watch'[w].pending = watch[w].pending
               /\ watch[w].events \subseteq watch'[w].events
               /\ Live(w) /\ watch[w].root = Home => e \in watch'[w].events
    <2>2. watch[w] \in Watches
      BY DEF IInv, Shape
    <2>3. CASE Live(w) /\ watch[w].root = Home
      <3>1. watch'[w] = [watch[w] EXCEPT !.events = @ \cup {e}]
        BY <2>3 DEF Touch
      <3> QED
        BY <3>1, <2>2, <1>1 DEF Watches
    <2>4. CASE ~(Live(w) /\ watch[w].root = Home)
      <3>1. watch'[w] = watch[w]
        BY <2>4 DEF Touch
      <3> QED
        BY <3>1, <2>2, <2>4
    <2> QED
      BY <2>3, <2>4
  <1>4. watch' \in [Watcher -> Watches]
    BY <1>3 DEF Touch
  <1>5. Generations'
    BY <1>3, GenerationsStay DEF IInv
  <1>6. Attended' <=> Attended
    BY <1>0, <1>3 DEF Attended, Live
  <1>7. ASSUME NEW d \in owed
        PROVE  Attended' /\ d[2] <= disk'[d[1]] /\ (d[3] => WithItsWriter(d)') /\ (~d[3] => WithTheWatcher(d)')
    <2>1. Attended /\ d[2] <= disk[d[1]] /\ (d[3] => WithItsWriter(d)) /\ (~d[3] => WithTheWatcher(d))
      BY DEF IInv, Carried
    <2>2. d \in Writes /\ generation \in Watcher
      BY <2>1, <1>0 DEF IInv, Shape, Attended
    <2>3. d[2] <= disk'[d[1]]
      BY <2>1, <2>2, <1>2 DEF IInv, Shape, Writes
    <2>4. d[3] => WithItsWriter(d)'
      BY <2>1 DEF WithItsWriter
    <2>5. ~d[3] => WithTheWatcher(d)'
      BY <2>1, <2>2, <1>3 DEF WithTheWatcher, Promises
    <2> QED
      BY <2>1, <2>3, <2>4, <2>5, <1>6
  <1>8. ASSUME Attended
        PROVE  Attended' /\ e[2] <= disk'[e[1]] /\ (e[3] => WithItsWriter(e)') /\ (~e[3] => WithTheWatcher(e)')
    <2>1. generation \in Watcher /\ Live(generation) /\ watch[generation].root = Home
      BY <1>8, <1>0 DEF IInv, Generations, Attended, Live
    <2>2. e[2] <= disk'[e[1]]
      BY <1>1 DEF IInv, Shape, Touch
    <2>3. e[3] => WithItsWriter(e)'
      BY DEF WithItsWriter
    <2>4. WithTheWatcher(e)'
      BY <2>1, <1>3 DEF WithTheWatcher
    <2> QED
      BY <1>6, <1>8, <2>2, <2>3, <2>4
  <1>9. \A d \in owed' : d \in owed \/ (Attended /\ d = e)
    OBVIOUS
  <1>10. Carried'
    BY <1>7, <1>8, <1>9 DEF Carried
  <1> QED
    BY <1>2, <1>4, <1>5, <1>10

LEMMA OtherEditsKeeps ==
    ASSUME IInv, NEW p \in File, OtherEdits(p)
    PROVE  IInv'
  <1>1. Touch(p, FALSE) /\ UNCHANGED <<serviceVars, report, guardVars, writer, opener>>
    BY DEF OtherEdits
  <1>2. owed' = (IF Attended THEN owed \cup {<<p, disk[p] + 1, FALSE>>} ELSE owed)
    BY DEF OtherEdits
  <1>3. /\ disk' \in [File -> Nat] /\ watch' \in [Watcher -> Watches] /\ owed' \subseteq Writes
        /\ Generations' /\ Carried'
    BY <1>1, <1>2, TouchKeeps DEF serviceVars
  <1>4. Shape'
    BY <1>1, <1>3 DEF IInv, Shape, serviceVars, guardVars
  <1>5. GuardCoversEveryWriter' /\ CachedWalkIsOfTheOpen'
    BY <1>1, GuardStays DEF IInv, CachedWalkIsOfTheOpen, serviceVars, guardVars
  <1> QED
    BY <1>3, <1>4, <1>5 DEF IInv

LEMMA GraceEndsKeeps ==
    ASSUME IInv, NEW p \in File, GraceEnds(p)
    PROVE  IInv'
  <1>1. until' \in [File -> BOOLEAN] /\ UNCHANGED <<disk, serviceVars, watch, report, held, writer, opener, owed>>
    BY DEF GraceEnds, IInv, Shape
  <1>2. Shape'
    BY <1>1 DEF IInv, Shape, serviceVars
  <1>3. Generations' /\ Carried'
    BY <1>1, GenerationsStay, CarriedStays DEF IInv, serviceVars
  <1>4. GuardCoversEveryWriter' /\ CachedWalkIsOfTheOpen'
    BY <1>1, GuardStays DEF IInv, CachedWalkIsOfTheOpen, serviceVars
  <1> QED
    BY <1>2, <1>3, <1>4 DEF IInv

-----------------------------------------------------------------------------
(* The watcher and its reports.                                            *)

LEMMA HandleKeeps ==
    ASSUME IInv, NEW w \in Watcher, Handle(w)
    PROVE  IInv'
  <1>0. UNCHANGED <<disk, edits, serviceVars, report, guardVars, writer, opener, told>>
    BY DEF Handle
  <1>1. watch[w] \in Watches /\ watch[w].events \in SUBSET Writes
    BY DEF IInv, Shape, Watches
  <1>2. PICK e \in watch[w].events :
          LET taken == [watch EXCEPT ![w].events = @ \ {e}] IN
          IF Suppressed(e[1])
          THEN /\ watch' = taken
               /\ owed' = IF e[3] THEN owed ELSE owed \ {e}
          ELSE /\ watch' = [watch EXCEPT ![w] = [Notice(w, e[1]) EXCEPT !.events = @ \ {e}]]
               /\ UNCHANGED owed
    BY DEF Handle
  <1>3. e \in Writes /\ Kind(e[1]) \in {"collection", "git"}
    BY <1>1 DEF Kind
  <1> DEFINE quiet == [watch[w] EXCEPT !.events = @ \ {e}]
             noted == [quiet EXCEPT !.pending = @ \cup {Kind(e[1])}, !.timer = TRUE]
  <1>4. quiet \in Watches /\ noted \in Watches
    BY <1>1, <1>3 DEF Watches, Changes
  <1>5. \/ Suppressed(e[1]) /\ watch' = [watch EXCEPT ![w] = quiet]
                            /\ owed' = (IF e[3] THEN owed ELSE owed \ {e})
        \/ watch' = [watch EXCEPT ![w] = noted] /\ owed' = owed
    <2>1. CASE Suppressed(e[1])
      BY <1>2, <2>1
    <2>2. CASE ~Suppressed(e[1])
      <3>1. [Notice(w, e[1]) EXCEPT !.events = @ \ {e}] = noted
        BY <1>1 DEF Notice, Watches
      <3> QED
        BY <1>2, <2>2, <3>1
    <2> QED
      BY <2>1, <2>2
  <1>6. /\ watch' \in [Watcher -> Watches] /\ owed' \subseteq owed
        /\ \A v \in Watcher : /\ watch'[v].on = watch[v].on /\ watch'[v].root = watch[v].root
                              /\ watch'[v].done = watch[v].done
                              /\ watch[v].timer => watch'[v].timer
                              /\ watch[v].pending \subseteq watch'[v].pending
                              /\ \A d \in watch[v].events : d \in watch'[v].events \/ (v = w /\ d = e)
    <2>1. watch \in [Watcher -> Watches]
      BY DEF IInv, Shape
    <2>2. /\ quiet.on = watch[w].on /\ quiet.root = watch[w].root /\ quiet.done = watch[w].done
          /\ quiet.timer = watch[w].timer /\ quiet.pending = watch[w].pending
          /\ quiet.events = watch[w].events \ {e}
          /\ noted.on = watch[w].on /\ noted.root = watch[w].root /\ noted.done = watch[w].done
          /\ noted.timer = TRUE /\ noted.pending = watch[w].pending \cup {Kind(e[1])}
          /\ noted.events = watch[w].events \ {e}
      BY <1>1 DEF Watches
    <2> QED
      BY <1>4, <1>5, <2>1, <2>2
  <1>7. e \in owed' /\ ~e[3] => watch'[w].timer /\ Kind(e[1]) \in watch'[w].pending
    <2>1. watch \in [Watcher -> Watches] /\ noted.timer = TRUE /\ Kind(e[1]) \in noted.pending
      BY <1>1 DEF IInv, Shape, Watches
    <2> QED
      BY <1>5, <2>1
  <1>8. Shape'
    BY <1>0, <1>6 DEF IInv, Shape, serviceVars, guardVars
  <1>9. Generations'
    BY <1>0, <1>6, GenerationsStay DEF IInv, serviceVars
  <1>10. Carried'
    <2>0. ASSUME Attended
          PROVE  generation \in Watcher /\ Attended'
      BY <2>0, <1>0, <1>6, Numbered, WatchingAssumption DEF IInv, Attended, Live, Watcher, serviceVars
    <2>1. ASSUME NEW d \in owed'
          PROVE  Attended' /\ d[2] <= disk'[d[1]] /\ (d[3] => WithItsWriter(d)') /\ (~d[3] => WithTheWatcher(d)')
      <3>1. Attended /\ d[2] <= disk[d[1]] /\ (d[3] => WithItsWriter(d)) /\ (~d[3] => WithTheWatcher(d))
        BY <1>6 DEF IInv, Carried
      <3>2. generation \in Watcher /\ Attended'
        BY <3>1, <2>0
      <3>3. d[3] => WithItsWriter(d)'
        BY <3>1, <1>0 DEF WithItsWriter
      <3>4. ~d[3] => WithTheWatcher(d)'
        <4>1. CASE d = e /\ generation = w
          BY <4>1, <1>7, <1>0 DEF WithTheWatcher, serviceVars
        <4>2. CASE ~(d = e /\ generation = w)
          BY <4>2, <3>1, <3>2, <1>0, <1>6 DEF WithTheWatcher, Promises, serviceVars
        <4> QED
          BY <4>1, <4>2
      <3> QED
        BY <1>0, <3>1, <3>2, <3>3, <3>4
    <2> QED
      BY <2>1 DEF Carried
  <1>11. GuardCoversEveryWriter' /\ CachedWalkIsOfTheOpen'
    BY <1>0, GuardStays DEF IInv, CachedWalkIsOfTheOpen, serviceVars, guardVars
  <1> QED
    BY <1>8, <1>9, <1>10, <1>11 DEF IInv

LEMMA FlushKeeps ==
    ASSUME IInv, NEW w \in Watcher, NEW n \in Slot, Flush(w, n)
    PROVE  IInv'
  <1>0. UNCHANGED <<disk, edits, serviceVars, guardVars, writer, opener, told, owed>>
    BY DEF Flush
  <1>1. watch[w] \in Watches /\ watch \in [Watcher -> Watches] /\ report \in [Slot -> Reports] /\ report[n] = Idle
    BY DEF IInv, Shape, Flush
  <1> DEFINE left == [watch[w] EXCEPT !.pending = {}, !.timer = FALSE]
             said == IF Taken(w) = {} THEN Idle ELSE [at |-> "taken", by |-> w, change |-> Taken(w)]
  <1>2. watch' = [watch EXCEPT ![w] = left] /\ report' = [report EXCEPT ![n] = said]
    BY DEF Flush
  <1>3. left \in Watches /\ left.on = watch[w].on /\ left.root = watch[w].root /\ left.done = watch[w].done
        /\ left.events = watch[w].events
    BY <1>1 DEF Watches, Changes
  <1>4. said \in Reports
    <2>1. Taken(w) \in Changes
      BY <1>1 DEF Taken, Watches
    <2>2. [at |-> "taken", by |-> w, change |-> Taken(w)] \in Bare
      BY <2>1 DEF Bare
    <2> QED
      BY <2>2 DEF Reports
  <1>5. watch' \in [Watcher -> Watches] /\ report' \in [Slot -> Reports]
    BY <1>1, <1>2, <1>3, <1>4
  <1>6. \A v \in Watcher : /\ watch'[v].on = watch[v].on /\ watch'[v].root = watch[v].root
                           /\ watch'[v].done = watch[v].done /\ watch'[v].events = watch[v].events
                           /\ v # w => watch'[v] = watch[v]
    BY <1>1, <1>2, <1>3
  <1>7. Shape'
    BY <1>0, <1>5 DEF IInv, Shape, serviceVars, guardVars
  <1>8. Generations'
    BY <1>0, <1>6, GenerationsStay DEF IInv, serviceVars
  <1>9. ASSUME NEW d \in owed'
        PROVE  Attended' /\ d[2] <= disk'[d[1]] /\ (d[3] => WithItsWriter(d)') /\ (~d[3] => WithTheWatcher(d)')
    <2>1. Attended /\ d[2] <= disk[d[1]] /\ (d[3] => WithItsWriter(d)) /\ (~d[3] => WithTheWatcher(d))
      BY <1>0 DEF IInv, Carried
    <2>2. generation \in Watcher
      BY <2>1, Numbered, WatchingAssumption DEF IInv, Attended, Watcher
    <2>3. Attended'
      BY <1>0, <1>6, <2>1, <2>2 DEF Attended, Live, serviceVars
    <2>4. d[3] => WithItsWriter(d)'
      BY <1>0, <2>1 DEF WithItsWriter
    <2>5. ASSUME ~d[3]
          PROVE  WithTheWatcher(d)'
      <3>1. CASE d \in watch[generation].events
        BY <3>1, <2>2, <1>0, <1>6 DEF WithTheWatcher, serviceVars
      <3>2. CASE watch[generation].timer /\ Kind(d[1]) \in watch[generation].pending
        <4>1. CASE generation = w
          <5>1. said = [at |-> "taken", by |-> w, change |-> Taken(w)] /\ Kind(d[1]) \in Taken(w)
            BY <3>2, <4>1 DEF Taken
          <5>2. report'[n] = [at |-> "taken", by |-> w, change |-> Taken(w)]
            BY <5>1, <1>1, <1>2
          <5>3. report'[n] # Idle /\ report'[n].by = generation' /\ report'[n].change = Taken(w)
                /\ report'[n].at = "taken"
            BY <5>2, <1>0, <4>1 DEF Idle, serviceVars
          <5> QED
            BY <5>1, <5>3 DEF WithTheWatcher, Promises
        <4>2. CASE generation # w
          BY <3>2, <4>2, <2>2, <1>0, <1>6 DEF WithTheWatcher, serviceVars
        <4> QED
          BY <4>1, <4>2
      <3>3. CASE \E m \in Slot : Promises(report[m], d)
        <4>1. PICK m \in Slot : Promises(report[m], d)
          BY <3>3
        <4>2. m # n /\ report'[m] = report[m]
          BY <4>1, <1>1, <1>2 DEF Promises
        <4> QED
          BY <4>1, <4>2, <1>0 DEF WithTheWatcher, Promises, serviceVars
      <3> QED
        BY <2>1, <2>5, <3>1, <3>2, <3>3 DEF WithTheWatcher
    <2> QED
      BY <1>0, <2>1, <2>3, <2>4, <2>5
  <1>10. Carried'
    BY <1>9 DEF Carried
  <1>11. GuardCoversEveryWriter' /\ CachedWalkIsOfTheOpen'
    BY <1>0, GuardStays DEF IInv, CachedWalkIsOfTheOpen, serviceVars, guardVars
  <1> QED
    BY <1>7, <1>8, <1>10, <1>11 DEF IInv

\* A report goes on to r, which promises what is still owed as the one before did.
LEMMA ReportKeeps ==
    ASSUME IInv, NEW n \in Slot, NEW r \in Reports, report' = [report EXCEPT ![n] = r],
           UNCHANGED <<disk, open, generation, holder, watch, guardVars, writer, opener>>,
           owed' \subseteq owed, cached' \in Walks, cached'.root = open,
           Attended => \A e \in owed' : ~e[3] /\ Promises(report[n], e) => Promises(r, e)
    PROVE  IInv'
  <1>1. Shape'
    BY DEF IInv, Shape, guardVars
  <1>2. Generations' /\ GuardCoversEveryWriter' /\ CachedWalkIsOfTheOpen'
    BY GenerationsStay, GuardStays DEF IInv, CachedWalkIsOfTheOpen, guardVars
  <1>3. ASSUME NEW d \in owed'
        PROVE  Attended' /\ d[2] <= disk'[d[1]] /\ (d[3] => WithItsWriter(d)') /\ (~d[3] => WithTheWatcher(d)')
    <2>1. Attended /\ d[2] <= disk[d[1]] /\ (d[3] => WithItsWriter(d)) /\ (~d[3] => WithTheWatcher(d))
      BY DEF IInv, Carried
    <2>2. Attended' /\ (d[3] => WithItsWriter(d)')
      BY <2>1 DEF Attended, Live, WithItsWriter
    <2>3. ASSUME ~d[3], NEW m \in Slot, Promises(report[m], d)
          PROVE  WithTheWatcher(d)'
      <3>1. report \in [Slot -> Reports]
        BY DEF IInv, Shape
      <3>2. report'[n] = r /\ (m # n => report'[m] = report[m])
        BY <3>1
      <3> QED
        BY <2>1, <2>3, <3>2 DEF WithTheWatcher, Promises
    <2>4. ~d[3] => WithTheWatcher(d)'
      BY <2>1, <2>3 DEF WithTheWatcher
    <2> QED
      BY <2>1, <2>2, <2>4
  <1>4. Carried'
    BY <1>3 DEF Carried
  <1> QED
    BY <1>1, <1>2, <1>4 DEF IInv

\* The watcher of the open collection is its watcher for all that is looked at, and
\* what a report at work says of itself is well formed.
LEMMA Present ==
    ASSUME IInv, Attended
    PROVE  /\ generation \in Watcher /\ watch[generation].root = Home /\ open = Home
           /\ ~watch[generation].done /\ IsCurrent(generation)
  BY Numbered, WatchingAssumption DEF IInv, Generations, Attended, Live, Watcher, IsCurrent

LEMMA Formed ==
    ASSUME Shape, NEW n \in Slot
    PROVE  /\ report[n] \in Reports
           /\ report[n].at \in {"taken", "reporting", "walking", "git"} => report[n] \in Bare
           /\ report[n].at \in {"walked", "caching"} => report[n] \in Walking
  BY DEF Shape, Reports, Bare, Walking, Idle

LEMMA LookAtDoneKeeps ==
    ASSUME IInv, NEW n \in Slot, LookAtDone(n)
    PROVE  IInv'
  <1>1. report[n] \in Bare /\ report[n].at = "taken"
    BY Formed DEF LookAtDone, IInv
  <1> DEFINE r == IF watch[report[n].by].done THEN Idle ELSE [report[n] EXCEPT !.at = "reporting"]
  <1>2. r \in Reports
    BY <1>1 DEF Reports, Bare
  <1>3. report' = [report EXCEPT ![n] = r]
    BY DEF LookAtDone
  <1>4. Attended => \A e \in owed' : ~e[3] /\ Promises(report[n], e) => Promises(r, e)
    BY <1>1, Present DEF Promises, Bare, Idle
  <1> HIDE DEF r
  <1> QED
    BY <1>2, <1>3, <1>4, ReportKeeps DEF LookAtDone, IInv, Shape, CachedWalkIsOfTheOpen, serviceVars

LEMMA OnChangeKeeps ==
    ASSUME IInv, NEW n \in Slot, OnChange(n)
    PROVE  IInv'
  <1>1. report[n] \in Bare /\ report[n].at = "reporting"
    BY Formed DEF OnChange, IInv
  <1> DEFINE b == report[n].by
             next == [at |-> IF "collection" \in report[n].change THEN "walking" ELSE "git",
                      by |-> b, change |-> report[n].change]
             r == IF ~IsCurrent(b) THEN Idle ELSE next
  <1>2. next \in Bare /\ r \in Reports
    BY <1>1 DEF Reports, Bare
  <1>3. report' = [report EXCEPT ![n] = r]
    BY DEF OnChange
  <1>4. Attended => \A e \in owed' : ~e[3] /\ Promises(report[n], e) => Promises(r, e)
    BY <1>1, Present DEF Promises, Bare, Idle, Kind
  <1> HIDE DEF r
  <1> QED
    BY <1>2, <1>3, <1>4, ReportKeeps DEF OnChange, IInv, Shape, CachedWalkIsOfTheOpen, serviceVars

\* A walk begun now sees the files as they are.
LEMMA WalkedNow ==
    ASSUME Shape, NEW r \in AnyRoot
    PROVE  WalkOf(r) \in Walks /\ WalkOf(r).root = r /\ (r = Home => WalkOf(r).seen = disk)
  BY DEF Shape, WalkOf, Walks, Nothing

LEMMA ReportWalksKeeps ==
    ASSUME IInv, NEW n \in Slot, ReportWalks(n)
    PROVE  IInv'
  <1>1. report[n] \in Bare /\ report[n].at = "walking" /\ report[n].by \in Watcher
    BY Formed DEF ReportWalks, IInv, Bare
  <1>2. watch[report[n].by].root \in AnyRoot
    BY <1>1 DEF IInv, Shape, Watches
  <1> PICK k : k = WalkOf(watch[report[n].by].root)
    OBVIOUS
  <1>3. k \in Walks /\ (watch[report[n].by].root = Home => k.seen = disk)
    BY <1>2, WalkedNow DEF IInv
  <1> DEFINE r == [at |-> "walked", by |-> report[n].by, change |-> report[n].change, walk |-> k]
  <1>4. r \in Reports
    BY <1>1, <1>3 DEF Reports, Bare, Walking
  <1>5. report' = [report EXCEPT ![n] = r]
    BY DEF ReportWalks
  <1>6. Attended => \A e \in owed' : ~e[3] /\ Promises(report[n], e) => Promises(r, e)
    <2>1. SUFFICES ASSUME Attended, NEW e \in owed', ~e[3], Promises(report[n], e)
                   PROVE  Promises(r, e)
      OBVIOUS
    <2>2. e \in owed /\ e \in Writes /\ e[2] <= disk[e[1]]
      BY DEF ReportWalks, IInv, Carried, Shape
    <2>3. k.seen[e[1]] >= e[2]
      BY <2>1, <2>2, <1>3, Present DEF Promises, IInv, Shape, Writes
    <2> QED
      BY <1>1, <2>1, <2>3 DEF Promises, Idle
  <1> HIDE DEF r
  <1> QED
    BY <1>4, <1>5, <1>6, ReportKeeps DEF ReportWalks, IInv, Shape, CachedWalkIsOfTheOpen, serviceVars

\* After the walk comes git's state, if it is asked for.
LEMMA GoesOn ==
    ASSUME IInv, NEW n \in Slot, report[n] \in Walking
    PROVE  /\ AfterWalk(report[n]) \in Reports
           /\ \A e : Promises(report[n], e) /\ Kind(e[1]) = "git" => Promises(AfterWalk(report[n]), e)
  BY DEF AfterWalk, Reports, Bare, Walking, Promises, Idle

LEMMA ReportLooksAgainKeeps ==
    ASSUME IInv, NEW n \in Slot, ReportLooksAgain(n)
    PROVE  IInv'
  <1>1. report[n] \in Walking /\ report[n].at = "walked"
    BY Formed DEF ReportLooksAgain, IInv
  <1> DEFINE r == IF IsCurrent(report[n].by) THEN [report[n] EXCEPT !.at = "caching"]
                  ELSE AfterWalk(report[n])
  <1>2. r \in Reports
    BY <1>1, GoesOn DEF Reports, Walking
  <1>3. report' = [report EXCEPT ![n] = r]
    BY DEF ReportLooksAgain
  <1>4. Attended => \A e \in owed' : ~e[3] /\ Promises(report[n], e) => Promises(r, e)
    BY <1>1, Present DEF Promises, Walking, Idle
  <1> HIDE DEF r
  <1> QED
    BY <1>2, <1>3, <1>4, ReportKeeps DEF ReportLooksAgain, IInv, Shape, CachedWalkIsOfTheOpen, serviceVars

LEMMA ReportCachesKeeps ==
    ASSUME IInv, NEW n \in Slot, ReportCaches(n)
    PROVE  IInv'
  <1>1. report[n] \in Walking /\ report[n].at = "caching" /\ report[n].walk \in Walks
    BY Formed DEF ReportCaches, IInv, Walking
  <1>2. cached' \in Walks /\ cached'.root = open
    BY <1>1 DEF ReportCaches, Cache, IInv, Shape, CachedWalkIsOfTheOpen
  <1>3. owed' = {e \in owed : e[2] > report[n].walk.seen[e[1]]}
    BY DEF ReportCaches, Announce
  <1> DEFINE r == AfterWalk(report[n])
  <1>4. r \in Reports /\ report' = [report EXCEPT ![n] = r]
    BY <1>1, GoesOn DEF ReportCaches
  <1>5. \A e \in owed' : ~e[3] /\ Promises(report[n], e) => Promises(r, e)
    <2>1. SUFFICES ASSUME NEW e \in owed', Promises(report[n], e)
                   PROVE  Promises(r, e)
      OBVIOUS
    <2>2. e \in Writes /\ e[2] > report[n].walk.seen[e[1]]
      BY <1>3 DEF IInv, Shape
    <2>3. Kind(e[1]) = "git"
      BY <1>1, <2>1, <2>2 DEF Promises, Kind, Writes, Walks
    <2> QED
      BY <1>1, <2>1, <2>3, GoesOn
  <1> HIDE DEF r
  <1> QED
    BY <1>2, <1>3, <1>4, <1>5, ReportKeeps DEF ReportCaches

LEMMA ReportReadsGitKeeps ==
    ASSUME IInv, NEW n \in Slot, ReportReadsGit(n)
    PROVE  IInv'
  <1>1. report[n] \in Bare /\ report[n].at = "git"
    BY Formed DEF ReportReadsGit, IInv
  <1> DEFINE seen == [p \in File |-> IF p \in GitFile THEN disk[p] ELSE 0]
  <1>2. owed' \subseteq owed
    BY DEF ReportReadsGit, Announce
  <1>3. IsCurrent(report[n].by) => owed' = {e \in owed : e[2] > seen[e[1]]}
    BY DEF ReportReadsGit, Announce
  <1>4. Attended => \A e \in owed' : ~Promises(report[n], e)
    <2>1. SUFFICES ASSUME Attended, NEW e \in owed', Promises(report[n], e)
                   PROVE  FALSE
      OBVIOUS
    <2>2. e \in Writes /\ e[2] <= disk[e[1]] /\ e[1] \in File
      BY <1>2 DEF IInv, Carried, Shape, Writes
    <2>3. e[1] \in GitFile /\ IsCurrent(report[n].by)
      BY <1>1, <2>1, Present DEF Promises, Kind
    <2>4. e[2] > disk[e[1]]
      BY <1>3, <2>2, <2>3
    <2> QED
      BY <2>2, <2>4 DEF IInv, Shape, Writes
  <1>5. Idle \in Reports /\ report' = [report EXCEPT ![n] = Idle]
    BY DEF Reports, ReportReadsGit
  <1> QED
    BY <1>2, <1>4, <1>5, ReportKeeps DEF ReportReadsGit, IInv, Shape, CachedWalkIsOfTheOpen, serviceVars

-----------------------------------------------------------------------------
(* Otis' own writers.                                                      *)

LEMMA Shaped ==
    ASSUME Shape, NEW o \in Writer
    PROVE  /\ writer[o] \in Writers
           /\ writer[o].at = "idle" <=> writer[o] \in Resting
           /\ writer[o].at \in {"holding", "written", "letting go"} => writer[o] \in Busy
           /\ writer[o].at = "walked" => writer[o] \in Telling
           /\ writer[o].at # "idle" => writer[o].file \in File
  BY DEF Shape, Writers, Resting, Busy, Telling

\* A writer goes on to v without beginning or ending, and what it leaves owed it still
\* has to tell.
LEMMA WriterKeeps ==
    ASSUME IInv, NEW o \in Writer, NEW v \in Writers, writer' = [writer EXCEPT ![o] = v],
           writer[o].at # "idle", v.at # "idle", v.file = writer[o].file,
           UNCHANGED <<disk, open, generation, holder, watch, guardVars, report, opener>>,
           owed' \subseteq owed, cached' \in Walks, cached'.root = open,
           Attended => \A e \in owed' :
              writer[o].at \in {"written", "walked"} /\ writer[o].file = e[1]
              /\ (writer[o].at = "walked" => writer[o].walk.seen[e[1]] >= e[2]) =>
                 /\ v.at \in {"written", "walked"}
                 /\ v.at = "walked" => v.walk.seen[e[1]] >= e[2]
    PROVE  IInv'
  <1>0. writer \in [Writer -> Writers]
    BY DEF IInv, Shape
  <1>1. writer'[o] = v /\ \A q \in Writer : q # o => writer'[q] = writer[q]
    BY <1>0
  <1>2. Shape'
    BY DEF IInv, Shape, guardVars
  <1>3. Generations' /\ CachedWalkIsOfTheOpen'
    BY GenerationsStay DEF IInv, CachedWalkIsOfTheOpen
  <1>4. GuardCoversEveryWriter'
    BY <1>1, GuardStays DEF IInv, guardVars
  <1>5. ASSUME NEW d \in owed'
        PROVE  Attended' /\ d[2] <= disk'[d[1]] /\ (d[3] => WithItsWriter(d)') /\ (~d[3] => WithTheWatcher(d)')
    <2>1. Attended /\ d[2] <= disk[d[1]] /\ (d[3] => WithItsWriter(d)) /\ (~d[3] => WithTheWatcher(d))
      BY DEF IInv, Carried
    <2>2. Attended' /\ (~d[3] => WithTheWatcher(d)')
      BY <2>1 DEF Attended, Live, WithTheWatcher, Promises
    <2>3. ASSUME d[3]
          PROVE  WithItsWriter(d)'
      <3>1. PICK q \in Writer : /\ writer[q].at \in {"written", "walked"} /\ writer[q].file = d[1]
                                /\ writer[q].at = "walked" => writer[q].walk.seen[d[1]] >= d[2]
        BY <2>1, <2>3 DEF WithItsWriter
      <3>2. CASE q = o
        BY <3>1, <3>2, <2>1, <1>1 DEF WithItsWriter
      <3>3. CASE q # o
        BY <3>1, <3>3, <1>1 DEF WithItsWriter
      <3> QED
        BY <3>2, <3>3
    <2> QED
      BY <2>1, <2>2, <2>3
  <1>6. Carried'
    BY <1>5 DEF Carried
  <1> QED
    BY <1>2, <1>3, <1>4, <1>6 DEF IInv

LEMMA WriterWalksKeeps ==
    ASSUME IInv, NEW o \in Writer, WriterWalks(o)
    PROVE  IInv'
  <1>1. writer[o].at = "written" /\ writer[o] \in Busy
    BY Shaped DEF WriterWalks, IInv
  <1> PICK k : k = WalkOf(open)
    OBVIOUS
  <1>2. k \in Walks /\ (open = Home => k.seen = disk)
    BY WalkedNow DEF IInv, Shape
  <1> DEFINE done == [writer[o] EXCEPT !.at = "letting go"]
             told1 == [at |-> "walked", left |-> writer[o].left, file |-> writer[o].file, walk |-> k]
             v == IF open = NoRoot THEN done ELSE told1
  <1>3. done \in Busy /\ done.at = "letting go" /\ done.file = writer[o].file
    BY <1>1 DEF Busy
  <1>4. told1 \in Telling
    BY <1>1, <1>2 DEF Busy, Telling
  <1>5. v \in Writers /\ v.at # "idle" /\ v.file = writer[o].file /\ writer' = [writer EXCEPT ![o] = v]
    BY <1>3, <1>4 DEF Writers, WriterWalks
  <1>6. Attended => \A e \in owed' : writer[o].file = e[1] =>
                       v.at = "walked" /\ v.walk.seen[e[1]] >= e[2]
    <2>1. SUFFICES ASSUME Attended, NEW e \in owed', writer[o].file = e[1]
                   PROVE  v.at = "walked" /\ v.walk.seen[e[1]] >= e[2]
      OBVIOUS
    <2>2. e \in Writes /\ e[2] <= disk[e[1]] /\ open = Home /\ open # NoRoot
      BY <2>1, Present, WatchingAssumption DEF WriterWalks, IInv, Carried, Shape
    <2>3. v = told1 /\ k.seen = disk
      BY <2>2, <1>2
    <2> QED
      BY <2>2, <2>3 DEF IInv, Shape, Writes
  <1> HIDE DEF v
  <1>7. Attended => \A e \in owed' :
              writer[o].at \in {"written", "walked"} /\ writer[o].file = e[1]
              /\ (writer[o].at = "walked" => writer[o].walk.seen[e[1]] >= e[2]) =>
                 /\ v.at \in {"written", "walked"}
                 /\ v.at = "walked" => v.walk.seen[e[1]] >= e[2]
    BY <1>6
  <1>8. /\ UNCHANGED <<disk, open, generation, holder, watch, guardVars, report, opener>>
        /\ owed' \subseteq owed /\ cached' \in Walks /\ cached'.root = open
    BY DEF WriterWalks, IInv, Shape, CachedWalkIsOfTheOpen, serviceVars
  <1> QED
    BY <1>1, <1>5, <1>7, <1>8, WriterKeeps

LEMMA WriterCachesKeeps ==
    ASSUME IInv, NEW o \in Writer, WriterCaches(o)
    PROVE  IInv'
  <1>1. writer[o].at = "walked" /\ writer[o] \in Telling /\ writer[o].walk \in Walks
    BY Shaped DEF WriterCaches, IInv, Telling
  <1>2. cached' \in Walks /\ cached'.root = open
    BY <1>1 DEF WriterCaches, Cache, IInv, Shape, CachedWalkIsOfTheOpen
  <1>3. owed' = {e \in owed : e[2] > writer[o].walk.seen[e[1]]}
    BY DEF WriterCaches, Announce
  <1> DEFINE v == [at |-> "letting go", left |-> writer[o].left, file |-> writer[o].file]
  <1>4. v \in Writers
    BY <1>1 DEF Writers, Busy, Telling
  <1>5. writer' = [writer EXCEPT ![o] = v] /\ v.at # "idle" /\ v.file = writer[o].file
    BY DEF WriterCaches
  <1>6. \A e \in owed' : ~(writer[o].file = e[1] /\ writer[o].walk.seen[e[1]] >= e[2])
    BY <1>1, <1>3 DEF IInv, Shape, Writes, Walks, Telling
  <1> HIDE DEF v
  <1> QED
    BY <1>1, <1>2, <1>3, <1>4, <1>5, <1>6, WriterKeeps DEF WriterCaches

LEMMA WriterWritesKeeps ==
    ASSUME IInv, NEW o \in Writer, WriterWrites(o)
    PROVE  IInv'
  <1>1. writer[o].at = "holding" /\ writer[o] \in Busy /\ writer[o].file \in File
    BY Shaped DEF WriterWrites, IInv
  <1> PICK p : p = writer[o].file
    OBVIOUS
  <1> DEFINE v == [writer[o] EXCEPT !.at = "written"]
  <1>2. writer \in [Writer -> Writers]
    BY DEF IInv, Shape
  <1>3. v \in Writers /\ v.at = "written" /\ v.file = p
    BY <1>1 DEF Writers, Busy
  <1>4. writer' = [writer EXCEPT ![o] = v]
    BY DEF WriterWrites
  <1>5. /\ writer' \in [Writer -> Writers] /\ writer'[o].at = "written" /\ writer'[o].file = p
        /\ \A q \in Writer : q # o => writer'[q] = writer[q]
    BY <1>2, <1>3, <1>4
  <1>6. Touch(p, TRUE)
        /\ owed' = (IF Attended THEN owed \cup {<<p, disk[p] + 1, TRUE>>} ELSE owed)
    BY DEF WriterWrites
  <1>7. /\ disk' \in [File -> Nat] /\ watch' \in [Watcher -> Watches] /\ owed' \subseteq Writes
        /\ Generations' /\ Carried'
    BY <1>1, <1>5, <1>6, TouchKeeps DEF WriterWrites, serviceVars
  <1>8. Shape'
    BY <1>5, <1>7 DEF IInv, Shape, WriterWrites, serviceVars, guardVars
  <1>9. GuardCoversEveryWriter' /\ CachedWalkIsOfTheOpen'
    BY <1>1, <1>5, GuardStays DEF IInv, CachedWalkIsOfTheOpen, WriterWrites, serviceVars, guardVars
  <1> QED
    BY <1>7, <1>8, <1>9 DEF IInv

\* A writer that begins or ends is none that anything owed is with.
LEMMA WriterTurns ==
    ASSUME IInv, NEW o \in Writer, NEW v \in Writers, writer' = [writer EXCEPT ![o] = v],
           writer[o].at \notin {"written", "walked"},
           UNCHANGED <<disk, serviceVars, watch, report, opener, owed>>,
           held' \in [File -> Nat], until' \in [File -> BOOLEAN]
    PROVE  Shape' /\ Generations' /\ Carried' /\ CachedWalkIsOfTheOpen'
  <1>1. \A q \in Writer : writer[q].at \in {"written", "walked"} => writer'[q] = writer[q]
    BY DEF IInv, Shape
  <1>2. Shape'
    BY DEF IInv, Shape, serviceVars
  <1>3. Generations' /\ CachedWalkIsOfTheOpen'
    BY GenerationsStay DEF IInv, CachedWalkIsOfTheOpen, serviceVars
  <1>4. ASSUME NEW d \in owed, WithItsWriter(d)
        PROVE  WithItsWriter(d)'
    BY <1>1, <1>4 DEF WithItsWriter
  <1>5. Carried'
    BY <1>4 DEF IInv, Carried, Attended, Live, WithTheWatcher, Promises, serviceVars
  <1> QED
    BY <1>2, <1>3, <1>5

LEMMA WriterHoldsKeeps ==
    ASSUME IInv, NEW o \in Writer, NEW p \in File, WriterHolds(o, p)
    PROVE  IInv'
  <1>1. writer[o].at = "idle" /\ writer[o] \in Resting /\ writer[o].left > 0
    BY Shaped DEF WriterHolds, IInv
  <1> DEFINE v == [at |-> "holding", left |-> writer[o].left - 1, file |-> p]
             Busily(q) == {w \in Writer : writer[w].at # "idle" /\ writer[w].file = q}
             Busily1(q) == {w \in Writer : writer'[w].at # "idle" /\ writer'[w].file = q}
  <1>2. v \in Writers
    BY <1>1 DEF Writers, Busy, Resting
  <1>3. writer' = [writer EXCEPT ![o] = v]
    BY DEF WriterHolds
  <1>4. held' = [held EXCEPT ![p] = @ + 1] /\ until' = [until EXCEPT ![p] = FALSE]
    BY DEF WriterHolds, Hold
  <1>5. held \in [File -> Nat] /\ held' \in [File -> Nat] /\ until' \in [File -> BOOLEAN]
        /\ writer \in [Writer -> Writers]
    BY <1>4 DEF IInv, Shape
  <1>6. Shape' /\ Generations' /\ Carried' /\ CachedWalkIsOfTheOpen'
    BY <1>1, <1>2, <1>3, <1>5, WriterTurns DEF WriterHolds
  <1>7. writer'[o] = v /\ v.at = "holding" /\ v.file = p /\ \A w \in Writer : w # o => writer'[w] = writer[w]
    BY <1>3, <1>5
  <1> HIDE DEF v
  <1>8. \A q \in File : held[q] = Cardinality(Busily(q))
    BY DEF IInv, GuardCoversEveryWriter
  <1>9. ASSUME NEW q \in File
        PROVE  held'[q] = Cardinality(Busily1(q))
    <2>1. CASE q = p
      <3>1. Busily1(q) = Busily(q) \cup {o} /\ o \notin Busily(q)
        BY <1>1, <1>7, <2>1
      <3>2. Cardinality(Busily1(q)) = Cardinality(Busily(q)) + 1
        BY <3>1, Finite, FS_AddElement
      <3> QED
        BY <3>2, <1>4, <1>5, <1>8, <2>1
    <2>2. CASE q # p
      <3>1. Busily1(q) = Busily(q)
        BY <1>1, <1>7, <2>2
      <3> QED
        BY <3>1, <1>4, <1>5, <1>8, <2>2
    <2> QED
      BY <2>1, <2>2
  <1>10. GuardCoversEveryWriter'
    BY <1>9 DEF GuardCoversEveryWriter
  <1> QED
    BY <1>6, <1>10 DEF IInv

LEMMA WriterReleasesKeeps ==
    ASSUME IInv, NEW o \in Writer, WriterReleases(o)
    PROVE  IInv'
  <1>1. writer[o].at = "letting go" /\ writer[o] \in Busy /\ writer[o].file \in File
    BY Shaped DEF WriterReleases, IInv
  <1> PICK p \in File : p = writer[o].file
    BY <1>1
  <1> DEFINE v == [at |-> "idle", left |-> writer[o].left]
             Busily(q) == {w \in Writer : writer[w].at # "idle" /\ writer[w].file = q}
             Busily1(q) == {w \in Writer : writer'[w].at # "idle" /\ writer'[w].file = q}
  <1>2. v \in Writers /\ writer' = [writer EXCEPT ![o] = v]
    BY <1>1 DEF Writers, Busy, Resting, WriterReleases
  <1>3. held \in [File -> Nat] /\ until \in [File -> BOOLEAN] /\ writer \in [Writer -> Writers]
    BY DEF IInv, Shape
  <1>4. writer'[o] = v /\ v.at = "idle" /\ \A w \in Writer : w # o => writer'[w] = writer[w]
    BY <1>2, <1>3
  <1> HIDE DEF v
  <1>5. \A q \in File : held[q] = Cardinality(Busily(q))
    BY DEF IInv, GuardCoversEveryWriter
  <1>6. o \in Busily(p) /\ \A q \in File : IsFiniteSet(Busily(q)) /\ Cardinality(Busily(q)) \in Nat
    BY <1>1, Finite
  <1>7. held[p] > 0
    <2>1. Cardinality(Busily(p)) # 0
      BY <1>6, FS_EmptySet
    <2> QED
      BY <2>1, <1>3, <1>5
  <1>8. held' = [held EXCEPT ![p] = @ - 1] /\ until' \in [File -> BOOLEAN]
    <2>1. Release(p)
      BY DEF WriterReleases
    <2>2. CASE held[p] > 1
      BY <2>1, <2>2, <1>3 DEF Release
    <2>3. CASE ~(held[p] > 1)
      <3>1. held[p] - 1 = 0
        BY <2>3, <1>3, <1>7
      <3> QED
        BY <2>1, <2>3, <3>1, <1>3 DEF Release
    <2> QED
      BY <2>2, <2>3
  <1>9. held' \in [File -> Nat] /\ held'[p] = held[p] - 1
    BY <1>3, <1>7, <1>8
  <1>10. Shape' /\ Generations' /\ Carried' /\ CachedWalkIsOfTheOpen'
    BY <1>1, <1>2, <1>8, <1>9, WriterTurns DEF WriterReleases
  <1>11. ASSUME NEW q \in File
         PROVE  held'[q] = Cardinality(Busily1(q))
    <2>1. CASE q = p
      <3>1. Busily1(q) = Busily(q) \ {o} /\ o \in Busily(q)
        BY <1>4, <1>6, <2>1
      <3>2. Cardinality(Busily1(q)) = Cardinality(Busily(q)) - 1
        BY <3>1, <1>6, FS_RemoveElement
      <3> QED
        BY <3>2, <1>5, <1>9, <2>1
    <2>2. CASE q # p
      <3>1. Busily1(q) = Busily(q)
        BY <1>4, <2>2
      <3> QED
        BY <3>1, <1>3, <1>5, <1>8, <2>2
    <2> QED
      BY <2>1, <2>2
  <1>12. GuardCoversEveryWriter'
    BY <1>11 DEF GuardCoversEveryWriter
  <1> QED
    BY <1>10, <1>12 DEF IInv

-----------------------------------------------------------------------------
(* Opening and closing.                                                    *)

LEMMA Opening ==
    ASSUME Shape, NEW o \in Opener
    PROVE  /\ opener[o] \in Openers
           /\ opener[o].at \in {"read", "stopped"} => opener[o] \in Reading
           /\ opener[o].at = "starting" => opener[o] \in Starting
           /\ opener[o].at = "started" => opener[o] \in Started
           /\ opener[o].at \in {"starting", "started"} => opener[o].as \in Watcher
  BY DEF Shape, Openers, Idle, Reading, Starting, Started, Closing

\* Nothing of a watcher that is closed changes but that it is done and has no more to say.
LEMMA Closed ==
    ASSUME Shape, NEW w \in Watcher,
           watch' = [watch EXCEPT ![w].done = TRUE, ![w].events = {}, ![w].timer = FALSE]
    PROVE  /\ watch' \in [Watcher -> Watches]
           /\ \A v \in Watcher : watch'[v].on = watch[v].on /\ watch'[v].root = watch[v].root
           /\ \A v \in Watcher : v # w => watch'[v] = watch[v]
  <1>1. watch \in [Watcher -> Watches] /\ watch[w] \in Watches
    BY DEF Shape
  <1> PICK c : c = [watch[w] EXCEPT !.done = TRUE, !.events = {}, !.timer = FALSE]
    OBVIOUS
  <1>2. c \in Watches /\ c.on = watch[w].on /\ c.root = watch[w].root
    BY <1>1 DEF Watches
  <1>3. watch' = [watch EXCEPT ![w] = c]
    OBVIOUS
  <1> QED
    BY <1>1, <1>2, <1>3

LEMMA Stopped ==
    ASSUME Shape, StopWatching
    PROVE  /\ watch' \in [Watcher -> Watches] /\ holder' \in 0..MaxOpens
           /\ \A v \in Watcher : watch'[v].on = watch[v].on /\ watch'[v].root = watch[v].root
  <1>1. holder' \in 0..MaxOpens
    BY WatchingAssumption DEF StopWatching
  <1>2. CASE holder = 0
    BY <1>1, <1>2 DEF StopWatching, Shape
  <1>3. CASE holder # 0
    <2>1. holder \in Watcher
      BY <1>3, WatchingAssumption DEF Shape, Watcher
    <2> QED
      BY <1>1, <1>3, <2>1, Closed DEF StopWatching
  <1> QED
    BY <1>2, <1>3

\* A call goes on with nothing owed after it: the generations are what matters.
LEMMA OpenerKeeps ==
    ASSUME IInv, NEW o \in Opener, NEW v \in Openers, opener' = [opener EXCEPT ![o] = v],
           watch' \in [Watcher -> Watches], holder' \in 0..MaxOpens,
           generation' \in Nat, open' \in AnyRoot, cached' \in Walks, cached'.root = open',
           UNCHANGED <<disk, report, guardVars, writer>>, owed' \subseteq owed,
           Generations', Carried'
    PROVE  IInv'
  <1>1. Shape'
    BY DEF IInv, Shape, guardVars
  <1>2. GuardCoversEveryWriter' /\ CachedWalkIsOfTheOpen'
    BY GuardStays DEF IInv, CachedWalkIsOfTheOpen, guardVars
  <1> QED
    BY <1>1, <1>2 DEF IInv

\* A call that is to come, before it has begun or while it waits for its turn.
LEMMA StillToCome ==
    ASSUME Shape, Generations, NEW o \in Opener, NEW v \in Openers,
           opener' = [opener EXCEPT ![o] = v], v.at \in {"read", "stopped", "closing"},
           o \in ToCome \/ (opener[o].at = "idle" /\ Begun < MaxOpens),
           \A w \in Watcher : watch'[w].on = watch[w].on /\ watch'[w].root = watch[w].root,
           UNCHANGED <<generation, open>>
    PROVE  Generations'
  <1>1. opener \in [Opener -> Openers]
    BY DEF Shape
  <1>2. opener'[o] = v /\ \A q \in Opener : q # o => opener'[q] = opener[q]
    BY <1>1
  <1>3. opener[o].at \notin {"starting", "started"}
    BY DEF ToCome
  <1>4. Launching' = Launching /\ \A q \in Launching : opener'[q] = opener[q]
    BY <1>2, <1>3 DEF Launching
  <1>5. ToCome' = ToCome \cup {o}
    BY <1>2 DEF ToCome
  <1>6. Begun = generation + Cardinality(ToCome) /\ Begun' = generation + Cardinality(ToCome')
    BY DEF Begun, ToCome
  <1>7. Begun' <= MaxOpens
    <2>1. CASE o \in ToCome
      <3>1. ToCome' = ToCome
        BY <1>5, <2>1
      <3> QED
        BY <3>1, <1>6 DEF Generations
    <2>2. CASE o \notin ToCome
      <3>1. Cardinality(ToCome') = Cardinality(ToCome) + 1 /\ Cardinality(ToCome) \in Nat
        BY <1>5, <2>2, Finite, Numbered, FS_AddElement
      <3> QED
        BY <3>1, <2>2, <1>6, WatchingAssumption DEF Shape
    <2> QED
      BY <2>1, <2>2
  <1>8. generation > 0 => generation \in Watcher
    BY Numbered, WatchingAssumption DEF Watcher
  <1>9. \A q \in Opener : opener'[q].at = "starting" =>
               /\ ~watch'[opener'[q].as].on
               /\ opener'[q].as = generation' => opener'[q].root = open'
    BY <1>1, <1>2, Opening DEF Generations
  <1>10. \A q \in Launching' : opener'[q].as <= generation'
    BY <1>4 DEF Generations
  <1>11. \A q, r \in Launching' : opener'[q].as = opener'[r].as => q = r
    BY <1>4 DEF Generations
  <1>12. \A w \in Watcher : w > generation' => ~watch'[w].on
    BY DEF Generations
  <1>13. generation' > 0 /\ watch'[generation'].on => watch'[generation'].root = open'
    BY <1>8 DEF Generations
  <1> QED
    BY <1>7, <1>9, <1>10, <1>11, <1>12, <1>13 DEF Generations

LEMMA OpenReadsKeeps ==
    ASSUME IInv, NEW o \in Opener, NEW r \in Root, OpenReads(o, r)
    PROVE  IInv'
  <1> PICK k : k = WalkOf(r)
    OBVIOUS
  <1> DEFINE v == [at |-> "read", walk |-> k]
  <1>1. k \in Walks
    BY WalkedNow DEF IInv, AnyRoot
  <1>2. v \in Openers /\ v.at = "read" /\ opener' = [opener EXCEPT ![o] = v]
    BY <1>1 DEF Openers, Reading, OpenReads
  <1>3. opener[o].at = "idle" /\ Begun < MaxOpens
        /\ UNCHANGED <<disk, open, cached, generation, holder, watch, report, guardVars, writer, owed>>
    BY DEF OpenReads, Idle, serviceVars
  <1> HIDE DEF v
  <1>4. Generations'
    BY <1>2, <1>3, StillToCome DEF IInv
  <1>5. Carried'
    BY <1>3, CarriedStays DEF IInv
  <1> QED
    BY <1>2, <1>3, <1>4, <1>5, OpenerKeeps DEF IInv, Shape, CachedWalkIsOfTheOpen

LEMMA OpenStopsKeeps ==
    ASSUME IInv, NEW o \in Opener, OpenStops(o)
    PROVE  IInv'
  <1> DEFINE v == [opener[o] EXCEPT !.at = "stopped"]
  <1>1. opener[o].at = "read" /\ opener[o] \in Reading
    BY Opening DEF OpenStops, IInv
  <1>2. v \in Openers /\ v.at = "stopped" /\ opener' = [opener EXCEPT ![o] = v]
    BY <1>1 DEF Openers, Reading, OpenStops
  <1>3. o \in ToCome /\ owed' = {}
        /\ UNCHANGED <<disk, open, cached, generation, report, guardVars, writer>>
    BY <1>1 DEF OpenStops, ToCome
  <1> HIDE DEF v
  <1>4. /\ watch' \in [Watcher -> Watches] /\ holder' \in 0..MaxOpens
        /\ \A w \in Watcher : watch'[w].on = watch[w].on /\ watch'[w].root = watch[w].root
    BY Stopped DEF OpenStops, IInv
  <1>5. Generations'
    BY <1>2, <1>3, <1>4, StillToCome DEF IInv
  <1>6. Carried'
    BY <1>3 DEF Carried
  <1> QED
    BY <1>2, <1>3, <1>4, <1>5, <1>6, OpenerKeeps DEF IInv, Shape, CachedWalkIsOfTheOpen

LEMMA CloseStopsKeeps ==
    ASSUME IInv, NEW o \in Opener, CloseStops(o)
    PROVE  IInv'
  <1> DEFINE v == [at |-> "closing"]
  <1>1. v \in Openers /\ v.at = "closing" /\ opener' = [opener EXCEPT ![o] = v]
    BY DEF Openers, Closing, CloseStops
  <1>2. opener[o].at = "idle" /\ Begun < MaxOpens /\ owed' = {}
        /\ UNCHANGED <<disk, open, cached, generation, report, guardVars, writer>>
    BY DEF CloseStops, Idle
  <1> HIDE DEF v
  <1>3. /\ watch' \in [Watcher -> Watches] /\ holder' \in 0..MaxOpens
        /\ \A w \in Watcher : watch'[w].on = watch[w].on /\ watch'[w].root = watch[w].root
    BY Stopped DEF CloseStops, IInv
  <1>4. Generations'
    BY <1>1, <1>2, <1>3, StillToCome DEF IInv
  <1>5. Carried'
    BY <1>2 DEF Carried
  <1> QED
    BY <1>1, <1>2, <1>3, <1>4, <1>5, OpenerKeeps DEF IInv, Shape, CachedWalkIsOfTheOpen

\* A new generation: one call fewer is to come, and its watcher is not yet on.
LEMMA NextGeneration ==
    ASSUME Shape, Generations, NEW o \in ToCome, NEW v \in Openers,
           opener' = [opener EXCEPT ![o] = v], UNCHANGED watch, generation' = generation + 1,
           \/ v = Idle
           \/ v.at = "starting" /\ v.as = generation + 1 /\ v.root = open'
    PROVE  Generations'
  <1>1. opener \in [Opener -> Openers] /\ o \in Opener
    BY DEF Shape, ToCome
  <1>2. opener'[o] = v /\ \A q \in Opener : q # o => opener'[q] = opener[q]
    BY <1>1
  <1>3. v.at \in {"idle", "starting"}
    BY DEF Idle
  <1>4. ToCome' = ToCome \ {o} /\ Cardinality(ToCome') = Cardinality(ToCome) - 1
        /\ Cardinality(ToCome) \in Nat /\ Cardinality(ToCome') \in Nat
    <2>1. ToCome' = ToCome \ {o}
      BY <1>1, <1>2, <1>3 DEF ToCome
    <2>2. ToCome' \in SUBSET Opener
      BY <2>1, Numbered
    <2> QED
      BY <2>1, <2>2, Finite, Numbered, FS_RemoveElement
  <1>5. Begun = generation + Cardinality(ToCome) /\ Begun' = generation' + Cardinality(ToCome')
    BY DEF Begun, ToCome
  <1>6. Begun' <= MaxOpens /\ generation \in Nat /\ generation + 1 \in Watcher
    BY <1>4, <1>5, WatchingAssumption DEF Generations, Shape, Watcher
  <1>7. /\ \A q \in Launching : q # o /\ q \in Opener /\ opener[q].as \in Watcher /\ opener[q].as <= generation
        /\ \A q \in Launching' : q \in Launching \/ (q = o /\ v.at = "starting")
    BY <1>1, <1>2, <1>3, Opening DEF Launching, ToCome, Generations
  <1>8. \A q \in Launching' : opener'[q].as <= generation'
    BY <1>2, <1>6, <1>7 DEF Idle, Watcher
  <1>9. \A q, r \in Launching' : opener'[q].as = opener'[r].as => q = r
    <2>1. \A q \in Launching : opener'[q] = opener[q] /\ opener[q].as # generation + 1
      BY <1>2, <1>6, <1>7 DEF Watcher
    <2>2. v.at = "starting" => v.as = generation + 1
      BY DEF Idle
    <2> QED
      BY <2>1, <2>2, <1>2, <1>7 DEF Generations
  <1>10. \A q \in Opener : opener'[q].at = "starting" =>
               /\ ~watch[opener'[q].as].on
               /\ opener'[q].as = generation' => opener'[q].root = open'
    <2>1. SUFFICES ASSUME NEW q \in Opener, opener'[q].at = "starting"
                   PROVE  /\ ~watch[opener'[q].as].on
                          /\ opener'[q].as = generation' => opener'[q].root = open'
      OBVIOUS
    <2>2. CASE q = o
      <3>1. v.as = generation + 1 /\ v.root = open'
        BY <1>2, <2>1, <2>2 DEF Idle
      <3>2. ~watch[generation + 1].on
        BY <1>6 DEF Generations
      <3> QED
        BY <1>2, <2>2, <3>1, <3>2
    <2>3. CASE q # o
      <3>1. opener'[q] = opener[q] /\ q \in Launching
        BY <1>2, <2>1, <2>3 DEF Launching
      <3>2. opener[q].as # generation'
        BY <3>1, <1>6, <1>7 DEF Watcher
      <3> QED
        BY <2>1, <3>1, <3>2 DEF Generations
    <2> QED
      BY <2>2, <2>3
  <1>11. \A w \in Watcher : w > generation' => ~watch[w].on
    BY <1>6 DEF Generations, Watcher
  <1>12. ~watch[generation'].on
    BY <1>6 DEF Generations
  <1> QED
    BY <1>6, <1>8, <1>9, <1>10, <1>11, <1>12 DEF Generations

LEMMA OpenSetsKeeps ==
    ASSUME IInv, NEW o \in Opener, OpenSets(o)
    PROVE  IInv'
  <1>1. opener[o] \in Reading /\ opener[o].walk \in Walks /\ o \in ToCome
    BY Opening DEF OpenSets, IInv, Reading, ToCome
  <1>2. /\ open' = opener[o].walk.root /\ cached' = opener[o].walk /\ generation' = generation + 1
        /\ owed' = {} /\ UNCHANGED <<disk, holder, watch, report, guardVars, writer>>
    BY DEF OpenSets
  <1> DEFINE v == [at |-> "starting", as |-> generation + 1, root |-> opener[o].walk.root]
  <1>3. generation \in Nat /\ generation + 1 \in Watcher
    <2>1. ToCome \in SUBSET Opener /\ Cardinality(ToCome) \in Nat /\ Cardinality(ToCome) # 0
      BY <1>1, Numbered, Finite, FS_EmptySet DEF IInv
    <2>2. generation \in Nat /\ generation + Cardinality(ToCome) <= MaxOpens
      BY DEF IInv, Shape, Generations, Begun, ToCome
    <2> QED
      BY <2>1, <2>2, WatchingAssumption DEF Watcher
  <1>4. v \in Openers /\ opener' = [opener EXCEPT ![o] = v]
    BY <1>1, <1>3 DEF Openers, Starting, Walks, OpenSets
  <1>5. v.at = "starting" /\ v.as = generation + 1 /\ v.root = open'
    BY <1>2
  <1> HIDE DEF v
  <1>6. Generations'
    BY <1>1, <1>2, <1>4, <1>5, NextGeneration DEF IInv
  <1>7. Carried'
    BY <1>2 DEF Carried
  <1> QED
    <2>1. generation' \in Nat /\ open' \in AnyRoot /\ cached' \in Walks /\ cached'.root = open'
      BY <1>1, <1>2, <1>3 DEF Walks
    <2>2. watch' \in [Watcher -> Watches] /\ holder' \in 0..MaxOpens /\ owed' \subseteq owed
      BY <1>2 DEF IInv, Shape
    <2> QED
      BY <1>2, <1>4, <1>6, <1>7, <2>1, <2>2, OpenerKeeps

LEMMA CloseClearsKeeps ==
    ASSUME IInv, NEW o \in Opener, CloseClears(o)
    PROVE  IInv'
  <1>1. o \in ToCome /\ Idle \in Openers
    BY DEF CloseClears, ToCome, Openers
  <1>2. /\ open' = NoRoot /\ cached' = NoWalk /\ generation' = generation + 1
        /\ owed' = {} /\ UNCHANGED <<disk, holder, watch, report, guardVars, writer>>
        /\ opener' = [opener EXCEPT ![o] = Idle]
    BY DEF CloseClears
  <1>3. NoWalk \in Walks /\ NoWalk.root = NoRoot /\ NoRoot \in AnyRoot
    BY DEF NoWalk, Walks, AnyRoot, Nothing
  <1>4. Generations'
    BY <1>1, <1>2, NextGeneration DEF IInv
  <1>5. Carried'
    BY <1>2 DEF Carried
  <1> QED
    <2>1. generation' \in Nat /\ open' \in AnyRoot /\ cached' \in Walks /\ cached'.root = open'
      BY <1>2, <1>3 DEF IInv, Shape
    <2>2. watch' \in [Watcher -> Watches] /\ holder' \in 0..MaxOpens /\ owed' \subseteq owed
      BY <1>2 DEF IInv, Shape
    <2> QED
      BY <1>1, <1>2, <1>4, <1>5, <2>1, <2>2, OpenerKeeps

\* A watcher that is started, or closed before it is held, is not the one on which
\* something owed depends: the one was not on, the other is of an earlier generation.
LEMMA AnotherWatcher ==
    ASSUME IInv, NEW w \in Watcher, \A v \in Watcher : v # w => watch'[v] = watch[v],
           Attended => generation # w, UNCHANGED <<disk, open, generation, report, writer, owed>>
    PROVE  Carried'
  <1>1. ASSUME Attended
        PROVE  watch'[generation] = watch[generation] /\ Attended'
    BY <1>1, Present DEF Attended, Live
  <1>2. ASSUME NEW d \in owed
        PROVE  Attended' /\ d[2] <= disk'[d[1]] /\ (d[3] => WithItsWriter(d)') /\ (~d[3] => WithTheWatcher(d)')
    <2>1. Attended /\ d[2] <= disk[d[1]] /\ (d[3] => WithItsWriter(d)) /\ (~d[3] => WithTheWatcher(d))
      BY DEF IInv, Carried
    <2>2. d[3] => WithItsWriter(d)'
      BY <2>1 DEF WithItsWriter
    <2>3. ~d[3] => WithTheWatcher(d)'
      BY <1>1, <2>1 DEF WithTheWatcher, Promises
    <2> QED
      BY <1>1, <2>1, <2>2, <2>3
  <1> QED
    BY <1>2 DEF Carried

LEMMA OpenStartsKeeps ==
    ASSUME IInv, NEW o \in Opener, OpenStarts(o)
    PROVE  IInv'
  <1>1. opener[o].at = "starting" /\ opener[o] \in Starting /\ opener[o].as \in Watcher /\ o \in Launching
    BY Opening DEF OpenStarts, IInv, Launching
  <1> PICK w \in Watcher : w = opener[o].as
    BY <1>1
  <1> DEFINE on == [Asleep EXCEPT !.on = TRUE, !.root = opener[o].root]
             v  == [at |-> "started", as |-> w]
  <1>2. on \in Watches /\ on.root = opener[o].root
    BY <1>1 DEF Asleep, Watches, Starting, Changes
  <1>3. v \in Openers /\ v.at = "started" /\ v.as = w /\ opener' = [opener EXCEPT ![o] = v]
    BY DEF Openers, Started, OpenStarts
  <1>4. watch' = [watch EXCEPT ![w] = on]
        /\ UNCHANGED <<disk, open, cached, generation, holder, report, guardVars, writer, owed>>
    BY DEF OpenStarts, serviceVars
  <1> HIDE DEF on, v
  <1>5. watch \in [Watcher -> Watches] /\ opener \in [Opener -> Openers]
    BY DEF IInv, Shape
  <1>6. watch' \in [Watcher -> Watches] /\ watch'[w] = on /\ \A u \in Watcher : u # w => watch'[u] = watch[u]
    BY <1>2, <1>4, <1>5
  <1>7. opener'[o] = v /\ \A q \in Opener : q # o => opener'[q] = opener[q]
    BY <1>3, <1>5
  <1>8. ~watch[w].on /\ w <= generation /\ (w = generation => opener[o].root = open)
    BY <1>1 DEF IInv, Generations
  <1>9. Generations'
    <2>1. ToCome' = ToCome /\ Launching' = Launching
      BY <1>1, <1>3, <1>7 DEF ToCome, Launching
    <2>2. Begun' <= MaxOpens
      BY <2>1, <1>4 DEF IInv, Generations, Begun, ToCome
    <2>3. \A q \in Launching : q \in Opener /\ opener'[q].as = opener[q].as
      BY <1>3, <1>7 DEF Launching
    <2>4. (\A q \in Launching' : opener'[q].as <= generation')
          /\ \A q, r \in Launching' : opener'[q].as = opener'[r].as => q = r
      BY <2>1, <2>3, <1>4 DEF IInv, Generations
    <2>5. ASSUME NEW q \in Opener, opener'[q].at = "starting"
          PROVE  ~watch'[opener'[q].as].on /\ (opener'[q].as = generation' => opener'[q].root = open')
      <3>1. q # o /\ opener'[q] = opener[q] /\ q \in Launching
        BY <2>5, <1>3, <1>7 DEF Launching
      <3>2. opener[q].as # w /\ opener[q].as \in Watcher
        BY <1>1, <2>5, <3>1, Opening DEF IInv, Generations
      <3> QED
        BY <2>5, <3>1, <3>2, <1>4, <1>6 DEF IInv, Generations
    <2>6. \A u \in Watcher : u > generation' => ~watch'[u].on
      <3>1. SUFFICES ASSUME NEW u \in Watcher, u > generation
                     PROVE  ~watch'[u].on
        BY <1>4
      <3>2. u # w
        BY <3>1, <1>8, WatchingAssumption DEF IInv, Shape, Watcher
      <3> QED
        BY <3>1, <3>2, <1>6 DEF IInv, Generations
    <2>7. generation' > 0 /\ watch'[generation'].on => watch'[generation'].root = open'
      <3>1. generation > 0 => generation \in Watcher
        BY Numbered, WatchingAssumption DEF IInv, Watcher
      <3> QED
        BY <3>1, <1>2, <1>4, <1>6, <1>8 DEF IInv, Generations
    <2> QED
      BY <2>2, <2>4, <2>5, <2>6, <2>7 DEF Generations
  <1>10. Carried'
    BY <1>4, <1>6, <1>8, AnotherWatcher DEF Attended, Live
  <1> QED
    BY <1>3, <1>4, <1>6, <1>9, <1>10, OpenerKeeps DEF IInv, Shape, CachedWalkIsOfTheOpen

LEMMA OpenAttachesKeeps ==
    ASSUME IInv, NEW o \in Opener, OpenAttaches(o)
    PROVE  IInv'
  <1>1. opener[o].at = "started" /\ opener[o].as \in Watcher /\ o \in Launching
    BY Opening DEF OpenAttaches, IInv, Launching
  <1> PICK w \in Watcher : w = opener[o].as
    BY <1>1
  <1>2. Idle \in Openers /\ Idle.at = "idle" /\ opener' = [opener EXCEPT ![o] = Idle]
        /\ UNCHANGED <<disk, open, cached, generation, report, guardVars, writer, owed>>
    BY DEF Openers, OpenAttaches, Idle
  <1>3. /\ watch' \in [Watcher -> Watches] /\ holder' \in 0..MaxOpens
        /\ \A u \in Watcher : watch'[u].on = watch[u].on /\ watch'[u].root = watch[u].root
        /\ Carried'
    <2>1. Attach(w)
      BY DEF OpenAttaches
    <2>2. CASE generation = w
      <3>1. holder' = w /\ UNCHANGED watch
        BY <2>1, <2>2 DEF Attach
      <3>2. w \in 0..MaxOpens
        BY WatchingAssumption DEF Watcher
      <3> QED
        BY <3>1, <3>2, <1>2, CarriedStays DEF IInv, Shape
    <2>3. CASE generation # w
      <3>1. /\ watch' = [watch EXCEPT ![w].done = TRUE, ![w].events = {}, ![w].timer = FALSE]
            /\ UNCHANGED holder
        BY <2>1, <2>3 DEF Attach
      <3>2. /\ watch' \in [Watcher -> Watches]
            /\ \A v \in Watcher : watch'[v].on = watch[v].on /\ watch'[v].root = watch[v].root
            /\ \A v \in Watcher : v # w => watch'[v] = watch[v]
        BY <3>1, Closed DEF IInv
      <3> QED
        BY <3>1, <3>2, <2>3, <1>2, AnotherWatcher DEF IInv, Shape
    <2> QED
      BY <2>2, <2>3
  <1>4. opener'[o] = Idle /\ \A q \in Opener : q # o => opener'[q] = opener[q]
    BY <1>2 DEF IInv, Shape
  <1>5. Generations'
    <2>1. ToCome' = ToCome /\ Launching' = Launching \ {o}
      BY <1>1, <1>2, <1>4 DEF ToCome, Launching
    <2>2. Begun' <= MaxOpens
      BY <2>1, <1>2 DEF IInv, Generations, Begun, ToCome
    <2>3. (\A q \in Launching' : opener'[q].as <= generation')
          /\ \A q, r \in Launching' : opener'[q].as = opener'[r].as => q = r
      BY <2>1, <1>2, <1>4 DEF IInv, Generations, Launching
    <2>4. ASSUME NEW q \in Opener, opener'[q].at = "starting"
          PROVE  ~watch'[opener'[q].as].on /\ (opener'[q].as = generation' => opener'[q].root = open')
      <3>1. opener'[q] = opener[q] /\ opener[q].as \in Watcher
        BY <2>4, <1>2, <1>4, Opening DEF IInv
      <3> QED
        BY <2>4, <3>1, <1>2, <1>3 DEF IInv, Generations
    <2>5. \A u \in Watcher : u > generation' => ~watch'[u].on
      BY <1>2, <1>3 DEF IInv, Generations
    <2>6. generation' > 0 /\ watch'[generation'].on => watch'[generation'].root = open'
      <3>1. generation > 0 => generation \in Watcher
        BY Numbered, WatchingAssumption DEF IInv, Watcher
      <3> QED
        BY <3>1, <1>2, <1>3 DEF IInv, Generations
    <2> QED
      BY <2>2, <2>3, <2>4, <2>5, <2>6 DEF Generations
  <1> QED
    BY <1>2, <1>3, <1>5, OpenerKeeps DEF IInv, Shape, CachedWalkIsOfTheOpen

-----------------------------------------------------------------------------
(* The theorems.                                                           *)

LEMMA Begins ==
    Init => IInv
  <1> SUFFICES ASSUME Init
               PROVE  IInv
    OBVIOUS
  <1>1. /\ Nothing \in [File -> Nat] /\ NoRoot \in AnyRoot /\ NoWalk \in Walks /\ NoWalk.root = NoRoot
        /\ Asleep \in Watches /\ ~Asleep.on
        /\ Idle \in Reports /\ Idle \in Openers /\ Idle.at = "idle"
    BY DEF Nothing, AnyRoot, NoWalk, Walks, Asleep, Watches, Changes, Reports, Openers, Idle
  <1>2. [at |-> "idle", left |-> MaxWrites] \in Writers
    BY WatchingAssumption DEF Writers, Resting
  <1>3. Shape
    BY <1>1, <1>2, WatchingAssumption DEF Init, Shape
  <1>4. Generations
    <2>1. ToCome = {} /\ Launching = {}
      BY <1>1 DEF Init, ToCome, Launching
    <2>2. Begun <= MaxOpens
      <3>1. Begun = 0 + Cardinality({})
        BY <2>1 DEF Init, Begun, ToCome
      <3> QED
        BY <3>1, FS_EmptySet, WatchingAssumption
    <2> QED
      BY <1>1, <2>1, <2>2 DEF Init, Generations
  <1>5. GuardCoversEveryWriter
    <2>1. ASSUME NEW p \in File
          PROVE  {o \in Writer : writer[o].at # "idle" /\ writer[o].file = p} = {}
      BY DEF Init
    <2> QED
      BY <2>1, FS_EmptySet DEF Init, GuardCoversEveryWriter, Nothing
  <1> QED
    BY <1>1, <1>3, <1>4, <1>5 DEF IInv, Init, Carried, CachedWalkIsOfTheOpen

LEMMA Steps ==
    IInv /\ [Next]_vars => IInv'
  <1> SUFFICES ASSUME IInv, [Next]_vars
               PROVE  IInv'
    OBVIOUS
  <1>1. CASE \E p \in File : OtherEdits(p) \/ GraceEnds(p)
    BY <1>1, OtherEditsKeeps, GraceEndsKeeps
  <1>2. CASE \E w \in Watcher : Handle(w) \/ \E n \in Slot : Flush(w, n)
    BY <1>2, HandleKeeps, FlushKeeps
  <1>3. CASE \E n \in Slot : ReportSteps(n)
    BY <1>3, LookAtDoneKeeps, OnChangeKeeps, ReportWalksKeeps, ReportLooksAgainKeeps,
       ReportCachesKeeps, ReportReadsGitKeeps DEF ReportSteps
  <1>4. CASE \E o \in Writer : (\E p \in File \ GitFile : WriterHolds(o, p)) \/ WriterSteps(o)
    BY <1>4, WriterHoldsKeeps, WriterWritesKeeps, WriterWalksKeeps, WriterCachesKeeps,
       WriterReleasesKeeps DEF WriterSteps
  <1>5. CASE \E o \in Opener : (\E r \in Root : OpenReads(o, r)) \/ CloseStops(o) \/ OpenerSteps(o)
    BY <1>5, OpenReadsKeeps, CloseStopsKeeps, OpenStopsKeeps, OpenSetsKeeps, OpenStartsKeeps,
       OpenAttachesKeeps, CloseClearsKeeps DEF OpenerSteps
  <1>6. CASE UNCHANGED vars
    <2>1. Shape'
      BY <1>6 DEF IInv, Shape, vars, serviceVars, guardVars
    <2>2. Generations' /\ Carried' /\ GuardCoversEveryWriter' /\ CachedWalkIsOfTheOpen'
      BY <1>6, GenerationsStay, CarriedStays, GuardStays
         DEF IInv, CachedWalkIsOfTheOpen, vars, serviceVars, guardVars
    <2> QED
      BY <2>1, <2>2 DEF IInv
  <1> QED
    BY <1>1, <1>2, <1>3, <1>4, <1>5, <1>6 DEF Next

\* The inductive invariant: the shape of the state, one watcher to a generation, and for
\* every write that is owed somebody who will tell of it.
THEOREM Invariance == Spec => []IInv
  BY Begins, Steps, PTL DEF Spec

\* While anybody at Otis writes a file the guard is held for it, once for each of them,
\* and what is served as the walk is the open collection's (Writing, cache).
THEOREM TheyHold == Spec => []GuardAndCacheHold
  <1>1. IInv => GuardAndCacheHold
    BY DEF IInv, GuardAndCacheHold
  <1> QED
    BY <1>1, Invariance, PTL

\* The window hears of every write to the open collection: when no event, timer, report
\* or call is left, nothing is owed (handle, flush, onChange, Refresh).
THEOREM NothingGoesUnheard == Spec => []EveryChangeIsAnnounced
  <1>1. IInv => EveryChangeIsAnnounced
    <2>1. SUFFICES ASSUME IInv, Quiet, NEW e \in owed
                   PROVE  FALSE
      BY DEF EveryChangeIsAnnounced
    <2>2. Attended /\ (e[3] => WithItsWriter(e)) /\ (~e[3] => WithTheWatcher(e))
      BY <2>1 DEF IInv, Carried
    <2>3. CASE e[3]
      BY <2>1, <2>2, <2>3 DEF Quiet, WithItsWriter
    <2>4. CASE ~e[3]
      BY <2>1, <2>2, <2>4, Present DEF Quiet, WithTheWatcher, Promises, Attended
    <2> QED
      BY <2>3, <2>4
  <1> QED
    BY <1>1, Invariance, PTL
=============================================================================
