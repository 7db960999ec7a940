------------------------------ MODULE Watching ------------------------------
(***************************************************************************)
(* The folder watcher, the write guard and the cached walk                 *)
(* (src/internal/watch and src/internal/services/collection.go).           *)
(*                                                                         *)
(* The files of one collection, Home, are at some version; other           *)
(* collections are only opened in its place.  Another editor writes at any *)
(* time.  Otis' own writers hold the guard, write, re-walk, announce and   *)
(* let go.  fsnotify's events reach one loop per watcher, which arms a     *)
(* timer; the timer's function looks whether the watcher is closed,        *)
(* reports, and the report re-walks, caches and announces.  Opening and    *)
(* closing a collection replaces the watcher under all of them.            *)
(*                                                                         *)
(* Time is not counted: debounce and grace end at any moment, since events *)
(* may be late by any amount.  The root stays readable.                    *)
(*                                                                         *)
(* owed is a history variable: the writes the window is to hear of, those  *)
(* of another editor until the guard drops their event.                    *)
(***************************************************************************)
EXTENDS Integers, FiniteSets

CONSTANTS
    Root, Home, NoRoot,  \* collections, the one whose files are followed, none
    File, GitFile,       \* its files, and those that are git's HEAD or index
    Writer, Opener,      \* callers of the writing methods, and of Open and Close
    Slot,                \* bound: timer functions at work at once
    MaxEdits,   \* bound: writes by another editor, to each file
    MaxWrites,  \* bound: writes by each of Otis' writers
    MaxOpens    \* bound: calls of Open and Close

ASSUME WatchingAssumption ==
    /\ Home \in Root /\ NoRoot \notin Root
    /\ IsFiniteSet(Writer) /\ IsFiniteSet(Opener)
    /\ MaxEdits \in Nat /\ MaxWrites \in Nat /\ MaxOpens \in Nat

\* A watcher is named for the generation that started it.
Watcher == 1..MaxOpens

VARIABLES
    disk, edits,         \* the version of each file, and another editor's writes so far
    open, cached, generation, holder,  \* current, loaded, generation and watcher (0: none)
    watch,               \* each watcher with its queue, its pending change and its timer
    report,              \* the timer functions at work
    held, until,         \* the guard: open Writing calls, and paths in their grace
    writer, opener,
    told,                \* the newest version of each file the window has heard of
    owed

serviceVars == <<open, cached, generation, holder>>
guardVars   == <<held, until>>
vars == <<disk, edits, serviceVars, watch, report, guardVars, writer, opener, told, owed>>

Version == 0..(MaxEdits + MaxWrites * Cardinality(Writer))
Walk    == [root : Root \cup {NoRoot}, seen : [File -> Version]]
Nothing == [p \in File |-> 0]
NoWalk  == [root |-> NoRoot, seen |-> Nothing]

\* readTree: the walk, and the repository's state with it.
WalkOf(r) == [root |-> r, seen |-> IF r = Home THEN disk ELSE Nothing]

Kind(p) == IF p \in GitFile THEN "git" ELSE "collection"

Asleep == [on |-> FALSE, done |-> FALSE, root |-> NoRoot, events |-> {}, pending |-> {},
           timer |-> FALSE]
Idle   == [at |-> "idle"]

TypeOK ==
    /\ disk \in [File -> Version] /\ edits \in [File -> 0..MaxEdits]
    /\ open \in Root \cup {NoRoot} /\ cached \in Walk
    /\ generation \in 0..MaxOpens /\ holder \in 0..MaxOpens
    /\ watch \in [Watcher -> [on : BOOLEAN, done : BOOLEAN, root : Root \cup {NoRoot},
                              events : SUBSET (File \X Version \X BOOLEAN),
                              pending : SUBSET {"collection", "git"}, timer : BOOLEAN]]
    /\ held \in [File -> Nat] /\ until \in [File -> BOOLEAN]
    /\ told \in [File -> Version]
    /\ owed \subseteq File \X Version \X BOOLEAN

Init ==
    /\ disk = Nothing /\ edits = Nothing
    /\ open = NoRoot /\ cached = NoWalk /\ generation = 0 /\ holder = 0
    /\ watch = [w \in Watcher |-> Asleep]
    /\ report = [n \in Slot |-> Idle]
    /\ held = Nothing /\ until = [p \in File |-> FALSE]
    /\ writer = [o \in Writer |-> [at |-> "idle", left |-> MaxWrites]]
    /\ opener = [o \in Opener |-> Idle]
    /\ told = Nothing /\ owed = {}

-----------------------------------------------------------------------------
(* The disk.                                                               *)

Live(w) == watch[w].on /\ ~watch[w].done

\* A write reaches the queue of every watcher on the collection.
Touch(p, own) ==
    /\ disk' = [disk EXCEPT ![p] = @ + 1]
    /\ watch' = [w \in Watcher |->
                    IF Live(w) /\ watch[w].root = Home
                    THEN [watch[w] EXCEPT !.events = @ \cup {<<p, disk[p] + 1, own>>}]
                    ELSE watch[w]]

\* The open collection's own watcher is on.
Attended == open = Home /\ generation > 0 /\ Live(generation)

OtherEdits(p) ==
    /\ edits[p] < MaxEdits
    /\ edits' = [edits EXCEPT ![p] = @ + 1]
    /\ Touch(p, FALSE)
    /\ owed' = IF Attended THEN owed \cup {<<p, disk[p] + 1, FALSE>>} ELSE owed
    /\ UNCHANGED <<serviceVars, report, guardVars, writer, opener, told>>

-----------------------------------------------------------------------------
(* The guard.                                                              *)

Hold(p) ==
    /\ held' = [held EXCEPT ![p] = @ + 1]
    /\ until' = [until EXCEPT ![p] = FALSE]

\* Mutant of Release: the first of two writers to finish ends it for both.
ReleaseAll(p) ==
    /\ held' = [held EXCEPT ![p] = 0]
    /\ until' = [until EXCEPT ![p] = TRUE]

Release(p) ==
    IF held[p] > 1
    THEN held' = [held EXCEPT ![p] = @ - 1] /\ UNCHANGED until
    ELSE held' = [held EXCEPT ![p] = 0] /\ until' = [until EXCEPT ![p] = TRUE]

Suppressed(p) == held[p] > 0 \/ until[p]

GraceEnds(p) ==
    /\ until[p]
    /\ until' = [until EXCEPT ![p] = FALSE]
    /\ UNCHANGED <<disk, edits, serviceVars, watch, report, held, writer, opener, told, owed>>

-----------------------------------------------------------------------------
(* The watcher's loop and its timer.                                       *)

\* Mutant of Notice: a timer that has been armed is taken to be enough.
NoticeOnce(w, p) ==
    IF watch[w].timer THEN watch[w]
    ELSE [watch[w] EXCEPT !.pending = @ \cup {Kind(p)}, !.timer = TRUE]

\* The change is noted and the timer armed, or armed again.
Notice(w, p) == [watch[w] EXCEPT !.pending = @ \cup {Kind(p)}, !.timer = TRUE]

Handle(w) ==
    /\ Live(w)
    /\ \E e \in watch[w].events :
        LET taken == [watch EXCEPT ![w].events = @ \ {e}] IN
        IF Suppressed(e[1])
        THEN /\ watch' = taken
             /\ owed' = IF e[3] THEN owed ELSE owed \ {e}
        ELSE /\ watch' = [watch EXCEPT ![w] = [Notice(w, e[1]) EXCEPT !.events = @ \ {e}]]
             /\ UNCHANGED owed
    /\ UNCHANGED <<disk, edits, serviceVars, report, guardVars, writer, opener, told>>

Taken(w) == watch[w].pending

\* The timer's function takes what is pending and lets the next event arm another.
Flush(w, n) ==
    /\ watch[w].timer /\ report[n] = Idle
    /\ watch' = [watch EXCEPT ![w].pending = {}, ![w].timer = FALSE]
    /\ report' = [report EXCEPT ![n] = IF Taken(w) = {} THEN Idle
                                       ELSE [at |-> "taken", by |-> w, change |-> Taken(w)]]
    /\ UNCHANGED <<disk, edits, serviceVars, guardVars, writer, opener, told, owed>>

\* Closed while the timer was pending: nothing is said.
LookAtDone(n) ==
    /\ report[n].at = "taken"
    /\ report' = [report EXCEPT ![n] = IF watch[@.by].done THEN Idle ELSE [@ EXCEPT !.at = "reporting"]]
    /\ UNCHANGED <<disk, edits, serviceVars, watch, guardVars, writer, opener, told, owed>>

-----------------------------------------------------------------------------
(* CollectionService.onChange.                                             *)

IsCurrent(w) == generation = w /\ open = watch[w].root

OnChange(n) ==
    /\ report[n].at = "reporting"
    /\ report' = [report EXCEPT ![n] =
                    IF ~IsCurrent(@.by) THEN Idle
                    ELSE [at |-> IF "collection" \in @.change THEN "walking" ELSE "git",
                          by |-> @.by, change |-> @.change]]
    /\ UNCHANGED <<disk, edits, serviceVars, watch, guardVars, writer, opener, told, owed>>

ReportWalks(n) ==
    /\ report[n].at = "walking"
    /\ report' = [report EXCEPT ![n] = [at |-> "walked", by |-> @.by, change |-> @.change,
                                        walk |-> WalkOf(watch[@.by].root)]]
    /\ UNCHANGED <<disk, edits, serviceVars, watch, guardVars, writer, opener, told, owed>>

AfterWalk(r) == IF "git" \in r.change
                THEN [at |-> "git", by |-> r.by, change |-> r.change] ELSE Idle

ReportLooksAgain(n) ==
    /\ report[n].at = "walked"
    /\ report' = [report EXCEPT ![n] = IF IsCurrent(@.by) THEN [@ EXCEPT !.at = "caching"]
                                       ELSE AfterWalk(@)]
    /\ UNCHANGED <<disk, edits, serviceVars, watch, guardVars, writer, opener, told, owed>>

\* A walk is kept unless another collection is open by now.
Cache(walk) == cached' = IF open = walk.root THEN walk ELSE cached

\* The window hears of what the walk saw.
Announce(seen) ==
    /\ told' = [p \in File |-> IF seen[p] > told[p] THEN seen[p] ELSE told[p]]
    /\ owed' = {e \in owed : e[2] > seen[e[1]]}

ReportCaches(n) ==
    /\ report[n].at = "caching"
    /\ Cache(report[n].walk)
    /\ Announce(report[n].walk.seen)
    /\ report' = [report EXCEPT ![n] = AfterWalk(@)]
    /\ UNCHANGED <<disk, edits, open, generation, holder, watch, guardVars, writer, opener>>

ReportReadsGit(n) ==
    /\ report[n].at = "git"
    /\ IF IsCurrent(report[n].by)
       THEN Announce([p \in File |-> IF p \in GitFile THEN disk[p] ELSE 0])
       ELSE UNCHANGED <<told, owed>>
    /\ report' = [report EXCEPT ![n] = Idle]
    /\ UNCHANGED <<disk, edits, serviceVars, watch, guardVars, writer, opener>>

-----------------------------------------------------------------------------
(* Otis' own writers.                                                      *)

\* What is written next is decided by the open collection's files.
WriterHolds(o, p) ==
    /\ writer[o].at = "idle" /\ writer[o].left > 0 /\ open = Home
    /\ Hold(p)
    /\ writer' = [writer EXCEPT ![o] = [at |-> "holding", left |-> @.left - 1, file |-> p]]
    /\ UNCHANGED <<disk, edits, serviceVars, watch, report, opener, told, owed>>

WriterWrites(o) ==
    /\ writer[o].at = "holding"
    /\ Touch(writer[o].file, TRUE)
    /\ owed' = IF Attended
               THEN owed \cup {<<writer[o].file, disk[writer[o].file] + 1, TRUE>>} ELSE owed
    /\ writer' = [writer EXCEPT ![o].at = "written"]
    /\ UNCHANGED <<edits, serviceVars, report, guardVars, opener, told>>

\* Refresh: with no collection open there is nothing to walk, and the write is over.
WriterWalks(o) ==
    /\ writer[o].at = "written"
    /\ writer' = [writer EXCEPT ![o] =
                    IF open = NoRoot THEN [@ EXCEPT !.at = "letting go"]
                    ELSE [at |-> "walked", left |-> @.left, file |-> @.file, walk |-> WalkOf(open)]]
    /\ UNCHANGED <<disk, edits, serviceVars, watch, report, guardVars, opener, told, owed>>

WriterCaches(o) ==
    /\ writer[o].at = "walked"
    /\ Cache(writer[o].walk)
    /\ Announce(writer[o].walk.seen)
    /\ writer' = [writer EXCEPT ![o] = [at |-> "letting go", left |-> @.left, file |-> @.file]]
    /\ UNCHANGED <<disk, edits, open, generation, holder, watch, report, guardVars, opener>>

WriterReleases(o) ==
    /\ writer[o].at = "letting go"
    /\ Release(writer[o].file)
    /\ writer' = [writer EXCEPT ![o] = [at |-> "idle", left |-> @.left]]
    /\ UNCHANGED <<disk, edits, serviceVars, watch, report, opener, told, owed>>

-----------------------------------------------------------------------------
(* Opening and closing.                                                    *)

Begun == generation + Cardinality({o \in Opener : opener[o].at \in {"read", "stopped", "closing"}})

\* Open walks before it changes anything.
OpenReads(o, r) ==
    /\ opener[o] = Idle /\ Begun < MaxOpens
    /\ opener' = [opener EXCEPT ![o] = [at |-> "read", walk |-> WalkOf(r)]]
    /\ UNCHANGED <<disk, edits, serviceVars, watch, report, guardVars, writer, told, owed>>

\* stopWatching: the watcher is taken and closed; its timer is stopped, and a timer
\* function that is already running is not waited for.
StopWatching ==
    /\ holder' = 0
    /\ watch' = IF holder = 0 THEN watch
                ELSE [watch EXCEPT ![holder].done = TRUE, ![holder].events = {},
                                   ![holder].timer = FALSE]

\* What the closed watcher would have told is not told.
OpenStops(o) ==
    /\ opener[o].at = "read"
    /\ StopWatching
    /\ owed' = {}
    /\ opener' = [opener EXCEPT ![o].at = "stopped"]
    /\ UNCHANGED <<disk, edits, open, cached, generation, report, guardVars, writer, told>>

OpenSets(o) ==
    /\ opener[o].at = "stopped"
    /\ open' = opener[o].walk.root
    /\ cached' = opener[o].walk
    /\ generation' = generation + 1
    /\ owed' = {}
    /\ opener' = [opener EXCEPT ![o] = [at |-> "starting", as |-> generation + 1,
                                        root |-> @.walk.root]]
    /\ UNCHANGED <<disk, edits, holder, watch, report, guardVars, writer, told>>

OpenStarts(o) ==
    /\ opener[o].at = "starting"
    /\ watch' = [watch EXCEPT ![opener[o].as] = [Asleep EXCEPT !.on = TRUE, !.root = opener[o].root]]
    /\ opener' = [opener EXCEPT ![o] = [at |-> "started", as |-> @.as]]
    /\ UNCHANGED <<disk, edits, serviceVars, report, guardVars, writer, told, owed>>

\* The collection may have changed again while the watcher was starting.
Attach(w) ==
    IF generation = w
    THEN holder' = w /\ UNCHANGED watch
    ELSE watch' = [watch EXCEPT ![w].done = TRUE, ![w].events = {}, ![w].timer = FALSE]
         /\ UNCHANGED holder

OpenAttaches(o) ==
    /\ opener[o].at = "started"
    /\ Attach(opener[o].as)
    /\ opener' = [opener EXCEPT ![o] = Idle]
    /\ UNCHANGED <<disk, edits, open, cached, generation, report, guardVars, writer, told, owed>>

CloseStops(o) ==
    /\ opener[o] = Idle /\ open # NoRoot /\ Begun < MaxOpens
    /\ StopWatching
    /\ owed' = {}
    /\ opener' = [opener EXCEPT ![o] = [at |-> "closing"]]
    /\ UNCHANGED <<disk, edits, open, cached, generation, report, guardVars, writer, told>>

CloseClears(o) ==
    /\ opener[o].at = "closing"
    /\ open' = NoRoot /\ cached' = NoWalk
    /\ generation' = generation + 1
    /\ owed' = {}
    /\ opener' = [opener EXCEPT ![o] = Idle]
    /\ UNCHANGED <<disk, edits, holder, watch, report, guardVars, writer, told>>

-----------------------------------------------------------------------------

ReportSteps(n) == \/ LookAtDone(n) \/ OnChange(n) \/ ReportWalks(n)
                  \/ ReportLooksAgain(n) \/ ReportCaches(n) \/ ReportReadsGit(n)
WriterSteps(o) == WriterWrites(o) \/ WriterWalks(o) \/ WriterCaches(o) \/ WriterReleases(o)
OpenerSteps(o) == OpenStops(o) \/ OpenSets(o) \/ OpenStarts(o) \/ OpenAttaches(o) \/ CloseClears(o)

Next ==
    \/ \E p \in File : OtherEdits(p) \/ GraceEnds(p)
    \/ \E w \in Watcher : Handle(w) \/ \E n \in Slot : Flush(w, n)
    \/ \E n \in Slot : ReportSteps(n)
    \/ \E o \in Writer : (\E p \in File \ GitFile : WriterHolds(o, p)) \/ WriterSteps(o)
    \/ \E o \in Opener : (\E r \in Root : OpenReads(o, r)) \/ CloseStops(o) \/ OpenerSteps(o)

Spec == Init /\ [][Next]_vars

-----------------------------------------------------------------------------
(* Properties.                                                             *)

\* Nothing is left to be done: no event, timer, report or call under way.
Quiet ==
    /\ \A w \in Watcher : Live(w) => watch[w].events = {} /\ ~watch[w].timer
    /\ \A n \in Slot : report[n] = Idle
    /\ \A o \in Writer : writer[o].at = "idle"
    /\ \A o \in Opener : opener[o] = Idle

\* The window hears of every write to the open collection: of Otis' own from its
\* writer, and of another editor's from the watcher unless the guard took it for one
\* of Otis' own; however events, timers and reports overlap, and with other
\* collections opened and closed meanwhile (handle, flush, onChange, Refresh).
EveryChangeIsAnnounced == Quiet => owed = {}

\* While anybody at Otis is writing a file, its events are nobody else's, whoever of
\* several writers of the same file finishes first (Writing).
GuardCoversEveryWriter ==
    \A p \in File :
        held[p] = Cardinality({o \in Writer : writer[o].at # "idle" /\ writer[o].file = p})

\* What is served as the walk of the open collection is one, and not that of the
\* collection that was open when the walk began (cache).
CachedWalkIsOfTheOpen == cached.root = open

\* The guard is of whoever still writes, and the cache of the collection that is open.
GuardAndCacheHold == GuardCoversEveryWriter /\ CachedWalkIsOfTheOpen
=============================================================================
