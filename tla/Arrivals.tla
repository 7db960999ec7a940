------------------------------ MODULE Arrivals ------------------------------
(***************************************************************************)
(* How a collection comes to be and comes to the window: an import that is *)
(* planned and committed (internal/services/import.go, with Write of       *)
(* importer/postman/write.go), a new collection (start.go and              *)
(* collection/scaffold.go), a clone (start.go and internal/gitclone), and  *)
(* a path from outside, which the window pulls (OpenPath and               *)
(* TakePendingOpen of collection.go).                                      *)
(*                                                                         *)
(* A directory is there or not, and holds files by name; a file is of      *)
(* whoever wrote it last.                                                  *)
(***************************************************************************)
EXTENDS Naturals, FiniteSets, Sequences

CONSTANTS Dir,        \* the directories asked for
          Home,       \* a collection that is there already
          Within,     \* the directories of Dir that are in Home
          Call,       \* calls of the services
          None,
          Touched,    \* the files of Dir, <<directory, name>>, others may write
          MaxOthers   \* how often something else happens to the files

Name == {"a", "b", ".git"}
Visible == {"a", "b"}
Theirs == "theirs"

Absent == [there |-> FALSE, holds |-> [n \in Name |-> None]]

VARIABLES disk,      \* disk[d]: the directory
          open,      \* the root of the open collection, or None
          plan,      \* the destination of the planned import, or None
          slot,      \* the clone CancelClone would stop, or None
          cancelled, \* the clones whose context is cancelled
          pending,   \* the root the window is to show a node of, or None
          nudged,    \* an OpenNode event is on its way to a mounted window
          mounted,   \* the window has mounted
          request,   \* request[c]: what a call is, or None
          step,      \* step[c]: where it is
          others,    \* what others have done, counted
          alone,     \* the calls nothing else happened beside
          found,     \* found[c]: its directory when it began
          shown      \* the root of the node the window navigated to last, or None

callVars == <<request, step, others, alone, found>>
windowVars == <<pending, nudged, mounted, shown>>
vars == <<disk, open, plan, slot, cancelled, callVars, windowVars>>

Root == Dir \cup {Home}

TypeOK ==
    /\ disk \in [Dir -> [there : BOOLEAN, holds : [Name -> Call \cup {Theirs, None}]]]
    /\ open \in Root \cup {None} /\ plan \in Dir \cup {None}
    /\ slot \in Call \cup {None} /\ cancelled \subseteq Call
    /\ pending \in Root \cup {None} /\ shown \in Root \cup {None}
    /\ others \in 0 .. MaxOthers /\ alone \subseteq Call

Idle == {"new", "done", "refused", "failed"}
InFlight == {c \in Call : step[c] \notin Idle}
Goto(c, s) == step' = [step EXCEPT ![c] = s]

\* Its directory at this call, and the outcome of one that has ended.
To(c) == request[c].dir
Is(c, op) == request[c] # None /\ request[c].op = op

Empty(d, names) == \A n \in names : disk[d].holds[n] = None
Made(d) == [disk EXCEPT ![d].there = TRUE]
With(d, n, who) == [disk EXCEPT ![d].there = TRUE, ![d].holds[n] = who]

Begin(c, op, d, inside, s) ==
    /\ step[c] = "new"
    /\ request' = [request EXCEPT ![c] = [op |-> op, dir |-> d, inside |-> inside]]
    /\ Goto(c, s)
    /\ alone' = IF InFlight = {} THEN alone \cup {c} ELSE alone \ InFlight
    /\ found' = [found EXCEPT ![c] = IF d \in Dir THEN disk[d] ELSE Absent]
    /\ UNCHANGED others

Moves(c, s) == Goto(c, s) /\ UNCHANGED <<request, others, alone, found>>

----------------------------------------------------------------------------
(* An import: planned, pointed elsewhere, committed or dropped.            *)

\* The dialog plans nothing while it commits.
PlanFile(d) ==
    /\ plan = None /\ \A c \in InFlight : ~Is(c, "import")
    /\ d \in IF open = Home THEN Within ELSE Dir \ Within
    /\ plan' = d
    /\ UNCHANGED <<disk, open, slot, cancelled, callVars, windowVars>>

Retarget(d) ==
    /\ plan \notin {None, d}
    /\ plan' = d
    /\ UNCHANGED <<disk, open, slot, cancelled, callVars, windowVars>>

Discard ==
    /\ plan # None
    /\ plan' = None
    /\ UNCHANGED <<disk, open, slot, cancelled, callVars, windowVars>>

\* Commit reads the plan again, with its directory as it is now.
Commit(c) ==
    /\ plan # None
    /\ Begin(c, "import", plan, open = Home /\ plan \in Within,
             IF Empty(plan, Visible) THEN "held" ELSE "refused")
    /\ UNCHANGED <<disk, open, plan, slot, cancelled, windowVars>>

CommitHolds(c) ==
    /\ step[c] = "held"
    /\ Moves(c, IF plan = None THEN "refused" ELSE "checking")
    /\ UNCHANGED <<disk, open, plan, slot, cancelled, windowVars>>

\* Write makes the directory and looks again.
WriteChecks(c) ==
    /\ step[c] = "checking" /\ Is(c, "import")
    /\ disk' = Made(To(c))
    /\ Moves(c, IF Empty(To(c), Visible) THEN "first" ELSE "refused")
    /\ UNCHANGED <<open, plan, slot, cancelled, windowVars>>

\* One file after the other; the disk may be full at either.
WriteFile(c) ==
    /\ step[c] \in {"first", "second"}
    /\ \/ /\ disk' = With(To(c), IF step[c] = "first" THEN "a" ELSE "b", c)
          /\ Moves(c, IF step[c] = "first" THEN "second"
                      ELSE IF Is(c, "import") THEN "written" ELSE "opening")
       \/ UNCHANGED disk /\ Moves(c, "failed")
    /\ UNCHANGED <<open, plan, slot, cancelled, windowVars>>

ForgetPlan(c) ==
    /\ step[c] = "written"
    /\ plan' = None
    /\ Moves(c, IF request[c].inside THEN "refreshing" ELSE "opening")
    /\ UNCHANGED <<disk, open, slot, cancelled, windowVars>>

\* What Go opened or wrote is read again, for the window; nothing may be open.
RefreshTree(c) ==
    /\ step[c] = "refreshing"
    /\ Moves(c, IF Is(c, "clone") THEN IF open = None THEN "failing" ELSE "ending"
                ELSE IF open = None THEN "failed" ELSE "done")
    /\ UNCHANGED <<disk, open, plan, slot, cancelled, windowVars>>

----------------------------------------------------------------------------
(* A new collection.                                                       *)

Create(c, d) ==
    /\ Begin(c, "create", d, FALSE, IF Empty(d, Name) THEN "making" ELSE "refused")
    /\ UNCHANGED <<disk, open, plan, slot, cancelled, windowVars>>

MakeDir(c) ==
    /\ step[c] = "making"
    /\ disk' = Made(To(c))
    /\ Moves(c, "first")
    /\ UNCHANGED <<open, plan, slot, cancelled, windowVars>>

----------------------------------------------------------------------------
(* A clone: one at a time, and git in a process of its own.                *)

Clone(c, d) ==
    /\ Begin(c, "clone", d, FALSE, IF slot = None THEN "looking" ELSE "refused")
    /\ slot' = IF slot = None THEN c ELSE slot
    /\ UNCHANGED <<disk, open, plan, cancelled, windowVars>>

CloneLooks(c) ==
    /\ step[c] = "looking"
    /\ Moves(c, IF disk[To(c)].there THEN "refusing" ELSE "starting")
    /\ UNCHANGED <<disk, open, plan, slot, cancelled, windowVars>>

\* A process is not started for a context that is cancelled.
StartGit(c) ==
    /\ step[c] = "starting"
    /\ Moves(c, IF c \in cancelled THEN "refusing" ELSE "git")
    /\ UNCHANGED <<disk, open, plan, slot, cancelled, windowVars>>

\* git makes the directory, or finds one with files in it and fails.
GitBegins(c) ==
    /\ step[c] = "git"
    /\ IF Empty(To(c), Name)
       THEN disk' = With(To(c), ".git", c) /\ Moves(c, "cloning")
       ELSE UNCHANGED disk /\ Moves(c, "removing")
    /\ UNCHANGED <<open, plan, slot, cancelled, windowVars>>

GitChecksOut(c) ==
    /\ step[c] = "cloning"
    /\ disk' = With(To(c), "a", c)
    /\ Moves(c, "cloned")
    /\ UNCHANGED <<open, plan, slot, cancelled, windowVars>>

\* It fails by itself, or is killed when the clone is cancelled.
GitFails(c) ==
    /\ step[c] \in {"git", "cloning", "cloned"}
    /\ step[c] = "cloned" => c \in cancelled
    /\ Moves(c, "removing")
    /\ UNCHANGED <<disk, open, plan, slot, cancelled, windowVars>>

\* Wait says that git ended well, whatever was cancelled since.
GitEnds(c) ==
    /\ step[c] = "cloned"
    /\ Moves(c, "opening")
    /\ UNCHANGED <<disk, open, plan, slot, cancelled, windowVars>>

\* The part of it stays when it was cancelled.
RemoveUnlessCancelled(c) ==
    /\ step[c] = "removing"
    /\ disk' = IF c \in cancelled THEN disk ELSE [disk EXCEPT ![To(c)] = Absent]
    /\ Moves(c, "failing")
    /\ UNCHANGED <<open, plan, slot, cancelled, windowVars>>

RemovePart(c) ==
    /\ step[c] = "removing"
    /\ disk' = [disk EXCEPT ![To(c)] = Absent]
    /\ Moves(c, "failing")
    /\ UNCHANGED <<open, plan, slot, cancelled, windowVars>>

\* Clone's deferred function, on every way out once it has the slot.
CloneEnds(c) ==
    /\ step[c] \in {"refusing", "failing", "ending"}
    /\ slot' = None
    /\ Moves(c, CASE step[c] = "refusing" -> "refused"
                  [] step[c] = "failing" -> "failed"
                  [] OTHER -> "done")
    /\ UNCHANGED <<disk, open, plan, cancelled, windowVars>>

CancelClone ==
    /\ slot # None /\ slot \notin cancelled
    /\ cancelled' = cancelled \cup {slot}
    /\ UNCHANGED <<disk, open, plan, slot, callVars, windowVars>>

----------------------------------------------------------------------------
(* Opening.                                                                *)

\* A path from outside: a file double-clicked, an argument, a second launch.
OpenPath(c) ==
    /\ Begin(c, "path", Home, FALSE, "opening")
    /\ UNCHANGED <<disk, open, plan, slot, cancelled, windowVars>>

\* Open makes the collection current; the directory may be gone by then.
OpenRoot(c) ==
    /\ step[c] = "opening"
    /\ LET there == To(c) = Home \/ disk[To(c)].there
       IN  /\ open' = IF there THEN To(c) ELSE open
           /\ Moves(c, IF there THEN IF Is(c, "import") THEN "refreshing" ELSE "showing"
                       ELSE IF Is(c, "clone") THEN "failing" ELSE "failed")
    /\ UNCHANGED <<disk, plan, slot, cancelled, windowVars>>

\* What the window is to show is kept for it, and it is told.
Show(c) ==
    /\ step[c] = "showing"
    /\ pending' = To(c)
    /\ nudged' = mounted
    /\ Moves(c, IF Is(c, "path") THEN "done" ELSE "refreshing")
    /\ UNCHANGED <<disk, open, plan, slot, cancelled, mounted, shown>>

\* The window pulls on mounting, and when it is told.
TakePendingOpen ==
    /\ shown' = IF pending = None THEN shown ELSE pending
    /\ pending' = None

MountForgetting ==
    /\ ~mounted
    /\ mounted' = TRUE
    /\ UNCHANGED <<disk, open, plan, slot, cancelled, callVars, nudged, pending, shown>>

Mount ==
    /\ ~mounted
    /\ mounted' = TRUE
    /\ TakePendingOpen
    /\ UNCHANGED <<disk, open, plan, slot, cancelled, callVars, nudged>>

HearOpenNode ==
    /\ nudged /\ mounted
    /\ nudged' = FALSE
    /\ TakePendingOpen
    /\ UNCHANGED <<disk, open, plan, slot, cancelled, callVars, mounted>>

----------------------------------------------------------------------------
(* Others.                                                                 *)

Beside ==
    /\ others < MaxOthers /\ others' = others + 1
    /\ alone' = alone \ InFlight
    /\ UNCHANGED <<request, step, found>>

SomeoneWrites(d, n) ==
    /\ disk[d].holds[n] = None
    /\ disk' = With(d, n, Theirs)
    /\ Beside
    /\ UNCHANGED <<open, plan, slot, cancelled, windowVars>>

CloseCollection ==
    /\ open # None
    /\ open' = None
    /\ Beside
    /\ UNCHANGED <<disk, plan, slot, cancelled, windowVars>>

Init ==
    /\ disk = [d \in Dir |-> Absent]
    /\ open \in {Home, None}
    /\ plan = None /\ slot = None /\ cancelled = {}
    /\ pending = None /\ nudged = FALSE /\ mounted = FALSE /\ shown = None
    /\ request = [c \in Call |-> None] /\ step = [c \in Call |-> "new"]
    /\ others = 0 /\ alone = {} /\ found = [c \in Call |-> Absent]

Next ==
    \/ \E d \in Dir : PlanFile(d) \/ Retarget(d)
    \/ Discard \/ CancelClone \/ Mount \/ HearOpenNode \/ CloseCollection
    \/ \E t \in Touched : SomeoneWrites(t[1], t[2])
    \/ \E c \in Call :
        \/ Commit(c) \/ CommitHolds(c) \/ WriteChecks(c) \/ WriteFile(c) \/ ForgetPlan(c)
        \/ RefreshTree(c) \/ MakeDir(c) \/ OpenPath(c) \/ OpenRoot(c) \/ Show(c)
        \/ CloneLooks(c) \/ StartGit(c) \/ GitBegins(c) \/ GitChecksOut(c) \/ GitFails(c)
        \/ GitEnds(c) \/ RemovePart(c) \/ CloneEnds(c)
        \/ \E d \in Dir : Create(c, d) \/ Clone(c, d)

Spec == Init /\ [][Next]_vars

----------------------------------------------------------------------------
(* Properties.                                                             *)

\* The name is whose it was, and what it wrote is there.
KeepsWhatItFound(c) ==
    \A n \in Name : found[c].holds[n] # None => disk[To(c)].holds[n] = found[c].holds[n]
WroteAll(c) == disk[To(c)].holds["a"] = c

\* A call that nothing else happened beside left its directory as its answer
\* says: what was there is there, a clone that failed or was stopped left
\* nothing, what was refused changed no file, and what is done is all there
\* and, unless the window has gone on, open (Commit, Create, Clone, Write,
\* WriteScaffold, gitclone.Clone).
AnswersAreTrue ==
    \A c \in alone : To(c) \in Dir /\ step[c] \in Idle /\ InFlight = {} /\ others = 0
        /\ (\A b \in Call \ {c} : step[b] # "new" => To(b) # To(c)) =>
        /\ KeepsWhatItFound(c)
        /\ step[c] = "refused" => disk[To(c)].holds = found[c].holds
        /\ step[c] # "done" /\ Is(c, "clone") => disk[To(c)] = found[c]
        /\ step[c] = "done" => WroteAll(c)

\* The slot is the clone's that runs, and is free when none does: one git at a
\* time, and the next can always be started (Clone).
SlotIsTheClones ==
    /\ \A c \in Call : slot = c <=> Is(c, "clone") /\ step[c] \notin Idle
    /\ Cardinality({c \in Call : step[c] \in {"git", "cloning", "cloned", "removing"}}) <= 1

\* Once all is quiet, the window has shown the last thing it was to show, in
\* the collection that is open, whether it mounted before or after
\* (OpenPath, TakePendingOpen).
AskedForIsShown ==
    InFlight = {} /\ mounted /\ ~nudged =>
        /\ pending = None
        /\ shown # None /\ others = 0 /\ (\A c \in Call : step[c] # "new" => c \in alone) =>
            open \in {shown} \cup {To(c) : c \in {c \in Call : Is(c, "import")}}

ArrivesAsAnswered == AnswersAreTrue /\ SlotIsTheClones /\ AskedForIsShown

\* What a call made and said was done, no other call takes away
\* (gitclone.Clone removes its destination though git never made it).
DoneStays ==
    \A c \in Call : step[c] = "done" /\ To(c) \in Dir => disk[To(c)].there

\* A clone that was stopped does not switch the collection.
StoppedSwitchesNothing ==
    \A c \in cancelled : step[c] # "done"
=============================================================================
