--------------------------- MODULE MCCollection ---------------------------
(* What works on a collection's files, a part in each behaviour: the        *)
(* window's documents, the tree's order, environments, and how a collection *)
(* comes to be open.  The parts share files and no variables, so nothing is *)
(* lost by taking one at a time; a part is unused where the behaviour is    *)
(* not its own.                                                             *)
EXTENDS Rows

CONSTANTS Gone, NoDocument, None, Secret

VARIABLES part

CONSTANTS Reader, MaxTexts, MaxAnnounced
VARIABLES text, texts, walked, due, walk, announced, doc, saving, call, lost
Window == INSTANCE Documents WITH
    disk <- text, Nothing <- NoDocument, Call <- Reader

CONSTANTS Folder, Slug, MaxNumber, Kinds, Forms, FirstEntries, MaxUndo, MaxEntries, MaxOps,
          MaxForeign
VARIABLES dir, order, tree, undo, undoing, made, ops, foreign, last
Tree == INSTANCE Orders WITH First <- FirstEntries

CONSTANTS Base, MaxCopies, Var, Plain, Credential, FirstRows, Method, Ops, MaxHands, MaxFaults
VARIABLES file, vault, index, active, request, todo, stale, hand, faults, alone, excused
Settings == INSTANCE Environments WITH
    edits <- hand, MaxEdits <- MaxHands, Call <- Method, First <- FirstRows

CONSTANTS Dir, Home, Within, Arrival, Touched, MaxOthers
VARIABLES places, current, plan, slot, cancelled, pending, nudged, mounted, arrival, stage,
          others, beside, found, shown
Coming == INSTANCE Arrivals WITH
    disk <- places, open <- current, request <- arrival, step <- stage, alone <- beside,
    Call <- Arrival

\* What the parts' proofs rest on: the open folder is not one of those to be made, None is
\* none of the values it stands in for, others touch names there are, at least one number
\* can be taken and one operation undone, the methods are those there are, a credential is
\* neither a plain value nor the mark of a reference, and a file names a variable once
\* (resolve.ParseEnvironment keeps the last of two).
ASSUME CollectionAssumption ==
    /\ Home \notin Dir
    /\ None \notin Dir \cup {Home} \cup Arrival
    /\ None \notin [op : {"import", "create", "clone", "path"}, dir : Dir \cup {Home}, inside : BOOLEAN]
    /\ Touched \subseteq Dir \X {"a", "b", ".git"}
    /\ MaxNumber \in Nat \ {0} /\ MaxUndo \in Nat \ {0}
    /\ None \notin [rows : Seq([name : Var, value : Plain \cup {Secret}]), confirm : BOOLEAN]
    /\ None \notin Seq(Settings!Todo)
    /\ Ops \subseteq {"create", "set", "rename", "unset", "secret", "replace", "forget", "confirm",
                      "script", "duplicate", "delete", "activate"}
    /\ None \notin Credential \cup (Base \X (0..MaxCopies))
    /\ Secret \notin Plain /\ Credential \cap (Plain \cup {Secret}) = {} /\ Credential # {}
    /\ MaxCopies \in Nat
    /\ FirstRows \in Seq([name : Var, value : Plain \cup {Secret}])
    /\ \A i, j \in DOMAIN FirstRows : FirstRows[i].name = FirstRows[j].name => i = j

windowVars   == <<text, texts, walked, due, walk, announced, doc, saving, call, lost>>
treeVars     == <<dir, order, tree, undo, undoing, made, ops, foreign, last>>
settingsVars == <<file, vault, index, active, request, todo, stale, hand, faults, alone,
                  excused>>
comingVars   == <<places, current, plan, slot, cancelled, pending, nudged, mounted, arrival,
                  stage, others, beside, found, shown>>

Unused == "unused"

WindowUnused ==
    /\ text = Unused /\ texts = Unused /\ walked = Unused /\ due = Unused /\ walk = Unused
    /\ announced = Unused /\ doc = Unused /\ saving = Unused /\ call = Unused /\ lost = Unused
TreeUnused ==
    /\ dir = Unused /\ order = Unused /\ tree = Unused /\ undo = Unused /\ undoing = Unused
    /\ made = Unused /\ ops = Unused /\ foreign = Unused /\ last = Unused
SettingsUnused ==
    /\ file = Unused /\ vault = Unused /\ index = Unused /\ active = Unused /\ request = Unused
    /\ todo = Unused /\ stale = Unused /\ hand = Unused /\ faults = Unused /\ alone = Unused
    /\ excused = Unused
ComingUnused ==
    /\ places = Unused /\ current = Unused /\ plan = Unused /\ slot = Unused
    /\ cancelled = Unused /\ pending = Unused /\ nudged = Unused /\ mounted = Unused
    /\ arrival = Unused /\ stage = Unused /\ others = Unused /\ beside = Unused
    /\ found = Unused /\ shown = Unused

CollectionInit ==
    /\ part \in {"window", "tree", "settings", "coming"}
    /\ IF part = "window" THEN Window!Init ELSE WindowUnused
    /\ IF part = "tree" THEN Tree!Init ELSE TreeUnused
    /\ IF part = "settings" THEN Settings!Init ELSE SettingsUnused
    /\ IF part = "coming" THEN Coming!Init ELSE ComingUnused

CollectionNext ==
    /\ UNCHANGED part
    /\ \/ /\ part = "window" /\ UNCHANGED <<treeVars, settingsVars, comingVars>>
          /\ Window!Next
       \/ /\ part = "tree" /\ UNCHANGED <<windowVars, settingsVars, comingVars>>
          /\ Tree!Next
       \/ /\ part = "settings" /\ UNCHANGED <<windowVars, treeVars, comingVars>>
          /\ Settings!Next
       \/ /\ part = "coming" /\ UNCHANGED <<windowVars, treeVars, settingsVars>>
          /\ Coming!Next

collectionVars == <<part, windowVars, treeVars, settingsVars, comingVars>>

CollectionSpec == CollectionInit /\ [][CollectionNext]_collectionVars

-----------------------------------------------------------------------------
(* The instances' properties, each of the behaviours of its part.           *)

\* A re-read nobody asked for takes nothing that was typed (Documents).
RereadKeepsTyping == part = "window" => Window!RereadKeepsTyping

\* The tree lists every entry once, as its .order file says (Orders).
ShownOnceAndInOrder == part = "tree" => Tree!ShownOnceAndInOrder

\* An operation leaves the entries it is not about where and what they are (Orders).
OthersStayAsTheyAre == [][part = "tree" => Tree!OthersStay]_collectionVars

\* An undo that succeeds gives back what its operation found, overwriting nobody's edit; one
\* that is refused touches no .order file, but may have taken a move back (Orders).
UndoTakesBackItsOwn == [][part = "tree" => Tree!TakesBackItsOwn]_collectionVars

\* Environment files and the credential store tell the same (Environments).
FilesAndStoreAgree == part = "settings" => Settings!FilesAndStoreAgree

\* A method writes its own row and no other (Environments).
WritesTouchOneRow == [][part = "settings" => Settings!TouchesOneRow]_collectionVars

\* What brings a collection in leaves the disk and the window as it answers (Arrivals).
ArrivesAsAnswered == part = "coming" => Coming!ArrivesAsAnswered

-----------------------------------------------------------------------------
(* Values for TLC.                                                          *)

TwoRequests == [f \in Folder |-> IF f = "a" THEN {<<1, "file">>, <<2, "file">>} ELSE {}]
SecretAndPlain == <<[name |-> "x", value |-> Secret], [name |-> "y", value |-> "p"]>>
SomeFiles == {<<d, IF d \in Within THEN "a" ELSE ".git">> : d \in Dir}
=============================================================================
