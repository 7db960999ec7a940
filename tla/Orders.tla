------------------------------- MODULE Orders -------------------------------
(***************************************************************************)
(* The order of a folder's rows and what moves them                        *)
(* (src/internal/services/order.go, collection/order.go, and the renames,  *)
(* copies and deletions of services/request.go and folder.go).             *)
(*                                                                         *)
(* A directory maps entries to what they are; a name is a slug and the     *)
(* number UniqueName added to it, and an entry is a name with its kind, a  *)
(* request's file or a folder.  A .order file is a sequence of lines, each *)
(* naming an entry exactly or in the bare form, or a comment.  tree is the *)
(* walk the window shows, and lags behind what another editor does.        *)
(*                                                                         *)
(* Each method is one action, but for undo, which reverts and then pops,   *)
(* unlocked between the two.  A frame's then is history: what there was    *)
(* when its operation began.                                               *)
(***************************************************************************)
EXTENDS Integers, Sequences, SequencesExt, FiniteSetsExt

CONSTANTS
    Folder,
    Slug,       \* what typed names come down to, numbers in alphabetical order
    MaxNumber,  \* bound: how often a slug can be taken
    Kinds,      \* of entries: "file", "dir"
    Forms,      \* of the lines another editor writes: "file", "dir", "bare"
    First,      \* the entries to begin with: a set of <<slug, kind>> for each folder
    MaxUndo,    \* frames the undo stack keeps
    MaxEntries, \* bound: entries ever made
    MaxOps,     \* bound: operations of Otis but undo
    MaxForeign  \* bound: and of another editor

Name  == Slug \X (1..MaxNumber)
Entry == Name \X Kinds
Line  == Name \X {"file", "dir", "bare"}

NoFile == << <<"no file">> >>
\* The comment FormatOrder puts first, and one a person wrote.
Header  == <<"otis">>
Comment == <<"note">>

VARIABLES
    dir,    \* dir[f][e]: which entry e of folder f is, 0 for none
    order,  \* order[f]: the lines of f's .order file
    tree,   \* tree[f]: the rows the window shows
    undo,   \* the stack, its top last
    undoing,\* the frame an Undo has reverted and not popped, or NoFrame
    made,   \* entries ever made
    ops, foreign,  \* operations so far
    last    \* the latest operation, for the properties

vars == <<dir, order, tree, undo, undoing, made, ops, foreign, last>>

NoFrame == [files |-> <<>>, from |-> <<>>, to |-> <<>>, then |-> <<>>]

-----------------------------------------------------------------------------
(* .order files.                                                           *)

Held(d) == {e \in Entry : d[e] # 0}

\* lessName: by the file's name.  Of one slug the folder "x" comes first, then "x-2" and
\* "x-2.http", and "x.http" last: a dash sorts before a dot.  (No slug begins another, and
\* a number has one digit.)
Suffix(e) == IF e[1][2] = 1 /\ e[2] = "file" THEN MaxNumber + 1 ELSE e[1][2]
Less(e, g) ==
    \/ e[1][1] < g[1][1]
    \/ e[1][1] = g[1][1] /\ Suffix(e) < Suffix(g)
    \/ e[1][1] = g[1][1] /\ Suffix(e) = Suffix(g) /\ e[2] = "dir" /\ g[2] = "file"

\* The entry of a directory a line names, as a set of at most one: the exact key, or
\* for a bare line the request and failing that the folder.
Named(d, line) ==
    LET exact == {e \in Held(d) : e = line}
        file  == {e \in Held(d) : line = <<e[1], "bare">> /\ e[2] = "file"}
        folder == {e \in Held(d) : line = <<e[1], "bare">> /\ e[2] = "dir"}
    IN IF exact # {} THEN exact ELSE IF file # {} THEN file ELSE folder

IsName(line) == line \notin {Header, Comment}

\* Mutant of Applied: a line that repeats an entry moves it.
AppliedRepeating(d, lines) ==
    LET Place(placed, line) ==
            IF ~IsName(line) \/ Named(d, line) = {} THEN placed
            ELSE LET e == CHOOSE e \in Named(d, line) : TRUE
                 IN Append(SelectSeq(placed, LAMBDA g : g # e), e)
        listed == IF lines = NoFile THEN <<>> ELSE FoldLeft(Place, <<>>, lines)
    IN listed \o SetToSortSeq(Held(d) \ ToSet(listed), Less)

\* applyOrder: the entries the lines name, in their order, and then the rest.
Applied(d, lines) ==
    LET Place(placed, line) ==
            IF ~IsName(line) THEN placed
            ELSE placed \o SetToSeq(Named(d, line) \ ToSet(placed))
        listed == IF lines = NoFile THEN <<>> ELSE FoldLeft(Place, <<>>, lines)
    IN listed \o SetToSortSeq(Held(d) \ ToSet(listed), Less)

\* FormatOrder
Formatted(entries) == <<Header>> \o entries

\* orderLineNames: the rules of a line that names an entry.
LineNames(line, e) == line = e \/ line = <<e[1], "bare">>

\* EditOrderLine: the first line that names the entry is replaced, or dropped.
Edited(lines, from, to) ==
    LET at == IF lines = NoFile THEN {}
              ELSE {n \in DOMAIN lines : IsName(lines[n]) /\ LineNames(lines[n], from)}
    IN IF at = {} THEN lines
       ELSE SubSeq(lines, 1, Min(at) - 1) \o to \o SubSeq(lines, Min(at) + 1, Len(lines))

\* Lines that name nothing: each a warning on every walk.
Dangling(d, lines) ==
    IF lines = NoFile THEN {} ELSE {l \in ToSet(lines) : IsName(l) /\ Named(d, l) = {}}

-----------------------------------------------------------------------------

Walked(d, o) == [f \in Folder |-> Applied(d[f], o[f])]

TypeOK ==
    /\ dir \in [Folder -> [Entry -> 0..MaxEntries]]
    /\ \A f \in Folder : order[f] = NoFile \/ order[f] \in Seq(Line \cup {Header, Comment})
    /\ \A f \in Folder : tree[f] \in Seq(Entry)
    /\ Len(undo) <= MaxUndo
    /\ made \in 0..MaxEntries

NumberedFrom(S) ==
    SetToSeq({p \in Folder \X Entry :
                LET e == p[2] IN e[1][2] = 1 /\ <<e[1][1], e[2]>> \in S[p[1]]})

Init ==
    /\ dir = [f \in Folder |-> [e \in Entry |->
                LET all == NumberedFrom(First) IN
                IF <<f, e>> \in ToSet(all) THEN CHOOSE n \in DOMAIN all : all[n] = <<f, e>> ELSE 0]]
    /\ order = [f \in Folder |-> NoFile]
    /\ tree = Walked(dir, order)
    /\ undo = <<>> /\ undoing = NoFrame
    /\ made = Len(NumberedFrom(First))
    /\ ops = 0 /\ foreign = 0
    /\ last = [op |-> "start"]

\* Every operation of Otis ends in a re-walk.
Otis(name) ==
    /\ ops < MaxOps
    /\ ops' = ops + 1
    /\ tree' = Walked(dir', order')
    /\ last' = [op |-> name]
    /\ UNCHANGED foreign

Rows(f) == ToSet(tree[f])

\* captureOrder: the file as it stands.
Captured(f) == [folder |-> f, before |-> order[f]]

\* The files an operation rewrites, and the entry it moves.
Push(files, from, to) ==
    LET frame == [files |-> files, from |-> from, to |-> to,
                  then |-> [dir |-> dir, order |-> order]]
    IN undo' = IF Len(undo) = MaxUndo THEN Append(Tail(undo), frame) ELSE Append(undo, frame)

\* A drag within the folder: the window lists all of the folder's rows.
Reorder(f, rows) ==
    /\ ToSet(rows) = Rows(f) /\ Len(rows) = Len(tree[f])
    /\ order' = [order EXCEPT ![f] = Formatted(rows)]
    /\ Push(<<[prior |-> Captured(f), after |-> Formatted(rows)]>>, <<>>, <<>>)
    /\ UNCHANGED <<dir, undoing, made>>
    /\ Otis("reorder")

Without(rows, e) == SelectSeq(rows, LAMBDA g : g # e)

Arrives(f, e) == dir[f][e] = 0

\* A drag into another folder, at a position among its rows.
Move(f, e, g, at) ==
    /\ f # g /\ e \in Rows(f) \cap Held(dir[f]) /\ Arrives(g, e)
    /\ at \in 0..Len(tree[g])
    /\ dir' = [dir EXCEPT ![f][e] = 0, ![g][e] = dir[f][e]]
    /\ LET there == Formatted(InsertAt(tree[g], at + 1, e))
           here  == IF order[f] = NoFile THEN NoFile ELSE Formatted(Without(tree[f], e))
       IN /\ order' = [order EXCEPT ![g] = there, ![f] = here]
          /\ Push(<<[prior |-> Captured(f), after |-> here],
                    [prior |-> Captured(g), after |-> there]>>, <<f, e>>, <<g, e>>)
    /\ UNCHANGED <<undoing, made>>
    /\ Otis("move")

SetManual(f) ==
    /\ order' = [order EXCEPT ![f] = Formatted(tree[f])]
    /\ Push(<<[prior |-> Captured(f), after |-> Formatted(tree[f])]>>, <<>>, <<>>)
    /\ UNCHANGED <<dir, undoing, made>>
    /\ Otis("mode")

\* Nothing was there and nothing is there: not a change to remember.
SetAlphabetical(f) ==
    /\ order' = [order EXCEPT ![f] = NoFile]
    /\ IF order[f] = NoFile THEN UNCHANGED undo
       ELSE Push(<<[prior |-> Captured(f), after |-> NoFile]>>, <<>>, <<>>)
    /\ UNCHANGED <<dir, undoing, made>>
    /\ Otis("mode")

-----------------------------------------------------------------------------
(* Undo.                                                                   *)

\* Mutant of Unchanged: only a file that has gone is noticed.
UnchangedIfThere(files) ==
    \A n \in DOMAIN files : order[files[n].prior.folder] = NoFile => files[n].after = NoFile

Unchanged(files) == \A n \in DOMAIN files : order[files[n].prior.folder] = files[n].after

\* The moved entry can go back: it is still there, and its place is free.
CanReturn(frame) ==
    frame.from = <<>> \/ /\ dir[frame.to[1]][frame.to[2]] # 0
                         /\ dir[frame.from[1]][frame.from[2]] = 0

Returned(frame) ==
    IF frame.from = <<>> THEN dir
    ELSE [dir EXCEPT ![frame.to[1]][frame.to[2]] = 0,
                     ![frame.from[1]][frame.from[2]] = dir[frame.to[1]][frame.to[2]]]

Reverted(files) ==
    [f \in Folder |->
        IF \E n \in DOMAIN files : files[n].prior.folder = f
        THEN files[CHOOSE n \in DOMAIN files : files[n].prior.folder = f].prior.before
        ELSE order[f]]

\* revert: the moved entry goes back first, and then the .order files are looked at.
Undo ==
    /\ undo # <<>> /\ undoing = NoFrame
    /\ LET frame == Last(undo) IN
        IF ~CanReturn(frame)
        THEN last' = [op |-> "refused"] /\ UNCHANGED <<dir, order, undoing>>
        ELSE /\ dir' = Returned(frame)
             /\ IF Unchanged(frame.files)
                THEN /\ order' = Reverted(frame.files)
                     /\ undoing' = frame
                     /\ last' = [op |-> "undone"]
                ELSE /\ UNCHANGED <<order, undoing>>
                     /\ last' = [op |-> "refused"]
    /\ UNCHANGED <<tree, undo, made, ops, foreign>>

\* Whatever is on top by now is popped.
UndoPops ==
    /\ undoing # NoFrame
    /\ undo' = IF undo = <<>> THEN undo ELSE Front(undo)
    /\ undoing' = NoFrame
    /\ tree' = Walked(dir, order)
    /\ last' = [op |-> "popped"]
    /\ UNCHANGED <<dir, order, made, ops, foreign>>

\* Another collection is opened, and this one again.
Forget ==
    /\ undo # <<>>
    /\ undo' = <<>>
    /\ last' = [op |-> "forget"]
    /\ UNCHANGED <<dir, order, tree, undoing, made, ops, foreign>>

-----------------------------------------------------------------------------
(* Creating, renaming, copying and deleting.                               *)

\* namesInUse: a request and a folder cannot share a name.
Used(f) == {e[1] : e \in Held(dir[f])}

Free(slug, used) == {n \in 1..MaxNumber : <<slug, n>> \notin used}

\* Mutant of Unique: what was typed is what the file is called.
UniqueAsTyped(slug, used) == <<slug, 1>>

\* UniqueName: the slug, or the slug with the first number that is free.
Unique(slug, used) == <<slug, Min(Free(slug, used))>>

Make(f, kind, slug, what) ==
    /\ made < MaxEntries /\ Free(slug, Used(f)) # {}
    /\ made' = made + 1
    /\ dir' = [dir EXCEPT ![f][<<Unique(slug, Used(f)), kind>>] = made + 1]
    /\ UNCHANGED <<order, undo, undoing>>
    /\ Otis(what)

Create(f, kind, slug) == Make(f, kind, slug, "create")

\* The copy is called for its name with "copy" after it, and the number that is free.
Duplicate(f, e, slug) ==
    /\ e \in Rows(f) \cap Held(dir[f])
    /\ Make(f, e[2], slug, "duplicate")

\* renameInOrder
RenamedIn(lines, from, to) == Edited(lines, from, <<to>>)

Rename(f, e, slug) ==
    /\ e \in Rows(f) \cap Held(dir[f])
    /\ Free(slug, Used(f) \ {e[1]}) # {}
    /\ LET to == <<Unique(slug, Used(f) \ {e[1]}), e[2]>>
       IN /\ dir' = [dir EXCEPT ![f] = [g \in Entry |-> IF g = to THEN dir[f][e]
                                                       ELSE IF g = e THEN 0 ELSE dir[f][g]]]
          /\ order' = IF to = e THEN order
                      ELSE [order EXCEPT ![f] = RenamedIn(@, e, to)]
    /\ UNCHANGED <<undo, undoing, made>>
    /\ Otis("rename")

\* removeNode: a file that has gone already is no error.
Delete(f, e) ==
    /\ e \in Rows(f)
    /\ dir' = [dir EXCEPT ![f][e] = 0]
    /\ order' = [order EXCEPT ![f] = Edited(@, e, <<>>)]
    /\ UNCHANGED <<undo, undoing, made>>
    /\ Otis("delete")

-----------------------------------------------------------------------------
(* Another editor, and the watcher that notices.                           *)

Foreign ==
    /\ foreign < MaxForeign
    /\ foreign' = foreign + 1
    /\ last' = [op |-> "foreign"]
    /\ UNCHANGED <<tree, undo, undoing, ops>>

HandLines == {<<n, form>> : n \in {m \in Name : m[2] = 1}, form \in Forms}

OtherOrders(f, lines) ==
    /\ order' = [order EXCEPT ![f] = lines]
    /\ Foreign
    /\ UNCHANGED <<dir, made>>

OtherDeletes(f, e) ==
    /\ dir[f][e] # 0
    /\ dir' = [dir EXCEPT ![f][e] = 0]
    /\ Foreign
    /\ UNCHANGED <<order, made>>

OtherCreates(f, e) ==
    /\ dir[f][e] = 0 /\ e[1][2] = 1 /\ made < MaxEntries
    /\ made' = made + 1
    /\ dir' = [dir EXCEPT ![f][e] = made + 1]
    /\ Foreign
    /\ UNCHANGED order

Notice ==
    /\ tree # Walked(dir, order)
    /\ tree' = Walked(dir, order)
    /\ last' = [op |-> "notice"]
    /\ UNCHANGED <<dir, order, undo, undoing, made, ops, foreign>>

Next ==
    \/ \E f \in Folder :
        \/ \E rows \in SetToSeqs(Rows(f)) : Reorder(f, rows)
        \/ SetManual(f) \/ SetAlphabetical(f)
        \/ \E k \in Kinds, s \in Slug : Create(f, k, s)
        \/ \E e \in Rows(f) :
            \/ Delete(f, e)
            \/ \E s \in Slug : Rename(f, e, s) \/ Duplicate(f, e, s)
            \/ \E g \in Folder : \E at \in 0..Len(tree[g]) : Move(f, e, g, at)
        \/ \E l, m \in HandLines : OtherOrders(f, <<Comment, l, m>>)
        \/ \E e \in Entry : OtherDeletes(f, e) \/ OtherCreates(f, e)
    \/ Undo \/ UndoPops \/ Forget \/ Notice

Spec == Init /\ [][Next]_vars

-----------------------------------------------------------------------------
(* Properties.                                                             *)

\* Where a line puts an entry: the first that names it, or after all lines.
Rank(d, lines, e) ==
    LET at == IF lines = NoFile THEN {}
              ELSE {n \in DOMAIN lines : IsName(lines[n]) /\ e \in Named(d, lines[n])}
    IN IF at = {} THEN 100 ELSE Min(at)

\* A folder shows each of its entries once, those the file lists where it first lists
\* them and the others by name after them, whatever the file says (applyOrder).
ShownOnceAndInOrder ==
    \A f \in Folder :
        LET rows == Applied(dir[f], order[f])
            rank(e) == Rank(dir[f], order[f], e)
        IN /\ ToSet(rows) = Held(dir[f]) /\ Len(rows) = Cardinality(Held(dir[f]))
           /\ \A m, n \in DOMAIN rows : m < n =>
                \/ rank(rows[m]) < rank(rows[n])
                \/ rank(rows[m]) = rank(rows[n]) /\ Less(rows[m], rows[n])

Identities(d) == {d[f][e] : f \in Folder, e \in Entry} \ {0}

\* No request or folder is overwritten: nothing but a deletion makes one go away, and
\* what Otis moves, renames, copies or brings back takes nobody's place (Move, revert,
\* Create, Rename, Duplicate).
NothingIsOverwritten ==
    last'.op \notin {"delete", "foreign"} => Identities(dir) \subseteq Identities(dir')

\* The lines of a file name entries as the walk takes them: each one, none twice, and
\* none that could be either of a request and a folder of one name.
Definite(d, lines) ==
    lines # NoFile => Dangling(d, lines) = {} /\
        \A m, n \in DOMAIN lines : \A e, g \in Held(d) :
            /\ IsName(lines[m]) /\ LineNames(lines[m], e)
            /\ IsName(lines[n]) /\ LineNames(lines[n], g)
            => (m = n <=> e = g)

ListsOnce(d, lines) ==
    lines # NoFile =>
        \A m, n \in DOMAIN lines : \A e \in Held(d) :
            e \in Named(d, lines[m]) \cap Named(d, lines[n]) => m = n

\* Otis leaves no line behind that names nothing: whoever renames, moves or deletes in
\* the window gets no warning for it on the next walk, but of an entry that a person
\* listed twice.  Bringing back an older file is not among them: it may list what was
\* deleted since.
NoLineLeftBehind ==
    last'.op \in {"rename", "delete", "move", "reorder", "create", "duplicate", "mode"} =>
        \A f \in Folder : tree[f] = Applied(dir[f], order[f]) /\ Definite(dir[f], order[f]) =>
            Dangling(dir'[f], order'[f]) \subseteq Dangling(dir[f], order[f])

Listed(f) == {e \in Held(dir[f]) : order[f] # NoFile /\
                                    \E n \in DOMAIN order[f] : e \in Named(dir[f], order[f][n])}

\* The entries of a folder that are there before and after a step, under one name
\* or, if a line listed them, under another.
Staying(f) ==
    {dir[f][e] : e \in {e \in Held(dir[f]) : \/ dir'[f][e] = dir[f][e]
                                            \/ /\ e \in Listed(f)
                                               /\ \E g \in Entry : dir'[f][g] = dir[f][e]}}

\* Rows as what they are and not as what they are called.
Shown(d, rows, S) == SelectSeq([n \in DOMAIN rows |-> d[rows[n]]], LAMBDA i : i \in S)

KeepsOrder(f) == Shown(dir'[f], tree'[f], Staying(f)) = Shown(dir[f], tree[f], Staying(f))

\* A rename, a deletion, a new request or a copy moves no row that was listed, and no
\* other row either: the renamed request "stays where it was" (Rename, Delete, Create,
\* Duplicate, EditOrderLine).
RowsKeepTheirPlace ==
    last'.op \in {"rename", "delete", "create", "duplicate"} =>
        \A f \in Folder : tree[f] = Applied(dir[f], order[f]) /\ Definite(dir[f], order[f]) =>
            KeepsOrder(f)

\* The same of any file that lists nothing twice: "one line changes, and it is the line
\* that named the thing they renamed" (EditOrderLine).
OneLineChanges ==
    [][last'.op \in {"rename", "delete"} =>
        \A f \in Folder : tree[f] = Applied(dir[f], order[f]) /\ ListsOnce(dir[f], order[f]) =>
            KeepsOrder(f)]_vars

\* No file of a frame has been changed since its operation.
LeftAlone(frame) ==
    \A n \in DOMAIN frame.files : order[frame.files[n].prior.folder] = frame.files[n].after

\* The entries as a frame's operation left them.
Leaves(frame) ==
    IF frame.from = <<>> THEN frame.then.dir
    ELSE [frame.then.dir EXCEPT ![frame.from[1]][frame.from[2]] = 0,
                                ![frame.to[1]][frame.to[2]] =
                                    frame.then.dir[frame.from[1]][frame.from[2]]]

\* The entry that was moved is back where it was, or another that has taken its name since;
\* no other goes, comes or is overwritten.
ComesBack(frame) ==
    IF frame.from = <<>> THEN dir' = dir
    ELSE /\ dir[frame.from[1]][frame.from[2]] = 0
         /\ dir'[frame.from[1]][frame.from[2]] = dir[frame.to[1]][frame.to[2]]
         /\ dir'[frame.to[1]][frame.to[2]] = 0
         /\ \A f \in Folder, e \in Entry :
                <<f, e>> \notin {frame.from, frame.to} => dir'[f][e] = dir[f][e]

\* The entry that was moved has gone, or its place is taken.
Barred(frame) ==
    frame.from # <<>> /\ (dir[frame.to[1]][frame.to[2]] = 0 \/ dir[frame.from[1]][frame.from[2]] # 0)

\* An undo that succeeds finds each .order file of its operation as the operation left it
\* and gives it back what was in it when the operation began, whatever Otis and others did
\* in between; it touches no other file and moves nothing but the entry that was moved, and
\* where the entries are as the operation left them they become what they were.
Undone(frame) ==
    LET touched == {frame.files[n].prior.folder : n \in DOMAIN frame.files} IN
    /\ LeftAlone(frame)
    /\ \A f \in Folder : order'[f] = IF f \in touched THEN frame.then.order[f] ELSE order[f]
    /\ ComesBack(frame)
    /\ dir = Leaves(frame) => dir' = frame.then.dir

\* One that is refused touches no .order file and is not forgotten.  It is refused because
\* the entry cannot go back, and then nothing has happened; or because a file was changed,
\* and then the entry has gone back already, so that the move is half undone (revert
\* renames before it checks, against its own comment: RefusedUndoLeavesAll).
Refused(frame) ==
    /\ UNCHANGED <<order, undo>>
    /\ \/ Barred(frame) /\ dir' = dir
       \/ ~LeftAlone(frame) /\ ~Barred(frame) /\ ComesBack(frame)

TakesBackItsOwn ==
    /\ last'.op = "undone" => Undone(Last(undo))
    /\ last'.op = "refused" => Refused(Last(undo))
UndoTakesBackItsOwn == [][TakesBackItsOwn]_vars

\* "Check every file before touching any, so a refusal leaves the reorder intact
\* rather than half undone" (revert).
RefusedUndoLeavesAll ==
    [][last'.op = "refused" => UNCHANGED <<dir, order>>]_vars

\* What the window does to one entry it does to no other: none is overwritten, no line
\* is left that names nothing, and no row moves but the one that was moved.
OthersStay == NothingIsOverwritten /\ NoLineLeftBehind /\ RowsKeepTheirPlace
OthersStayAsTheyAre == [][OthersStay]_vars
=============================================================================
