-------------------------- MODULE CollectionProofs --------------------------
(***************************************************************************)
(* Theorems about MCCollection, which runs the window's documents, the     *)
(* tree's order, the environment files with the credential store, and what *)
(* brings a collection in, a part in each behaviour.                       *)
(* An invariant holds of a behaviour of its part and says nothing of the   *)
(* others; the steps of the others leave part alone, and that is all that  *)
(* is needed of them.                                                      *)
(*                                                                         *)
(*   WindowInvariant   nothing was lost, and the document has a draft      *)
(*   TreeInvariant     a frame of the undo stack speaks of distinct        *)
(*                     folders: undoing one of its files then does not     *)
(*                     undo what undoing the one before did                *)
(*   ComingInvariant   what a call at each of its stages found and left    *)
(*                     in its directory, who holds the slot of the clone,  *)
(*                     and what the window is about to show                *)
(*   SettingsInvariant what the steps left of a call will make of files    *)
(*                     and store, and that the file it writes is what it   *)
(*                     read but for its own row                            *)
(*                                                                         *)
(* What is undone and what is overwritten are of a step: those theorems    *)
(* take TreeInvariant in the state before it, an operation at a time.      *)
(***************************************************************************)
EXTENDS MCCollection, FiniteSetTheorems, WellFoundedInduction, TLAPS

-----------------------------------------------------------------------------
(* The window's documents (Documents).                                     *)

\* The document is always one with a draft.
WindowInvariant == lost = {} /\ "draft" \in DOMAIN doc

\* A re-read that comes back to a document with unsaved edits leaves the draft alone.
LEMMA ReconciledKeepsDraft ==
    ASSUME WindowInvariant, doc.dirty, NEW d
    PROVE  Window!Reconciled(d).draft = doc.draft
BY DEF WindowInvariant, Window!Reconciled

LEMMA ReconciledHasDraft ==
    ASSUME WindowInvariant, NEW d
    PROVE  "draft" \in DOMAIN Window!Reconciled(d)
BY DEF WindowInvariant, Window!Reconciled, Window!Taking

LEMMA AnswersKeepTyping ==
    ASSUME WindowInvariant, NEW c \in Reader, Window!Answers(c)
    PROVE  WindowInvariant'
<1>1. CASE call[c].at = "failed"
    <2>1. doc' = IF ~doc.open THEN doc
                 ELSE [doc EXCEPT !.error = TRUE, !.busy = @ /\ call[c].kind = "re-read"]
        BY <1>1 DEF Window!Answers
    <2>2. doc'.draft = doc.draft /\ "draft" \in DOMAIN doc'
        BY <2>1 DEF WindowInvariant
    <2> QED
        BY <2>2 DEF Window!Answers, WindowInvariant
<1>2. CASE call[c].at = "answered" /\ call[c].kind = "re-read"
    <2>1. doc' = Window!Reconciled(call[c].doc)
        BY <1>2 DEF Window!Answers
    <2>2. /\ doc.dirty => doc'.draft = doc.draft
          /\ "draft" \in DOMAIN doc'
        BY <2>1, ReconciledKeepsDraft, ReconciledHasDraft
    <2> QED
        BY <2>2 DEF Window!Answers, WindowInvariant
<1>3. CASE call[c].at = "answered" /\ call[c].kind # "re-read"
    <2>1. \/ doc' = doc
          \/ doc' = [Window!Closed EXCEPT !.open = TRUE, !.loaded = call[c].doc,
                                          !.draft = call[c].doc.file]
        BY <1>3 DEF Window!Answers
    <2>2. "draft" \in DOMAIN doc'
        BY <2>1 DEF Window!Closed, WindowInvariant
    <2> QED
        BY <1>3, <2>2 DEF Window!Answers, WindowInvariant
<1> QED
    BY <1>1, <1>2, <1>3 DEF Window!Answers

LEMMA WindowGoesOn ==
    ASSUME WindowInvariant, Window!Next PROVE WindowInvariant'
<1>1. CASE \/ Window!OtherWrites \/ Window!OtherDeletes \/ Window!WatcherWalks
           \/ Window!WatcherCaches
    BY <1>1
    DEF Window!OtherWrites, Window!OtherDeletes, Window!WatcherWalks, Window!WatcherCaches,
        WindowInvariant
<1>2. CASE Window!Edit \/ Window!KeepMine
    BY <1>2 DEF Window!Edit, Window!KeepMine, WindowInvariant
<1>3. CASE Window!Forget
    BY <1>3 DEF Window!Forget, Window!Closed, WindowInvariant
<1>4. ASSUME NEW c \in Reader, Window!Open(c) \/ Window!Save(c) \/ Window!Reload(c) PROVE WindowInvariant'
    BY <1>4
    DEF Window!Open, Window!Save, Window!Reload, Window!Loading, Window!Closed, WindowInvariant
<1>5. ASSUME NEW c \in Reader,
             \/ Window!Hears(c) \/ Window!LoadFinds(c) \/ Window!LoadReads(c)
             \/ Window!SaveWrites(c) \/ Window!SaveWalks(c) \/ Window!SaveAnnounces(c)
      PROVE  WindowInvariant'
    BY <1>5
    DEF Window!Hears, Window!LoadFinds, Window!LoadReads, Window!SaveWrites, Window!SaveWalks,
        Window!SaveAnnounces, WindowInvariant
<1> QED
    BY <1>1, <1>2, <1>3, <1>4, <1>5, AnswersKeepTyping DEF Window!Next

\* However many calls of the window and edits of others there are, no re-read that nobody
\* asked for replaces what was typed (reconcile).
THEOREM CollectionKeepsTyping == CollectionSpec => []RereadKeepsTyping
<1> DEFINE Inv == part = "window" => WindowInvariant
<1>1. CollectionInit => Inv
    BY DEF CollectionInit, Window!Init, Window!Closed, WindowInvariant
<1>2. Inv /\ [CollectionNext]_collectionVars => Inv'
    <2> SUFFICES ASSUME Inv, [CollectionNext]_collectionVars, part' = "window" PROVE WindowInvariant'
        OBVIOUS
    <2>1. part = "window" /\ WindowInvariant
        BY DEF CollectionNext, collectionVars
    <2>2. CASE CollectionNext
        BY <2>1, <2>2, WindowGoesOn DEF CollectionNext
    <2>3. CASE UNCHANGED collectionVars
        BY <2>1, <2>3 DEF collectionVars, windowVars, WindowInvariant
    <2> QED
        BY <2>2, <2>3
<1>3. Inv => RereadKeepsTyping
    BY DEF RereadKeepsTyping, Window!RereadKeepsTyping, WindowInvariant
<1> QED
    BY <1>1, <1>2, <1>3, PTL DEF CollectionSpec

-----------------------------------------------------------------------------
(* The order of a tree, and undo (Orders).                                 *)

\* A table of folders and entries.
Tabled(d) ==
    /\ d = [f \in Folder |-> d[f]]
    /\ \A f \in Folder : d[f] = [e \in Tree!Entry |-> d[f][e]]

\* A frame's files are of distinct folders and hold what was in them when its operation
\* began, and it moves an entry from one to another in which it had its place free.
Moved(frame) ==
    \E f, g \in Folder, e \in Tree!Entry :
        f # g /\ frame.from = <<f, e>> /\ frame.to = <<g, e>> /\ frame.then.dir[g][e] = 0
Sound(frame) ==
    /\ \A n \in DOMAIN frame.files :
        LET folder == frame.files[n].prior.folder IN
        folder \in Folder /\ frame.files[n].prior.before = frame.then.order[folder]
    /\ \A m, n \in DOMAIN frame.files :
        frame.files[m].prior.folder = frame.files[n].prior.folder => m = n
    /\ Tabled(frame.then.dir)
    /\ frame.from = <<>> \/ Moved(frame)

\* The frame of an operation that begins now.
Framed(files, from, to) ==
    [files |-> files, from |-> from, to |-> to, then |-> [dir |-> dir, order |-> order]]

ElementsOf(s) == {s[i] : i \in DOMAIN s}

TreeInvariant ==
    /\ Tabled(dir)
    /\ undo \in Seq(ElementsOf(undo))
    /\ \A n \in DOMAIN undo : Sound(undo[n])

\* Every entry there was is there, under one name or another.
NothingLost ==
    \A f \in Folder, e \in Tree!Entry : dir[f][e] # 0 =>
        \E g \in Folder, x \in Tree!Entry : dir'[g][x] = dir[f][e]

LEMMA NothingLostIsKept == NothingLost => Tree!Identities(dir) \subseteq Tree!Identities(dir')
BY DEF NothingLost, Tree!Identities

LEMMA SeqOfElements ==
    ASSUME NEW S, NEW s \in Seq(S)
    PROVE  s \in Seq(ElementsOf(s)) /\ \A i \in DOMAIN s : s[i] \in S
<1>1. \A i \in 1..Len(s) : s[i] \in ElementsOf(s)
    BY DEF ElementsOf
<1> QED
    BY <1>1

\* A sequence whose frames are sound keeps so when its frames are of it, or a sound one.
LEMMA SoundStack ==
    ASSUME NEW S, undo' \in Seq(S), \A x \in S : Sound(x)
    PROVE  undo' \in Seq(ElementsOf(undo')) /\ \A n \in DOMAIN undo' : Sound(undo'[n])
BY SeqOfElements

LEMMA PushIsSound ==
    ASSUME TreeInvariant, NEW files, NEW from, NEW to, Sound(Framed(files, from, to)),
           Tree!Push(files, from, to)
    PROVE  undo' \in Seq(ElementsOf(undo')) /\ \A n \in DOMAIN undo' : Sound(undo'[n])
<1> DEFINE frame == Framed(files, from, to)
           S == ElementsOf(undo) \cup {frame}
<1>0. undo' = IF Len(undo) = MaxUndo THEN Append(Tail(undo), frame) ELSE Append(undo, frame)
    BY DEF Tree!Push, Framed
<1> HIDE DEF frame
<1>1. undo \in Seq(S)
    <2>1. undo \in Seq(ElementsOf(undo)) /\ \A i \in 1..Len(undo) : undo[i] \in S
        BY DEF TreeInvariant, ElementsOf
    <2> QED
        BY <2>1
<1>2. \A x \in S : Sound(x)
    BY DEF TreeInvariant, ElementsOf, frame
<1> HIDE DEF S
<1>3. frame \in S
    BY DEF S
<1>4. CASE Len(undo) = MaxUndo
    <2>1. undo # <<>>
        <3>1. \A w : w = <<>> => Len(w) = 0
            OBVIOUS
        <3> QED
            BY <1>4, <3>1, CollectionAssumption DEF CollectionAssumption
    <2>2. Tail(undo) \in Seq(S)
        BY <1>1, <2>1
    <2>3. undo' \in Seq(S)
        BY <1>0, <1>3, <1>4, <2>2
    <2> QED
        BY <1>2, <2>3, SoundStack
<1>5. CASE Len(undo) # MaxUndo
    <2>1. undo' \in Seq(S)
        BY <1>0, <1>1, <1>3, <1>5
    <2> QED
        BY <1>2, <2>1, SoundStack
<1> QED
    BY <1>4, <1>5

\* A frame of one file moves nothing.
LEMMA OneFileIsSound ==
    ASSUME TreeInvariant, NEW f \in Folder, NEW after
    PROVE  Sound(Framed(<<[prior |-> Tree!Captured(f), after |-> after]>>, <<>>, <<>>))
BY DEF Sound, Framed, Tree!Captured, TreeInvariant

LEMMA TwoFilesAreSound ==
    ASSUME TreeInvariant, NEW f \in Folder, NEW g \in Folder, f # g,
           NEW e \in Tree!Entry, dir[g][e] = 0, NEW here, NEW there
    PROVE  Sound(Framed(<<[prior |-> Tree!Captured(f), after |-> here],
                          [prior |-> Tree!Captured(g), after |-> there]>>, <<f, e>>, <<g, e>>))
<1> DEFINE one == [prior |-> Tree!Captured(f), after |-> here]
           two == [prior |-> Tree!Captured(g), after |-> there]
           files == <<one, two>>
           frame == Framed(files, <<f, e>>, <<g, e>>)
<1>1. /\ one.prior.folder = f /\ one.prior.before = order[f]
      /\ two.prior.folder = g /\ two.prior.before = order[g]
    BY DEF Tree!Captured
<1> HIDE DEF one, two
<1>2. DOMAIN files = {1, 2} /\ files[1] = one /\ files[2] = two
    OBVIOUS
<1> HIDE DEF files
<1>3. /\ frame.files = files /\ frame.from = <<f, e>> /\ frame.to = <<g, e>>
      /\ frame.then.dir = dir /\ frame.then.order = order
    BY DEF Framed
<1> HIDE DEF frame
<1>4. Moved(frame)
    BY <1>3 DEF Moved
<1>5. Sound(frame)
    BY <1>1, <1>2, <1>3, <1>4 DEF Sound, TreeInvariant
<1> QED
    BY <1>5 DEF frame, files, one, two

\* What a step that undoes nothing does to the properties.
LEMMA DirStays ==
    ASSUME TreeInvariant, dir' = dir
    PROVE  Tabled(dir') /\ NothingLost
BY DEF TreeInvariant, NothingLost

LEMMA UndoStays ==
    ASSUME TreeInvariant, undo' = undo
    PROVE  undo' \in Seq(ElementsOf(undo')) /\ \A n \in DOMAIN undo' : Sound(undo'[n])
BY DEF TreeInvariant

Placed(d, f, e, w) == [d EXCEPT ![f][e] = w]

LEMMA OneFolder ==
    ASSUME NEW d, Tabled(d), NEW f \in Folder, NEW e \in Tree!Entry, NEW w,
           NEW after, after = Placed(d, f, e, w)
    PROVE  /\ Tabled(after)
           /\ after[f][e] = w
           /\ \A g \in Folder, x \in Tree!Entry : (g # f \/ x # e) => after[g][x] = d[g][x]
<1>1. after = [g \in Folder |-> IF g = f THEN [d[f] EXCEPT ![e] = w] ELSE d[g]]
    BY DEF Tabled, Placed
<1>2. [d[f] EXCEPT ![e] = w] = [x \in Tree!Entry |-> IF x = e THEN w ELSE d[f][x]]
    BY DEF Tabled
<1>3. after[f] = [x \in Tree!Entry |-> IF x = e THEN w ELSE d[f][x]]
    BY <1>1, <1>2
<1>4. \A g \in Folder : g # f => after[g] = d[g]
    BY <1>1
<1>5. after[f][e] = w /\ \A x \in Tree!Entry : x # e => after[f][x] = d[f][x]
    BY <1>3
<1>6. after = [g \in Folder |-> after[g]]
    BY <1>1
<1>7. \A g \in Folder : after[g] = [x \in Tree!Entry |-> after[g][x]]
    <2>1. after[f] = [x \in Tree!Entry |-> after[f][x]]
        BY <1>3
    <2> QED
        BY <1>4, <2>1 DEF Tabled
<1> QED
    BY <1>4, <1>5, <1>6, <1>7 DEF Tabled

\* A nonempty set of numbers has a least one.
LEMMA MinIsThere ==
    ASSUME NEW S, S \subseteq Nat, S # {}
    PROVE  Tree!Min(S) \in S /\ \A y \in S : Tree!Min(S) <= y
<1>1. \E x \in S : \A y \in S : ~(<<y, x>> \in OpToRel(<, Nat))
    BY NatLessThanWellFounded, WFMin
<1>2. \A x, y \in Nat : <<y, x>> \in OpToRel(<, Nat) <=> y < x
    BY DEF OpToRel
<1>3. \E x \in S : \A y \in S : x <= y
    <2>1. PICK x \in S : \A y \in S : ~(<<y, x>> \in OpToRel(<, Nat))
        BY <1>1
    <2>2. \A y \in S : ~(y < x)
        BY <1>2, <2>1
    <2> QED
        BY <2>2
<1> QED
    BY <1>3 DEF Tree!Min

\* A name that is made up is one that nothing in the folder has.
LEMMA UniqueIsFree ==
    ASSUME NEW slug \in Slug, NEW used, Tree!Free(slug, used) # {}
    PROVE  Tree!Unique(slug, used) \in Tree!Name /\ Tree!Unique(slug, used) \notin used
<1>1. Tree!Free(slug, used) \subseteq 1..MaxNumber
    BY DEF Tree!Free
<1>2. Tree!Min(Tree!Free(slug, used)) \in Tree!Free(slug, used)
    BY <1>1, MinIsThere, CollectionAssumption DEF CollectionAssumption
<1> QED
    BY <1>2 DEF Tree!Unique, Tree!Free, Tree!Name

LEMMA NamedIsUsed ==
    ASSUME NEW f, NEW e \in Tree!Entry, e[1] \notin Tree!Used(f)
    PROVE  dir[f][e] = 0
BY DEF Tree!Used, Tree!Held

-----------------------------------------------------------------------------
(* Each operation.                                                         *)

\* What an action says of itself, and what it does to the entries and the stack.
Keeps == TreeInvariant' /\ Tree!TakesBackItsOwn /\ Tree!NothingIsOverwritten

LEMMA KeepsWhatIsNotUndone ==
    ASSUME TreeInvariant, last'.op \notin {"undone", "refused"},
           Tabled(dir'),
           NothingLost \/ last'.op \in {"delete", "foreign"},
           undo' \in Seq(ElementsOf(undo')), \A n \in DOMAIN undo' : Sound(undo'[n])
    PROVE  Keeps
BY NothingLostIsKept DEF Keeps, TreeInvariant, Tree!TakesBackItsOwn, Tree!NothingIsOverwritten

LEMMA ReorderKeeps ==
    ASSUME TreeInvariant, NEW f \in Folder, NEW rows, Tree!Reorder(f, rows) PROVE Keeps
<1>1. dir' = dir /\ last'.op = "reorder"
    BY DEF Tree!Reorder, Tree!Otis
<1>2. undo' \in Seq(ElementsOf(undo')) /\ \A n \in DOMAIN undo' : Sound(undo'[n])
    BY OneFileIsSound, PushIsSound DEF Tree!Reorder
<1> QED
    BY <1>1, <1>2, DirStays, KeepsWhatIsNotUndone

LEMMA ModeKeeps ==
    ASSUME TreeInvariant, NEW f \in Folder, Tree!SetManual(f) \/ Tree!SetAlphabetical(f) PROVE Keeps
<1>1. dir' = dir /\ last'.op = "mode"
    BY DEF Tree!SetManual, Tree!SetAlphabetical, Tree!Otis
<1>2. undo' \in Seq(ElementsOf(undo')) /\ \A n \in DOMAIN undo' : Sound(undo'[n])
    BY OneFileIsSound, PushIsSound, UndoStays DEF Tree!SetManual, Tree!SetAlphabetical
<1> QED
    BY <1>1, <1>2, DirStays, KeepsWhatIsNotUndone

\* An entry goes to a free place, and its own becomes free.
LEMMA Goes ==
    ASSUME TreeInvariant, NEW f \in Folder, NEW e \in Tree!Entry, NEW g \in Folder, NEW x \in Tree!Entry,
           (f # g \/ e # x), dir[g][x] = 0,
           dir' = Placed(Placed(dir, f, e, 0), g, x, dir[f][e])
    PROVE  Tabled(dir') /\ NothingLost
<1> DEFINE without == Placed(dir, f, e, 0)
<1> DEFINE w == dir[f][e]
<1>1. dir' = Placed(without, g, x, w) /\ without = Placed(dir, f, e, 0)
    OBVIOUS
<1> HIDE DEF without, w
<1>2. /\ Tabled(without)
      /\ \A h \in Folder, y \in Tree!Entry : (h # f \/ y # e) => without[h][y] = dir[h][y]
    BY <1>1, OneFolder DEF TreeInvariant
<1>3. /\ Tabled(dir') /\ dir'[g][x] = w
      /\ \A h \in Folder, y \in Tree!Entry : (h # g \/ y # x) => dir'[h][y] = without[h][y]
    BY <1>1, <1>2, OneFolder
<1>4. NothingLost
    <2> SUFFICES ASSUME NEW h \in Folder, NEW y \in Tree!Entry, dir[h][y] # 0
                 PROVE  \E k \in Folder, z \in Tree!Entry : dir'[k][z] = dir[h][y]
        BY DEF NothingLost
    <2>1. CASE h = f /\ y = e
        BY <1>3, <2>1 DEF w
    <2>2. CASE h # f \/ y # e
        <3>1. h # g \/ y # x
            OBVIOUS
        <3>2. without[h][y] = dir[h][y]
            BY <1>2, <2>2
        <3>3. dir'[h][y] = without[h][y]
            BY <1>3, <3>1
        <3> QED
            BY <3>2, <3>3
    <2> QED
        BY <2>1, <2>2
<1> QED
    BY <1>3, <1>4

LEMMA MoveKeeps ==
    ASSUME TreeInvariant, NEW f \in Folder, NEW e, NEW g \in Folder, NEW at, Tree!Move(f, e, g, at)
    PROVE  Keeps
<1>1. e \in Tree!Entry /\ f # g /\ dir[g][e] = 0
    BY DEF Tree!Move, Tree!Held, Tree!Arrives
<1>2. dir' = [dir EXCEPT ![f][e] = 0, ![g][e] = dir[f][e]] /\ last'.op = "move"
    BY DEF Tree!Move, Tree!Otis
<1>3. undo' \in Seq(ElementsOf(undo')) /\ \A n \in DOMAIN undo' : Sound(undo'[n])
    BY <1>1, TwoFilesAreSound, PushIsSound DEF Tree!Move
<1> QED
    <2>1. dir' = Placed(Placed(dir, f, e, 0), g, e, dir[f][e])
        BY <1>2 DEF Placed
    <2>2. Tabled(dir') /\ NothingLost
        BY <1>1, <2>1, Goes
    <2> QED
        BY <1>2, <1>3, <2>2, KeepsWhatIsNotUndone

LEMMA MakeKeeps ==
    ASSUME TreeInvariant, NEW f \in Folder, NEW kind \in Kinds, NEW slug \in Slug,
           NEW what, what \notin {"undone", "refused"}, Tree!Make(f, kind, slug, what)
    PROVE  Keeps
<1> DEFINE e == <<Tree!Unique(slug, Tree!Used(f)), kind>>
<1>1. e \in Tree!Entry /\ e[1] \notin Tree!Used(f)
    BY UniqueIsFree DEF Tree!Make, Tree!Entry
<1>2. dir[f][e] = 0
    BY <1>1, NamedIsUsed
<1>3. dir' = [dir EXCEPT ![f][e] = made + 1] /\ last'.op = what /\ undo' = undo
    BY DEF Tree!Make, Tree!Otis
<1> HIDE DEF e
<1>4. /\ Tabled(dir')
      /\ \A g \in Folder, x \in Tree!Entry : (g # f \/ x # e) => dir'[g][x] = dir[g][x]
    <2>1. dir' = Placed(dir, f, e, made + 1)
        BY <1>3 DEF Placed
    <2> QED
        BY <1>1, <2>1, OneFolder DEF TreeInvariant
<1>5. NothingLost
    BY <1>2, <1>4 DEF NothingLost
<1> QED
    BY <1>3, <1>4, <1>5, UndoStays, KeepsWhatIsNotUndone

LEMMA RenameKeeps ==
    ASSUME TreeInvariant, NEW f \in Folder, NEW e, NEW slug \in Slug, Tree!Rename(f, e, slug)
    PROVE  Keeps
<1> DEFINE to == <<Tree!Unique(slug, Tree!Used(f) \ {e[1]}), e[2]>>
<1>1. e \in Tree!Entry
    BY DEF Tree!Rename, Tree!Held
<1>2. to \in Tree!Entry /\ to[1] \notin Tree!Used(f) \ {e[1]} /\ to[2] = e[2]
    BY <1>1, UniqueIsFree DEF Tree!Rename, Tree!Entry
<1>3. /\ dir' = [dir EXCEPT ![f] = [g \in Tree!Entry |-> IF g = to THEN dir[f][e]
                                                        ELSE IF g = e THEN 0 ELSE dir[f][g]]]
      /\ last'.op = "rename" /\ undo' = undo
    BY DEF Tree!Rename, Tree!Otis
<1>4. to = e \/ dir[f][to] = 0
    <2>1. CASE to[1] = e[1]
        BY <1>1, <1>2, <2>1 DEF Tree!Entry
    <2>2. CASE to[1] # e[1]
        BY <1>2, <2>2, NamedIsUsed
    <2> QED
        BY <2>1, <2>2
<1> HIDE DEF to
<1>5. /\ dir'[f] = [g \in Tree!Entry |-> IF g = to THEN dir[f][e]
                                         ELSE IF g = e THEN 0 ELSE dir[f][g]]
      /\ \A g \in Folder : g # f => dir'[g] = dir[g]
      /\ dir' = [g \in Folder |-> dir'[g]]
    BY <1>3 DEF TreeInvariant, Tabled
<1>6. /\ dir'[f][to] = dir[f][e]
      /\ \A g \in Folder, x \in Tree!Entry :
            (g # f \/ x # to) /\ (g # f \/ x # e) => dir'[g][x] = dir[g][x]
    BY <1>2, <1>5
<1>7. NothingLost
    BY <1>2, <1>4, <1>6 DEF NothingLost
<1>8. Tabled(dir')
    <2>1. dir'[f] = [x \in Tree!Entry |-> dir'[f][x]]
        BY <1>5
    <2> QED
        BY <1>5, <2>1 DEF TreeInvariant, Tabled
<1> QED
    BY <1>3, <1>7, <1>8, UndoStays, KeepsWhatIsNotUndone

LEMMA DeleteKeeps ==
    ASSUME TreeInvariant, NEW f \in Folder, NEW e,
           \/ Tree!Delete(f, e) \/ Tree!OtherDeletes(f, e) \/ Tree!OtherCreates(f, e)
    PROVE  Keeps
<1>1. PICK w : dir' = [dir EXCEPT ![f][e] = w]
    BY DEF Tree!Delete, Tree!OtherDeletes, Tree!OtherCreates
<1>2. Tabled(dir')
    <2>1. CASE e \in Tree!Entry
        BY <1>1, <2>1, OneFolder DEF TreeInvariant, Placed
    <2>2. CASE e \notin Tree!Entry
        <3>1. [dir[f] EXCEPT ![e] = w] = dir[f]
            BY <2>2 DEF TreeInvariant, Tabled
        <3>2. dir' = dir
            BY <1>1, <3>1 DEF TreeInvariant, Tabled
        <3> QED
            BY <3>2, DirStays
    <2> QED
        BY <2>1, <2>2
<1>3. last'.op \in {"delete", "foreign"} /\ undo' = undo
    BY DEF Tree!Delete, Tree!OtherDeletes, Tree!OtherCreates, Tree!Otis, Tree!Foreign
<1> QED
    BY <1>2, <1>3, UndoStays, KeepsWhatIsNotUndone

LEMMA OtherOrdersKeeps ==
    ASSUME TreeInvariant, NEW f, NEW lines, Tree!OtherOrders(f, lines) PROVE Keeps
BY DirStays, UndoStays, KeepsWhatIsNotUndone DEF Tree!OtherOrders, Tree!Foreign

LEMMA NoticeKeeps == ASSUME TreeInvariant, Tree!Notice PROVE Keeps
BY DirStays, UndoStays, KeepsWhatIsNotUndone DEF Tree!Notice

LEMMA ForgetKeeps == ASSUME TreeInvariant, Tree!Forget PROVE Keeps
<1>1. dir' = dir /\ undo' = <<>> /\ last'.op = "forget"
    BY DEF Tree!Forget
<1>2. undo' \in Seq(ElementsOf(undo')) /\ \A n \in DOMAIN undo' : Sound(undo'[n])
    BY <1>1
<1> QED
    BY <1>1, <1>2, DirStays, KeepsWhatIsNotUndone

LEMMA PopKeeps == ASSUME TreeInvariant, Tree!UndoPops PROVE Keeps
<1>1. dir' = dir /\ last'.op = "popped"
    BY DEF Tree!UndoPops
<1>2. undo \in Seq(ElementsOf(undo)) /\ \A x \in ElementsOf(undo) : Sound(x)
    BY DEF TreeInvariant, ElementsOf
<1>3. undo' \in Seq(ElementsOf(undo))
    <2>1. CASE undo = <<>>
        BY <1>2, <2>1 DEF Tree!UndoPops
    <2>2. CASE undo # <<>>
        <3>1. undo' = SubSeq(undo, 1, Len(undo) - 1)
            BY <2>2 DEF Tree!UndoPops, Tree!Front
        <3>2. Len(undo) \in Nat /\ \A n \in 1..Len(undo) : undo[n] \in ElementsOf(undo)
            BY <1>2
        <3>3. \A n \in 1..(Len(undo) - 1) : undo[n] \in ElementsOf(undo)
            BY <3>2
        <3> QED
            BY <1>2, <3>1, <3>2, <3>3
    <2> QED
        BY <2>1, <2>2
<1>4. undo' \in Seq(ElementsOf(undo')) /\ \A n \in DOMAIN undo' : Sound(undo'[n])
    BY <1>2, <1>3, SoundStack
<1> QED
    BY <1>1, <1>4, DirStays, KeepsWhatIsNotUndone

TakesBack(frame) ==
    /\ last'.op = "undone" => Tree!Undone(frame)
    /\ last'.op = "refused" => Tree!Refused(frame)

\* A table is what it holds.
LEMMA SameTable ==
    ASSUME NEW d, NEW b, Tabled(d), Tabled(b),
           \A f \in Folder, e \in Tree!Entry : d[f][e] = b[f][e]
    PROVE  d = b
<1>1. \A f \in Folder : d[f] = b[f]
    BY DEF Tabled
<1> QED
    BY <1>1 DEF Tabled

\* What was moved goes back to its free place, and where all is as the move left it all
\* becomes what it was.
LEMMA EntryReturns ==
    ASSUME TreeInvariant, NEW frame, Sound(frame), Tree!CanReturn(frame),
           dir' = Tree!Returned(frame)
    PROVE  /\ Tabled(dir') /\ NothingLost
           /\ Tree!ComesBack(frame) /\ ~Tree!Barred(frame)
           /\ dir = Tree!Leaves(frame) => dir' = frame.then.dir
<1>1. CASE frame.from = <<>>
    BY <1>1, DirStays DEF Tree!Returned, Tree!ComesBack, Tree!Barred, Tree!Leaves
<1>2. CASE frame.from # <<>>
    <2>1. PICK f, g \in Folder, e \in Tree!Entry :
            f # g /\ frame.from = <<f, e>> /\ frame.to = <<g, e>> /\ frame.then.dir[g][e] = 0
        BY <1>2 DEF Sound, Moved
    <2>2. frame.from[1] = f /\ frame.from[2] = e /\ frame.to[1] = g /\ frame.to[2] = e
        BY <2>1
    <2>3. dir[f][e] = 0 /\ dir[g][e] # 0
        BY <1>2, <2>2 DEF Tree!CanReturn
    <2> DEFINE without == Placed(dir, g, e, 0)
    <2>4. dir' = Placed(without, f, e, dir[g][e])
        BY <1>2, <2>2 DEF Tree!Returned, Placed
    <2>5. Tabled(dir') /\ NothingLost
        BY <2>1, <2>3, <2>4, Goes
    <2>6. /\ Tabled(without) /\ without[g][e] = 0
          /\ \A h \in Folder, x \in Tree!Entry : (h # g \/ x # e) => without[h][x] = dir[h][x]
        BY OneFolder DEF TreeInvariant
    <2> HIDE DEF without
    <2>7. /\ dir'[f][e] = dir[g][e]
          /\ \A h \in Folder, x \in Tree!Entry : (h # f \/ x # e) => dir'[h][x] = without[h][x]
        BY <2>4, <2>6, OneFolder
    <2>8. /\ dir'[g][e] = 0
          /\ \A h \in Folder, x \in Tree!Entry :
                (h # f \/ x # e) /\ (h # g \/ x # e) => dir'[h][x] = dir[h][x]
        BY <2>1, <2>6, <2>7
    <2>9. Tree!ComesBack(frame)
        <3>1. ASSUME NEW h \in Folder, NEW x \in Tree!Entry, <<h, x>> \notin {<<f, e>>, <<g, e>>}
              PROVE  dir'[h][x] = dir[h][x]
            BY <2>8, <3>1
        <3> QED
            BY <1>2, <2>1, <2>2, <2>3, <2>7, <2>8, <3>1 DEF Tree!ComesBack
    <2>10. ~Tree!Barred(frame)
        BY <2>2, <2>3 DEF Tree!Barred
    <2>11. ASSUME dir = Tree!Leaves(frame) PROVE dir' = frame.then.dir
        <3> DEFINE then  == frame.then.dir
                   taken == Placed(then, f, e, 0)
        <3>1. dir = Placed(taken, g, e, then[f][e])
            BY <1>2, <2>2, <2>11 DEF Tree!Leaves, Placed
        <3>2. Tabled(then) /\ then[g][e] = 0
            BY <2>1 DEF Sound
        <3> HIDE DEF then
        <3>3. /\ Tabled(taken)
              /\ \A h \in Folder, x \in Tree!Entry : (h # f \/ x # e) => taken[h][x] = then[h][x]
            BY <3>2, OneFolder
        <3> HIDE DEF taken
        <3>4. /\ dir[g][e] = then[f][e]
              /\ \A h \in Folder, x \in Tree!Entry : (h # g \/ x # e) => dir[h][x] = taken[h][x]
            BY <3>1, <3>3, OneFolder
        <3>5. ASSUME NEW h \in Folder, NEW x \in Tree!Entry
              PROVE  dir'[h][x] = then[h][x]
            <4>1. CASE h = f /\ x = e
                BY <2>7, <3>4, <4>1
            <4>2. CASE h = g /\ x = e
                BY <2>8, <3>2, <4>2
            <4>3. CASE (h # f \/ x # e) /\ (h # g \/ x # e)
                BY <2>8, <3>3, <3>4, <4>3
            <4> QED
                BY <4>1, <4>2, <4>3
        <3>6. dir' = then
            BY <2>5, <3>2, <3>5, SameTable
        <3> QED
            BY <3>6 DEF then
    <2> QED
        BY <2>5, <2>9, <2>10, <2>11
<1> QED
    BY <1>1, <1>2

\* Every file gets back what it held, and no other file changes.
LEMMA FilesReturn ==
    ASSUME NEW frame, Sound(frame), order' = Tree!Reverted(frame.files)
    PROVE  LET touched == {frame.files[n].prior.folder : n \in DOMAIN frame.files} IN
           \A f \in Folder : order'[f] = IF f \in touched THEN frame.then.order[f] ELSE order[f]
<1> DEFINE files == frame.files
           touched == {files[n].prior.folder : n \in DOMAIN files}
<1>1. ASSUME NEW f \in Folder
      PROVE  order'[f] = IF f \in touched THEN frame.then.order[f] ELSE order[f]
    <2>1. CASE f \in touched
        <3>1. PICK n \in DOMAIN files : files[n].prior.folder = f
            BY <2>1
        <3>2. (CHOOSE m \in DOMAIN files : files[m].prior.folder = f) = n
            BY <3>1 DEF Sound
        <3>3. order'[f] = files[n].prior.before
            BY <3>1, <3>2 DEF Tree!Reverted
        <3>4. files[n].prior.before = frame.then.order[f]
            BY <3>1 DEF Sound
        <3> QED
            BY <2>1, <3>3, <3>4
    <2>2. CASE f \notin touched
        BY <2>2 DEF Tree!Reverted
    <2> QED
        BY <2>1, <2>2
<1> QED
    BY <1>1

LEMMA UndoKeeps == ASSUME TreeInvariant, Tree!Undo PROVE Keeps
<1> DEFINE frame == Tree!Last(undo)
<1>1. Sound(frame)
    <2>1. undo # <<>> /\ undo \in Seq(ElementsOf(undo))
        BY DEF Tree!Undo, TreeInvariant
    <2>2. Len(undo) \in 1..Len(undo) /\ DOMAIN undo = 1..Len(undo)
        BY <2>1
    <2> QED
        BY <2>2 DEF TreeInvariant, Tree!Last
<1>2. undo' = undo
    BY DEF Tree!Undo
<1>3. \/ ~Tree!CanReturn(frame) /\ dir' = dir /\ order' = order /\ last'.op = "refused"
      \/ /\ Tree!CanReturn(frame) /\ dir' = Tree!Returned(frame)
         /\ IF Tree!Unchanged(frame.files)
            THEN order' = Tree!Reverted(frame.files) /\ last'.op = "undone"
            ELSE order' = order /\ last'.op = "refused"
    BY DEF Tree!Undo
<1>4. TakesBack(frame) => Tree!TakesBackItsOwn
    BY DEF TakesBack, Tree!TakesBackItsOwn
<1> HIDE DEF frame
<1>5. CASE dir' = dir /\ order' = order /\ last'.op = "refused" /\ ~Tree!CanReturn(frame)
    <2>1. Tree!Barred(frame)
        BY <1>5 DEF Tree!CanReturn, Tree!Barred
    <2>2. TakesBack(frame)
        BY <1>2, <1>5, <2>1 DEF TakesBack, Tree!Refused
    <2> QED
        BY <1>2, <1>4, <1>5, <2>2, DirStays, UndoStays, NothingLostIsKept
        DEF Keeps, TreeInvariant, Tree!NothingIsOverwritten
<1>6. CASE /\ Tree!CanReturn(frame) /\ dir' = Tree!Returned(frame)
           /\ IF Tree!Unchanged(frame.files)
              THEN order' = Tree!Reverted(frame.files) /\ last'.op = "undone"
              ELSE order' = order /\ last'.op = "refused"
    <2>1. Tabled(dir') /\ NothingLost /\ Tree!ComesBack(frame) /\ ~Tree!Barred(frame)
          /\ (dir = Tree!Leaves(frame) => dir' = frame.then.dir)
        BY <1>1, <1>6, EntryReturns
    <2>2. Tree!LeftAlone(frame) <=> Tree!Unchanged(frame.files)
        BY DEF Tree!LeftAlone, Tree!Unchanged
    <2>3. TakesBack(frame)
        <3>1. CASE Tree!Unchanged(frame.files)
            <4>1. last'.op = "undone" /\ order' = Tree!Reverted(frame.files)
                BY <1>6, <3>1
            <4>2. Tree!Undone(frame)
                BY <1>1, <2>1, <2>2, <3>1, <4>1, FilesReturn DEF Tree!Undone
            <4> QED
                BY <4>1, <4>2 DEF TakesBack
        <3>2. CASE ~Tree!Unchanged(frame.files)
            BY <1>2, <1>6, <2>1, <2>2, <3>2 DEF TakesBack, Tree!Refused
        <3> QED
            BY <3>1, <3>2
    <2> QED
        BY <1>2, <1>4, <2>1, <2>3, UndoStays, NothingLostIsKept
        DEF Keeps, TreeInvariant, Tree!NothingIsOverwritten
<1> QED
    BY <1>3, <1>5, <1>6

LEMMA TreeGoesOn == ASSUME TreeInvariant, Tree!Next PROVE Keeps
<1>1. ASSUME NEW f \in Folder, NEW rows, Tree!Reorder(f, rows) PROVE Keeps
    BY <1>1, ReorderKeeps
<1>2. ASSUME NEW f \in Folder, Tree!SetManual(f) \/ Tree!SetAlphabetical(f) PROVE Keeps
    BY <1>2, ModeKeeps
<1>3. ASSUME NEW f \in Folder, NEW k \in Kinds, NEW s \in Slug, Tree!Create(f, k, s) PROVE Keeps
    BY <1>3, MakeKeeps DEF Tree!Create
<1>4. ASSUME NEW f \in Folder, NEW e, NEW s \in Slug, Tree!Rename(f, e, s) \/ Tree!Duplicate(f, e, s)
      PROVE  Keeps
    <2>1. CASE Tree!Rename(f, e, s)
        BY <2>1, RenameKeeps
    <2>2. CASE Tree!Duplicate(f, e, s)
        <3>1. e[2] \in Kinds /\ Tree!Make(f, e[2], s, "duplicate")
            BY <2>2 DEF Tree!Duplicate, Tree!Held, Tree!Entry
        <3> QED
            BY <3>1, MakeKeeps
    <2> QED
        BY <1>4, <2>1, <2>2
<1>5. ASSUME NEW f \in Folder, NEW e, NEW g \in Folder, NEW at, Tree!Move(f, e, g, at) PROVE Keeps
    BY <1>5, MoveKeeps
<1>6. ASSUME NEW f \in Folder, NEW e,
             Tree!Delete(f, e) \/ Tree!OtherDeletes(f, e) \/ Tree!OtherCreates(f, e)
      PROVE  Keeps
    BY <1>6, DeleteKeeps
<1>7. ASSUME NEW f \in Folder, NEW lines, Tree!OtherOrders(f, lines) PROVE Keeps
    BY <1>7, OtherOrdersKeeps
<1>8. CASE Tree!Undo \/ Tree!UndoPops \/ Tree!Forget \/ Tree!Notice
    BY <1>8, UndoKeeps, PopKeeps, ForgetKeeps, NoticeKeeps
<1> QED
    BY <1>1, <1>2, <1>3, <1>4, <1>5, <1>6, <1>7, <1>8 DEF Tree!Next

LEMMA TreeBegins == Tree!Init => TreeInvariant
<1> SUFFICES ASSUME Tree!Init PROVE TreeInvariant
    OBVIOUS
<1>1. Tabled(dir)
    BY DEF Tree!Init, Tabled
<1>2. undo = <<>>
    BY DEF Tree!Init
<1> QED
    BY <1>1, <1>2 DEF TreeInvariant

TreeInv == part = "tree" => TreeInvariant

LEMMA TreeInvBegins == CollectionInit => TreeInv
BY TreeBegins DEF CollectionInit, TreeInv

LEMMA TreeInvHolds ==
    ASSUME TreeInv, [CollectionNext]_collectionVars PROVE TreeInv'
<1> SUFFICES ASSUME part' = "tree" PROVE TreeInvariant'
    BY DEF TreeInv
<1>1. part = "tree" /\ TreeInvariant
    BY DEF CollectionNext, collectionVars, TreeInv
<1>2. CASE CollectionNext
    BY <1>1, <1>2, TreeGoesOn DEF CollectionNext, Keeps
<1>3. CASE UNCHANGED collectionVars
    BY <1>1, <1>3, DirStays, UndoStays DEF collectionVars, treeVars, TreeInvariant
<1> QED
    BY <1>2, <1>3

\* An undo that succeeds gives back what there was when its operation began and overwrites
\* nobody's edit; one that is refused touches no .order file, and has either done nothing or
\* taken the move back by half: however the stack came to be and whatever others did to the
\* files meanwhile (OrderService.Undo, revert).
THEOREM CollectionUndoesItsOwn == CollectionSpec => UndoTakesBackItsOwn
<1>1. TreeInv /\ [CollectionNext]_collectionVars
        => [part = "tree" => Tree!TakesBackItsOwn]_collectionVars
    BY TreeGoesOn DEF TreeInv, CollectionNext, Keeps
<1> QED
    BY <1>1, TreeInvBegins, TreeInvHolds, PTL DEF CollectionSpec, UndoTakesBackItsOwn

\* No request or folder is overwritten, for any folders, names and number of operations:
\* what is moved, renamed, copied, made or brought back takes nobody's place
\* (OrderService.Move, RequestService.Rename, Duplicate and Create, UniqueName, revert).
THEOREM CollectionOverwritesNothing ==
    CollectionSpec => [][part = "tree" => Tree!NothingIsOverwritten]_collectionVars
<1>1. TreeInv /\ [CollectionNext]_collectionVars
        => [part = "tree" => Tree!NothingIsOverwritten]_collectionVars
    BY TreeGoesOn DEF TreeInv, CollectionNext, Keeps
<1> QED
    BY <1>1, TreeInvBegins, TreeInvHolds, PTL DEF CollectionSpec

-----------------------------------------------------------------------------
(* A collection that comes (Arrivals).                                     *)

Root == Dir \cup {Home}
Directory == [there : BOOLEAN, holds : [Coming!Name -> Arrival \cup {Coming!Theirs, None}]]
Asked == [op : {"import", "create", "clone", "path"}, dir : Root, inside : BOOLEAN]
Ended == {"new", "done", "refused", "failed"}
\* A call o is at stage s of what it is.
AtIts(o, s) ==
    /\ s \in {"held", "checking", "written"} => o = "import"
    /\ s = "making" => o = "create"
    /\ s \in {"first", "second"} => o \in {"import", "create"}
    /\ s \in {"looking", "refusing", "starting", "git", "cloning", "cloned", "removing", "failing",
              "ending"} => o = "clone"
    /\ s = "showing" => o # "import"
    /\ s = "refreshing" => o # "path"

ComingTypes ==
    /\ places \in [Dir -> Directory]
    /\ current \in Root \cup {None} /\ plan \in Dir \cup {None}
    /\ slot \in Arrival \cup {None} /\ cancelled \subseteq Arrival
    /\ pending \in Root \cup {None} /\ shown \in Root \cup {None}
    /\ nudged \in BOOLEAN /\ mounted \in BOOLEAN
    /\ arrival \in [Arrival -> Asked \cup {None}]
    /\ stage = [c \in Arrival |-> stage[c]]
    /\ others \in Nat /\ beside \subseteq Arrival
    /\ found \in [Arrival -> Directory]

\* A call is at a stage of what it was asked, and a directory that is not there is empty.
Staged ==
    \A c \in Arrival :
        /\ stage[c] = "new" <=> arrival[c] = None
        /\ arrival[c] # None =>
            /\ AtIts(arrival[c].op, stage[c])
            /\ arrival[c].op = "path" <=> arrival[c].dir = Home
        /\ stage[c] = "new" => c \notin beside
NothingInNothing ==
    \A d \in Dir : ~places[d].there => \A n \in Coming!Name : places[d].holds[n] = None

\* Nobody else has been about the call's directory.
Undisturbed(c) ==
    /\ arrival[c] # None /\ arrival[c].dir \in Dir /\ others = 0
    /\ \A b \in Arrival \ {c} : stage[b] # "new" => arrival[b].dir # arrival[c].dir

\* What the directory now of a call o at stage s holds, of what it held when it began.
Kept(c, now, was) == \A n \in Coming!Name : was.holds[n] # None => now.holds[n] = was.holds[n]
Stands(c, o, s, now, was) ==
    /\ Kept(c, now, was)
    /\ s \in {"held", "checking", "making", "looking", "refusing", "starting", "git", "failing"} =>
        now = was
    /\ s \in {"held", "checking", "first", "second"} =>
        \A n \in Coming!Visible : was.holds[n] = None
    /\ s = "making" => \A n \in Coming!Name : was.holds[n] = None
    /\ s \in {"first", "second"} => now.there
    /\ s = "first" => now.holds = was.holds
    /\ s \in {"starting", "git", "cloning", "cloned", "removing"} =>
        was = Coming!Absent
    /\ s \in {"cloning", "cloned"} => now.there
    /\ s \in {"second", "written", "cloned", "opening", "showing", "refreshing", "ending", "done"} =>
        now.there /\ now.holds["a"] = c
    /\ s = "refused" => now.holds = was.holds
    /\ s \in {"refused", "failed"} /\ o = "clone" => now = was
StandsAlone ==
    \A c \in Arrival : Undisturbed(c) =>
        /\ Stands(c, arrival[c].op, stage[c], places[arrival[c].dir], found[c])
        /\ arrival[c].op = "clone" /\ stage[c] \in {"showing", "refreshing"} => current # None

SlotHeld ==
    \A c \in Arrival : slot = c <=> Coming!Is(c, "clone") /\ stage[c] \notin Ended

\* What the window shows, once it has taken what is pending.
ToShow == IF pending # None THEN pending ELSE shown
OneByOne == others = 0 /\ \A c \in Arrival : stage[c] # "new" => c \in beside
Pulled == mounted /\ ~nudged => pending = None
OneAtATime == OneByOne => \A b, c \in Arrival : stage[b] \notin Ended /\ stage[c] \notin Ended => b = c
ShowsCurrent ==
    OneByOne =>
        \/ \E c \in Arrival : stage[c] = "showing" /\ current = arrival[c].dir
        \/ /\ \A c \in Arrival : stage[c] # "showing"
           /\ \/ ToShow = None
              \/ current = ToShow
              \/ \E c \in Arrival : Coming!Is(c, "import") /\ current = arrival[c].dir

ComingInvariant ==
    /\ ComingTypes /\ Staged /\ NothingInNothing /\ StandsAlone /\ SlotHeld
    /\ Pulled /\ OneAtATime /\ ShowsCurrent

LEMMA EndedIsIdle == Ended = Coming!Idle
BY DEF Ended, Coming!Idle

\* What a call does to its own directory, and its stage, disturbs no other call's.
LEMMA OthersStand ==
    ASSUME ComingTypes, Staged, StandsAlone,
           NEW c \in Arrival, stage[c] # "new",
           stage' = [stage EXCEPT ![c] = stage'[c]], stage'[c] # "new",
           UNCHANGED <<arrival, others, found>>,
           \A d \in Dir : d # arrival[c].dir => places'[d] = places[d],
           current # None => current' # None,
           Undisturbed(c) =>
               /\ Stands(c, arrival[c].op, stage'[c], places'[arrival[c].dir], found[c])
               /\ arrival[c].op = "clone" /\ stage'[c] \in {"showing", "refreshing"} => current' # None
    PROVE  StandsAlone'
<1>1. \A b \in Arrival : Undisturbed(b)' => Undisturbed(b)
    BY DEF Undisturbed, ComingTypes
<1>2. \A b \in Arrival \ {c} : Undisturbed(b) => arrival[b].dir \in Dir /\ arrival[b].dir # arrival[c].dir
    BY DEF Undisturbed
<1>3. \A b \in Arrival \ {c} : stage'[b] = stage[b]
    BY DEF ComingTypes
<1> QED
    BY <1>1, <1>2, <1>3 DEF StandsAlone

LEMMA StaysStaged ==
    ASSUME ComingTypes, Staged,
           NEW c \in Arrival, stage[c] # "new",
           stage' = [stage EXCEPT ![c] = stage'[c]], stage'[c] # "new",
           UNCHANGED <<arrival, beside>>,
           AtIts(arrival[c].op, stage'[c])
    PROVE  Staged'
BY DEF ComingTypes, Staged

\* A step of a call's work: it goes to a stage at which nothing is to be shown.
LEMMA Works ==
    ASSUME ComingInvariant,
           NEW c \in Arrival, NEW s, s \notin {"new", "showing"},
           stage[c] \notin Ended, stage[c] # "showing", Coming!Moves(c, s),
           AtIts(arrival[c].op, s), arrival[c].op = "clone" => s \notin Ended,
           UNCHANGED <<current, slot, cancelled, pending, nudged, mounted, shown>>,
           plan' \in Dir \cup {None},
           places' \in [Dir -> Directory], NothingInNothing',
           \A d \in Dir : d # arrival[c].dir => places'[d] = places[d],
           Undisturbed(c) =>
               /\ Stands(c, arrival[c].op, s, places'[arrival[c].dir], found[c])
               /\ arrival[c].op = "clone" /\ s = "refreshing" => current # None
    PROVE  ComingInvariant'
<1> USE DEF ComingInvariant
<1>1. /\ stage' = [stage EXCEPT ![c] = s] /\ stage'[c] = s /\ UNCHANGED <<arrival, others, beside, found>>
    BY DEF Coming!Moves, Coming!Goto, ComingTypes
<1>2. stage[c] # "new" /\ s # "new"
    BY DEF Ended
<1>3. ComingTypes'
    BY <1>1 DEF ComingTypes
<1>4. Staged'
    BY <1>1, <1>2, StaysStaged
<1>5. StandsAlone'
    <2>1. Undisturbed(c) =>
            /\ Stands(c, arrival[c].op, stage'[c], places'[arrival[c].dir], found[c])
            /\ arrival[c].op = "clone" /\ stage'[c] \in {"showing", "refreshing"} => current' # None
        BY <1>1
    <2> QED
        BY <1>1, <1>2, <2>1, OthersStand
<1>6. \A b \in Arrival : b # c => stage'[b] = stage[b]
    BY <1>1 DEF ComingTypes
<1>7. SlotHeld'
    <2>1. arrival[c] # None
        BY <1>2 DEF Staged
    <2>2. CASE arrival[c].op = "clone"
        BY <1>1, <1>6, <2>1, <2>2 DEF SlotHeld, Coming!Is
    <2>3. CASE arrival[c].op # "clone"
        BY <1>1, <1>6, <2>3 DEF SlotHeld, Coming!Is
    <2> QED
        BY <2>2, <2>3
<1>8. Pulled'
    BY DEF Pulled
<1>9. OneByOne' => OneByOne
    BY <1>1, <1>2, <1>6 DEF OneByOne
<1>10. OneAtATime'
    BY <1>9, <1>6 DEF OneAtATime
<1>11. ShowsCurrent'
    BY <1>1, <1>6, <1>9 DEF ShowsCurrent, ToShow, Coming!Is
<1> QED
    BY <1>3, <1>4, <1>5, <1>7, <1>8, <1>10, <1>11

\* A call that is at a stage of its own has begun, about what it was asked.
LEMMA AtWork ==
    ASSUME ComingInvariant, NEW c \in Arrival, stage[c] \notin Ended
    PROVE  /\ arrival[c] \in Asked /\ arrival[c] # None
           /\ AtIts(arrival[c].op, stage[c])
           /\ arrival[c].op = "path" <=> arrival[c].dir = Home
           /\ arrival[c].op # "path" => arrival[c].dir \in Dir
           /\ Undisturbed(c) =>
                /\ Stands(c, arrival[c].op, stage[c], places[arrival[c].dir], found[c])
                /\ arrival[c].op = "clone" /\ stage[c] \in {"showing", "refreshing"} => current # None
BY DEF ComingInvariant, ComingTypes, Staged, StandsAlone, Ended, Asked, Root

LEMMA MadeIsPlaces ==
    ASSUME ComingInvariant, NEW d \in Dir
    PROVE  /\ Coming!Made(d) \in [Dir -> Directory]
           /\ Coming!Made(d)[d] = [places[d] EXCEPT !.there = TRUE]
           /\ \A x \in Dir : x # d => Coming!Made(d)[x] = places[x]
           /\ places' = Coming!Made(d) => NothingInNothing'
BY DEF ComingInvariant, ComingTypes, NothingInNothing, Directory, Coming!Made

LEMMA WithTouchesOne ==
    ASSUME ComingInvariant, NEW d \in Dir, NEW n, NEW who, NEW x \in Dir, x # d
    PROVE  Coming!With(d, n, who)[x] = places[x]
<1>1. DOMAIN places = Dir
    BY DEF ComingInvariant, ComingTypes
<1>2. DOMAIN Coming!Made(d) = Dir /\ Coming!Made(d)[x] = places[x]
    BY <1>1 DEF Coming!Made
<1>3. Coming!With(d, n, who) = [Coming!Made(d) EXCEPT ![d].holds[n] = who]
    BY DEF Coming!With, Coming!Made
<1> QED
    BY <1>2, <1>3

LEMMA WithIsPlaces ==
    ASSUME ComingInvariant, NEW d \in Dir, NEW n \in Coming!Name,
           NEW who \in Arrival \cup {Coming!Theirs, None}
    PROVE  /\ Coming!With(d, n, who) \in [Dir -> Directory]
           /\ Coming!With(d, n, who)[d].there
           /\ Coming!With(d, n, who)[d].holds = [places[d].holds EXCEPT ![n] = who]
           /\ \A x \in Dir : x # d => Coming!With(d, n, who)[x] = places[x]
           /\ places' = Coming!With(d, n, who) => NothingInNothing'
<1> DEFINE holds == [places[d].holds EXCEPT ![n] = who]
           there == Coming!Made(d)
           after == [there EXCEPT ![d].holds[n] = who]
<1>1. Coming!With(d, n, who) = after
    BY DEF Coming!With, Coming!Made
<1>2. /\ there \in [Dir -> Directory] /\ \A x \in Dir : x # d => there[x] = places[x]
      /\ there[d].there /\ there[d].holds = places[d].holds
    <2>1. places[d] \in Directory
        BY DEF ComingInvariant, ComingTypes
    <2> QED
        BY <2>1, MadeIsPlaces DEF Directory
<1> HIDE DEF there
<1>3. /\ after[d] = [there[d] EXCEPT !.holds = [there[d].holds EXCEPT ![n] = who]]
      /\ DOMAIN after = Dir /\ \A x \in Dir : x # d => after[x] = there[x]
    BY <1>2
<1>4. there[d] \in Directory
    BY <1>2
<1>5. after[d].there /\ after[d].holds = holds
    BY <1>2, <1>3, <1>4 DEF Directory
<1>6. holds \in [Coming!Name -> Arrival \cup {Coming!Theirs, None}]
    BY <1>2, <1>4 DEF Directory
<1>7. after[d] \in Directory
    <2> HIDE DEF holds
    <2> DEFINE r == there[d]
    <2>1. r \in Directory
        BY <1>4
    <2>2. [r EXCEPT !.holds = holds] \in Directory
        <3> HIDE DEF r
        <3> QED
            BY <2>1, <1>6 DEF Directory
    <2> QED
        BY <1>2, <1>3, <2>2 DEF holds
<1>8. after \in [Dir -> Directory]
    BY <1>2, <1>3, <1>7
<1> HIDE DEF after, holds
<1>9. \A x \in Dir : ~after[x].there => \A m \in Coming!Name : after[x].holds[m] = None
    <2>1. \A x \in Dir : x # d => after[x] = places[x]
        BY <1>2, <1>3
    <2>2. \A x \in Dir : ~places[x].there => \A m \in Coming!Name : places[x].holds[m] = None
        BY DEF NothingInNothing, ComingInvariant
    <2> QED
        BY <1>5, <2>1, <2>2
<1>10. places' = after => NothingInNothing'
    BY <1>9 DEF NothingInNothing
<1> QED
    BY <1>1, <1>2, <1>3, <1>5, <1>8, <1>10 DEF holds

LEMMA WithLeavesNothing ==
    ASSUME ComingInvariant, NEW d \in Dir, NEW n \in Coming!Name,
           NEW who \in Arrival \cup {Coming!Theirs, None},
           places' = Coming!With(d, n, who)
    PROVE  NothingInNothing'
<1> DEFINE with == Coming!With(d, n, who)
           Leaves == NothingInNothing'
<1>1. places' = with => Leaves
    BY WithIsPlaces
<1> HIDE DEF with, Leaves
<1>2. Leaves
    BY <1>1 DEF with
<1> QED
    BY <1>2 DEF Leaves

LEMMA AbsentIsPlaces ==
    ASSUME ComingInvariant, NEW d \in Dir
    PROVE  LET gone == [places EXCEPT ![d] = Coming!Absent] IN
           /\ gone \in [Dir -> Directory] /\ gone[d] = Coming!Absent
           /\ \A x \in Dir : x # d => gone[x] = places[x]
           /\ places' = gone => NothingInNothing'
BY DEF ComingInvariant, ComingTypes, NothingInNothing, Directory, Coming!Absent

\* What is not there is as nothing.
LEMMA NotThereIsAbsent ==
    ASSUME ComingInvariant, NEW d \in Dir, ~places[d].there
    PROVE  places[d] = Coming!Absent
<1>1. places[d] = [there |-> places[d].there, holds |-> places[d].holds] /\ places[d].there = FALSE
    BY DEF ComingInvariant, ComingTypes, Directory
<1>2. places[d].holds = [n \in Coming!Name |-> None]
    BY DEF ComingInvariant, ComingTypes, Directory, NothingInNothing
<1> QED
    BY <1>1, <1>2 DEF Coming!Absent

LEMMA HoldsAreFunctions ==
    ASSUME ComingInvariant
    PROVE  /\ \A d \in Dir : places[d].holds \in [Coming!Name -> Arrival \cup {Coming!Theirs, None}]
           /\ \A c \in Arrival : found[c].holds \in [Coming!Name -> Arrival \cup {Coming!Theirs, None}]
BY DEF ComingInvariant, ComingTypes, Directory

-----------------------------------------------------------------------------
(* The steps of a call that only go on, or change its own directory.       *)

LEMMA StaysPlaces ==
    ASSUME ComingInvariant, places' = places
    PROVE  places' \in [Dir -> Directory] /\ NothingInNothing'
BY DEF ComingInvariant, ComingTypes, NothingInNothing

LEMMA HoldsWorks ==
    ASSUME ComingInvariant, NEW c \in Arrival, Coming!CommitHolds(c)
    PROVE  ComingInvariant'
<1>1. stage[c] = "held" /\ stage[c] \notin Ended
    BY DEF Coming!CommitHolds, Ended
<1>2. AtIts(arrival[c].op, "refused") /\ AtIts(arrival[c].op, "checking") /\ arrival[c].op = "import"
    BY <1>1, AtWork DEF AtIts
<1>3. Undisturbed(c) =>
        /\ Stands(c, arrival[c].op, "refused", places[arrival[c].dir], found[c])
        /\ Stands(c, arrival[c].op, "checking", places[arrival[c].dir], found[c])
    BY <1>1, <1>2, AtWork DEF Stands
<1>4. UNCHANGED <<places, current, plan, slot, cancelled, pending, nudged, mounted, shown>>
    BY DEF Coming!CommitHolds, Coming!windowVars
<1>5. plan' \in Dir \cup {None}
    BY <1>4 DEF ComingInvariant, ComingTypes
<1>6. CASE plan = None
    <2>1. Coming!Moves(c, "refused")
        BY <1>6 DEF Coming!CommitHolds
    <2>2. places' \in [Dir -> Directory] /\ NothingInNothing'
        BY <1>4, StaysPlaces
    <2> QED
        BY <1>1, <1>2, <1>3, <1>4, <1>5, <2>1, <2>2, Works
<1>7. CASE plan # None
    <2>1. Coming!Moves(c, "checking")
        BY <1>7 DEF Coming!CommitHolds
    <2>2. places' \in [Dir -> Directory] /\ NothingInNothing'
        BY <1>4, StaysPlaces
    <2> QED
        BY <1>1, <1>2, <1>3, <1>4, <1>5, <2>1, <2>2, Works DEF Ended
<1> QED
    BY <1>6, <1>7

LEMMA ChecksWorks ==
    ASSUME ComingInvariant, NEW c \in Arrival, Coming!WriteChecks(c)
    PROVE  ComingInvariant'
<1> DEFINE d == arrival[c].dir
<1>1. stage[c] = "checking" /\ stage[c] \notin Ended
    BY DEF Coming!WriteChecks, Ended
<1>2. /\ AtIts(arrival[c].op, "refused") /\ AtIts(arrival[c].op, "first")
      /\ arrival[c].op = "import" /\ d \in Dir
    BY <1>1, AtWork DEF AtIts
<1>3. /\ UNCHANGED <<current, plan, slot, cancelled, pending, nudged, mounted, shown>>
      /\ places' = Coming!Made(d)
    BY DEF Coming!WriteChecks, Coming!windowVars, Coming!To
<1>4. plan' \in Dir \cup {None}
    BY <1>3 DEF ComingInvariant, ComingTypes
<1>5. /\ places' \in [Dir -> Directory] /\ NothingInNothing'
      /\ places'[d] = [places[d] EXCEPT !.there = TRUE]
      /\ \A x \in Dir : x # d => places'[x] = places[x]
    BY <1>2, <1>3, MadeIsPlaces
<1>6. places'[d].there /\ places'[d].holds = places[d].holds
    BY <1>2, <1>5 DEF ComingInvariant, ComingTypes, Directory
<1>7. Undisturbed(c) =>
        /\ Stands(c, arrival[c].op, "refused", places'[d], found[c])
        /\ Stands(c, arrival[c].op, "first", places'[d], found[c])
    BY <1>1, <1>2, <1>6, AtWork DEF Stands, Kept
<1>8. CASE Coming!Empty(Coming!To(c), Coming!Visible)
    <2>1. Coming!Moves(c, "first")
        BY <1>8 DEF Coming!WriteChecks
    <2> QED
        BY <1>1, <1>2, <1>3, <1>4, <1>5, <1>7, <2>1, Works DEF Ended
<1>9. CASE ~Coming!Empty(Coming!To(c), Coming!Visible)
    <2>1. Coming!Moves(c, "refused")
        BY <1>9 DEF Coming!WriteChecks
    <2> QED
        BY <1>1, <1>2, <1>3, <1>4, <1>5, <1>7, <2>1, Works
<1> QED
    BY <1>8, <1>9

LEMMA WritesWorks ==
    ASSUME ComingInvariant, NEW c \in Arrival, Coming!WriteFile(c)
    PROVE  ComingInvariant'
<1> DEFINE d == arrival[c].dir
           n == IF stage[c] = "first" THEN "a" ELSE "b"
<1>1. stage[c] \in {"first", "second"} /\ stage[c] \notin Ended
    BY DEF Coming!WriteFile, Ended
<1>2. /\ arrival[c].op \in {"import", "create"} /\ d \in Dir /\ arrival[c] # None
      /\ \A s \in {"failed", "second", "opening"} : AtIts(arrival[c].op, s)
      /\ arrival[c].op = "import" => AtIts(arrival[c].op, "written")
    BY <1>1, AtWork DEF AtIts
<1>3. UNCHANGED <<current, plan, slot, cancelled, pending, nudged, mounted, shown>>
    BY DEF Coming!WriteFile, Coming!windowVars
<1>4. plan' \in Dir \cup {None}
    BY <1>3 DEF ComingInvariant, ComingTypes
<1>5. n \in Coming!Name /\ c \in Arrival \cup {Coming!Theirs, None}
    BY DEF Coming!Name
<1>6. CASE places' = places /\ Coming!Moves(c, "failed")
    <2>1. places' \in [Dir -> Directory] /\ NothingInNothing'
        BY <1>6, StaysPlaces
    <2>2. Undisturbed(c) => Stands(c, arrival[c].op, "failed", places'[d], found[c])
        BY <1>1, <1>2, <1>6, AtWork DEF Stands
    <2> QED
        BY <1>1, <1>2, <1>3, <1>4, <1>6, <2>1, <2>2, Works
<1>7. CASE /\ places' = Coming!With(Coming!To(c), n, c)
           /\ Coming!Moves(c, IF stage[c] = "first" THEN "second"
                              ELSE IF Coming!Is(c, "import") THEN "written" ELSE "opening")
    <2>1. places' = Coming!With(d, n, c)
        BY <1>7 DEF Coming!To
    <2>2. /\ places' \in [Dir -> Directory] /\ NothingInNothing'
          /\ places'[d].there /\ places'[d].holds = [places[d].holds EXCEPT ![n] = c]
          /\ \A x \in Dir : x # d => places'[x] = places[x]
        BY <1>2, <1>5, <2>1, WithIsPlaces
    <2>3. places[d].holds \in [Coming!Name -> Arrival \cup {Coming!Theirs, None}]
        BY <1>2, HoldsAreFunctions
    <2>4. /\ places'[d].holds[n] = c
          /\ \A m \in Coming!Name : m # n => places'[d].holds[m] = places[d].holds[m]
        BY <1>5, <2>2, <2>3
    <2>5. CASE stage[c] = "first"
        <3>1. n = "a" /\ Coming!Moves(c, "second")
            BY <1>7, <2>5
        <3>2. Undisturbed(c) => Stands(c, arrival[c].op, "second", places'[d], found[c])
            <4>1. Undisturbed(c) =>
                    /\ places[d].holds = found[c].holds
                    /\ \A m \in Coming!Visible : found[c].holds[m] = None
                BY <1>1, <2>5, AtWork DEF Stands
            <4>2. Undisturbed(c) => Kept(c, places'[d], found[c])
                BY <2>4, <3>1, <4>1 DEF Kept, Coming!Visible
            <4>3. places'[d].there /\ places'[d].holds["a"] = c
                BY <2>2, <2>4, <3>1
            <4> QED
                BY <4>1, <4>2, <4>3, <1>2 DEF Stands
        <3> QED
            BY <1>1, <1>2, <1>3, <1>4, <2>2, <3>1, <3>2, Works DEF Ended
    <2>6. CASE stage[c] = "second"
        <3>1. n = "b"
            BY <2>6
        <3>2. Undisturbed(c) =>
                 Kept(c, places'[d], found[c]) /\ places'[d].there /\ places'[d].holds["a"] = c
            <4>1. Undisturbed(c) =>
                    /\ Kept(c, places[d], found[c]) /\ places[d].holds["a"] = c
                    /\ \A m \in Coming!Visible : found[c].holds[m] = None
                BY <1>1, <2>6, AtWork DEF Stands
            <4>2. "a" \in Coming!Name /\ "b" \in Coming!Visible
                BY DEF Coming!Name, Coming!Visible
            <4> QED
                BY <2>2, <2>4, <3>1, <4>1, <4>2 DEF Kept
        <3>3. Undisturbed(c) =>
                /\ Stands(c, arrival[c].op, "written", places'[d], found[c])
                /\ Stands(c, arrival[c].op, "opening", places'[d], found[c])
            BY <1>2, <3>2 DEF Stands
        <3>4. CASE arrival[c].op = "import"
            <4>1. Coming!Moves(c, "written")
                BY <1>2, <1>7, <2>6, <3>4 DEF Coming!Is
            <4> QED
                BY <1>1, <1>2, <1>3, <1>4, <2>2, <3>3, <3>4, <4>1, Works DEF Ended
        <3>5. CASE arrival[c].op # "import"
            <4>1. Coming!Moves(c, "opening")
                BY <1>7, <2>6, <3>5 DEF Coming!Is
            <4> QED
                BY <1>1, <1>2, <1>3, <1>4, <2>2, <3>3, <4>1, Works DEF Ended
        <3> QED
            BY <3>4, <3>5
    <2> QED
        BY <1>1, <2>5, <2>6
<1> QED
    BY <1>6, <1>7 DEF Coming!WriteFile

LEMMA ForgetsWorks ==
    ASSUME ComingInvariant, NEW c \in Arrival, Coming!ForgetPlan(c)
    PROVE  ComingInvariant'
<1>1. stage[c] = "written" /\ stage[c] \notin Ended
    BY DEF Coming!ForgetPlan, Ended
<1>2. \A s \in {"refreshing", "opening"} : AtIts(arrival[c].op, s) /\ arrival[c].op = "import"
    BY <1>1, AtWork DEF AtIts
<1>3. /\ UNCHANGED <<places, current, slot, cancelled, pending, nudged, mounted, shown>>
      /\ plan' \in Dir \cup {None}
    BY DEF Coming!ForgetPlan, Coming!windowVars
<1>4. places' \in [Dir -> Directory] /\ NothingInNothing'
    BY <1>3, StaysPlaces
<1>5. Undisturbed(c) =>
        \A s \in {"refreshing", "opening"} :
            Stands(c, arrival[c].op, s, places'[arrival[c].dir], found[c])
    BY <1>1, <1>2, <1>3, AtWork DEF Stands
<1>6. CASE arrival[c].inside
    <2>1. Coming!Moves(c, "refreshing")
        BY <1>6 DEF Coming!ForgetPlan
    <2> QED
        BY <1>1, <1>2, <1>3, <1>4, <1>5, <2>1, Works
<1>7. CASE ~arrival[c].inside
    <2>1. Coming!Moves(c, "opening")
        BY <1>7 DEF Coming!ForgetPlan
    <2> QED
        BY <1>1, <1>2, <1>3, <1>4, <1>5, <2>1, Works
<1> QED
    BY <1>6, <1>7

\* A clone that is refreshed with nothing open ends in failing, which no clone that
\* nobody disturbed does.
LEMMA RefreshWorks ==
    ASSUME ComingInvariant, NEW c \in Arrival, Coming!RefreshTree(c)
    PROVE  ComingInvariant'
<1>1. stage[c] = "refreshing" /\ stage[c] \notin Ended
    BY DEF Coming!RefreshTree, Ended
<1>2. /\ arrival[c] # None
      /\ \A s \in {"failed", "done"} : AtIts(arrival[c].op, s)
      /\ arrival[c].op = "clone" => \A s \in {"ending", "failing"} : AtIts(arrival[c].op, s)
    BY <1>1, AtWork DEF AtIts
<1>3. /\ UNCHANGED <<places, current, plan, slot, cancelled, pending, nudged, mounted, shown>>
      /\ plan' \in Dir \cup {None}
    BY DEF Coming!RefreshTree, Coming!windowVars, ComingInvariant, ComingTypes
<1>4. places' \in [Dir -> Directory] /\ NothingInNothing'
    BY <1>3, StaysPlaces
<1>5. Undisturbed(c) =>
        /\ Stands(c, arrival[c].op, "refreshing", places'[arrival[c].dir], found[c])
        /\ arrival[c].op = "clone" => current # None
    BY <1>1, <1>3, AtWork
<1>6. CASE arrival[c].op = "clone"
    <2>1. CASE current = None
        <3>1. Coming!Moves(c, "failing")
            BY <1>2, <1>6, <2>1 DEF Coming!RefreshTree, Coming!Is
        <3> QED
            BY <1>1, <1>2, <1>3, <1>4, <1>5, <1>6, <2>1, <3>1, Works DEF Ended
    <2>2. CASE current # None
        <3>1. Coming!Moves(c, "ending")
            BY <1>2, <1>6, <2>2 DEF Coming!RefreshTree, Coming!Is
        <3>2. Undisturbed(c) =>
                Stands(c, arrival[c].op, "ending", places'[arrival[c].dir], found[c])
            BY <1>5 DEF Stands
        <3> QED
            BY <1>1, <1>2, <1>3, <1>4, <1>6, <3>1, <3>2, Works DEF Ended
    <2> QED
        BY <2>1, <2>2
<1>7. CASE arrival[c].op # "clone"
    <2>1. Undisturbed(c) =>
            \A s \in {"failed", "done"} :
                Stands(c, arrival[c].op, s, places'[arrival[c].dir], found[c])
        BY <1>5, <1>7 DEF Stands
    <2>2. CASE current = None
        <3>1. Coming!Moves(c, "failed")
            BY <1>7, <2>2 DEF Coming!RefreshTree, Coming!Is
        <3> QED
            BY <1>1, <1>2, <1>3, <1>4, <1>7, <2>1, <3>1, Works
    <2>3. CASE current # None
        <3>1. Coming!Moves(c, "done")
            BY <1>7, <2>3 DEF Coming!RefreshTree, Coming!Is
        <3> QED
            BY <1>1, <1>2, <1>3, <1>4, <1>7, <2>1, <3>1, Works
    <2> QED
        BY <2>2, <2>3
<1> QED
    BY <1>6, <1>7

LEMMA MakesWorks ==
    ASSUME ComingInvariant, NEW c \in Arrival, Coming!MakeDir(c)
    PROVE  ComingInvariant'
<1> DEFINE d == arrival[c].dir
<1>1. stage[c] = "making" /\ stage[c] \notin Ended /\ Coming!Moves(c, "first")
    BY DEF Coming!MakeDir, Ended
<1>2. AtIts(arrival[c].op, "first") /\ arrival[c].op = "create" /\ d \in Dir
    BY <1>1, AtWork DEF AtIts
<1>3. /\ UNCHANGED <<current, plan, slot, cancelled, pending, nudged, mounted, shown>>
      /\ plan' \in Dir \cup {None} /\ places' = Coming!Made(d)
    BY DEF Coming!MakeDir, Coming!windowVars, Coming!To, ComingInvariant, ComingTypes
<1>4. /\ places' \in [Dir -> Directory] /\ NothingInNothing'
      /\ places'[d] = [places[d] EXCEPT !.there = TRUE]
      /\ \A x \in Dir : x # d => places'[x] = places[x]
    BY <1>2, <1>3, MadeIsPlaces
<1>5. places'[d].there /\ places'[d].holds = places[d].holds
    BY <1>2, <1>4 DEF ComingInvariant, ComingTypes, Directory
<1>6. Undisturbed(c) => Stands(c, arrival[c].op, "first", places'[d], found[c])
    <2>1. Undisturbed(c) =>
            /\ Kept(c, places[d], found[c]) /\ places[d] = found[c]
            /\ \A n \in Coming!Name : found[c].holds[n] = None
        BY <1>1, AtWork DEF Stands
    <2>2. \A n \in Coming!Visible : n \in Coming!Name
        BY DEF Coming!Visible, Coming!Name
    <2> QED
        BY <1>2, <1>5, <2>1, <2>2 DEF Stands, Kept
<1> QED
    BY <1>1, <1>2, <1>3, <1>4, <1>6, Works

-----------------------------------------------------------------------------
(* A clone's own steps.                                                    *)

\* A clone that goes on as it found its directory.
LEMMA GoesOn ==
    ASSUME ComingInvariant, NEW c \in Arrival, NEW s,
           stage[c] \in {"looking", "starting", "git", "cloning", "cloned"},
           s \in {"refusing", "starting", "git", "removing", "opening"},
           UNCHANGED <<places, current, plan, slot, cancelled, pending, nudged, mounted, shown>>,
           Coming!Moves(c, s),
           Undisturbed(c) => Stands(c, "clone", s, places[arrival[c].dir], found[c])
    PROVE  ComingInvariant'
<1>1. stage[c] \notin Ended /\ stage[c] # "showing" /\ s \notin Ended /\ s # "new" /\ s # "showing"
    BY DEF Ended
<1>2. AtIts(arrival[c].op, s) /\ arrival[c].op = "clone"
    BY <1>1, AtWork DEF AtIts
<1>3. plan' \in Dir \cup {None} /\ places' \in [Dir -> Directory] /\ NothingInNothing'
    BY StaysPlaces DEF ComingInvariant, ComingTypes
<1> QED
    BY <1>1, <1>2, <1>3, Works

LEMMA LooksWorks ==
    ASSUME ComingInvariant, NEW c \in Arrival, Coming!CloneLooks(c)
    PROVE  ComingInvariant'
<1> DEFINE d == arrival[c].dir
<1>1. stage[c] = "looking"
    BY DEF Coming!CloneLooks
<1>2. arrival[c].op = "clone" /\ d \in Dir
    BY <1>1, AtWork DEF AtIts, Ended
<1>3. UNCHANGED <<places, current, plan, slot, cancelled, pending, nudged, mounted, shown>>
    BY DEF Coming!CloneLooks, Coming!windowVars
<1>4. Undisturbed(c) => Kept(c, places[d], found[c]) /\ places[d] = found[c]
    BY <1>1, AtWork DEF Stands, Ended
<1>5. CASE places[d].there
    <2>1. Coming!Moves(c, "refusing")
        BY <1>5 DEF Coming!CloneLooks, Coming!To
    <2>2. Undisturbed(c) => Stands(c, "clone", "refusing", places[d], found[c])
        BY <1>4 DEF Stands
    <2> QED
        BY <1>1, <1>3, <2>1, <2>2, GoesOn
<1>6. CASE ~places[d].there
    <2>1. Coming!Moves(c, "starting")
        BY <1>6 DEF Coming!CloneLooks, Coming!To
    <2>2. places[d] = Coming!Absent
        BY <1>2, <1>6, NotThereIsAbsent
    <2>3. Undisturbed(c) => Stands(c, "clone", "starting", places[d], found[c])
        BY <1>4, <2>2 DEF Stands
    <2> QED
        BY <1>1, <1>3, <2>1, <2>3, GoesOn
<1> QED
    BY <1>5, <1>6

LEMMA StartsWorks ==
    ASSUME ComingInvariant, NEW c \in Arrival, Coming!StartGit(c)
    PROVE  ComingInvariant'
<1>1. stage[c] = "starting"
    BY DEF Coming!StartGit
<1>2. UNCHANGED <<places, current, plan, slot, cancelled, pending, nudged, mounted, shown>>
    BY DEF Coming!StartGit, Coming!windowVars
<1>3. Undisturbed(c) => \A s \in {"refusing", "git"} :
            Stands(c, "clone", s, places[arrival[c].dir], found[c])
    BY <1>1, AtWork DEF Stands, Ended
<1>4. CASE c \in cancelled
    <2>1. Coming!Moves(c, "refusing")
        BY <1>4 DEF Coming!StartGit
    <2> QED
        BY <1>1, <1>2, <1>3, <2>1, GoesOn
<1>5. CASE c \notin cancelled
    <2>1. Coming!Moves(c, "git")
        BY <1>5 DEF Coming!StartGit
    <2> QED
        BY <1>1, <1>2, <1>3, <2>1, GoesOn
<1> QED
    BY <1>4, <1>5

LEMMA GitFailsWorks ==
    ASSUME ComingInvariant, NEW c \in Arrival, Coming!GitFails(c)
    PROVE  ComingInvariant'
<1>1. stage[c] \in {"git", "cloning", "cloned"} /\ stage[c] \notin Ended
    BY DEF Coming!GitFails, Ended
<1>2. /\ UNCHANGED <<places, current, plan, slot, cancelled, pending, nudged, mounted, shown>>
      /\ Coming!Moves(c, "removing")
    BY DEF Coming!GitFails, Coming!windowVars
<1>3. Undisturbed(c) => Stands(c, "clone", "removing", places[arrival[c].dir], found[c])
    BY <1>1, AtWork DEF Stands
<1> QED
    BY <1>1, <1>2, <1>3, GoesOn

LEMMA GitEndsWorks ==
    ASSUME ComingInvariant, NEW c \in Arrival, Coming!GitEnds(c)
    PROVE  ComingInvariant'
<1>1. stage[c] = "cloned" /\ stage[c] \notin Ended
    BY DEF Coming!GitEnds, Ended
<1>2. /\ UNCHANGED <<places, current, plan, slot, cancelled, pending, nudged, mounted, shown>>
      /\ Coming!Moves(c, "opening")
    BY DEF Coming!GitEnds, Coming!windowVars
<1>3. Undisturbed(c) => Stands(c, "clone", "opening", places[arrival[c].dir], found[c])
    BY <1>1, AtWork DEF Stands
<1> QED
    BY <1>1, <1>2, <1>3, GoesOn

LEMMA NothingHeld ==
    ASSUME NEW now, NEW c
    PROVE  Kept(c, now, Coming!Absent)
BY DEF Kept, Coming!Absent

LEMMA BeginsWorks ==
    ASSUME ComingInvariant, NEW c \in Arrival, Coming!GitBegins(c)
    PROVE  ComingInvariant'
<1> DEFINE d == arrival[c].dir
<1>1. stage[c] = "git" /\ stage[c] \notin Ended
    BY DEF Coming!GitBegins, Ended
<1>2. arrival[c].op = "clone" /\ d \in Dir
    BY <1>1, AtWork DEF AtIts
<1>3. UNCHANGED <<current, plan, slot, cancelled, pending, nudged, mounted, shown>>
    BY DEF Coming!GitBegins, Coming!windowVars
<1>4. Undisturbed(c) => places[d] = Coming!Absent /\ found[c] = Coming!Absent
    BY <1>1, AtWork DEF Stands
<1>5. CASE Coming!Empty(Coming!To(c), Coming!Name)
    <2>1. places' = Coming!With(d, ".git", c) /\ Coming!Moves(c, "cloning")
        BY <1>5 DEF Coming!GitBegins, Coming!To
    <2>2. ".git" \in Coming!Name /\ c \in Arrival \cup {Coming!Theirs, None}
        BY DEF Coming!Name
    <2> DEFINE with == Coming!With(d, ".git", c)
    <2>7. /\ with \in [Dir -> Directory] /\ with[d].there /\ \A x \in Dir : x # d => with[x] = places[x]
          /\ places' = with => NothingInNothing'
        <3> HIDE DEF d
        <3>1. d \in Dir /\ ".git" \in Coming!Name /\ c \in Arrival \cup {Coming!Theirs, None}
            BY <1>2, <2>2
        <3>2. with \in [Dir -> Directory] /\ with[d].there
            BY <3>1, WithIsPlaces
        <3>3. places' = with => NothingInNothing'
            BY <3>1, WithLeavesNothing
        <3>4. ASSUME NEW x \in Dir, x # d PROVE with[x] = places[x]
            BY <3>1, <3>4, WithTouchesOne
        <3> QED
            BY <3>2, <3>3, <3>4
    <2>3. /\ places' \in [Dir -> Directory] /\ NothingInNothing' /\ places'[d].there
          /\ \A x \in Dir : x # d => places'[x] = places[x]
        BY <2>1, <2>7
    <2>4. Undisturbed(c) => Stands(c, "clone", "cloning", places'[d], found[c])
        BY <1>4, <2>3, NothingHeld DEF Stands
    <2>5. AtIts("clone", "cloning") /\ "cloning" \notin Ended
        BY DEF AtIts, Ended
    <2>6. plan' \in Dir \cup {None}
        BY <1>3 DEF ComingInvariant, ComingTypes
    <2> QED
        BY <1>1, <1>2, <1>3, <2>1, <2>3, <2>4, <2>5, <2>6, Works
<1>6. CASE ~Coming!Empty(Coming!To(c), Coming!Name)
    <2>1. places' = places /\ Coming!Moves(c, "removing")
        BY <1>6 DEF Coming!GitBegins
    <2>2. Undisturbed(c) => Stands(c, "clone", "removing", places[d], found[c])
        BY <1>4, NothingHeld DEF Stands
    <2> QED
        BY <1>1, <1>3, <2>1, <2>2, GoesOn
<1> QED
    BY <1>5, <1>6

LEMMA ChecksOutWorks ==
    ASSUME ComingInvariant, NEW c \in Arrival, Coming!GitChecksOut(c)
    PROVE  ComingInvariant'
<1> DEFINE d == arrival[c].dir
<1>1. stage[c] = "cloning" /\ stage[c] \notin Ended /\ Coming!Moves(c, "cloned")
    BY DEF Coming!GitChecksOut, Ended
<1>2. arrival[c].op = "clone" /\ d \in Dir
    BY <1>1, AtWork DEF AtIts
<1>3. /\ UNCHANGED <<current, plan, slot, cancelled, pending, nudged, mounted, shown>>
      /\ plan' \in Dir \cup {None} /\ places' = Coming!With(d, "a", c)
    BY DEF Coming!GitChecksOut, Coming!windowVars, Coming!To, ComingInvariant, ComingTypes
<1>4. "a" \in Coming!Name
    BY DEF Coming!Name
<1>5. /\ places' \in [Dir -> Directory] /\ NothingInNothing' /\ places'[d].there
      /\ places'[d].holds = [places[d].holds EXCEPT !["a"] = c]
      /\ \A x \in Dir : x # d => places'[x] = places[x]
    BY <1>2, <1>3, <1>4, WithIsPlaces
<1>6. places'[d].holds["a"] = c
    BY <1>2, <1>4, <1>5, HoldsAreFunctions
<1>7. Undisturbed(c) => found[c] = Coming!Absent
    BY <1>1, AtWork DEF Stands
<1>8. Undisturbed(c) => Stands(c, "clone", "cloned", places'[d], found[c])
    BY <1>5, <1>6, <1>7, NothingHeld DEF Stands
<1>9. AtIts("clone", "cloned") /\ "cloned" \notin Ended
    BY DEF AtIts, Ended
<1> QED
    BY <1>1, <1>2, <1>3, <1>5, <1>8, <1>9, Works

LEMMA RemovesWorks ==
    ASSUME ComingInvariant, NEW c \in Arrival, Coming!RemovePart(c)
    PROVE  ComingInvariant'
<1> DEFINE d == arrival[c].dir
<1>1. stage[c] = "removing" /\ stage[c] \notin Ended /\ Coming!Moves(c, "failing")
    BY DEF Coming!RemovePart, Ended
<1>2. arrival[c].op = "clone" /\ d \in Dir
    BY <1>1, AtWork DEF AtIts
<1>3. /\ UNCHANGED <<current, plan, slot, cancelled, pending, nudged, mounted, shown>>
      /\ plan' \in Dir \cup {None} /\ places' = [places EXCEPT ![d] = Coming!Absent]
    BY DEF Coming!RemovePart, Coming!windowVars, Coming!To, ComingInvariant, ComingTypes
<1>4. /\ places' \in [Dir -> Directory] /\ NothingInNothing' /\ places'[d] = Coming!Absent
      /\ \A x \in Dir : x # d => places'[x] = places[x]
    BY <1>2, <1>3, AbsentIsPlaces
<1>5. Undisturbed(c) => found[c] = Coming!Absent
    BY <1>1, AtWork DEF Stands
<1>6. Undisturbed(c) => Stands(c, "clone", "failing", places'[d], found[c])
    BY <1>4, <1>5, NothingHeld DEF Stands
<1>7. AtIts("clone", "failing") /\ "failing" \notin Ended
    BY DEF AtIts, Ended
<1> QED
    BY <1>1, <1>2, <1>3, <1>4, <1>6, <1>7, Works

\* The deferred function of a clone frees its slot.
LEMMA EndsWorks ==
    ASSUME ComingInvariant, NEW c \in Arrival, Coming!CloneEnds(c)
    PROVE  ComingInvariant'
<1> USE DEF ComingInvariant
<1>1. stage[c] \in {"refusing", "failing", "ending"} /\ stage[c] \notin Ended
    BY DEF Coming!CloneEnds, Ended
<1>2. arrival[c].op = "clone" /\ arrival[c] # None
    BY <1>1, AtWork DEF AtIts
<1>3. /\ slot' = None
      /\ UNCHANGED <<places, current, plan, cancelled, pending, nudged, mounted, shown>>
      /\ UNCHANGED <<arrival, others, beside, found>>
    BY DEF Coming!CloneEnds, Coming!windowVars, Coming!Moves
<1>4. PICK s \in {"refused", "failed", "done"} :
        /\ stage' = [stage EXCEPT ![c] = s]
        /\ stage[c] = "refusing" => s = "refused"
        /\ stage[c] = "failing" => s = "failed"
        /\ stage[c] = "ending" => s = "done"
    BY <1>1 DEF Coming!CloneEnds, Coming!Moves, Coming!Goto
<1>5. /\ stage'[c] = s /\ s \in Ended /\ s \notin {"new", "showing", "refreshing"} /\ stage[c] # "new"
      /\ AtIts("clone", s)
    BY <1>1, <1>4 DEF Ended, ComingTypes, AtIts
<1>6. \A b \in Arrival : b # c => stage'[b] = stage[b]
    BY <1>4 DEF ComingTypes
<1>7. Undisturbed(c) => Stands(c, "clone", s, places'[arrival[c].dir], found[c])
    <2>1. Undisturbed(c) => Stands(c, "clone", stage[c], places[arrival[c].dir], found[c])
        BY <1>1, <1>2, AtWork
    <2> QED
        BY <1>1, <1>3, <1>4, <2>1 DEF Stands
<1>8. ComingTypes'
    BY <1>3, <1>4 DEF ComingTypes
<1>9. Staged'
    BY <1>2, <1>3, <1>4, <1>5, StaysStaged
<1>10. NothingInNothing'
    BY <1>3 DEF NothingInNothing
<1>11. StandsAlone'
    BY <1>2, <1>3, <1>4, <1>5, <1>7, OthersStand
<1>12. SlotHeld'
    <2>1. slot = c /\ c # None
        BY <1>1, <1>2, CollectionAssumption DEF SlotHeld, Coming!Is, CollectionAssumption
    <2>2. \A b \in Arrival : b # c => slot # b /\ slot' # b
        BY <1>3, <2>1, CollectionAssumption DEF CollectionAssumption
    <2>3. \A b \in Arrival : b # c => ~(Coming!Is(b, "clone") /\ stage[b] \notin Ended)
        BY <2>2 DEF SlotHeld
    <2>4. \A b \in Arrival : b # c => ~(Coming!Is(b, "clone")' /\ stage'[b] \notin Ended)
        BY <1>3, <1>6, <2>3 DEF Coming!Is
    <2> QED
        BY <1>3, <1>5, <2>1, <2>2, <2>4 DEF SlotHeld
<1>13. OneByOne' => OneByOne
    BY <1>3, <1>5, <1>6 DEF OneByOne
<1>14. OneAtATime' /\ Pulled'
    BY <1>3, <1>5, <1>6, <1>13 DEF OneAtATime, Pulled
<1>15. ShowsCurrent'
    BY <1>1, <1>3, <1>5, <1>6, <1>13 DEF ShowsCurrent, ToShow, Coming!Is
<1> QED
    BY <1>8, <1>9, <1>10, <1>11, <1>12, <1>14, <1>15

-----------------------------------------------------------------------------
(* What is opened, and what is shown.                                      *)

\* Nothing is opened: the directory has gone.
LEMMA OpensNothing ==
    ASSUME ComingInvariant, NEW c \in Arrival, Coming!OpenRoot(c),
           Coming!To(c) # Home, ~places[Coming!To(c)].there
    PROVE  ComingInvariant'
<1>1. stage[c] = "opening" /\ stage[c] \notin Ended
    BY DEF Coming!OpenRoot, Ended
<1>2. arrival[c] \in Asked /\ arrival[c] # None
    BY <1>1, AtWork
<1>3. /\ UNCHANGED <<places, current, plan, slot, cancelled, pending, nudged, mounted, shown>>
      /\ plan' \in Dir \cup {None}
    BY DEF Coming!OpenRoot, Coming!windowVars, ComingInvariant, ComingTypes
<1>4. places' \in [Dir -> Directory] /\ NothingInNothing'
    BY <1>3, StaysPlaces
<1>5. ~Undisturbed(c)
    BY <1>1, AtWork DEF Stands, Coming!To
<1>6. CASE arrival[c].op = "clone"
    <2>1. Coming!Moves(c, "failing")
        BY <1>2, <1>6 DEF Coming!OpenRoot, Coming!Is
    <2>2. AtIts("clone", "failing") /\ "failing" \notin Ended
        BY DEF AtIts, Ended
    <2> QED
        BY <1>1, <1>3, <1>4, <1>5, <1>6, <2>1, <2>2, Works
<1>7. CASE arrival[c].op # "clone"
    <2>1. Coming!Moves(c, "failed")
        BY <1>2, <1>7 DEF Coming!OpenRoot, Coming!Is
    <2>2. AtIts(arrival[c].op, "failed")
        BY DEF AtIts
    <2> QED
        BY <1>1, <1>3, <1>4, <1>5, <1>7, <2>1, <2>2, Works
<1> QED
    BY <1>6, <1>7

LEMMA OpensWorks ==
    ASSUME ComingInvariant, NEW c \in Arrival, Coming!OpenRoot(c),
           Coming!To(c) = Home \/ places[Coming!To(c)].there
    PROVE  ComingInvariant'
<1> USE DEF ComingInvariant
<1>1. stage[c] = "opening" /\ stage[c] \notin Ended
    BY DEF Coming!OpenRoot, Ended
<1>2. arrival[c] \in Asked /\ arrival[c] # None /\ arrival[c].dir \in Root /\ arrival[c].dir # None
    BY <1>1, AtWork, CollectionAssumption DEF Asked, CollectionAssumption, Root
<1>3. /\ current' = arrival[c].dir
      /\ UNCHANGED <<places, plan, slot, cancelled, pending, nudged, mounted, shown>>
      /\ UNCHANGED <<arrival, others, beside, found>>
    BY DEF Coming!OpenRoot, Coming!windowVars, Coming!Moves, Coming!To
<1>4. PICK s \in {"refreshing", "showing"} :
        stage' = [stage EXCEPT ![c] = s] /\ (s = "refreshing" <=> arrival[c].op = "import")
    <2>1. CASE arrival[c].op = "import"
        <3>1. Coming!Moves(c, "refreshing")
            BY <1>2, <2>1 DEF Coming!OpenRoot, Coming!Is
        <3> QED
            BY <2>1, <3>1 DEF Coming!Moves, Coming!Goto
    <2>2. CASE arrival[c].op # "import"
        <3>1. Coming!Moves(c, "showing")
            BY <1>2, <2>2 DEF Coming!OpenRoot, Coming!Is
        <3> QED
            BY <2>2, <3>1 DEF Coming!Moves, Coming!Goto
    <2> QED
        BY <2>1, <2>2
<1>5. /\ stage'[c] = s /\ s \notin Ended /\ s # "new" /\ stage[c] # "new"
      /\ AtIts(arrival[c].op, s)
    BY <1>1, <1>4 DEF Ended, ComingTypes, AtIts
<1>6. \A b \in Arrival : b # c => stage'[b] = stage[b]
    BY <1>4 DEF ComingTypes
<1>7. Undisturbed(c) => Stands(c, arrival[c].op, s, places'[arrival[c].dir], found[c])
    <2>1. Undisturbed(c) => Stands(c, arrival[c].op, "opening", places[arrival[c].dir], found[c])
        BY <1>1, AtWork
    <2> QED
        BY <1>3, <1>4, <2>1 DEF Stands
<1>8. ComingTypes'
    BY <1>2, <1>3, <1>4 DEF ComingTypes
<1>9. Staged'
    BY <1>3, <1>4, <1>5, StaysStaged
<1>10. NothingInNothing'
    BY <1>3 DEF NothingInNothing
<1>11. StandsAlone'
    BY <1>2, <1>3, <1>4, <1>5, <1>7, OthersStand
<1>12. SlotHeld'
    BY <1>1, <1>3, <1>5, <1>6 DEF SlotHeld, Coming!Is
<1>13. OneByOne' => OneByOne
    BY <1>3, <1>5, <1>6 DEF OneByOne
<1>14. OneAtATime' /\ Pulled'
    BY <1>1, <1>3, <1>5, <1>6, <1>13 DEF OneAtATime, Pulled
<1>15. ShowsCurrent'
    <2>1. CASE s = "showing"
        BY <1>3, <1>5, <2>1 DEF ShowsCurrent
    <2>2. CASE s = "refreshing"
        <3>1. Coming!Is(c, "import")' /\ current' = arrival'[c].dir
            BY <1>2, <1>3, <1>4, <2>2 DEF Coming!Is
        <3>2. OneByOne' => \A b \in Arrival : stage'[b] # "showing"
            <4>1. OneByOne => \A b \in Arrival : b # c => stage[b] \in Ended
                BY <1>1 DEF OneAtATime
            <4> QED
                BY <1>5, <1>6, <1>13, <2>2, <4>1 DEF Ended
        <3> QED
            BY <3>1, <3>2 DEF ShowsCurrent
    <2> QED
        BY <2>1, <2>2
<1> QED
    BY <1>8, <1>9, <1>10, <1>11, <1>12, <1>14, <1>15

LEMMA ShowWorks ==
    ASSUME ComingInvariant, NEW c \in Arrival, Coming!Show(c)
    PROVE  ComingInvariant'
<1> USE DEF ComingInvariant
<1>1. stage[c] = "showing" /\ stage[c] \notin Ended
    BY DEF Coming!Show, Ended
<1>2. /\ arrival[c] \in Asked /\ arrival[c] # None /\ arrival[c].dir \in Root /\ arrival[c].dir # None
      /\ arrival[c].op # "import"
    BY <1>1, AtWork, CollectionAssumption DEF Asked, CollectionAssumption, Root, AtIts
<1>3. /\ pending' = arrival[c].dir /\ nudged' = mounted
      /\ UNCHANGED <<places, current, plan, slot, cancelled, mounted, shown>>
      /\ UNCHANGED <<arrival, others, beside, found>>
    BY DEF Coming!Show, Coming!Moves, Coming!To
<1>4. PICK s \in {"refreshing", "done"} :
        stage' = [stage EXCEPT ![c] = s] /\ (s = "done" <=> arrival[c].op = "path")
    BY <1>1, <1>2 DEF Coming!Show, Coming!Moves, Coming!Goto, Coming!Is
<1>5. /\ stage'[c] = s /\ s # "new" /\ s # "showing" /\ stage[c] # "new"
      /\ AtIts(arrival[c].op, s) /\ (arrival[c].op = "clone" => s \notin Ended)
    BY <1>1, <1>4 DEF Ended, ComingTypes, AtIts
<1>6. \A b \in Arrival : b # c => stage'[b] = stage[b]
    BY <1>4 DEF ComingTypes
<1>7. Undisturbed(c) =>
        /\ Stands(c, arrival[c].op, s, places'[arrival[c].dir], found[c])
        /\ arrival[c].op = "clone" => current # None
    <2>1. Undisturbed(c) =>
            /\ Stands(c, arrival[c].op, "showing", places[arrival[c].dir], found[c])
            /\ arrival[c].op = "clone" => current # None
        BY <1>1, AtWork
    <2> QED
        BY <1>3, <2>1 DEF Stands
<1>8. ComingTypes'
    BY <1>2, <1>3, <1>4 DEF ComingTypes
<1>9. Staged'
    BY <1>3, <1>4, <1>5, StaysStaged
<1>10. NothingInNothing'
    BY <1>3 DEF NothingInNothing
<1>11. StandsAlone'
    BY <1>3, <1>4, <1>5, <1>7, OthersStand
<1>12. SlotHeld'
    BY <1>1, <1>3, <1>5, <1>6 DEF SlotHeld, Coming!Is
<1>13. OneByOne' => OneByOne
    BY <1>3, <1>5, <1>6 DEF OneByOne
<1>14. OneAtATime' /\ Pulled'
    BY <1>1, <1>3, <1>5, <1>6, <1>13 DEF OneAtATime, Pulled
<1>15. ShowsCurrent'
    <2>1. OneByOne => \A b \in Arrival : b # c => stage[b] \in Ended
        BY <1>1 DEF OneAtATime
    <2>2. OneByOne => current = arrival[c].dir
        BY <1>1, <2>1 DEF ShowsCurrent, Ended
    <2>3. OneByOne' => \A b \in Arrival : stage'[b] # "showing"
        BY <1>5, <1>6, <1>13, <2>1 DEF Ended
    <2>4. ToShow' = arrival[c].dir
        BY <1>2, <1>3 DEF ToShow
    <2> QED
        BY <1>3, <1>13, <2>2, <2>3, <2>4 DEF ShowsCurrent
<1> QED
    BY <1>8, <1>9, <1>10, <1>11, <1>12, <1>14, <1>15

-----------------------------------------------------------------------------
(* A call begins.                                                          *)

LEMMA BeginWorks ==
    ASSUME ComingInvariant, NEW c \in Arrival,
           NEW o \in {"import", "create", "clone", "path"}, NEW d \in Root, NEW inside \in BOOLEAN, NEW s,
           Coming!Begin(c, o, d, inside, s),
           s \notin {"new", "showing", "refreshing"}, AtIts(o, s), o = "path" <=> d = Home,
           UNCHANGED <<places, current, plan, cancelled, pending, nudged, mounted, shown>>,
           o = "clone" /\ s \notin Ended => slot = None /\ slot' = c,
           ~(o = "clone" /\ s \notin Ended) => slot' = slot,
           d \in Dir => Stands(c, o, s, places[d], places[d])
    PROVE  ComingInvariant'
<1> USE DEF ComingInvariant
<1> DEFINE q == [op |-> o, dir |-> d, inside |-> inside]
<1>1. /\ stage[c] = "new" /\ stage' = [stage EXCEPT ![c] = s]
      /\ arrival' = [arrival EXCEPT ![c] = q]
      /\ found' = [found EXCEPT ![c] = IF d \in Dir THEN places[d] ELSE Coming!Absent]
      /\ beside' = IF Coming!InFlight = {} THEN beside \cup {c} ELSE beside \ Coming!InFlight
      /\ UNCHANGED others
    BY DEF Coming!Begin, Coming!Goto
<1>2. q \in Asked /\ q # None
    BY CollectionAssumption DEF Asked, Root, CollectionAssumption
<1>3. /\ stage'[c] = s /\ arrival'[c] = q /\ c \notin beside /\ arrival[c] = None
      /\ \A b \in Arrival : b # c => /\ stage'[b] = stage[b] /\ arrival'[b] = arrival[b]
                                     /\ found'[b] = found[b]
    BY <1>1 DEF ComingTypes, Staged
<1>4. ComingTypes'
    <2>1. Coming!Absent \in Directory
        BY DEF Coming!Absent, Directory
    <2> QED
        BY <1>1, <1>2, <2>1 DEF ComingTypes
<1>5. Staged'
    <2>1. AtIts(arrival'[c].op, stage'[c]) /\ (arrival'[c].op = "path" <=> arrival'[c].dir = Home)
        BY <1>3
    <2> QED
        BY <1>1, <1>2, <1>3, <2>1 DEF Staged
<1>6. NothingInNothing'
    BY DEF NothingInNothing
<1>7. StandsAlone'
    <2>1. \A b \in Arrival : b # c /\ Undisturbed(b)' => Undisturbed(b)
        BY <1>1, <1>3 DEF Undisturbed
    <2>2. \A b \in Arrival : b # c /\ Undisturbed(b)' =>
            /\ Stands(b, arrival'[b].op, stage'[b], places'[arrival'[b].dir], found'[b])
            /\ arrival'[b].op = "clone" /\ stage'[b] \in {"showing", "refreshing"} => current' # None
        BY <1>3, <2>1 DEF StandsAlone
    <2>3. d \in Dir => found'[c] = places[d]
        BY <1>1 DEF ComingTypes
    <2>4. Undisturbed(c)' =>
            Stands(c, arrival'[c].op, stage'[c], places'[arrival'[c].dir], found'[c])
        BY <1>3, <2>3 DEF Undisturbed
    <2> QED
        BY <1>3, <2>2, <2>4 DEF StandsAlone
<1>8. SlotHeld'
    <2>1. slot # c
        BY <1>1 DEF SlotHeld, Ended
    <2>2. (slot' = c) <=> (o = "clone" /\ s \notin Ended)
        BY <2>1
    <2>3. \A b \in Arrival : b # c => (slot' = b <=> slot = b)
        BY CollectionAssumption DEF CollectionAssumption
    <2> QED
        BY <1>2, <1>3, <2>2, <2>3 DEF SlotHeld, Coming!Is
<1>9. OneByOne' => OneByOne /\ \A b \in Arrival : b # c => stage[b] \in Ended
    <2>1. OneByOne' => c \in beside'
        BY <1>3 DEF OneByOne
    <2>2. OneByOne' => Coming!InFlight = {}
        BY <1>1, <1>3, <2>1
    <2> QED
        BY <1>1, <1>3, <2>2, EndedIsIdle DEF OneByOne, Coming!InFlight
<1>10. OneAtATime' /\ Pulled'
    BY <1>3, <1>9 DEF OneAtATime, Pulled
<1>11. ShowsCurrent'
    <2>1. OneByOne' => \A b \in Arrival : stage[b] # "showing" /\ stage'[b] # "showing"
        BY <1>1, <1>3, <1>9 DEF Ended
    <2>2. \A b \in Arrival : Coming!Is(b, "import") =>
            Coming!Is(b, "import")' /\ arrival'[b].dir = arrival[b].dir
        BY <1>3 DEF Coming!Is
    <2> QED
        BY <1>9, <2>1, <2>2 DEF ShowsCurrent, ToShow
<1> QED
    BY <1>4, <1>5, <1>6, <1>7, <1>8, <1>10, <1>11

LEMMA CommitsWorks ==
    ASSUME ComingInvariant, NEW c \in Arrival, Coming!Commit(c)
    PROVE  ComingInvariant'
<1> DEFINE inside == current = Home /\ plan \in Within
<1>1. plan \in Dir /\ plan \in Root /\ plan # Home
    BY CollectionAssumption
    DEF Coming!Commit, ComingInvariant, ComingTypes, Root, CollectionAssumption
<1>2. UNCHANGED <<places, current, plan, slot, cancelled, pending, nudged, mounted, shown>>
    BY DEF Coming!Commit, Coming!windowVars
<1>3. inside \in BOOLEAN
    OBVIOUS
<1>4. \A s \in {"held", "refused"} : AtIts("import", s)
    BY DEF AtIts
<1>5. CASE Coming!Empty(plan, Coming!Visible)
    <2>1. Coming!Begin(c, "import", plan, inside, "held")
        BY <1>5 DEF Coming!Commit
    <2>2. Stands(c, "import", "held", places[plan], places[plan])
        BY <1>5 DEF Stands, Kept, Coming!Empty
    <2> HIDE DEF inside
    <2> QED
        BY <1>1, <1>2, <1>3, <1>4, <2>1, <2>2, BeginWorks
<1>6. CASE ~Coming!Empty(plan, Coming!Visible)
    <2>1. Coming!Begin(c, "import", plan, inside, "refused")
        BY <1>6 DEF Coming!Commit
    <2>2. Stands(c, "import", "refused", places[plan], places[plan])
        BY DEF Stands, Kept
    <2> HIDE DEF inside
    <2> QED
        BY <1>1, <1>2, <1>3, <1>4, <2>1, <2>2, BeginWorks
<1> QED
    BY <1>5, <1>6

LEMMA CreatesWorks ==
    ASSUME ComingInvariant, NEW c \in Arrival, NEW d \in Dir, Coming!Create(c, d)
    PROVE  ComingInvariant'
<1>1. d \in Root /\ d # Home
    BY CollectionAssumption DEF Root, CollectionAssumption
<1>2. UNCHANGED <<places, current, plan, slot, cancelled, pending, nudged, mounted, shown>>
    BY DEF Coming!Create, Coming!windowVars
<1>3. \A s \in {"making", "refused"} : AtIts("create", s)
    BY DEF AtIts
<1>4. CASE Coming!Empty(d, Coming!Name)
    <2>1. Coming!Begin(c, "create", d, FALSE, "making")
        BY <1>4 DEF Coming!Create
    <2>2. Stands(c, "create", "making", places[d], places[d])
        BY <1>4 DEF Stands, Kept, Coming!Empty
    <2> QED
        BY <1>1, <1>2, <1>3, <2>1, <2>2, BeginWorks
<1>5. CASE ~Coming!Empty(d, Coming!Name)
    <2>1. Coming!Begin(c, "create", d, FALSE, "refused")
        BY <1>5 DEF Coming!Create
    <2>2. Stands(c, "create", "refused", places[d], places[d])
        BY DEF Stands, Kept
    <2> QED
        BY <1>1, <1>2, <1>3, <2>1, <2>2, BeginWorks
<1> QED
    BY <1>4, <1>5

LEMMA ClonesWorks ==
    ASSUME ComingInvariant, NEW c \in Arrival, NEW d \in Dir, Coming!Clone(c, d)
    PROVE  ComingInvariant'
<1>1. d \in Root /\ d # Home
    BY CollectionAssumption DEF Root, CollectionAssumption
<1>2. UNCHANGED <<places, current, plan, cancelled, pending, nudged, mounted, shown>>
    BY DEF Coming!Clone, Coming!windowVars
<1>3. \A s \in {"looking", "refused"} : /\ AtIts("clone", s)
                                        /\ Stands(c, "clone", s, places[d], places[d])
    BY DEF AtIts, Stands, Kept
<1>4. CASE slot = None
    <2>1. Coming!Begin(c, "clone", d, FALSE, "looking") /\ slot' = c
        BY <1>4 DEF Coming!Clone
    <2>2. "looking" \notin Ended
        BY DEF Ended
    <2> QED
        BY <1>1, <1>2, <1>3, <1>4, <2>1, <2>2, BeginWorks
<1>5. CASE slot # None
    <2>1. Coming!Begin(c, "clone", d, FALSE, "refused") /\ slot' = slot
        BY <1>5 DEF Coming!Clone
    <2>2. "refused" \in Ended
        BY DEF Ended
    <2> QED
        BY <1>1, <1>2, <1>3, <2>1, <2>2, BeginWorks
<1> QED
    BY <1>4, <1>5

LEMMA PathWorks ==
    ASSUME ComingInvariant, NEW c \in Arrival, Coming!OpenPath(c)
    PROVE  ComingInvariant'
<1>1. Home \in Root /\ Home \notin Dir
    BY CollectionAssumption DEF Root, CollectionAssumption
<1>2. UNCHANGED <<places, current, plan, slot, cancelled, pending, nudged, mounted, shown>>
    BY DEF Coming!OpenPath, Coming!windowVars
<1>3. AtIts("path", "opening")
    BY DEF AtIts
<1>4. Coming!Begin(c, "path", Home, FALSE, "opening")
    BY DEF Coming!OpenPath
<1> QED
    BY <1>1, <1>2, <1>3, <1>4, BeginWorks

-----------------------------------------------------------------------------
(* What is no step of a call.                                              *)

\* What is planned and which clones are cancelled is nothing the rest depends on.
LEMMA QuietWorks ==
    ASSUME ComingInvariant, plan' \in Dir \cup {None}, cancelled' \subseteq Arrival,
           UNCHANGED <<places, current, slot, pending, nudged, mounted, shown>>,
           UNCHANGED <<arrival, stage, others, beside, found>>
    PROVE  ComingInvariant'
BY DEF ComingInvariant, ComingTypes, Staged, NothingInNothing, StandsAlone, Undisturbed, SlotHeld,
       Coming!Is, OneByOne, Pulled, OneAtATime, ShowsCurrent, ToShow

LEMMA PullWorks ==
    ASSUME ComingInvariant, Coming!Mount \/ Coming!HearOpenNode
    PROVE  ComingInvariant'
<1> USE DEF ComingInvariant
<1>1. /\ UNCHANGED <<places, current, plan, slot, cancelled>>
      /\ UNCHANGED <<arrival, stage, others, beside, found>>
      /\ shown' = (IF pending = None THEN shown ELSE pending) /\ pending' = None
      /\ mounted' \in BOOLEAN /\ nudged' \in BOOLEAN
    BY DEF Coming!Mount, Coming!HearOpenNode, Coming!TakePendingOpen, Coming!callVars, ComingTypes
<1>2. ToShow' = ToShow
    BY <1>1 DEF ToShow
<1>3. ComingTypes' /\ Staged' /\ NothingInNothing'
    BY <1>1 DEF ComingTypes, Staged, NothingInNothing
<1>4. StandsAlone' /\ SlotHeld'
    BY <1>1 DEF StandsAlone, Undisturbed, SlotHeld, Coming!Is
<1>5. Pulled' /\ OneAtATime'
    BY <1>1 DEF Pulled, OneAtATime, OneByOne
<1>6. ShowsCurrent'
    BY <1>1, <1>2 DEF ShowsCurrent, OneByOne, Coming!Is
<1> QED
    BY <1>3, <1>4, <1>5, <1>6

LEMMA BesideWorks ==
    ASSUME ComingInvariant, Coming!Beside,
           UNCHANGED <<slot, plan, cancelled, pending, nudged, mounted, shown>>,
           places' \in [Dir -> Directory], NothingInNothing', current' \in Root \cup {None}
    PROVE  ComingInvariant'
<1> USE DEF ComingInvariant
<1>1. /\ others' = others + 1 /\ others' # 0 /\ UNCHANGED <<arrival, stage, found>>
      /\ beside' \subseteq beside /\ others' \in Nat
    BY DEF Coming!Beside, ComingTypes
<1>2. ComingTypes' /\ Staged' /\ SlotHeld' /\ Pulled'
    BY <1>1 DEF ComingTypes, Staged, SlotHeld, Coming!Is, Pulled
<1>3. StandsAlone' /\ OneAtATime' /\ ShowsCurrent'
    BY <1>1 DEF StandsAlone, Undisturbed, OneAtATime, ShowsCurrent, OneByOne
<1> QED
    BY <1>2, <1>3

-----------------------------------------------------------------------------
(* The theorem.                                                            *)

LEMMA ComingBegins == Coming!Init => ComingInvariant
<1> SUFFICES ASSUME Coming!Init PROVE ComingInvariant
    OBVIOUS
<1>1. /\ places = [d \in Dir |-> Coming!Absent] /\ current \in {Home, None}
      /\ plan = None /\ slot = None /\ cancelled = {}
      /\ pending = None /\ nudged = FALSE /\ mounted = FALSE /\ shown = None
      /\ arrival = [c \in Arrival |-> None] /\ stage = [c \in Arrival |-> "new"]
      /\ others = 0 /\ beside = {} /\ found = [c \in Arrival |-> Coming!Absent]
    BY DEF Coming!Init
<1>2. Coming!Absent \in Directory
    BY DEF Coming!Absent, Directory
<1>3. ComingTypes
    BY <1>1, <1>2 DEF ComingTypes, Root
<1>4. Staged /\ StandsAlone
    BY <1>1 DEF Staged, StandsAlone, Undisturbed
<1>5. NothingInNothing
    BY <1>1 DEF NothingInNothing, Coming!Absent
<1>6. SlotHeld
    BY <1>1, CollectionAssumption DEF SlotHeld, Coming!Is, CollectionAssumption
<1>7. Pulled /\ OneAtATime /\ ShowsCurrent
    BY <1>1 DEF Pulled, OneAtATime, ShowsCurrent, ToShow, Ended
<1> QED
    BY <1>3, <1>4, <1>5, <1>6, <1>7 DEF ComingInvariant

LEMMA ComingGoesOn ==
    ASSUME ComingInvariant, Coming!Next PROVE ComingInvariant'
<1>1. ASSUME NEW d \in Dir, Coming!PlanFile(d) \/ Coming!Retarget(d) PROVE ComingInvariant'
    BY <1>1, QuietWorks
    DEF Coming!PlanFile, Coming!Retarget, Coming!callVars, Coming!windowVars, ComingInvariant, ComingTypes
<1>2. CASE Coming!Discard \/ Coming!CancelClone
    BY <1>2, QuietWorks
    DEF Coming!Discard, Coming!CancelClone, Coming!callVars, Coming!windowVars, ComingInvariant, ComingTypes
<1>3. CASE Coming!Mount \/ Coming!HearOpenNode
    BY <1>3, PullWorks
<1>4. CASE Coming!CloseCollection
    BY <1>4, BesideWorks, StaysPlaces DEF Coming!CloseCollection, Coming!windowVars
<1>5. ASSUME NEW t \in Touched, Coming!SomeoneWrites(t[1], t[2]) PROVE ComingInvariant'
    <2>1. t[1] \in Dir /\ t[2] \in Coming!Name
        BY CollectionAssumption DEF CollectionAssumption, Coming!Name
    <2>2. /\ places' = Coming!With(t[1], t[2], Coming!Theirs) /\ Coming!Beside
          /\ UNCHANGED <<current, plan, slot, cancelled, pending, nudged, mounted, shown>>
        BY <1>5 DEF Coming!SomeoneWrites, Coming!windowVars
    <2>3. places' \in [Dir -> Directory] /\ NothingInNothing'
        BY <2>1, <2>2, WithIsPlaces
    <2>4. current' \in Root \cup {None}
        BY <2>2 DEF ComingInvariant, ComingTypes
    <2> QED
        BY <2>2, <2>3, <2>4, BesideWorks
<1>6. ASSUME NEW c \in Arrival,
             \/ Coming!Commit(c) \/ Coming!CommitHolds(c) \/ Coming!WriteChecks(c)
             \/ Coming!WriteFile(c) \/ Coming!ForgetPlan(c) \/ Coming!RefreshTree(c)
             \/ Coming!MakeDir(c) \/ Coming!OpenPath(c) \/ Coming!OpenRoot(c) \/ Coming!Show(c)
      PROVE  ComingInvariant'
    BY <1>6, CommitsWorks, HoldsWorks, ChecksWorks, WritesWorks, ForgetsWorks, RefreshWorks,
       MakesWorks, PathWorks, OpensWorks, OpensNothing, ShowWorks
<1>7. ASSUME NEW c \in Arrival,
             \/ Coming!CloneLooks(c) \/ Coming!StartGit(c) \/ Coming!GitBegins(c)
             \/ Coming!GitChecksOut(c) \/ Coming!GitFails(c) \/ Coming!GitEnds(c)
             \/ Coming!RemovePart(c) \/ Coming!CloneEnds(c)
      PROVE  ComingInvariant'
    BY <1>7, LooksWorks, StartsWorks, BeginsWorks, ChecksOutWorks, GitFailsWorks, GitEndsWorks,
       RemovesWorks, EndsWorks
<1>8. ASSUME NEW c \in Arrival, NEW d \in Dir, Coming!Create(c, d) \/ Coming!Clone(c, d)
      PROVE  ComingInvariant'
    BY <1>8, CreatesWorks, ClonesWorks
<1> QED
    BY <1>1, <1>2, <1>3, <1>4, <1>5, <1>6, <1>7, <1>8 DEF Coming!Next

LEMMA ComingMeansArrives ==
    ASSUME ComingInvariant PROVE Coming!ArrivesAsAnswered
<1> USE DEF ComingInvariant
<1>1. Coming!AnswersAreTrue
    <2> SUFFICES ASSUME NEW c \in beside, arrival[c].dir \in Dir, stage[c] \in Ended, others = 0,
                        \A b \in Arrival \ {c} : stage[b] # "new" => arrival[b].dir # arrival[c].dir
                 PROVE  /\ Kept(c, places[arrival[c].dir], found[c])
                        /\ stage[c] = "refused" => places[arrival[c].dir].holds = found[c].holds
                        /\ stage[c] # "done" /\ Coming!Is(c, "clone") =>
                                places[arrival[c].dir] = found[c]
                        /\ stage[c] = "done" => places[arrival[c].dir].holds["a"] = c
        BY EndedIsIdle
        DEF Coming!AnswersAreTrue, Coming!To, Coming!KeepsWhatItFound, Coming!WroteAll, Kept
    <2>1. c \in Arrival /\ stage[c] # "new" /\ arrival[c] # None
        BY DEF ComingTypes, Staged
    <2>2. Undisturbed(c)
        BY <2>1 DEF Undisturbed
    <2>3. Stands(c, arrival[c].op, stage[c], places[arrival[c].dir], found[c])
        BY <2>1, <2>2 DEF StandsAlone
    <2> QED
        BY <2>1, <2>3 DEF Stands, Ended, Coming!Is
<1>2. Coming!SlotIsTheClones
    <2> DEFINE git == {c \in Arrival : stage[c] \in {"git", "cloning", "cloned", "removing"}}
    <2>1. \A c \in git : slot = c
        BY DEF SlotHeld, Staged, AtIts, Coming!Is, Ended
    <2>2. git \subseteq {slot}
        BY <2>1
    <2>3. Cardinality(git) <= 1
        <3>1. IsFiniteSet({slot}) /\ Cardinality({slot}) = 1
            BY FS_Singleton
        <3> HIDE DEF git
        <3>2. Cardinality(git) <= Cardinality({slot})
            BY <2>2, <3>1, FS_Subset
        <3> QED
            BY <3>1, <3>2
    <2>4. \A c \in Arrival : slot = c <=> Coming!Is(c, "clone") /\ stage[c] \notin Coming!Idle
        BY EndedIsIdle DEF SlotHeld
    <2>5. Coming!Cardinality(git) = Cardinality(git)
        BY DEF Coming!Cardinality, Cardinality
    <2> QED
        BY <2>3, <2>4, <2>5 DEF Coming!SlotIsTheClones
<1>3. Coming!AskedForIsShown
    <2> SUFFICES ASSUME Coming!InFlight = {}, mounted, ~nudged
                 PROVE  /\ pending = None
                        /\ shown # None /\ OneByOne =>
                            current \in {shown} \cup
                                {arrival[c].dir : c \in {c \in Arrival : Coming!Is(c, "import")}}
        BY DEF Coming!AskedForIsShown, Coming!To, OneByOne
    <2>1. pending = None
        BY DEF Pulled
    <2>2. \A c \in Arrival : stage[c] # "showing"
        BY EndedIsIdle DEF Coming!InFlight, Ended
    <2>3. ASSUME shown # None, OneByOne
          PROVE  current = shown \/ \E c \in Arrival : Coming!Is(c, "import") /\ current = arrival[c].dir
        BY <2>1, <2>2, <2>3 DEF ShowsCurrent, ToShow
    <2> QED
        BY <2>1, <2>3
<1> QED
    BY <1>1, <1>2, <1>3 DEF Coming!ArrivesAsAnswered

\* What brings a collection in leaves the disk and the window as it answers, for any
\* directories, any calls and any others: a call nothing else happened beside kept what
\* it found, wrote all of what is done and nothing of what was refused or stopped, the
\* clone that runs holds the slot, and what was asked for is what is shown
\* (Commit, Create, Clone, OpenPath, TakePendingOpen).
THEOREM CollectionArrivesAsAnswered == CollectionSpec => []ArrivesAsAnswered
<1> DEFINE Inv == part = "coming" => ComingInvariant
<1>1. CollectionInit => Inv
    BY ComingBegins DEF CollectionInit
<1>2. Inv /\ [CollectionNext]_collectionVars => Inv'
    <2> SUFFICES ASSUME Inv, [CollectionNext]_collectionVars, part' = "coming" PROVE ComingInvariant'
        OBVIOUS
    <2>1. part = "coming" /\ ComingInvariant
        BY DEF CollectionNext, collectionVars
    <2>2. CASE CollectionNext
        BY <2>1, <2>2, ComingGoesOn DEF CollectionNext
    <2>3. CASE UNCHANGED collectionVars
        BY <2>1, <2>3, QuietWorks DEF collectionVars, comingVars, ComingInvariant, ComingTypes
    <2> QED
        BY <2>2, <2>3
<1>3. Inv => ArrivesAsAnswered
    BY ComingMeansArrives DEF ArrivesAsAnswered
<1> QED
    BY <1>1, <1>2, <1>3, PTL DEF CollectionSpec

-----------------------------------------------------------------------------
(* What is kept of a list (Rows).                                          *)

\* What holds of 0 and, with a number, of the next, holds of every number.
LEMMA NumberByNumber ==
    ASSUME NEW S, 0 \in S, \A n \in Nat : n \in S => n + 1 \in S
    PROVE  \A n \in Nat : n \in S
<1> SUFFICES ASSUME NEW n \in Nat, n \notin S PROVE FALSE
    OBVIOUS
<1> DEFINE Out == {m \in Nat : m \notin S}
<1>1. Out \subseteq Nat /\ Out # {}
    OBVIOUS
<1>2. \E x \in Out : \A y \in Out : ~(<<y, x>> \in OpToRel(<, Nat))
    BY <1>1, NatLessThanWellFounded, WFMin
<1>3. \A x, y \in Nat : <<y, x>> \in OpToRel(<, Nat) <=> y < x
    BY DEF OpToRel
<1>4. PICK x \in Out : \A y \in Out : ~(<<y, x>> \in OpToRel(<, Nat))
    BY <1>2
<1>5. \A y \in Out : ~(y < x)
    BY <1>3, <1>4
<1>6. x \in Nat /\ x # 0 /\ x - 1 \in Nat
    OBVIOUS
<1>7. x - 1 \in S
    BY <1>5, <1>6
<1> QED
    BY <1>6, <1>7

\* Only's function, step by step.
Grown(k, s, S, i) ==
    IF i = 0 THEN <<>> ELSE IF s[i] \in S THEN Append(k[i - 1], s[i]) ELSE k[i - 1]
Sieved(s, S) == CHOOSE k : k = [i \in 0..Len(s) |-> Grown(k, s, S, i)]

LEMMA OnlyIsKept ==
    ASSUME NEW s, NEW S PROVE Only(s, S) = Sieved(s, S)[Len(s)]
BY DEF Only, Sieved, Grown

LEMMA KeptIsThere ==
    ASSUME NEW s, NEW S
    PROVE  \A n \in Nat : \E k : k = [i \in 0..n |-> Grown(k, s, S, i)]
<1> DEFINE P == {n \in Nat : \E k : k = [i \in 0..n |-> Grown(k, s, S, i)]}
<1>1. 0 \in P
    <2> DEFINE k == [i \in 0..0 |-> <<>>]
    <2>1. k = [i \in 0..0 |-> Grown(k, s, S, i)]
        BY DEF Grown
    <2> QED
        BY <2>1
<1>2. ASSUME NEW n \in Nat, n \in P PROVE n + 1 \in P
    <2>1. PICK k : k = [i \in 0..n |-> Grown(k, s, S, i)]
        BY <1>2
    <2> DEFINE next == IF s[n + 1] \in S THEN Append(k[n], s[n + 1]) ELSE k[n]
               h == [i \in 0..(n + 1) |-> IF i = n + 1 THEN next ELSE k[i]]
    <2>2. h = [i \in 0..(n + 1) |-> Grown(h, s, S, i)]
        <3> SUFFICES ASSUME NEW i \in 0..(n + 1) PROVE h[i] = Grown(h, s, S, i)
            OBVIOUS
        <3>1. CASE i = n + 1
            BY <3>1 DEF Grown
        <3>2. CASE i # n + 1 /\ i # 0
            <4>1. i \in 0..n /\ i - 1 \in 0..n /\ i - 1 # n + 1
                BY <3>2
            <4>2. k[i] = Grown(k, s, S, i)
                BY <2>1, <4>1
            <4>3. h[i] = k[i] /\ h[i - 1] = k[i - 1]
                BY <3>2, <4>1
            <4> QED
                BY <4>2, <4>3 DEF Grown
        <3>3. CASE i # n + 1 /\ i = 0
            <4>1. k[0] = Grown(k, s, S, 0)
                BY <2>1
            <4> QED
                BY <3>3, <4>1 DEF Grown
        <3> QED
            BY <3>1, <3>2, <3>3
    <2> HIDE DEF h
    <2>3. \E k2 : k2 = [i \in 0..(n + 1) |-> Grown(k2, s, S, i)]
        BY <2>2
    <2> QED
        BY <2>3
<1> HIDE DEF P
<1>3. \A n \in Nat : n \in P
    BY <1>1, <1>2, NumberByNumber
<1> QED
    BY <1>3 DEF P

LEMMA KeptGrows ==
    ASSUME NEW s, Len(s) \in Nat, NEW S
    PROVE  Sieved(s, S) = [i \in 0..Len(s) |-> Grown(Sieved(s, S), s, S, i)]
<1>1. \E k : k = [i \in 0..Len(s) |-> Grown(k, s, S, i)]
    BY KeptIsThere
<1> QED
    BY <1>1 DEF Sieved

LEMMA KeptStarts ==
    ASSUME NEW s, Len(s) \in Nat, NEW S PROVE Sieved(s, S)[0] = <<>>
<1> DEFINE k == Sieved(s, S)
<1> HIDE DEF k
<1>1. k = [i \in 0..Len(s) |-> Grown(k, s, S, i)]
    BY KeptGrows DEF k
<1> QED
    BY <1>1 DEF Grown, k

LEMMA KeptStep ==
    ASSUME NEW s, Len(s) \in Nat, NEW S, NEW i \in 1..Len(s)
    PROVE  Sieved(s, S)[i] =
               IF s[i] \in S THEN Append(Sieved(s, S)[i - 1], s[i]) ELSE Sieved(s, S)[i - 1]
<1> DEFINE k == Sieved(s, S)
<1> HIDE DEF k
<1>1. k = [j \in 0..Len(s) |-> Grown(k, s, S, j)]
    BY KeptGrows DEF k
<1>2. k[i] = Grown(k, s, S, i)
    BY <1>1
<1>3. k[i] = IF s[i] \in S THEN Append(k[i - 1], s[i]) ELSE k[i - 1]
    BY <1>2 DEF Grown
<1> QED
    BY <1>3 DEF k

\* As far as two lists keep the same, what is kept of them is the same.
LEMMA KeptAlike ==
    ASSUME NEW s, NEW t, Len(s) \in Nat, Len(t) \in Nat, NEW S,
           NEW m \in 0..Len(s), m <= Len(t),
           \A i \in 1..m : s[i] = t[i] \/ (s[i] \notin S /\ t[i] \notin S)
    PROVE  Sieved(s, S)[m] = Sieved(t, S)[m]
<1> DEFINE P == {n \in Nat : n <= m => Sieved(s, S)[n] = Sieved(t, S)[n]}
<1>1. 0 \in P
    BY KeptStarts
<1>2. ASSUME NEW n \in Nat, n \in P PROVE n + 1 \in P
    <2> SUFFICES ASSUME n + 1 <= m PROVE Sieved(s, S)[n + 1] = Sieved(t, S)[n + 1]
        OBVIOUS
    <2>1. Sieved(s, S)[n] = Sieved(t, S)[n]
        BY <1>2
    <2> DEFINE j == n + 1
    <2>2. j \in 1..Len(s) /\ j \in 1..Len(t) /\ j \in 1..m /\ j - 1 = n
        OBVIOUS
    <2> HIDE DEF j
    <2>3. /\ Sieved(s, S)[j] = IF s[j] \in S THEN Append(Sieved(s, S)[j - 1], s[j]) ELSE Sieved(s, S)[j - 1]
          /\ Sieved(t, S)[j] = IF t[j] \in S THEN Append(Sieved(t, S)[j - 1], t[j]) ELSE Sieved(t, S)[j - 1]
        BY <2>2, KeptStep
    <2>4. s[j] = t[j] \/ (s[j] \notin S /\ t[j] \notin S)
        BY <2>2
    <2>5. Sieved(s, S)[j] = Sieved(t, S)[j]
        BY <2>1, <2>2, <2>3, <2>4
    <2> QED
        BY <2>5 DEF j
<1> HIDE DEF P
<1>3. m \in P
    BY <1>1, <1>2, NumberByNumber
<1> QED
    BY <1>3 DEF P

\* Lists as long that keep the same at the same places.
LEMMA OnlyAlike ==
    ASSUME NEW s, NEW t, Len(s) \in Nat, Len(t) = Len(s), NEW S,
           \A i \in 1..Len(s) : s[i] = t[i] \/ (s[i] \notin S /\ t[i] \notin S)
    PROVE  Only(s, S) = Only(t, S)
<1> DEFINE m == Len(s)
<1>1. m \in 0..Len(s) /\ m <= Len(t)
    OBVIOUS
<1>2. Sieved(s, S)[m] = Sieved(t, S)[m]
    BY <1>1, KeptAlike
<1> QED
    BY <1>2, OnlyIsKept

\* What is put last is kept last, or not at all.
LEMMA OnlyOfLonger ==
    ASSUME NEW R, NEW s \in Seq(R), NEW x \in R, NEW S
    PROVE  Only(Append(s, x), S) = IF x \in S THEN Append(Only(s, S), x) ELSE Only(s, S)
<1> DEFINE t == Append(s, x)
           m == Len(s)
<1>1. /\ m \in Nat /\ Len(t) = m + 1 /\ t[m + 1] = x /\ \A i \in 1..m : t[i] = s[i]
    OBVIOUS
<1> HIDE DEF t
<1>2. Sieved(s, S)[m] = Sieved(t, S)[m]
    BY <1>1, KeptAlike
<1> HIDE DEF m
<1> DEFINE j == m + 1
<1>3. j \in 1..Len(t) /\ Len(t) \in Nat /\ j - 1 = m /\ t[j] = x
    BY <1>1
<1> HIDE DEF j
<1>4. Sieved(t, S)[j] = IF t[j] \in S THEN Append(Sieved(t, S)[j - 1], t[j]) ELSE Sieved(t, S)[j - 1]
    BY <1>3, KeptStep
<1>5. Only(t, S) = Sieved(t, S)[j] /\ Only(s, S) = Sieved(s, S)[m]
    BY <1>1, OnlyIsKept DEF m, j
<1>6. Only(t, S) = IF x \in S THEN Append(Only(s, S), x) ELSE Only(s, S)
    BY <1>2, <1>3, <1>4, <1>5
<1> QED
    BY <1>6 DEF t

\* What is kept are the elements that are in S, no place of them twice.
Faithful(k, s, S, n) ==
    /\ k \in Seq({s[i] : i \in 1..n} \cap S)
    /\ \A i \in 1..n : s[i] \in S => \E j \in DOMAIN k : k[j] = s[i]

LEMMA KeptIsFaithful ==
    ASSUME NEW s, Len(s) \in Nat, NEW S
    PROVE  \A n \in 0..Len(s) : Faithful(Sieved(s, S)[n], s, S, n)
<1> DEFINE P == {n \in Nat : n <= Len(s) => Faithful(Sieved(s, S)[n], s, S, n)}
<1>1. 0 \in P
    <2> DEFINE R == {s[i] : i \in 1..0} \cap S
    <2>1. <<>> \in Seq(R)
        <3> HIDE DEF R
        <3> QED
            OBVIOUS
    <2>2. Faithful(<<>>, s, S, 0)
        BY <2>1 DEF Faithful
    <2> QED
        BY <2>2, KeptStarts
<1>2. ASSUME NEW n \in Nat, n \in P PROVE n + 1 \in P
    <2> SUFFICES ASSUME n + 1 <= Len(s) PROVE Faithful(Sieved(s, S)[n + 1], s, S, n + 1)
        OBVIOUS
    <2> DEFINE j == n + 1
               k == Sieved(s, S)[n]
               l == Sieved(s, S)[j]
    <2>1. j \in 1..Len(s) /\ j - 1 = n /\ 1..j = 1..n \cup {j}
        OBVIOUS
    <2>2. Faithful(k, s, S, n)
        BY <1>2, <2>1
    <2>3. l = IF s[j] \in S THEN Append(k, s[j]) ELSE k
        <3> HIDE DEF j
        <3>1. Sieved(s, S)[j] = IF s[j] \in S THEN Append(Sieved(s, S)[j - 1], s[j]) ELSE Sieved(s, S)[j - 1]
            BY <2>1, KeptStep
        <3> QED
            BY <2>1, <3>1
    <2> HIDE DEF k, l, j
    <2> DEFINE R == {s[i] : i \in 1..n} \cap S
               T == {s[i] : i \in 1..j} \cap S
    <2>4. R \subseteq T /\ (s[j] \in S => s[j] \in T)
        BY <2>1
    <2>5. k \in Seq(R) /\ k \in Seq(T)
        <3>1. k \in Seq(R)
            BY <2>2 DEF Faithful
        <3> HIDE DEF R, T
        <3> QED
            BY <2>4, <3>1
    <2>6. l \in Seq(T)
        <3> HIDE DEF T
        <3> QED
            BY <2>3, <2>4, <2>5
    <2>7. ASSUME NEW i \in 1..j, s[i] \in S PROVE \E m \in DOMAIN l : l[m] = s[i]
        <3> HIDE DEF R, T
        <3>1. CASE i = j
            <4>1. l = Append(k, s[j]) /\ Len(k) + 1 \in DOMAIN l
                BY <2>3, <2>5, <2>7, <3>1
            <4>2. l[Len(k) + 1] = s[j]
                BY <2>5, <4>1
            <4> QED
                BY <3>1, <4>1, <4>2
        <3>2. CASE i # j
            <4>1. i \in 1..n
                BY <2>1, <3>2
            <4>2. PICK m \in DOMAIN k : k[m] = s[i]
                BY <2>2, <2>7, <4>1 DEF Faithful
            <4>3. m \in DOMAIN l /\ l[m] = k[m]
                BY <2>3, <2>5, <4>2
            <4> QED
                BY <4>2, <4>3
        <3> QED
            BY <3>1, <3>2
    <2>8. Faithful(l, s, S, j)
        BY <2>6, <2>7 DEF Faithful
    <2> QED
        BY <2>8 DEF l, j
<1> HIDE DEF P
<1>3. \A n \in Nat : n \in P
    BY <1>1, <1>2, NumberByNumber
<1> QED
    BY <1>3 DEF P

\* The elements of Only are those of the list that are in S.
LEMMA OnlyHas ==
    ASSUME NEW R, NEW s \in Seq(R), NEW S, NEW k, k = Only(s, S)
    PROVE  /\ k \in Seq(R \cap S)
           /\ \A i \in DOMAIN k : \E j \in DOMAIN s : s[j] = k[i] /\ s[j] \in S
           /\ \A i \in DOMAIN s : s[i] \in S => \E j \in DOMAIN k : k[j] = s[i]
<1> DEFINE m == Len(s)
           T == {s[i] : i \in 1..m} \cap S
<1>1. m \in Nat /\ m \in 0..Len(s) /\ DOMAIN s = 1..m
    OBVIOUS
<1>2. Faithful(k, s, S, m)
    BY <1>1, KeptIsFaithful, OnlyIsKept
<1>3. k \in Seq(T) /\ \A i \in 1..m : s[i] \in S => \E j \in DOMAIN k : k[j] = s[i]
    BY <1>2 DEF Faithful
<1>4. T \subseteq R \cap S
    BY <1>1
<1>5. \A i \in DOMAIN k : k[i] \in T
    <2> HIDE DEF T
    <2> QED
        BY <1>3
<1>6. k \in Seq(R \cap S)
    <2> HIDE DEF T
    <2> QED
        BY <1>3, <1>4
<1> QED
    BY <1>1, <1>3, <1>5, <1>6

\* What is kept twice is kept at once.
LEMMA OnlyTwice ==
    ASSUME NEW R, NEW s \in Seq(R), NEW T, NEW S, \A x \in R : x \in S => x \in T
    PROVE  Only(Only(s, T), S) = Only(s, S)
<1> DEFINE P == {n \in Nat : n <= Len(s) => Only(Sieved(s, T)[n], S) = Sieved(s, S)[n]}
<1>1. 0 \in P
    <2>1. Len(<<>>) = 0
        OBVIOUS
    <2>2. Only(<<>>, S) = <<>>
        BY <2>1, OnlyIsKept, KeptStarts
    <2> QED
        BY <2>2, KeptStarts
<1>2. ASSUME NEW n \in Nat, n \in P PROVE n + 1 \in P
    <2> SUFFICES ASSUME n + 1 <= Len(s) PROVE Only(Sieved(s, T)[n + 1], S) = Sieved(s, S)[n + 1]
        OBVIOUS
    <2> DEFINE j == n + 1
               k == Sieved(s, T)[n]
    <2>1. j \in 1..Len(s) /\ j - 1 = n /\ n \in 0..Len(s) /\ s[j] \in R /\ Len(s) \in Nat
        OBVIOUS
    <2>2. Only(k, S) = Sieved(s, S)[n]
        BY <1>2, <2>1
    <2> HIDE DEF j
    <2>3. /\ Sieved(s, T)[j] = IF s[j] \in T THEN Append(Sieved(s, T)[j - 1], s[j]) ELSE Sieved(s, T)[j - 1]
          /\ Sieved(s, S)[j] = IF s[j] \in S THEN Append(Sieved(s, S)[j - 1], s[j]) ELSE Sieved(s, S)[j - 1]
        BY <2>1, KeptStep
    <2>4. k \in Seq(R)
        <3> DEFINE U == {s[i] : i \in 1..n} \cap T
        <3>1. k \in Seq(U)
            <4>1. Faithful(k, s, T, n)
                BY <2>1, KeptIsFaithful
            <4> HIDE DEF k
            <4> QED
                BY <4>1 DEF Faithful
        <3>2. U \subseteq R
            BY <2>1
        <3> HIDE DEF U, k
        <3> QED
            BY <3>1, <3>2
    <2> HIDE DEF k
    <2>5. Only(Append(k, s[j]), S) = IF s[j] \in S THEN Append(Only(k, S), s[j]) ELSE Only(k, S)
        <3> DEFINE x == s[j]
        <3>1. x \in R
            BY <2>1
        <3> HIDE DEF x
        <3>2. Only(Append(k, x), S) = IF x \in S THEN Append(Only(k, S), x) ELSE Only(k, S)
            BY <2>4, <3>1, OnlyOfLonger
        <3> QED
            BY <3>2 DEF x
    <2>6. s[j] \in S => s[j] \in T
        BY <2>1
    <2>7. Only(Sieved(s, T)[j], S) = Sieved(s, S)[j]
        BY <2>1, <2>2, <2>3, <2>5, <2>6 DEF k
    <2> QED
        BY <2>7 DEF j
<1> HIDE DEF P
<1>3. \A n \in Nat : n \in P
    BY <1>1, <1>2, NumberByNumber
<1>4. Len(s) \in P
    BY <1>3
<1> QED
    BY <1>4, OnlyIsKept DEF P

\* No two rows of one name.
Distinct(s) == \A i, j \in DOMAIN s : s[i].name = s[j].name => i = j

LEMMA OnlyIsDistinct ==
    ASSUME NEW R, NEW s \in Seq(R), Distinct(s), NEW S
    PROVE  Distinct(Only(s, S))
<1> DEFINE P == {n \in Nat : n <= Len(s) => Distinct(Sieved(s, S)[n])}
<1>1. 0 \in P
    <2>1. DOMAIN <<>> = {}
        OBVIOUS
    <2> QED
        BY <2>1, KeptStarts DEF Distinct
<1>2. ASSUME NEW n \in Nat, n \in P PROVE n + 1 \in P
    <2> SUFFICES ASSUME n + 1 <= Len(s) PROVE Distinct(Sieved(s, S)[n + 1])
        OBVIOUS
    <2> DEFINE j == n + 1
               k == Sieved(s, S)[n]
               U == {s[i] : i \in 1..n} \cap S
    <2>1. j \in 1..Len(s) /\ j - 1 = n /\ n \in 0..Len(s) /\ Len(s) \in Nat /\ DOMAIN s = 1..Len(s)
        OBVIOUS
    <2>2. Distinct(k)
        BY <1>2, <2>1
    <2>3. \A i \in 1..n : i \in DOMAIN s /\ i # j
        BY <2>1
    <2> HIDE DEF j
    <2>4. Sieved(s, S)[j] = IF s[j] \in S THEN Append(Sieved(s, S)[j - 1], s[j]) ELSE Sieved(s, S)[j - 1]
        BY <2>1, KeptStep
    <2>5. k \in Seq(U)
        <3>1. Faithful(k, s, S, n)
            BY <2>1, KeptIsFaithful
        <3> HIDE DEF k
        <3> QED
            BY <3>1 DEF Faithful
    <2>6. \A u \in U : u.name # s[j].name
        BY <2>1, <2>3 DEF Distinct
    <2> HIDE DEF U, k
    <2>7. \A i \in DOMAIN k : k[i].name # s[j].name
        BY <2>5, <2>6
    <2>8. Distinct(Append(k, s[j]))
        <3> DEFINE l == Append(k, s[j])
        <3>1. /\ DOMAIN l = DOMAIN k \cup {Len(k) + 1} /\ l[Len(k) + 1] = s[j]
              /\ \A i \in DOMAIN k : l[i] = k[i]
            BY <2>5
        <3> HIDE DEF l
        <3>2. Distinct(l)
            BY <2>2, <2>7, <3>1 DEF Distinct
        <3> QED
            BY <3>2 DEF l
    <2>9. Distinct(Sieved(s, S)[j])
        BY <2>1, <2>2, <2>4, <2>8 DEF k
    <2> QED
        BY <2>9 DEF j
<1> HIDE DEF P
<1>3. \A n \in Nat : n \in P
    BY <1>1, <1>2, NumberByNumber
<1>4. Len(s) \in P
    BY <1>3
<1> QED
    BY <1>4, OnlyIsKept DEF P
-----------------------------------------------------------------------------
(* Environment files and the credential store (Environments).              *)

File == {f \in [rows : Seq(Settings!Row), confirm : BOOLEAN] : Distinct(f.rows)}
Todo ==
    [do : {"put"}, key : Settings!Key, value : Credential]
    \cup [do : {"index", "drop", "unindex"}, key : Settings!Key]
    \cup {s \in [do : {"copy", "move"}, key : Settings!Key, to : Settings!Key] : s.to # s.key}
    \cup [do : {"write"}, env : Settings!Env, file : File]
    \cup [do : {"remove", "deactivate", "activate"}, env : Settings!Env]

SettingsTypes ==
    /\ file \in [Settings!Env -> File \cup {None}]
    /\ vault \in [Settings!Key -> Credential \cup {None}]
    /\ index \subseteq Settings!Key /\ faults \in Nat /\ active \in Settings!Env \cup {None}
    /\ todo = [c \in Method |-> todo[c]] /\ request = [c \in Method |-> request[c]]
    /\ \A c \in Method : todo[c] = None \/ todo[c] \in Seq(Todo)

\* What the steps S, still to be done, come to: for a key, whether it will be referenced,
\* stored and indexed; for an environment, whether it will be there.
SecretIn(rows, n) == \E i \in DOMAIN rows : rows[i].name = n /\ rows[i].value = Secret
References(f, n) == f # None /\ SecretIn(f.rows, n)
Copying(s) == s.do \in {"copy", "move"}
WillWrite(S, e) == \E s \in S : s.do = "write" /\ s.env = e
WillRemove(S, e) == \E s \in S : s.do = "remove" /\ s.env = e
WillBeThere(S, e) == WillWrite(S, e) \/ (~WillRemove(S, e) /\ file[e] # None)
WillRefer(S, k) ==
    IF WillWrite(S, k[1])
    THEN \E s \in S : s.do = "write" /\ s.env = k[1] /\ References(s.file, k[2])
    ELSE ~WillRemove(S, k[1]) /\ References(file[k[1]], k[2])
WillCopy(S, k) == \E s \in S : Copying(s) /\ s.to = k /\ vault[s.key] # None
WillHold(S, k) ==
    /\ vault[k] # None \/ WillCopy(S, k) \/ \E s \in S : s.do = "put" /\ s.key = k
    /\ ~\E s \in S : s.do \in {"drop", "move"} /\ s.key = k
WillIndex(S, k) ==
    /\ k \in index \/ WillCopy(S, k) \/ \E s \in S : s.do = "index" /\ s.key = k
    /\ ~\E s \in S : /\ s.do \in {"unindex", "move", "copy"} /\ s.key = k
                     /\ s.do = "copy" => vault[k] = None

WillAgree(S) ==
    /\ \A k \in Settings!Key :
        /\ k \notin excused => (WillRefer(S, k) <=> WillHold(S, k))
        /\ WillIndex(S, k) <=> WillHold(S, k)
    /\ active # None =>
        WillBeThere(S, active) \/ \E s \in S : s.do = "deactivate" /\ s.env = active
    /\ \A s \in S : /\ s.do = "activate" => WillBeThere(S, s.env)
                    /\ s.do = "remove" => file[s.env] # None

\* Neither of two steps is in the other's way.
Clear(a, b) ==
    /\ a.do \in {"put", "index"} /\ b.do \in {"drop", "unindex", "copy", "move"} => a.key # b.key
    /\ Copying(a) /\ b.do \in {"drop", "unindex", "copy", "move"} => a.to # b.key /\ a.key # b.key
    /\ a.do = "write" => b.do \notin {"write", "remove"}
    /\ a.do = "remove" => b.do \notin {"write", "remove"}
Apart(t) == \A i, j \in DOMAIN t : i # j => Clear(t[i], t[j])

StepsApart == \A c \in Settings!UnderWay : Apart(todo[c])

\* One call at a time and no failure: what is left of it makes files and store agree.
WillSettle ==
    alone /\ faults = 0 =>
        /\ Settings!UnderWay = {} => WillAgree({})
        /\ \A c \in Settings!UnderWay :
            /\ WillAgree(ElementsOf(todo[c]))
            /\ \A d \in Settings!UnderWay : d = c

\* What a call writes is what it read, but for its own row.
OwnRow(q, old, new) ==
    LET mine == {q.name, q.to}
        theirs == {r \in Settings!Row : r.name \notin mine}
    IN  /\ Only(new, theirs) = Only(old, theirs)
        /\ q.op # "unset" => \A i \in DOMAIN old : \/ new[i].name = old[i].name
                                                   \/ old[i].name = q.name /\ new[i].name = q.to
WritesItsRow ==
    \A c \in Settings!UnderWay \ stale : request[c].op # "duplicate" =>
        \A s \in ElementsOf(todo[c]) : s.do = "write" =>
            /\ s.env = request[c].env /\ file[s.env] # None
            /\ OwnRow(request[c], file[s.env].rows, s.file.rows)

SettingsInvariant == SettingsTypes /\ StepsApart /\ WillSettle /\ WritesItsRow

-----------------------------------------------------------------------------
(* The rows of an environment file.                                        *)

Others(mine) == {r \in Settings!Row : r.name \notin mine}

\* What an operator makes of rows is rows again.
Rows(s) == s \in Seq(Settings!Row) /\ Distinct(s)

LEMMA HasIs ==
    ASSUME NEW s, NEW n PROVE Settings!Has(s, n) <=> \E i \in DOMAIN s : s[i].name = n
BY DEF Settings!Has, Settings!ToSet

LEMMA IsSecretIs ==
    ASSUME NEW s, Rows(s), NEW n PROVE Settings!IsSecret(s, n) <=> SecretIn(s, n)
<1> DEFINE r == CHOOSE r \in Settings!ToSet(s) : r.name = n
<1>1. CASE ~\E i \in DOMAIN s : s[i].name = n
    BY <1>1, HasIs DEF Settings!IsSecret, SecretIn
<1>2. ASSUME NEW i \in DOMAIN s, s[i].name = n PROVE Settings!IsSecret(s, n) <=> SecretIn(s, n)
    <2>1. s[i] \in Settings!ToSet(s)
        BY DEF Settings!ToSet
    <2>2. r \in Settings!ToSet(s) /\ r.name = n
        BY <1>2, <2>1
    <2>3. PICK j \in DOMAIN s : s[j] = r
        BY <2>2 DEF Settings!ToSet
    <2>4. r = s[i]
        BY <1>2, <2>2, <2>3 DEF Rows, Distinct
    <2>5. Settings!Of(s, n) = s[i].value
        BY <2>4 DEF Settings!Of
    <2>6. SecretIn(s, n) <=> s[i].value = Secret
        BY <1>2 DEF SecretIn, Rows, Distinct
    <2> QED
        BY <1>2, <2>5, <2>6, HasIs DEF Settings!IsSecret
<1> QED
    BY <1>1, <1>2

\* Put writes one row, and a new one goes last.
LEMMA PutIsItsRow ==
    ASSUME NEW s, Rows(s), NEW n \in Var, NEW v \in Settings!Value, NEW mine, n \in mine
    PROVE  LET t == Settings!Put(s, n, v) IN
           /\ Rows(t)
           /\ \A m : SecretIn(t, m) <=> IF m = n THEN v = Secret ELSE SecretIn(s, m)
           /\ Only(t, Others(mine)) = Only(s, Others(mine))
           /\ \A i \in DOMAIN s : t[i].name = s[i].name
<1> DEFINE t == Settings!Put(s, n, v)
           x == [name |-> n, value |-> v]
<1>0. /\ Len(s) \in Nat /\ DOMAIN s = 1..Len(s) /\ s \in Seq(Settings!Row)
      /\ \A i \in DOMAIN s : s[i] \in Settings!Row
      /\ \A i, j \in DOMAIN s : s[i].name = s[j].name => i = j
    BY DEF Rows, Distinct
<1>x. x \in Settings!Row /\ x.name = n /\ x.value = v /\ x \notin Others(mine)
    BY DEF Settings!Row, Others
<1>1. CASE Settings!Has(s, n)
    <2>1. t = [i \in DOMAIN s |-> IF s[i].name = n THEN [s[i] EXCEPT !.value = v] ELSE s[i]]
        BY <1>1 DEF Settings!Put
    <2>2. \A i \in DOMAIN s : t[i] = IF s[i].name = n THEN x ELSE s[i]
        <3> TAKE i \in DOMAIN s
        <3>1. s[i] \in Settings!Row
            BY <1>0
        <3>2. [s[i] EXCEPT !.value = v] = [name |-> s[i].name, value |-> v]
            BY <3>1 DEF Settings!Row
        <3> QED
            BY <2>1, <3>2
    <2>3. DOMAIN t = DOMAIN s /\ Len(t) = Len(s)
        BY <1>0, <2>1
    <2> HIDE DEF t, x
    <2>4. \A i \in DOMAIN s : t[i] \in Settings!Row /\ t[i].name = s[i].name
        BY <1>0, <1>x, <2>2
    <2>5. t \in Seq(Settings!Row)
        BY <1>0, <2>1, <2>3, <2>4
    <2>6. Rows(t)
        BY <1>0, <2>3, <2>4, <2>5 DEF Rows, Distinct
    <2>7. ASSUME NEW m PROVE SecretIn(t, m) <=> IF m = n THEN v = Secret ELSE SecretIn(s, m)
        <3>1. CASE m = n
            <4>1. \E i \in DOMAIN s : s[i].name = n
                BY <1>1, HasIs
            <4> QED
                BY <1>x, <2>2, <2>3, <3>1, <4>1 DEF SecretIn
        <3>2. CASE m # n
            BY <1>x, <2>2, <2>3, <3>2 DEF SecretIn
        <3> QED
            BY <3>1, <3>2
    <2>8. Only(s, Others(mine)) = Only(t, Others(mine))
        <3>1. \A i \in 1..Len(s) : s[i] = t[i] \/ (s[i] \notin Others(mine) /\ t[i] \notin Others(mine))
            BY <1>0, <1>x, <2>2 DEF Others
        <3> QED
            BY <1>0, <2>3, <3>1, OnlyAlike
    <2> QED
        BY <2>4, <2>6, <2>7, <2>8 DEF t
<1>2. CASE ~Settings!Has(s, n)
    <2>1. t = Append(s, x)
        BY <1>2 DEF Settings!Put
    <2>2. \A i \in DOMAIN s : s[i].name # n
        BY <1>2, HasIs
    <2> HIDE DEF t, x
    <2>3. /\ t \in Seq(Settings!Row) /\ DOMAIN t = DOMAIN s \cup {Len(s) + 1} /\ t[Len(s) + 1] = x
          /\ \A i \in DOMAIN s : t[i] = s[i]
        BY <1>0, <1>x, <2>1
    <2>4. Rows(t)
        BY <1>0, <1>x, <2>2, <2>3 DEF Rows, Distinct
    <2>5. ASSUME NEW m PROVE SecretIn(t, m) <=> IF m = n THEN v = Secret ELSE SecretIn(s, m)
        BY <1>x, <2>2, <2>3 DEF SecretIn
    <2>6. Only(t, Others(mine)) = Only(s, Others(mine))
        BY <1>0, <1>x, <2>1, OnlyOfLonger
    <2> QED
        BY <2>3, <2>4, <2>5, <2>6 DEF t
<1> QED
    BY <1>1, <1>2

LEMMA RenamedIsItsRow ==
    ASSUME NEW s, Rows(s), NEW n \in Var, NEW m \in Var, m # n => ~Settings!Has(s, m),
           NEW mine, n \in mine, m \in mine
    PROVE  LET t == Settings!Renamed(s, n, m) IN
           /\ Rows(t)
           /\ \A x : SecretIn(t, x) <=> IF x = m THEN SecretIn(s, n) ELSE x # n /\ SecretIn(s, x)
           /\ Only(t, Others(mine)) = Only(s, Others(mine))
           /\ \A i \in DOMAIN s : t[i].name = s[i].name \/ (s[i].name = n /\ t[i].name = m)
<1> DEFINE t == Settings!Renamed(s, n, m)
<1>0. /\ Len(s) \in Nat /\ DOMAIN s = 1..Len(s) /\ s \in Seq(Settings!Row)
      /\ \A i \in DOMAIN s : s[i] \in Settings!Row
      /\ \A i, j \in DOMAIN s : s[i].name = s[j].name => i = j
    BY DEF Rows, Distinct
<1>1. \A i \in DOMAIN s : m # n => s[i].name # m
    BY HasIs
<1>2. t = [i \in DOMAIN s |-> IF s[i].name = n THEN [s[i] EXCEPT !.name = m] ELSE s[i]]
    BY DEF Settings!Renamed
<1>3. \A i \in DOMAIN s : /\ t[i] \in Settings!Row /\ t[i].value = s[i].value
                          /\ t[i].name = IF s[i].name = n THEN m ELSE s[i].name
                          /\ s[i].name # n => t[i] = s[i]
    <2> TAKE i \in DOMAIN s
    <2>1. s[i] \in Settings!Row
        BY <1>0
    <2>2. [s[i] EXCEPT !.name = m] = [name |-> m, value |-> s[i].value]
        BY <2>1 DEF Settings!Row
    <2>3. [name |-> m, value |-> s[i].value] \in Settings!Row
        BY <2>1 DEF Settings!Row
    <2>4. t[i] = IF s[i].name = n THEN [name |-> m, value |-> s[i].value] ELSE s[i]
        BY <1>2, <2>2
    <2> QED
        BY <2>1, <2>3, <2>4
<1>4. DOMAIN t = DOMAIN s /\ Len(t) = Len(s)
    BY <1>0, <1>2
<1>5. t \in Seq(Settings!Row)
    BY <1>0, <1>2, <1>3, <1>4
<1> HIDE DEF t
<1>6. Distinct(t)
    BY <1>0, <1>1, <1>3, <1>4 DEF Distinct
<1>7. ASSUME NEW x PROVE SecretIn(t, x) <=> IF x = m THEN SecretIn(s, n) ELSE x # n /\ SecretIn(s, x)
    BY <1>1, <1>3, <1>4 DEF SecretIn
<1>8. Only(s, Others(mine)) = Only(t, Others(mine))
    <2>1. \A i \in 1..Len(s) : s[i] = t[i] \/ (s[i] \notin Others(mine) /\ t[i] \notin Others(mine))
        BY <1>0, <1>3 DEF Others
    <2> QED
        BY <1>0, <1>4, <2>1, OnlyAlike
<1>9. Rows(t) /\ \A i \in DOMAIN s : t[i].name = s[i].name \/ (s[i].name = n /\ t[i].name = m)
    BY <1>3, <1>5, <1>6 DEF Rows
<1> QED
    BY <1>7, <1>8, <1>9 DEF t

LEMMA WithoutIsTheOthers ==
    ASSUME NEW s, Rows(s), NEW n \in Var, NEW mine, n \in mine
    PROVE  LET t == Settings!Without(s, n) IN
           /\ Rows(t)
           /\ \A x : SecretIn(t, x) <=> x # n /\ SecretIn(s, x)
           /\ Only(t, Others(mine)) = Only(s, Others(mine))
<1> DEFINE keep == {r \in Settings!Row : r.name # n}
           t == Settings!Without(s, n)
<1>1. t = Only(s, keep)
    BY DEF Settings!Without, Settings!Only, Only
<1>2. \A r \in Settings!Row : r \in Others(mine) => r \in keep
    BY DEF Others
<1>3. \A i \in DOMAIN s : s[i] \in Settings!Row
    BY DEF Rows
<1>k. \A r \in Settings!Row : r \in keep <=> r.name # n
    OBVIOUS
<1> HIDE DEF keep, t
<1>4. /\ t \in Seq(Settings!Row \cap keep)
      /\ \A i \in DOMAIN t : \E j \in DOMAIN s : s[j] = t[i] /\ s[j] \in keep
      /\ \A i \in DOMAIN s : s[i] \in keep => \E j \in DOMAIN t : t[j] = s[i]
    BY <1>1, OnlyHas DEF Rows
<1>5. Rows(t)
    <2>1. Distinct(t)
        BY <1>1, OnlyIsDistinct DEF Rows
    <2> QED
        BY <1>4, <2>1 DEF Rows
<1>6. ASSUME NEW x PROVE SecretIn(t, x) <=> x # n /\ SecretIn(s, x)
    BY <1>3, <1>4, <1>k DEF SecretIn
<1>7. Only(t, Others(mine)) = Only(s, Others(mine))
    BY <1>1, <1>2, OnlyTwice DEF Rows
<1> QED
    BY <1>5, <1>6, <1>7 DEF t

-----------------------------------------------------------------------------
(* A step that is done comes to what was to come of it.                    *)

LEMMA NoneIsNone ==
    /\ None \notin File /\ None \notin Credential /\ None \notin Settings!Env
    /\ Settings!Value = Plain \cup {Secret} /\ Settings!Row = [name : Var, value : Plain \cup {Secret}]
    /\ Settings!Key = Settings!Env \X Var
BY CollectionAssumption
DEF CollectionAssumption, File, Settings!Env, Settings!Value, Settings!Row, Settings!Key

\* The kinds of step, and what each has.
LEMMA TodoIs ==
    ASSUME NEW s \in Todo
    PROVE  /\ s.do \in {"put", "index", "drop", "unindex", "copy", "move", "write", "remove",
                        "deactivate", "activate"}
           /\ s.do \in {"put", "index", "drop", "unindex", "copy", "move"} => s.key \in Settings!Key
           /\ s.do = "put" => s.value \in Credential
           /\ s.do \in {"copy", "move"} => s.to \in Settings!Key /\ s.to # s.key
           /\ s.do \in {"write", "remove", "deactivate", "activate"} => s.env \in Settings!Env
           /\ s.do = "write" => s.file \in File
BY DEF Todo

\* Nothing that is to come has changed.
Unaltered(S, T) ==
    /\ \A k \in Settings!Key : /\ WillRefer(S, k) <=> WillRefer(T, k)'
                               /\ WillHold(S, k) <=> WillHold(T, k)'
                               /\ WillIndex(S, k) <=> WillIndex(T, k)'
    /\ \A e \in Settings!Env : WillBeThere(S, e) <=> WillBeThere(T, e)'
    /\ active' = active /\ excused' = excused
    /\ \A s \in S : s.do = "deactivate" => s \in T
    /\ \A s \in T : s.do \in {"activate", "remove"} => s \in S
    /\ \A s \in T : s.do = "remove" => (file[s.env] # None => file'[s.env] # None)

LEMMA UnalteredAgree ==
    ASSUME SettingsTypes, NEW S \in SUBSET Todo, NEW T \in SUBSET Todo, WillAgree(S), Unaltered(S, T)
    PROVE  WillAgree(T)'
<1>1. \A k \in Settings!Key : /\ k \notin excused' => (WillRefer(T, k)' <=> WillHold(T, k)')
                              /\ WillIndex(T, k)' <=> WillHold(T, k)'
    BY DEF WillAgree, Unaltered
<1>2. active' # None => WillBeThere(T, active)' \/ \E s \in T : s.do = "deactivate" /\ s.env = active'
    <2> SUFFICES ASSUME active # None, ~WillBeThere(S, active)
                 PROVE  \E s \in T : s.do = "deactivate" /\ s.env = active
        <3>1. active \in Settings!Env \cup {None} /\ active' = active
            BY DEF SettingsTypes, Unaltered
        <3>2. active # None => (WillBeThere(S, active) <=> WillBeThere(T, active)')
            BY <3>1 DEF Unaltered
        <3> QED
            BY <3>1, <3>2
    <2>1. PICK s \in S : s.do = "deactivate" /\ s.env = active
        BY DEF WillAgree
    <2>2. s \in T
        BY <2>1 DEF Unaltered
    <2> QED
        BY <2>1, <2>2
<1>3. ASSUME NEW s \in T PROVE /\ s.do = "activate" => WillBeThere(T, s.env)'
                               /\ s.do = "remove" => file'[s.env] # None
    <2>1. s.do \in {"activate", "remove"} => s \in S
        BY DEF Unaltered
    <2>2. s.do = "activate" => s.env \in Settings!Env
        BY TodoIs
    <2> QED
        BY <2>1, <2>2 DEF Unaltered, WillAgree
<1> QED
    BY <1>1, <1>2, <1>3 DEF WillAgree

\* h goes before what is in S, and neither is in the other's way.
Before(h, S) == \A s \in S : Clear(h, s) /\ Clear(s, h)

LEMMA PutDone ==
    ASSUME SettingsTypes, NEW S \in SUBSET Todo, NEW h \in Todo, Before(h, S), WillAgree({h} \cup S),
           h.do = "put", vault' = [vault EXCEPT ![h.key] = h.value],
           UNCHANGED <<file, index, active, excused>>
    PROVE  WillAgree(S)'
<1>1. /\ h.key \in Settings!Key /\ h.value # None
      /\ \A k \in Settings!Key : vault'[k] = IF k = h.key THEN h.value ELSE vault[k]
    BY TodoIs, NoneIsNone DEF SettingsTypes
<1>2. \A s \in S : Copying(s) => s.key \in Settings!Key /\ s.key # h.key /\ vault'[s.key] = vault[s.key]
    BY <1>1, TodoIs DEF Before, Clear, Copying
<1>3. \A s \in S : s.do \in {"drop", "unindex", "copy", "move"} => s.key # h.key
    BY DEF Before, Clear
<1>4. ASSUME NEW k \in Settings!Key
      PROVE  /\ WillRefer({h} \cup S, k) <=> WillRefer(S, k)'
             /\ WillHold({h} \cup S, k) <=> WillHold(S, k)'
             /\ WillIndex({h} \cup S, k) <=> WillIndex(S, k)'
    <2>1. WillCopy({h} \cup S, k) <=> WillCopy(S, k)'
        BY <1>2 DEF WillCopy, Copying
    <2>2. WillRefer({h} \cup S, k) <=> WillRefer(S, k)'
        BY DEF WillRefer, WillWrite, WillRemove, References
    <2>3. WillHold({h} \cup S, k) <=> WillHold(S, k)'
        BY <1>1, <1>3, <2>1 DEF WillHold
    <2>4. WillIndex({h} \cup S, k) <=> WillIndex(S, k)'
        BY <1>1, <1>3, <2>1 DEF WillIndex
    <2> QED
        BY <2>2, <2>3, <2>4
<1>5. \A e \in Settings!Env : WillBeThere({h} \cup S, e) <=> WillBeThere(S, e)'
    BY DEF WillBeThere, WillWrite, WillRemove
<1>6. Unaltered({h} \cup S, S)
    BY <1>4, <1>5 DEF Unaltered
<1> QED
    BY <1>6, UnalteredAgree

LEMMA IndexDone ==
    ASSUME SettingsTypes, NEW S \in SUBSET Todo, NEW h \in Todo, Before(h, S), WillAgree({h} \cup S),
           h.do = "index", index' = index \cup {h.key},
           UNCHANGED <<file, vault, active, excused>>
    PROVE  WillAgree(S)'
<1>1. \A s \in S : s.do \in {"drop", "unindex", "copy", "move"} => s.key # h.key
    BY DEF Before, Clear
<1>2. ASSUME NEW k \in Settings!Key
      PROVE  /\ WillRefer({h} \cup S, k) <=> WillRefer(S, k)'
             /\ WillHold({h} \cup S, k) <=> WillHold(S, k)'
             /\ WillIndex({h} \cup S, k) <=> WillIndex(S, k)'
    <2>1. WillCopy({h} \cup S, k) <=> WillCopy(S, k)'
        BY DEF WillCopy, Copying
    <2>2. WillRefer({h} \cup S, k) <=> WillRefer(S, k)'
        BY DEF WillRefer, WillWrite, WillRemove, References
    <2>3. WillHold({h} \cup S, k) <=> WillHold(S, k)'
        BY <1>1, <2>1 DEF WillHold
    <2>4. WillIndex({h} \cup S, k) <=> WillIndex(S, k)'
        BY <1>1, <2>1 DEF WillIndex
    <2> QED
        BY <2>2, <2>3, <2>4
<1>3. \A e \in Settings!Env : WillBeThere({h} \cup S, e) <=> WillBeThere(S, e)'
    BY DEF WillBeThere, WillWrite, WillRemove
<1>4. Unaltered({h} \cup S, S)
    BY <1>2, <1>3 DEF Unaltered
<1> QED
    BY <1>4, UnalteredAgree

\* A key that is to go is none that is copied.
LEMMA DropDone ==
    ASSUME SettingsTypes, NEW S \in SUBSET Todo, NEW h \in Todo, Before(h, S), WillAgree({h} \cup S),
           h.do = "drop", vault' = [vault EXCEPT ![h.key] = None],
           UNCHANGED <<file, index, active, excused>>
    PROVE  WillAgree(S)'
<1>1. /\ h.key \in Settings!Key
      /\ \A k \in Settings!Key : vault'[k] = IF k = h.key THEN None ELSE vault[k]
    BY TodoIs DEF SettingsTypes
<1>2. \A s \in S : /\ Copying(s) => s.key \in Settings!Key /\ s.key # h.key /\ s.to # h.key
                                    /\ vault'[s.key] = vault[s.key]
                   /\ s.do \in {"put", "index"} => s.key # h.key
    BY <1>1, TodoIs DEF Before, Clear, Copying
<1>3. ASSUME NEW k \in Settings!Key
      PROVE  /\ WillRefer({h} \cup S, k) <=> WillRefer(S, k)'
             /\ WillHold({h} \cup S, k) <=> WillHold(S, k)'
             /\ WillIndex({h} \cup S, k) <=> WillIndex(S, k)'
    <2>1. WillCopy({h} \cup S, k) <=> WillCopy(S, k)'
        BY <1>2 DEF WillCopy, Copying
    <2>2. WillRefer({h} \cup S, k) <=> WillRefer(S, k)'
        BY DEF WillRefer, WillWrite, WillRemove, References
    <2>3. k = h.key => ~WillCopy(S, k)'
        BY <1>2 DEF WillCopy
    <2>4. WillHold({h} \cup S, k) <=> WillHold(S, k)'
        BY <1>1, <1>2, <2>1, <2>3 DEF WillHold
    <2>5. WillIndex({h} \cup S, k) <=> WillIndex(S, k)'
        <3>1. \A s \in S : s.do = "copy" /\ s.key = k => vault'[k] = vault[k]
            BY <1>2 DEF Copying
        <3> QED
            BY <2>1, <3>1 DEF WillIndex
    <2> QED
        BY <2>2, <2>4, <2>5
<1>4. \A e \in Settings!Env : WillBeThere({h} \cup S, e) <=> WillBeThere(S, e)'
    BY DEF WillBeThere, WillWrite, WillRemove
<1>5. Unaltered({h} \cup S, S)
    BY <1>3, <1>4 DEF Unaltered
<1> QED
    BY <1>5, UnalteredAgree

LEMMA UnindexDone ==
    ASSUME SettingsTypes, NEW S \in SUBSET Todo, NEW h \in Todo, Before(h, S), WillAgree({h} \cup S),
           h.do = "unindex", index' = index \ {h.key},
           UNCHANGED <<file, vault, active, excused>>
    PROVE  WillAgree(S)'
<1>1. \A s \in S : /\ Copying(s) => s.to # h.key
                   /\ s.do = "index" => s.key # h.key
    BY DEF Before, Clear, Copying
<1>2. ASSUME NEW k \in Settings!Key
      PROVE  /\ WillRefer({h} \cup S, k) <=> WillRefer(S, k)'
             /\ WillHold({h} \cup S, k) <=> WillHold(S, k)'
             /\ WillIndex({h} \cup S, k) <=> WillIndex(S, k)'
    <2>1. WillCopy({h} \cup S, k) <=> WillCopy(S, k)'
        BY DEF WillCopy, Copying
    <2>2. WillRefer({h} \cup S, k) <=> WillRefer(S, k)'
        BY DEF WillRefer, WillWrite, WillRemove, References
    <2>3. WillHold({h} \cup S, k) <=> WillHold(S, k)'
        BY <2>1 DEF WillHold
    <2>4. k = h.key => ~WillCopy(S, k)'
        BY <1>1 DEF WillCopy
    <2>5. WillIndex({h} \cup S, k) <=> WillIndex(S, k)'
        BY <1>1, <2>1, <2>4 DEF WillIndex
    <2> QED
        BY <2>2, <2>3, <2>5
<1>3. \A e \in Settings!Env : WillBeThere({h} \cup S, e) <=> WillBeThere(S, e)'
    BY DEF WillBeThere, WillWrite, WillRemove
<1>4. Unaltered({h} \cup S, S)
    BY <1>2, <1>3 DEF Unaltered
<1> QED
    BY <1>4, UnalteredAgree

\* A value that is not there is skipped, and nothing said it was.
LEMMA SkippedDone ==
    ASSUME SettingsTypes, NEW S \in SUBSET Todo, NEW h \in Todo, Before(h, S), WillAgree({h} \cup S),
           Copying(h), vault[h.key] = None, index' = index \ {h.key},
           UNCHANGED <<file, vault, active, excused>>
    PROVE  WillAgree(S)'
<1>1. \A s \in S : /\ Copying(s) => s.to # h.key /\ s.key # h.key
                   /\ s.do \in {"put", "index"} => s.key # h.key
    BY DEF Before, Clear, Copying
<1>2. ASSUME NEW k \in Settings!Key
      PROVE  /\ WillRefer({h} \cup S, k) <=> WillRefer(S, k)'
             /\ WillHold({h} \cup S, k) <=> WillHold(S, k)'
             /\ WillIndex({h} \cup S, k) <=> WillIndex(S, k)'
    <2>1. WillCopy({h} \cup S, k) <=> WillCopy(S, k)'
        BY DEF WillCopy, Copying
    <2>2. WillRefer({h} \cup S, k) <=> WillRefer(S, k)'
        BY DEF WillRefer, WillWrite, WillRemove, References, Copying
    <2>3. k = h.key => ~WillCopy(S, k)'
        BY <1>1 DEF WillCopy
    <2>4. WillHold({h} \cup S, k) <=> WillHold(S, k)'
        BY <1>1, <2>1, <2>3 DEF WillHold, Copying
    <2>5. WillIndex({h} \cup S, k) <=> WillIndex(S, k)'
        BY <1>1, <2>1, <2>3 DEF WillIndex, Copying
    <2> QED
        BY <2>2, <2>4, <2>5
<1>3. \A e \in Settings!Env : WillBeThere({h} \cup S, e) <=> WillBeThere(S, e)'
    BY DEF WillBeThere, WillWrite, WillRemove, Copying
<1>4. Unaltered({h} \cup S, S)
    BY <1>2, <1>3 DEF Unaltered, Copying
<1> QED
    BY <1>4, UnalteredAgree

\* A copy becomes its steps in the store.
CopyOf(h) == {[do |-> "put", key |-> h.to, value |-> vault[h.key]], [do |-> "index", key |-> h.to]}
             \cup IF h.do = "move" THEN {[do |-> "drop", key |-> h.key], [do |-> "unindex", key |-> h.key]}
                  ELSE {}

LEMMA CopyBegun ==
    ASSUME SettingsTypes, NEW S \in SUBSET Todo, NEW h \in Todo, Before(h, S), WillAgree({h} \cup S),
           Copying(h), vault[h.key] # None,
           UNCHANGED <<file, vault, index, active, excused>>,
           NEW N, N = CopyOf(h)
    PROVE  N \subseteq Todo /\ WillAgree(N \cup S)'
<1>1. N \subseteq Todo
    <2>1. /\ h.to \in Settings!Key /\ h.key \in Settings!Key /\ vault[h.key] \in Credential
        BY TodoIs DEF Copying, SettingsTypes
    <2> QED
        BY <2>1 DEF CopyOf, Todo
<1> DEFINE p == [do |-> "put", key |-> h.to, value |-> vault[h.key]]
           x == [do |-> "index", key |-> h.to]
           d == [do |-> "drop", key |-> h.key]
           u == [do |-> "unindex", key |-> h.key]
<1>2. N = {p, x} \cup (IF h.do = "move" THEN {d, u} ELSE {})
    BY DEF CopyOf
<1>3. /\ p.do = "put" /\ p.key = h.to /\ x.do = "index" /\ x.key = h.to
      /\ d.do = "drop" /\ d.key = h.key /\ u.do = "unindex" /\ u.key = h.key
    OBVIOUS
<1> HIDE DEF p, x, d, u
<1>4. \A s \in N : s.do \in {"put", "index", "drop", "unindex"}
    BY <1>2, <1>3
<1>5. ASSUME NEW k \in Settings!Key
      PROVE  /\ WillRefer({h} \cup S, k) <=> WillRefer(N \cup S, k)'
             /\ WillHold({h} \cup S, k) <=> WillHold(N \cup S, k)'
             /\ WillIndex({h} \cup S, k) <=> WillIndex(N \cup S, k)'
    <2>1. WillCopy({h} \cup S, k) <=> h.to = k \/ WillCopy(N \cup S, k)'
        BY <1>4 DEF WillCopy, Copying
    <2>2. WillRefer({h} \cup S, k) <=> WillRefer(N \cup S, k)'
        BY <1>4 DEF WillRefer, WillWrite, WillRemove, References, Copying
    <2>3. WillHold({h} \cup S, k) <=> WillHold(N \cup S, k)'
        BY <1>2, <1>3, <2>1 DEF WillHold, Copying
    <2>4. WillIndex({h} \cup S, k) <=> WillIndex(N \cup S, k)'
        BY <1>2, <1>3, <2>1 DEF WillIndex, Copying
    <2> QED
        BY <2>2, <2>3, <2>4
<1>6. \A e \in Settings!Env : WillBeThere({h} \cup S, e) <=> WillBeThere(N \cup S, e)'
    BY <1>4 DEF WillBeThere, WillWrite, WillRemove, Copying
<1>7. Unaltered({h} \cup S, N \cup S)
    BY <1>4, <1>5, <1>6 DEF Unaltered, Copying
<1> QED
    BY <1>1, <1>7, UnalteredAgree

LEMMA WriteDone ==
    ASSUME SettingsTypes, NEW S \in SUBSET Todo, NEW h \in Todo, Before(h, S), WillAgree({h} \cup S),
           h.do = "write", file' = [file EXCEPT ![h.env] = h.file],
           UNCHANGED <<vault, index, active, excused>>
    PROVE  WillAgree(S)'
<1>1. /\ h.env \in Settings!Env /\ h.file # None
      /\ \A e \in Settings!Env : file'[e] = IF e = h.env THEN h.file ELSE file[e]
    BY TodoIs, NoneIsNone DEF SettingsTypes
<1>2. \A s \in S : s.do \notin {"write", "remove"}
    BY DEF Before, Clear
<1>3. ASSUME NEW k \in Settings!Key
      PROVE  /\ WillRefer({h} \cup S, k) <=> WillRefer(S, k)'
             /\ WillHold({h} \cup S, k) <=> WillHold(S, k)'
             /\ WillIndex({h} \cup S, k) <=> WillIndex(S, k)'
    <2>1. WillCopy({h} \cup S, k) <=> WillCopy(S, k)'
        BY DEF WillCopy, Copying
    <2>2. k[1] \in Settings!Env
        BY NoneIsNone
    <2>3. ~WillWrite(S, k[1])' /\ ~WillRemove(S, k[1])' /\ ~WillRemove({h} \cup S, k[1])
        BY <1>2 DEF WillWrite, WillRemove
    <2>4. WillWrite({h} \cup S, k[1]) <=> h.env = k[1]
        BY <1>2 DEF WillWrite
    <2>5. WillRefer(S, k)' <=> References(file'[k[1]], k[2])
        BY <2>3 DEF WillRefer, References
    <2>6. WillRefer({h} \cup S, k) <=> References(file'[k[1]], k[2])
        <3>1. CASE h.env = k[1]
            <4>1. WillRefer({h} \cup S, k) <=> References(h.file, k[2])
                BY <1>2, <2>4, <3>1 DEF WillRefer
            <4> QED
                BY <1>1, <2>2, <3>1, <4>1
        <3>2. CASE h.env # k[1]
            BY <1>1, <2>2, <2>3, <2>4, <3>2 DEF WillRefer
        <3> QED
            BY <3>1, <3>2
    <2>7. WillHold({h} \cup S, k) <=> WillHold(S, k)'
        BY <2>1 DEF WillHold
    <2>8. WillIndex({h} \cup S, k) <=> WillIndex(S, k)'
        BY <2>1 DEF WillIndex
    <2> QED
        BY <2>5, <2>6, <2>7, <2>8
<1>4. \A e \in Settings!Env : WillBeThere({h} \cup S, e) <=> WillBeThere(S, e)'
    BY <1>1, <1>2 DEF WillBeThere, WillWrite, WillRemove
<1>5. Unaltered({h} \cup S, S)
    BY <1>2, <1>3, <1>4 DEF Unaltered
<1> QED
    BY <1>5, UnalteredAgree

\* The file that is removed is there, with one call at a time.
LEMMA RemoveDone ==
    ASSUME SettingsTypes, NEW S \in SUBSET Todo, NEW h \in Todo, Before(h, S), WillAgree({h} \cup S),
           h.do = "remove", file' = [file EXCEPT ![h.env] = None],
           UNCHANGED <<vault, index, active, excused>>
    PROVE  file[h.env] # None /\ WillAgree(S)'
<1>0. file[h.env] # None
    BY DEF WillAgree
<1>1. /\ h.env \in Settings!Env
      /\ \A e \in Settings!Env : file'[e] = IF e = h.env THEN None ELSE file[e]
    BY TodoIs DEF SettingsTypes
<1>2. \A s \in S : s.do \notin {"write", "remove"}
    BY DEF Before, Clear
<1>3. ASSUME NEW k \in Settings!Key
      PROVE  /\ WillRefer({h} \cup S, k) <=> WillRefer(S, k)'
             /\ WillHold({h} \cup S, k) <=> WillHold(S, k)'
             /\ WillIndex({h} \cup S, k) <=> WillIndex(S, k)'
    <2>1. WillCopy({h} \cup S, k) <=> WillCopy(S, k)'
        BY DEF WillCopy, Copying
    <2>2. k[1] \in Settings!Env
        BY NoneIsNone
    <2>3. /\ ~WillWrite(S, k[1])' /\ ~WillRemove(S, k[1])' /\ ~WillWrite({h} \cup S, k[1])
          /\ WillRemove({h} \cup S, k[1]) <=> h.env = k[1]
        BY <1>2 DEF WillWrite, WillRemove
    <2>4. WillRefer({h} \cup S, k) <=> WillRefer(S, k)'
        BY <1>1, <2>2, <2>3 DEF WillRefer, References
    <2>5. WillHold({h} \cup S, k) <=> WillHold(S, k)'
        BY <2>1 DEF WillHold
    <2>6. WillIndex({h} \cup S, k) <=> WillIndex(S, k)'
        BY <2>1 DEF WillIndex
    <2> QED
        BY <2>4, <2>5, <2>6
<1>4. \A e \in Settings!Env : WillBeThere({h} \cup S, e) <=> WillBeThere(S, e)'
    BY <1>1, <1>2 DEF WillBeThere, WillWrite, WillRemove
<1>5. Unaltered({h} \cup S, S)
    <2>1. \A s \in {h} \cup S : s.do = "deactivate" => s \in S
        OBVIOUS
    <2> QED
        BY <1>2, <1>3, <1>4, <2>1 DEF Unaltered
<1> QED
    BY <1>0, <1>5, UnalteredAgree

LEMMA DeactivateDone ==
    ASSUME SettingsTypes, NEW S \in SUBSET Todo, NEW h \in Todo, Before(h, S), WillAgree({h} \cup S),
           h.do = "deactivate", active' = IF active = h.env THEN None ELSE active,
           UNCHANGED <<file, vault, index, excused>>
    PROVE  WillAgree(S)'
<1>1. ASSUME NEW k \in Settings!Key
      PROVE  /\ WillRefer({h} \cup S, k) <=> WillRefer(S, k)'
             /\ WillHold({h} \cup S, k) <=> WillHold(S, k)'
             /\ WillIndex({h} \cup S, k) <=> WillIndex(S, k)'
    <2>1. WillCopy({h} \cup S, k) <=> WillCopy(S, k)'
        BY DEF WillCopy, Copying
    <2>2. WillRefer({h} \cup S, k) <=> WillRefer(S, k)'
        BY DEF WillRefer, WillWrite, WillRemove, References
    <2>3. WillHold({h} \cup S, k) <=> WillHold(S, k)'
        BY <2>1 DEF WillHold
    <2>4. WillIndex({h} \cup S, k) <=> WillIndex(S, k)'
        BY <2>1 DEF WillIndex
    <2> QED
        BY <2>2, <2>3, <2>4
<1>2. \A e \in Settings!Env : WillBeThere({h} \cup S, e) <=> WillBeThere(S, e)'
    BY DEF WillBeThere, WillWrite, WillRemove
<1>3. active' # None => WillBeThere(S, active)' \/ \E s \in S : s.do = "deactivate" /\ s.env = active'
    <2> SUFFICES ASSUME active' # None
                 PROVE  WillBeThere(S, active)' \/ \E s \in S : s.do = "deactivate" /\ s.env = active'
        OBVIOUS
    <2>1. active' = active /\ active # h.env /\ active \in Settings!Env
        BY DEF SettingsTypes
    <2>2. WillBeThere({h} \cup S, active) <=> WillBeThere(S, active)'
        BY <1>2, <2>1
    <2> QED
        BY <2>1, <2>2 DEF WillAgree
<1>4. \A s \in S : /\ s.do = "activate" => WillBeThere(S, s.env)'
                   /\ s.do = "remove" => file'[s.env] # None
    BY <1>2, TodoIs DEF WillAgree
<1>5. \A k \in Settings!Key : /\ k \notin excused' => (WillRefer(S, k)' <=> WillHold(S, k)')
                              /\ WillIndex(S, k)' <=> WillHold(S, k)'
    BY <1>1 DEF WillAgree
<1> QED
    BY <1>3, <1>4, <1>5 DEF WillAgree

LEMMA ActivateDone ==
    ASSUME SettingsTypes, NEW S \in SUBSET Todo, NEW h \in Todo, Before(h, S), WillAgree({h} \cup S),
           h.do = "activate", active' = h.env,
           UNCHANGED <<file, vault, index, excused>>
    PROVE  WillAgree(S)'
<1>1. ASSUME NEW k \in Settings!Key
      PROVE  /\ WillRefer({h} \cup S, k) <=> WillRefer(S, k)'
             /\ WillHold({h} \cup S, k) <=> WillHold(S, k)'
             /\ WillIndex({h} \cup S, k) <=> WillIndex(S, k)'
    <2>1. WillCopy({h} \cup S, k) <=> WillCopy(S, k)'
        BY DEF WillCopy, Copying
    <2>2. WillRefer({h} \cup S, k) <=> WillRefer(S, k)'
        BY DEF WillRefer, WillWrite, WillRemove, References
    <2>3. WillHold({h} \cup S, k) <=> WillHold(S, k)'
        BY <2>1 DEF WillHold
    <2>4. WillIndex({h} \cup S, k) <=> WillIndex(S, k)'
        BY <2>1 DEF WillIndex
    <2> QED
        BY <2>2, <2>3, <2>4
<1>2. \A e \in Settings!Env : WillBeThere({h} \cup S, e) <=> WillBeThere(S, e)'
    BY DEF WillBeThere, WillWrite, WillRemove
<1>3. WillBeThere(S, active)'
    <2>1. h.env \in Settings!Env
        BY TodoIs
    <2>2. WillBeThere({h} \cup S, h.env)
        BY DEF WillAgree
    <2> QED
        BY <1>2, <2>1, <2>2
<1>4. \A s \in S : /\ s.do = "activate" => WillBeThere(S, s.env)'
                   /\ s.do = "remove" => file'[s.env] # None
    BY <1>2, TodoIs DEF WillAgree
<1>5. \A k \in Settings!Key : /\ k \notin excused' => (WillRefer(S, k)' <=> WillHold(S, k)')
                              /\ WillIndex(S, k)' <=> WillHold(S, k)'
    BY <1>1 DEF WillAgree
<1> QED
    BY <1>3, <1>4, <1>5 DEF WillAgree

\* A new file has no rows, and nothing was about to remove it.
LEMMA CreateAgrees ==
    ASSUME SettingsTypes, NEW S \in SUBSET Todo, WillAgree(S),
           NEW e \in Settings!Env, file[e] = None, file' = [file EXCEPT ![e] = Settings!NewFile],
           UNCHANGED <<vault, index, active, excused>>
    PROVE  WillAgree(S)'
<1>n. Settings!NewFile \in File /\ Settings!NewFile.rows = <<>>
    BY DEF Settings!NewFile, Settings!NoRows, File, Distinct
<1>1. /\ file'[e] = Settings!NewFile /\ Settings!NewFile # None
      /\ \A d \in Settings!Env : d # e => file'[d] = file[d]
    BY <1>n, NoneIsNone DEF SettingsTypes
<1>2. \A m : ~References(file'[e], m) /\ ~References(file[e], m)
    BY <1>1, <1>n DEF References, SecretIn
<1>3. \A s \in S : s.do = "remove" => s.env # e
    BY DEF WillAgree
<1>4. ASSUME NEW k \in Settings!Key
      PROVE  /\ WillRefer(S, k) <=> WillRefer(S, k)'
             /\ WillHold(S, k) <=> WillHold(S, k)'
             /\ WillIndex(S, k) <=> WillIndex(S, k)'
    <2>0. k[1] \in Settings!Env
        BY NoneIsNone
    <2>1. WillCopy(S, k) <=> WillCopy(S, k)'
        BY DEF WillCopy, Copying
    <2>r. References(file[k[1]], k[2]) <=> References(file'[k[1]], k[2])
        BY <1>1, <1>2, <2>0
    <2>2. WillRefer(S, k) <=> WillRefer(S, k)'
        BY <2>r DEF WillRefer, WillWrite, WillRemove, References
    <2>3. WillHold(S, k) <=> WillHold(S, k)'
        BY <2>1 DEF WillHold
    <2>4. WillIndex(S, k) <=> WillIndex(S, k)'
        BY <2>1 DEF WillIndex
    <2> QED
        BY <2>2, <2>3, <2>4
<1>5. \A d \in Settings!Env : WillBeThere(S, d) => WillBeThere(S, d)'
    BY <1>1, <1>3 DEF WillBeThere, WillWrite, WillRemove
<1>6. active' # None => WillBeThere(S, active)' \/ \E s \in S : s.do = "deactivate" /\ s.env = active'
    <2>1. active' = active /\ (active # None => active \in Settings!Env)
        BY DEF SettingsTypes
    <2> QED
        BY <1>5, <2>1 DEF WillAgree
<1>7. \A s \in S : /\ s.do = "activate" => WillBeThere(S, s.env)'
                   /\ s.do = "remove" => file'[s.env] # None
    <2> TAKE s \in S
    <2>1. s.do \in {"activate", "remove"} => s.env \in Settings!Env
        BY TodoIs
    <2> QED
        BY <1>1, <1>3, <1>5, <2>1 DEF WillAgree
<1>8. \A k \in Settings!Key : /\ k \notin excused' => (WillRefer(S, k)' <=> WillHold(S, k)')
                              /\ WillIndex(S, k)' <=> WillHold(S, k)'
    BY <1>4 DEF WillAgree
<1> QED
    BY <1>6, <1>7, <1>8 DEF WillAgree

-----------------------------------------------------------------------------
(* The steps that are left, one after the other.                           *)

LEMMA HeadAndRest ==
    ASSUME NEW t \in Seq(Todo), t # <<>>
    PROVE  /\ Head(t) \in Todo /\ Tail(t) \in Seq(Todo)
           /\ ElementsOf(t) \in SUBSET Todo /\ ElementsOf(Tail(t)) \in SUBSET Todo
           /\ ElementsOf(t) = {Head(t)} \cup ElementsOf(Tail(t))
           /\ Apart(t) => Apart(Tail(t)) /\ Before(Head(t), ElementsOf(Tail(t)))
<1> DEFINE r == Tail(t)
<1>1. /\ Len(t) \in Nat \ {0} /\ DOMAIN t = 1..Len(t) /\ r \in Seq(Todo)
      /\ DOMAIN r = 1..(Len(t) - 1) /\ \A i \in DOMAIN r : r[i] = t[i + 1]
      /\ Head(t) = t[1] /\ \A i \in DOMAIN t : t[i] \in Todo
    OBVIOUS
<1> HIDE DEF r
<1>2. \A i \in DOMAIN r : i + 1 \in DOMAIN t /\ i + 1 # 1
    BY <1>1
<1>3. ElementsOf(t) = {t[1]} \cup ElementsOf(r)
    <2>1. ASSUME NEW i \in DOMAIN t PROVE t[i] \in {t[1]} \cup ElementsOf(r)
        <3>1. i = 1 \/ (i - 1 \in DOMAIN r /\ (i - 1) + 1 = i)
            BY <1>1
        <3> QED
            BY <1>1, <3>1 DEF ElementsOf
    <2>2. t[1] \in ElementsOf(t) /\ \A i \in DOMAIN r : r[i] \in ElementsOf(t)
        BY <1>1, <1>2 DEF ElementsOf
    <2> QED
        BY <2>1, <2>2 DEF ElementsOf
<1>4. ElementsOf(t) \in SUBSET Todo /\ ElementsOf(r) \in SUBSET Todo
    BY <1>1 DEF ElementsOf
<1>5. ASSUME Apart(t) PROVE Apart(r) /\ Before(t[1], ElementsOf(r))
    <2>1. Apart(r)
        <3>1. \A i, j \in DOMAIN r : i # j => i + 1 # j + 1
            BY <1>1
        <3> QED
            BY <1>1, <1>2, <1>5, <3>1 DEF Apart
    <2>2. Before(t[1], ElementsOf(r))
        BY <1>1, <1>2, <1>5 DEF Apart, Before, ElementsOf
    <2> QED
        BY <2>1, <2>2
<1> QED
    BY <1>1, <1>3, <1>4, <1>5 DEF r

LEMMA Joined ==
    ASSUME NEW s \in Seq(Todo), NEW t \in Seq(Todo)
    PROVE  /\ s \o t \in Seq(Todo)
           /\ ElementsOf(s \o t) = ElementsOf(s) \cup ElementsOf(t)
           /\ Apart(s) /\ Apart(t) /\ (\A a \in ElementsOf(s) : Before(a, ElementsOf(t)))
                => Apart(s \o t)
<1> DEFINE b == s \o t
<1>1. /\ b \in Seq(Todo) /\ Len(s) \in Nat /\ Len(t) \in Nat /\ DOMAIN s = 1..Len(s)
      /\ DOMAIN t = 1..Len(t) /\ DOMAIN b = 1..(Len(s) + Len(t))
      /\ \A i \in DOMAIN b : b[i] = IF i <= Len(s) THEN s[i] ELSE t[i - Len(s)]
    OBVIOUS
<1> HIDE DEF b
<1>2. \A i \in DOMAIN b : i \in DOMAIN s \/ (i > Len(s) /\ i - Len(s) \in DOMAIN t)
    BY <1>1
<1>3. /\ \A i \in DOMAIN s : i \in DOMAIN b /\ b[i] = s[i]
      /\ \A i \in DOMAIN t : i + Len(s) \in DOMAIN b /\ b[i + Len(s)] = t[i]
    <2>1. ASSUME NEW i \in DOMAIN t PROVE i + Len(s) \in DOMAIN b /\ b[i + Len(s)] = t[i]
        <3>1. i + Len(s) \in DOMAIN b /\ ~(i + Len(s) <= Len(s)) /\ (i + Len(s)) - Len(s) = i
            BY <1>1
        <3> QED
            BY <1>1, <3>1
    <2> QED
        BY <1>1, <2>1
<1>4. \A i \in DOMAIN b : /\ i \in DOMAIN s => b[i] = s[i]
                          /\ i \notin DOMAIN s => b[i] = t[i - Len(s)] /\ i - Len(s) \in DOMAIN t
    BY <1>1, <1>2
<1>5. ElementsOf(b) = ElementsOf(s) \cup ElementsOf(t)
    <2>1. \A i \in DOMAIN b : b[i] \in ElementsOf(s) \cup ElementsOf(t)
        BY <1>4 DEF ElementsOf
    <2>2. \A x \in ElementsOf(s) \cup ElementsOf(t) : x \in ElementsOf(b)
        BY <1>3 DEF ElementsOf
    <2> QED
        BY <2>1, <2>2 DEF ElementsOf
<1>6. ASSUME Apart(s), Apart(t), \A a \in ElementsOf(s) : Before(a, ElementsOf(t)) PROVE Apart(b)
    <2> SUFFICES ASSUME NEW i \in DOMAIN b, NEW j \in DOMAIN b, i # j PROVE Clear(b[i], b[j])
        BY DEF Apart
    <2>1. CASE i \in DOMAIN s /\ j \in DOMAIN s
        BY <1>4, <1>6, <2>1 DEF Apart
    <2>2. CASE i \in DOMAIN s /\ j \notin DOMAIN s
        <3>1. b[i] \in ElementsOf(s) /\ b[j] \in ElementsOf(t)
            BY <1>4, <2>2 DEF ElementsOf
        <3> QED
            BY <1>6, <3>1 DEF Before
    <2>3. CASE i \notin DOMAIN s /\ j \in DOMAIN s
        <3>1. b[j] \in ElementsOf(s) /\ b[i] \in ElementsOf(t)
            BY <1>4, <2>3 DEF ElementsOf
        <3> QED
            BY <1>6, <3>1 DEF Before
    <2>4. CASE i \notin DOMAIN s /\ j \notin DOMAIN s
        <3>1. i - Len(s) # j - Len(s)
            BY <1>1
        <3> QED
            BY <1>4, <1>6, <2>4, <3>1 DEF Apart
    <2> QED
        BY <2>1, <2>2, <2>3, <2>4
<1> QED
    BY <1>1, <1>5, <1>6 DEF b

LEMMA OneOrTwo ==
    ASSUME NEW a \in Todo, NEW b \in Todo
    PROVE  /\ <<>> \in Seq(Todo) /\ ElementsOf(<<>>) = {} /\ Apart(<<>>)
           /\ <<a>> \in Seq(Todo) /\ ElementsOf(<<a>>) = {a} /\ Apart(<<a>>)
           /\ <<a, b>> \in Seq(Todo) /\ ElementsOf(<<a, b>>) = {a, b}
           /\ Clear(a, b) /\ Clear(b, a) => Apart(<<a, b>>)
<1>1. <<>> \in Seq(Todo) /\ <<a>> \in Seq(Todo) /\ <<a, b>> \in Seq(Todo)
    OBVIOUS
<1>2. DOMAIN <<>> = {} /\ DOMAIN <<a>> = {1} /\ DOMAIN <<a, b>> = {1, 2}
    OBVIOUS
<1>3. <<a>>[1] = a /\ <<a, b>>[1] = a /\ <<a, b>>[2] = b
    OBVIOUS
<1>4. ElementsOf(<<>>) = {} /\ ElementsOf(<<a>>) = {a} /\ ElementsOf(<<a, b>>) = {a, b}
    <2>1. ElementsOf(<<>>) = {}
        BY DEF ElementsOf
    <2>2. ElementsOf(<<a>>) = {a}
        BY DEF ElementsOf
    <2>3. ElementsOf(<<a, b>>) = {a, b}
        BY <1>2, <1>3 DEF ElementsOf
    <2> QED
        BY <2>1, <2>2, <2>3
<1>5. Apart(<<>>) /\ Apart(<<a>>)
    BY <1>2 DEF Apart
<1>6. Clear(a, b) /\ Clear(b, a) => Apart(<<a, b>>)
    BY <1>2, <1>3 DEF Apart
<1> QED
    BY <1>1, <1>4, <1>5, <1>6

-----------------------------------------------------------------------------
(* What a method is about to do makes files and store agree.               *)

\* WillAgree, but for the keys of X too.
SettlesBut(S, X) ==
    /\ \A k \in Settings!Key :
        /\ k \notin excused \cup X => (WillRefer(S, k) <=> WillHold(S, k))
        /\ WillIndex(S, k) <=> WillHold(S, k)
    /\ active # None =>
        WillBeThere(S, active) \/ \E s \in S : s.do = "deactivate" /\ s.env = active
    /\ \A s \in S : /\ s.do = "activate" => WillBeThere(S, s.env)
                    /\ s.do = "remove" => file[s.env] # None

LEMMA ThenAgree ==
    ASSUME NEW S, NEW X, SettlesBut(S, X), excused' = excused \cup X,
           UNCHANGED <<file, vault, index, active>>
    PROVE  WillAgree(S)'
<1>1. \A k \in Settings!Key :
        /\ WillRefer(S, k)' <=> WillRefer(S, k)
        /\ WillHold(S, k)' <=> WillHold(S, k)
        /\ WillIndex(S, k)' <=> WillIndex(S, k)
    <2> TAKE k \in Settings!Key
    <2>1. WillCopy(S, k)' <=> WillCopy(S, k)
        BY DEF WillCopy, Copying
    <2>2. WillRefer(S, k)' <=> WillRefer(S, k)
        BY DEF WillRefer, WillWrite, WillRemove, References
    <2>3. WillHold(S, k)' <=> WillHold(S, k)
        BY <2>1 DEF WillHold
    <2>4. WillIndex(S, k)' <=> WillIndex(S, k)
        BY <2>1 DEF WillIndex
    <2> QED
        BY <2>2, <2>3, <2>4
<1>2. \A e : WillBeThere(S, e)' <=> WillBeThere(S, e)
    BY DEF WillBeThere, WillWrite, WillRemove
<1> QED
    BY <1>1, <1>2 DEF WillAgree, SettlesBut

\* With nothing to come, what agrees is what there is.
LEMMA NowAgree ==
    ASSUME WillAgree({})
    PROVE  /\ \A k \in Settings!Key :
                /\ k \notin excused => (References(file[k[1]], k[2]) <=> vault[k] # None)
                /\ k \in index <=> vault[k] # None
           /\ active # None => file[active] # None
<1>1. \A e : WillBeThere({}, e) <=> file[e] # None
    BY DEF WillBeThere, WillWrite, WillRemove
<1>2. \A k \in Settings!Key : /\ WillRefer({}, k) <=> References(file[k[1]], k[2])
                              /\ WillHold({}, k) <=> vault[k] # None
                              /\ WillIndex({}, k) <=> k \in index
    BY DEF WillRefer, WillHold, WillIndex, WillWrite, WillRemove, WillCopy
<1> QED
    BY <1>1, <1>2 DEF WillAgree

LEMMA NothingToDo ==
    ASSUME NEW X, WillAgree({}) PROVE SettlesBut({}, X)
BY DEF WillAgree, SettlesBut

StoreStep(s) == s.do \in {"put", "index", "drop", "unindex", "copy", "move"}

\* Steps of the store, and one write of a file: it is enough that what is referenced then
\* is what is stored then.
LEMMA WriteSettles ==
    ASSUME SettingsTypes, WillAgree({}), NEW e \in Settings!Env, NEW g \in File,
           NEW w, w = [do |-> "write", env |-> e, file |-> g],
           NEW P \in SUBSET Todo, \A s \in P : StoreStep(s),
           NEW S, S = P \cup {w}, NEW X,
           \A k \in Settings!Key :
               /\ k \notin excused \cup X =>
                    ((IF k[1] = e THEN SecretIn(g.rows, k[2]) ELSE References(file[k[1]], k[2]))
                        <=> WillHold(P, k))
               /\ WillIndex(P, k) <=> WillHold(P, k)
    PROVE  SettlesBut(S, X)
<1>1. w.do = "write" /\ w.env = e /\ w.file = g /\ g # None
    BY NoneIsNone
<1>2. \A s \in P : s.do \notin {"write", "remove", "activate", "deactivate"}
    BY DEF StoreStep
<1>3. ASSUME NEW k \in Settings!Key
      PROVE  /\ WillRefer(S, k) <=> IF k[1] = e THEN SecretIn(g.rows, k[2])
                                    ELSE References(file[k[1]], k[2])
             /\ WillHold(S, k) <=> WillHold(P, k)
             /\ WillIndex(S, k) <=> WillIndex(P, k)
    <2>1. (WillWrite(S, k[1]) <=> k[1] = e) /\ ~WillRemove(S, k[1])
        BY <1>1, <1>2 DEF WillWrite, WillRemove
    <2>2. (\E s \in S : s.do = "write" /\ s.env = k[1] /\ References(s.file, k[2]))
            <=> k[1] = e /\ References(g, k[2])
        BY <1>1, <1>2
    <2>3. References(g, k[2]) <=> SecretIn(g.rows, k[2])
        BY <1>1 DEF References
    <2>4. WillRefer(S, k) <=> IF k[1] = e THEN SecretIn(g.rows, k[2])
                              ELSE References(file[k[1]], k[2])
        BY <2>1, <2>2, <2>3 DEF WillRefer
    <2>5. WillCopy(S, k) <=> WillCopy(P, k)
        BY <1>1 DEF WillCopy, Copying
    <2>6. WillHold(S, k) <=> WillHold(P, k)
        BY <1>1, <2>5 DEF WillHold
    <2>7. WillIndex(S, k) <=> WillIndex(P, k)
        BY <1>1, <2>5 DEF WillIndex
    <2> QED
        BY <2>4, <2>6, <2>7
<1>4. active # None => WillBeThere(S, active)
    BY <1>1, <1>2, NowAgree DEF WillBeThere, WillWrite, WillRemove
<1>5. \A s \in S : s.do \notin {"remove", "activate"}
    BY <1>1, <1>2
<1>6. \A k \in Settings!Key : /\ k \notin excused \cup X => (WillRefer(S, k) <=> WillHold(S, k))
                              /\ WillIndex(S, k) <=> WillHold(S, k)
    BY <1>3
<1> QED
    BY <1>4, <1>5, <1>6 DEF SettlesBut

-----------------------------------------------------------------------------
(* Each method, about to begin.                                            *)

\* The steps t of the request q are what they should be.
SoundSteps(q, t) ==
    /\ t \in Seq(Todo)
    /\ Apart(t)
    /\ WillAgree({}) => SettlesBut(ElementsOf(t), Settings!Excuses(q))
    /\ q.op # "duplicate" => \A s \in ElementsOf(t) : s.do = "write" =>
            s.env = q.env /\ OwnRow(q, file[q.env].rows, s.file.rows)

LEMMA FileWith ==
    ASSUME NEW f \in File
    PROVE  /\ Rows(f.rows)
           /\ \A s : Rows(s) => [f EXCEPT !.rows = s] \in File /\ [f EXCEPT !.rows = s].rows = s
<1>1. f \in [rows : Seq(Settings!Row), confirm : BOOLEAN] /\ Rows(f.rows)
    BY DEF File, Rows
<1>2. ASSUME NEW s, Rows(s) PROVE [f EXCEPT !.rows = s] \in File /\ [f EXCEPT !.rows = s].rows = s
    <2>1. [f EXCEPT !.rows = s] = [rows |-> s, confirm |-> f.confirm]
        BY <1>1
    <2> QED
        BY <1>1, <1>2, <2>1 DEF File, Rows
<1> QED
    BY <1>1, <1>2

\* A write, after steps of the store that are in nobody's way.
LEMMA WriteIsSound ==
    ASSUME SettingsTypes, NEW q, NEW e \in Settings!Env, NEW g \in File,
           NEW p \in Seq(Todo), \A s \in ElementsOf(p) : StoreStep(s),
           NEW X, X = Settings!Excuses(q),
           Apart(p),
           WillAgree({}) => \A k \in Settings!Key :
               /\ k \notin excused \cup X =>
                    ((IF k[1] = e THEN SecretIn(g.rows, k[2]) ELSE References(file[k[1]], k[2]))
                        <=> WillHold(ElementsOf(p), k))
               /\ WillIndex(ElementsOf(p), k) <=> WillHold(ElementsOf(p), k),
           q.op # "duplicate" => e = q.env /\ OwnRow(q, file[q.env].rows, g.rows)
    PROVE  SoundSteps(q, p \o Settings!Write(e, g))
<1> DEFINE w == [do |-> "write", env |-> e, file |-> g]
           t == p \o <<w>>
<1>1. Settings!Write(e, g) = <<w>>
    BY DEF Settings!Write
<1>2. w \in Todo /\ w.do = "write" /\ w.env = e /\ w.file = g
    BY DEF Todo
<1> HIDE DEF w
<1>3. <<w>> \in Seq(Todo) /\ ElementsOf(<<w>>) = {w} /\ Apart(<<w>>)
    BY <1>2, OneOrTwo
<1>4. t \in Seq(Todo) /\ ElementsOf(t) = ElementsOf(p) \cup {w}
    BY <1>3, Joined
<1>5. \A a \in ElementsOf(p) : Before(a, {w})
    BY <1>2 DEF Before, Clear, StoreStep, Copying
<1>6. Apart(p) => Apart(t)
    BY <1>3, <1>5, Joined
<1>7. ElementsOf(p) \in SUBSET Todo
    BY DEF ElementsOf
<1>8. ASSUME WillAgree({}) PROVE SettlesBut(ElementsOf(t), X)
    <2> DEFINE P == ElementsOf(p)
    <2> HIDE DEF P, t
    <2>1. \A k \in Settings!Key :
               /\ k \notin excused \cup X =>
                    ((IF k[1] = e THEN SecretIn(g.rows, k[2]) ELSE References(file[k[1]], k[2]))
                        <=> WillHold(P, k))
               /\ WillIndex(P, k) <=> WillHold(P, k)
        BY <1>8 DEF P
    <2>2. P \in SUBSET Todo /\ (\A s \in P : StoreStep(s)) /\ ElementsOf(t) = P \cup {w}
        BY <1>4, <1>7 DEF P
    <2>3. w = [do |-> "write", env |-> e, file |-> g]
        BY DEF w
    <2> QED
        BY <1>8, <2>1, <2>2, <2>3, WriteSettles
<1>9. q.op # "duplicate" => \A s \in ElementsOf(t) : s.do = "write" =>
            s.env = q.env /\ OwnRow(q, file[q.env].rows, s.file.rows)
    BY <1>2, <1>4 DEF StoreStep
<1> QED
    BY <1>1, <1>4, <1>6, <1>8, <1>9 DEF SoundSteps

LEMMA NoStepsCome ==
    ASSUME NEW k
    PROVE  /\ <<>> \in Seq(Todo) /\ ElementsOf(<<>>) = {} /\ Apart(<<>>)
           /\ WillHold({}, k) <=> vault[k] # None
           /\ WillIndex({}, k) <=> k \in index
<1>1. <<>> \in Seq(Todo) /\ ElementsOf(<<>>) = {} /\ Apart(<<>>)
    BY DEF ElementsOf, Apart
<1> QED
    BY <1>1 DEF WillHold, WillIndex, WillCopy

LEMMA ForgetSteps ==
    ASSUME NEW k0 \in Settings!Key, NEW p, p = Settings!Forget(k0)
    PROVE  /\ p \in Seq(Todo) /\ Apart(p) /\ \A s \in ElementsOf(p) : StoreStep(s)
           /\ \A k : /\ WillHold(ElementsOf(p), k) <=> vault[k] # None /\ k # k0
                     /\ WillIndex(ElementsOf(p), k) <=> k \in index /\ k # k0
<1> DEFINE d == [do |-> "drop", key |-> k0]
           u == [do |-> "unindex", key |-> k0]
<1>1. d \in Todo /\ u \in Todo /\ d.do = "drop" /\ d.key = k0 /\ u.do = "unindex" /\ u.key = k0
    BY DEF Todo
<1>2. p = <<d, u>>
    BY DEF Settings!Forget
<1> HIDE DEF d, u
<1>3. Clear(d, u) /\ Clear(u, d)
    BY <1>1 DEF Clear, Copying
<1>4. p \in Seq(Todo) /\ Apart(p) /\ ElementsOf(p) = {d, u}
    <2>1. d \in Todo /\ u \in Todo
        BY <1>1
    <2>2. <<d, u>> \in Seq(Todo) /\ ElementsOf(<<d, u>>) = {d, u}
        BY <2>1, OneOrTwo
    <2>3. Clear(d, u) /\ Clear(u, d) => Apart(<<d, u>>)
        BY <2>1, OneOrTwo
    <2> QED
        BY <1>2, <1>3, <2>2, <2>3
<1>5. \A s \in {d, u} : StoreStep(s) /\ ~Copying(s) /\ s.do \notin {"put", "index"}
    BY <1>1 DEF StoreStep, Copying
<1>6. \A k : ~WillCopy({d, u}, k)
    BY <1>5 DEF WillCopy
<1>7. \A k : WillHold({d, u}, k) <=> vault[k] # None /\ k # k0
    BY <1>1, <1>6 DEF WillHold
<1>8. \A k : WillIndex({d, u}, k) <=> k \in index /\ k # k0
    BY <1>1, <1>6 DEF WillIndex
<1> QED
    BY <1>4, <1>5, <1>7, <1>8

LEMMA StoreSteps ==
    ASSUME NEW k0 \in Settings!Key, NEW v \in Credential, NEW p, p = Settings!Store(k0, v)
    PROVE  /\ p \in Seq(Todo) /\ Apart(p) /\ \A s \in ElementsOf(p) : StoreStep(s)
           /\ \A k : /\ WillHold(ElementsOf(p), k) <=> vault[k] # None \/ k = k0
                     /\ WillIndex(ElementsOf(p), k) <=> k \in index \/ k = k0
<1> DEFINE d == [do |-> "put", key |-> k0, value |-> v]
           u == [do |-> "index", key |-> k0]
<1>1. d \in Todo /\ u \in Todo /\ d.do = "put" /\ d.key = k0 /\ u.do = "index" /\ u.key = k0
    BY DEF Todo
<1>2. p = <<d, u>>
    BY DEF Settings!Store
<1> HIDE DEF d, u
<1>3. Clear(d, u) /\ Clear(u, d)
    BY <1>1 DEF Clear, Copying
<1>4. p \in Seq(Todo) /\ Apart(p) /\ ElementsOf(p) = {d, u}
    <2>1. d \in Todo /\ u \in Todo
        BY <1>1
    <2>2. <<d, u>> \in Seq(Todo) /\ ElementsOf(<<d, u>>) = {d, u}
        BY <2>1, OneOrTwo
    <2>3. Clear(d, u) /\ Clear(u, d) => Apart(<<d, u>>)
        BY <2>1, OneOrTwo
    <2> QED
        BY <1>2, <1>3, <2>2, <2>3
<1>5. \A s \in {d, u} : StoreStep(s) /\ ~Copying(s) /\ s.do \notin {"drop", "unindex", "move", "copy"}
    BY <1>1 DEF StoreStep, Copying
<1>6. \A k : ~WillCopy({d, u}, k)
    BY <1>5 DEF WillCopy
<1>7. \A k : WillHold({d, u}, k) <=> vault[k] # None \/ k = k0
    BY <1>1, <1>5, <1>6 DEF WillHold
<1>8. \A k : WillIndex({d, u}, k) <=> k \in index \/ k = k0
    BY <1>1, <1>5, <1>6 DEF WillIndex
<1> QED
    BY <1>4, <1>5, <1>7, <1>8

LEMMA MoveSteps ==
    ASSUME NEW k0 \in Settings!Key, NEW k1 \in Settings!Key, k1 # k0,
           NEW m, m = [do |-> "move", key |-> k0, to |-> k1]
    PROVE  /\ <<m>> \in Seq(Todo) /\ Apart(<<m>>) /\ \A s \in ElementsOf(<<m>>) : StoreStep(s)
           /\ \A k : /\ WillHold(ElementsOf(<<m>>), k) <=>
                            (vault[k] # None \/ (k = k1 /\ vault[k0] # None)) /\ k # k0
                     /\ WillIndex(ElementsOf(<<m>>), k) <=>
                            (k \in index \/ (k = k1 /\ vault[k0] # None)) /\ k # k0
<1>1. m \in Todo /\ m.do = "move" /\ m.key = k0 /\ m.to = k1
    BY DEF Todo
<1>2. <<m>> \in Seq(Todo) /\ Apart(<<m>>) /\ ElementsOf(<<m>>) = {m}
    BY <1>1, OneOrTwo
<1>3. \A k : WillCopy({m}, k) <=> k = k1 /\ vault[k0] # None
    BY <1>1 DEF WillCopy, Copying
<1>4. \A k : WillHold({m}, k) <=> (vault[k] # None \/ (k = k1 /\ vault[k0] # None)) /\ k # k0
    BY <1>1, <1>3 DEF WillHold
<1>5. \A k : WillIndex({m}, k) <=> (k \in index \/ (k = k1 /\ vault[k0] # None)) /\ k # k0
    BY <1>1, <1>3 DEF WillIndex
<1> QED
    BY <1>1, <1>2, <1>4, <1>5 DEF StoreStep

\* The variables of a request's environment, told by their keys.
LEMMA ItsKeys ==
    ASSUME NEW e \in Settings!Env, NEW k \in Settings!Key
    PROVE  /\ k[1] \in Settings!Env /\ k[2] \in Var
           /\ \A n : k = <<e, n>> <=> k[1] = e /\ k[2] = n
           /\ \A n \in Var : <<e, n>> \in Settings!Key
<1>1. Settings!Key = Settings!Env \X Var
    BY DEF Settings!Key
<1> QED
    BY <1>1

LEMMA SetIsSound ==
    ASSUME SettingsTypes, NEW q, q.env \in Settings!Env, q.name \in Var, q.value \in Plain,
           q.op \in {"set", "script"},
           NEW f \in File, f = file[q.env]
    PROVE  /\ q.op = "set" => SoundSteps(q, Settings!SetVariable(q, f))
           /\ q.op = "script" => SoundSteps(q, Settings!WriteEnvVar(q, f))
<1> DEFINE g == [f EXCEPT !.rows = Settings!Put(f.rows, q.name, q.value)]
           k0 == <<q.env, q.name>>
           secret == SecretIn(f.rows, q.name)
           p == IF secret THEN Settings!Forget(k0) ELSE <<>>
           mine == {q.name, q.to}
<1>0. /\ k0 \in Settings!Key /\ f # None /\ q.value \in Settings!Value /\ q.value # Secret
      /\ Rows(f.rows) /\ q.name \in mine
    BY ItsKeys, NoneIsNone, CollectionAssumption, FileWith DEF CollectionAssumption, Settings!Key
<1>1. Settings!IsSecret(f.rows, q.name) <=> secret
    BY <1>0, IsSecretIs
<1>2. Settings!SetVariable(q, f) = p \o Settings!Write(q.env, g)
    BY <1>1 DEF Settings!SetVariable
<1>3. Settings!WriteEnvVar(q, f) = IF secret THEN <<>> ELSE Settings!Write(q.env, g)
    BY <1>1 DEF Settings!WriteEnvVar
<1>4. LET t == Settings!Put(f.rows, q.name, q.value) IN
      /\ Rows(t)
      /\ \A m : SecretIn(t, m) <=> m # q.name /\ SecretIn(f.rows, m)
      /\ Only(t, Others(mine)) = Only(f.rows, Others(mine))
      /\ \A i \in DOMAIN f.rows : t[i].name = f.rows[i].name
    BY <1>0, PutIsItsRow
<1>5. /\ g \in File /\ g.rows = Settings!Put(f.rows, q.name, q.value)
      /\ \A m : SecretIn(g.rows, m) <=> m # q.name /\ SecretIn(f.rows, m)
    BY <1>4, FileWith
<1>6. OwnRow(q, file[q.env].rows, g.rows)
    BY <1>4, <1>5 DEF OwnRow, Others
<1> DEFINE X == Settings!Excuses(q)
<1>7. p \in Seq(Todo) /\ (\A s \in ElementsOf(p) : StoreStep(s)) /\ Apart(p)
    BY <1>0, ForgetSteps, NoStepsCome
<1>8. ASSUME WillAgree({}), NEW k \in Settings!Key
      PROVE  /\ k \notin excused \cup X =>
                    ((IF k[1] = q.env THEN SecretIn(g.rows, k[2]) ELSE References(file[k[1]], k[2]))
                        <=> WillHold(ElementsOf(p), k))
             /\ WillIndex(ElementsOf(p), k) <=> WillHold(ElementsOf(p), k)
    <2>1. /\ k \notin excused => (References(file[k[1]], k[2]) <=> vault[k] # None)
          /\ k \in index <=> vault[k] # None
        BY <1>8, NowAgree
    <2>2. /\ k = k0 <=> k[1] = q.env /\ k[2] = q.name
          /\ k[1] = q.env => (References(file[k[1]], k[2]) <=> SecretIn(f.rows, k[2]))
        BY <1>0, ItsKeys DEF References
    <2>3. (secret \/ ~secret) /\ (k \notin excused \cup X => k \notin excused)
        OBVIOUS
    <2> HIDE DEF g, secret, k0, X
    <2>4. CASE secret
        <3>1. /\ WillHold(ElementsOf(p), k) <=> vault[k] # None /\ k # k0
              /\ WillIndex(ElementsOf(p), k) <=> k \in index /\ k # k0
            BY <1>0, <2>4, ForgetSteps
        <3> HIDE DEF p
        <3> QED
            BY <1>5, <2>1, <2>2, <2>3, <3>1
    <2>5. CASE ~secret
        <3>1. /\ WillHold(ElementsOf(p), k) <=> vault[k] # None
              /\ WillIndex(ElementsOf(p), k) <=> k \in index
            BY <2>5, NoStepsCome
        <3>2. k = k0 => ~SecretIn(f.rows, k[2])
            BY <2>2, <2>5 DEF secret
        <3> HIDE DEF p
        <3> QED
            BY <1>5, <2>1, <2>2, <2>3, <3>1, <3>2
    <2> QED
        BY <2>4, <2>5
<1>9. q.op # "duplicate"
    OBVIOUS
<1>10. SoundSteps(q, p \o Settings!Write(q.env, g))
    <2> HIDE DEF p, g, X
    <2>1. X = Settings!Excuses(q)
        BY DEF X
    <2> QED
        BY <1>5, <1>6, <1>7, <1>8, <1>9, <2>1, WriteIsSound
<1>11. SoundSteps(q, <<>>)
    BY <1>9, NoStepsCome, NothingToDo DEF SoundSteps
<1>12. ASSUME ~secret PROVE Settings!Write(q.env, g) = p \o Settings!Write(q.env, g)
    BY <1>12 DEF Settings!Write
<1>13. SoundSteps(q, IF secret THEN <<>> ELSE Settings!Write(q.env, g))
    <2> HIDE DEF secret, p, g
    <2> QED
        BY <1>10, <1>11, <1>12
<1> HIDE DEF p, g, secret
<1> QED
    BY <1>2, <1>3, <1>10, <1>13

LEMMA SecretIsSound ==
    ASSUME SettingsTypes, NEW q, q.env \in Settings!Env, q.name \in Var, q.value \in Credential,
           q.op \in {"secret", "replace"},
           NEW f \in File, f = file[q.env]
    PROVE  /\ q.op = "secret" => SoundSteps(q, Settings!MakeSecret(q, f))
           /\ q.op = "replace" => SoundSteps(q, Settings!SetSecretValue(q, f))
<1> DEFINE g == [f EXCEPT !.rows = Settings!Put(f.rows, q.name, Secret)]
           k0 == <<q.env, q.name>>
           secret == SecretIn(f.rows, q.name)
           p == Settings!Store(k0, q.value)
           mine == {q.name, q.to}
           X == Settings!Excuses(q)
<1>0. /\ k0 \in Settings!Key /\ f # None /\ Secret \in Settings!Value
      /\ Rows(f.rows) /\ q.name \in mine
    BY ItsKeys, NoneIsNone, FileWith DEF Settings!Key
<1>1. Settings!IsSecret(f.rows, q.name) <=> secret
    BY <1>0, IsSecretIs
<1>2. Settings!MakeSecret(q, f) = p \o Settings!Write(q.env, g)
    BY DEF Settings!MakeSecret
<1>3. Settings!SetSecretValue(q, f) = IF ~secret THEN <<>> ELSE p \o Settings!Write(q.env, f)
    BY <1>1 DEF Settings!SetSecretValue
<1>4. LET t == Settings!Put(f.rows, q.name, Secret) IN
      /\ Rows(t)
      /\ \A m : SecretIn(t, m) <=> m = q.name \/ SecretIn(f.rows, m)
      /\ Only(t, Others(mine)) = Only(f.rows, Others(mine))
      /\ \A i \in DOMAIN f.rows : t[i].name = f.rows[i].name
    BY <1>0, PutIsItsRow
<1>5. /\ g \in File /\ g.rows = Settings!Put(f.rows, q.name, Secret)
      /\ \A m : SecretIn(g.rows, m) <=> m = q.name \/ SecretIn(f.rows, m)
    BY <1>4, FileWith
<1>6. OwnRow(q, file[q.env].rows, g.rows) /\ OwnRow(q, file[q.env].rows, f.rows)
    BY <1>4, <1>5 DEF OwnRow, Others
<1>7. /\ p \in Seq(Todo) /\ (\A s \in ElementsOf(p) : StoreStep(s)) /\ Apart(p)
      /\ \A k : /\ WillHold(ElementsOf(p), k) <=> vault[k] # None \/ k = k0
                /\ WillIndex(ElementsOf(p), k) <=> k \in index \/ k = k0
    BY <1>0, StoreSteps
<1> HIDE DEF p
<1>8. ASSUME NEW h \in File, \A m : SecretIn(h.rows, m) <=> m = q.name \/ SecretIn(f.rows, m),
             OwnRow(q, file[q.env].rows, h.rows)
      PROVE  SoundSteps(q, p \o Settings!Write(q.env, h))
    <2>1. ASSUME WillAgree({}), NEW k \in Settings!Key
          PROVE  /\ k \notin excused \cup X =>
                    ((IF k[1] = q.env THEN SecretIn(h.rows, k[2]) ELSE References(file[k[1]], k[2]))
                        <=> WillHold(ElementsOf(p), k))
                 /\ WillIndex(ElementsOf(p), k) <=> WillHold(ElementsOf(p), k)
        <3>1. /\ k \notin excused => (References(file[k[1]], k[2]) <=> vault[k] # None)
              /\ k \in index <=> vault[k] # None
            BY <2>1, NowAgree
        <3>2. /\ k = k0 <=> k[1] = q.env /\ k[2] = q.name
              /\ k[1] = q.env => (References(file[k[1]], k[2]) <=> SecretIn(f.rows, k[2]))
            BY <1>0, ItsKeys DEF References
        <3>3. k \notin excused \cup X => k \notin excused
            OBVIOUS
        <3> HIDE DEF k0, X
        <3> QED
            BY <1>7, <1>8, <3>1, <3>2, <3>3
    <2>2. X = Settings!Excuses(q) /\ q.op # "duplicate"
        OBVIOUS
    <2> HIDE DEF X
    <2> QED
        BY <1>7, <1>8, <2>1, <2>2, WriteIsSound
<1> HIDE DEF g
<1>9. SoundSteps(q, p \o Settings!Write(q.env, g))
    BY <1>5, <1>6, <1>8
<1>10. ASSUME secret PROVE SoundSteps(q, p \o Settings!Write(q.env, f))
    <2>1. \A m : SecretIn(f.rows, m) <=> m = q.name \/ SecretIn(f.rows, m)
        BY <1>10
    <2> HIDE DEF secret
    <2> QED
        BY <1>6, <1>8, <2>1
<1>11. SoundSteps(q, <<>>)
    BY NoStepsCome, NothingToDo DEF SoundSteps
<1> HIDE DEF secret
<1> QED
    BY <1>2, <1>3, <1>9, <1>10, <1>11

\* A variable that goes takes its secret with it; a secret that is forgotten is excused.
LEMMA UnsetIsSound ==
    ASSUME SettingsTypes, NEW q, q.env \in Settings!Env, q.name \in Var, q.op = "unset",
           NEW f \in File, f = file[q.env]
    PROVE  SoundSteps(q, Settings!RemoveVariable(q, f))
<1> DEFINE g == [f EXCEPT !.rows = Settings!Without(f.rows, q.name)]
           k0 == <<q.env, q.name>>
           secret == SecretIn(f.rows, q.name)
           p == IF secret THEN Settings!Forget(k0) ELSE <<>>
           mine == {q.name, q.to}
           X == Settings!Excuses(q)
<1>0. k0 \in Settings!Key /\ f # None /\ Rows(f.rows) /\ q.name \in mine
    BY ItsKeys, NoneIsNone, FileWith DEF Settings!Key
<1>1. Settings!IsSecret(f.rows, q.name) <=> secret
    BY <1>0, IsSecretIs
<1>2. Settings!RemoveVariable(q, f) =
        IF ~Settings!Has(f.rows, q.name) THEN <<>> ELSE p \o Settings!Write(q.env, g)
    BY <1>1 DEF Settings!RemoveVariable
<1>4. LET t == Settings!Without(f.rows, q.name) IN
      /\ Rows(t)
      /\ \A m : SecretIn(t, m) <=> m # q.name /\ SecretIn(f.rows, m)
      /\ Only(t, Others(mine)) = Only(f.rows, Others(mine))
    BY <1>0, WithoutIsTheOthers
<1>5. /\ g \in File /\ g.rows = Settings!Without(f.rows, q.name)
      /\ \A m : SecretIn(g.rows, m) <=> m # q.name /\ SecretIn(f.rows, m)
    BY <1>4, FileWith
<1>6. OwnRow(q, file[q.env].rows, g.rows)
    BY <1>4, <1>5 DEF OwnRow, Others
<1>7. p \in Seq(Todo) /\ (\A s \in ElementsOf(p) : StoreStep(s)) /\ Apart(p)
    BY <1>0, ForgetSteps, NoStepsCome
<1>8. ASSUME WillAgree({}), NEW k \in Settings!Key
      PROVE  /\ k \notin excused \cup X =>
                    ((IF k[1] = q.env THEN SecretIn(g.rows, k[2]) ELSE References(file[k[1]], k[2]))
                        <=> WillHold(ElementsOf(p), k))
             /\ WillIndex(ElementsOf(p), k) <=> WillHold(ElementsOf(p), k)
    <2>1. /\ k \notin excused => (References(file[k[1]], k[2]) <=> vault[k] # None)
          /\ k \in index <=> vault[k] # None
        BY <1>8, NowAgree
    <2>2. /\ k = k0 <=> k[1] = q.env /\ k[2] = q.name
          /\ k[1] = q.env => (References(file[k[1]], k[2]) <=> SecretIn(f.rows, k[2]))
        BY <1>0, ItsKeys DEF References
    <2>3. k \notin excused \cup X => k \notin excused
        OBVIOUS
    <2> HIDE DEF g, secret, k0, X
    <2>4. CASE secret
        <3>1. /\ WillHold(ElementsOf(p), k) <=> vault[k] # None /\ k # k0
              /\ WillIndex(ElementsOf(p), k) <=> k \in index /\ k # k0
            BY <1>0, <2>4, ForgetSteps
        <3> HIDE DEF p
        <3> QED
            BY <1>5, <2>1, <2>2, <2>3, <3>1
    <2>5. CASE ~secret
        <3>1. /\ WillHold(ElementsOf(p), k) <=> vault[k] # None
              /\ WillIndex(ElementsOf(p), k) <=> k \in index
            BY <2>5, NoStepsCome
        <3>2. k = k0 => ~SecretIn(f.rows, k[2])
            BY <2>2, <2>5 DEF secret
        <3> HIDE DEF p
        <3> QED
            BY <1>5, <2>1, <2>2, <2>3, <3>1, <3>2
    <2> QED
        BY <2>4, <2>5
<1>9. SoundSteps(q, p \o Settings!Write(q.env, g))
    <2>1. X = Settings!Excuses(q) /\ q.op # "duplicate"
        OBVIOUS
    <2> HIDE DEF p, g, X
    <2> QED
        BY <1>5, <1>6, <1>7, <1>8, <2>1, WriteIsSound
<1>10. SoundSteps(q, <<>>)
    BY NoStepsCome, NothingToDo DEF SoundSteps
<1> HIDE DEF p, g
<1> QED
    BY <1>2, <1>9, <1>10

LEMMA ForgetIsSound ==
    ASSUME SettingsTypes, NEW q, q.env \in Settings!Env, q.name \in Var, q.op = "forget",
           NEW f \in File, f = file[q.env]
    PROVE  SoundSteps(q, Settings!ForgetSecret(q, f))
<1> DEFINE k0 == <<q.env, q.name>>
           p == Settings!Forget(k0)
           X == Settings!Excuses(q)
<1>0. k0 \in Settings!Key /\ f # None /\ k0 \in X
    BY ItsKeys, NoneIsNone DEF Settings!Key, Settings!Excuses
<1>1. /\ p \in Seq(Todo) /\ (\A s \in ElementsOf(p) : StoreStep(s)) /\ Apart(p)
      /\ \A k : /\ WillHold(ElementsOf(p), k) <=> vault[k] # None /\ k # k0
                /\ WillIndex(ElementsOf(p), k) <=> k \in index /\ k # k0
    BY <1>0, ForgetSteps
<1> HIDE DEF p
<1>2. ASSUME WillAgree({}), NEW k \in Settings!Key
      PROVE  /\ k \notin excused \cup X =>
                    ((IF k[1] = q.env THEN SecretIn(f.rows, k[2]) ELSE References(file[k[1]], k[2]))
                        <=> WillHold(ElementsOf(p), k))
             /\ WillIndex(ElementsOf(p), k) <=> WillHold(ElementsOf(p), k)
    <2>1. /\ k \notin excused => (References(file[k[1]], k[2]) <=> vault[k] # None)
          /\ k \in index <=> vault[k] # None
        BY <1>2, NowAgree
    <2>2. k[1] = q.env => (References(file[k[1]], k[2]) <=> SecretIn(f.rows, k[2]))
        BY <1>0 DEF References
    <2>3. k \notin excused \cup X => k \notin excused /\ k # k0
        BY <1>0
    <2> HIDE DEF k0, X
    <2> QED
        BY <1>1, <2>1, <2>2, <2>3
<1>3. OwnRow(q, file[q.env].rows, f.rows)
    BY DEF OwnRow
<1>4. SoundSteps(q, p \o Settings!Write(q.env, f))
    <2>1. X = Settings!Excuses(q) /\ q.op # "duplicate"
        OBVIOUS
    <2> HIDE DEF X
    <2> QED
        BY <1>1, <1>2, <1>3, <2>1, WriteIsSound
<1>5. SoundSteps(q, <<>>)
    BY NoStepsCome, NothingToDo DEF SoundSteps
<1>6. Settings!ForgetSecret(q, f) =
        IF ~Settings!IsSecret(f.rows, q.name) THEN <<>> ELSE p \o Settings!Write(q.env, f)
    BY DEF Settings!ForgetSecret, p
<1> QED
    BY <1>4, <1>5, <1>6

LEMMA ConfirmIsSound ==
    ASSUME SettingsTypes, NEW q, q.env \in Settings!Env, q.op = "confirm",
           NEW f \in File, f = file[q.env]
    PROVE  SoundSteps(q, Settings!SetConfirmBeforeSend(q, f))
<1> DEFINE g == [f EXCEPT !.confirm = ~f.confirm]
           X == Settings!Excuses(q)
<1>0. f # None
    BY NoneIsNone
<1>1. g = [rows |-> f.rows, confirm |-> ~f.confirm]
    BY DEF File
<1>2. g \in File /\ g.rows = f.rows
    BY <1>1 DEF File
<1>3. Settings!SetConfirmBeforeSend(q, f) = Settings!Write(q.env, g)
    BY DEF Settings!SetConfirmBeforeSend
<1> HIDE DEF g
<1>4. ASSUME WillAgree({}), NEW k \in Settings!Key
      PROVE  /\ k \notin excused \cup X =>
                    ((IF k[1] = q.env THEN SecretIn(g.rows, k[2]) ELSE References(file[k[1]], k[2]))
                        <=> WillHold(ElementsOf(<<>>), k))
             /\ WillIndex(ElementsOf(<<>>), k) <=> WillHold(ElementsOf(<<>>), k)
    <2>1. /\ k \notin excused => (References(file[k[1]], k[2]) <=> vault[k] # None)
          /\ k \in index <=> vault[k] # None
        BY <1>4, NowAgree
    <2>2. k[1] = q.env => (References(file[k[1]], k[2]) <=> SecretIn(g.rows, k[2]))
        BY <1>0, <1>2 DEF References
    <2>3. k \notin excused \cup X => k \notin excused
        OBVIOUS
    <2> HIDE DEF X
    <2> QED
        BY <2>1, <2>2, <2>3, NoStepsCome
<1>5. OwnRow(q, file[q.env].rows, g.rows)
    BY <1>2 DEF OwnRow
<1>6. SoundSteps(q, <<>> \o Settings!Write(q.env, g))
    <2>1. X = Settings!Excuses(q) /\ q.op # "duplicate"
        OBVIOUS
    <2>2. <<>> \in Seq(Todo) /\ (\A s \in ElementsOf(<<>>) : StoreStep(s)) /\ Apart(<<>>)
        BY NoStepsCome
    <2> HIDE DEF X
    <2> QED
        BY <1>2, <1>4, <1>5, <2>1, <2>2, WriteIsSound
<1>7. Settings!Write(q.env, g) = <<>> \o Settings!Write(q.env, g)
    BY DEF Settings!Write
<1> QED
    BY <1>3, <1>6, <1>7

\* A secret that is renamed is stored under its new name; what was forgotten stays excused.
LEMMA RenameIsSound ==
    ASSUME SettingsTypes, NEW q, q.env \in Settings!Env, q.name \in Var, q.to \in Var,
           q.op = "rename", NEW f \in File, f = file[q.env]
    PROVE  SoundSteps(q, Settings!RenameVariable(q, f))
<1> DEFINE g == [f EXCEPT !.rows = Settings!Renamed(f.rows, q.name, q.to)]
           k0 == <<q.env, q.name>>
           k1 == <<q.env, q.to>>
           secret == SecretIn(f.rows, q.name)
           m == [do |-> "move", key |-> k0, to |-> k1]
           moves == q.to # q.name /\ secret
           p == IF moves THEN <<m>> ELSE <<>>
           mine == {q.name, q.to}
           refused == ~Settings!Has(f.rows, q.name) \/ (q.to # q.name /\ Settings!Has(f.rows, q.to))
           X == Settings!Excuses(q)
<1>0. /\ k0 \in Settings!Key /\ k1 \in Settings!Key /\ f # None /\ Rows(f.rows)
      /\ k0 = k1 <=> q.name = q.to
    BY ItsKeys, NoneIsNone, FileWith DEF Settings!Key
<1>1. Settings!IsSecret(f.rows, q.name) <=> secret
    BY <1>0, IsSecretIs
<1>2. Settings!RenameVariable(q, f) = IF refused THEN <<>> ELSE p \o Settings!Write(q.env, g)
    BY <1>1 DEF Settings!RenameVariable
<1>3. SoundSteps(q, <<>>)
    BY NoStepsCome, NothingToDo DEF SoundSteps
<1>4. ASSUME ~refused PROVE SoundSteps(q, p \o Settings!Write(q.env, g))
    <2>1. LET t == Settings!Renamed(f.rows, q.name, q.to) IN
          /\ Rows(t)
          /\ \A x : SecretIn(t, x) <=> IF x = q.to THEN secret ELSE x # q.name /\ SecretIn(f.rows, x)
          /\ Only(t, Others(mine)) = Only(f.rows, Others(mine))
          /\ \A i \in DOMAIN f.rows : \/ t[i].name = f.rows[i].name
                                      \/ f.rows[i].name = q.name /\ t[i].name = q.to
        BY <1>0, <1>4, RenamedIsItsRow
    <2>2. /\ g \in File /\ g.rows = Settings!Renamed(f.rows, q.name, q.to)
          /\ \A x : SecretIn(g.rows, x) <=>
                        IF x = q.to THEN secret ELSE x # q.name /\ SecretIn(f.rows, x)
        BY <2>1, FileWith
    <2>3. OwnRow(q, file[q.env].rows, g.rows)
        BY <2>1, <2>2 DEF OwnRow, Others
    <2>4. p \in Seq(Todo) /\ (\A s \in ElementsOf(p) : StoreStep(s)) /\ Apart(p)
        BY <1>0, MoveSteps, NoStepsCome
    <2>5. q.to # q.name => ~SecretIn(f.rows, q.to)
        BY <1>4, HasIs DEF SecretIn
    <2>6. ASSUME WillAgree({}), NEW k \in Settings!Key
          PROVE  /\ k \notin excused \cup X =>
                    ((IF k[1] = q.env THEN SecretIn(g.rows, k[2]) ELSE References(file[k[1]], k[2]))
                        <=> WillHold(ElementsOf(p), k))
                 /\ WillIndex(ElementsOf(p), k) <=> WillHold(ElementsOf(p), k)
        <3>1. /\ k \notin excused => (References(file[k[1]], k[2]) <=> vault[k] # None)
              /\ k \in index <=> vault[k] # None
            BY <2>6, NowAgree
        <3>2. /\ k = k0 <=> k[1] = q.env /\ k[2] = q.name
              /\ k = k1 <=> k[1] = q.env /\ k[2] = q.to
              /\ k[1] = q.env => (References(file[k[1]], k[2]) <=> SecretIn(f.rows, k[2]))
            BY <1>0, ItsKeys DEF References
        <3>3. k \notin excused \cup X => k \notin excused
            OBVIOUS
        <3>4. k \notin excused \cup X /\ k = k1 => k0 \notin excused
            BY DEF Settings!Excuses
        <3>5. secret /\ k0 \notin excused => vault[k0] # None
            <4>1. k0 \notin excused => (References(file[k0[1]], k0[2]) <=> vault[k0] # None)
                BY <1>0, <2>6, NowAgree
            <4>2. References(file[k0[1]], k0[2]) <=> secret
                BY <1>0 DEF References
            <4> QED
                BY <4>1, <4>2
        <3>n. k = k0 => (k = k1 <=> q.name = q.to)
            BY <1>0
        <3> HIDE DEF g, X, m
        <3>6. CASE moves
            <4>1. k1 # k0
                BY <1>0, <3>6
            <4>2. /\ WillHold(ElementsOf(p), k) <=>
                            (vault[k] # None \/ (k = k1 /\ vault[k0] # None)) /\ k # k0
                  /\ WillIndex(ElementsOf(p), k) <=>
                            (k \in index \/ (k = k1 /\ vault[k0] # None)) /\ k # k0
                BY <1>0, <3>6, <4>1, MoveSteps DEF m
            <4>3. secret /\ q.to # q.name
                BY <3>6
            <4> HIDE DEF p, k0, k1, secret
            <4>4. WillIndex(ElementsOf(p), k) <=> WillHold(ElementsOf(p), k)
                BY <3>1, <4>2
            <4>5. CASE k = k1
                <5>1. k[1] = q.env /\ k[2] = q.to /\ k # k0
                    BY <3>2, <4>1, <4>5
                <5> QED
                    BY <2>2, <3>4, <3>5, <4>2, <4>3, <4>4, <4>5, <5>1
            <4>6. CASE k # k1
                <5>1. k[1] = q.env => k[2] # q.to
                    BY <3>2, <4>6
                <5>2. WillHold(ElementsOf(p), k) <=> vault[k] # None /\ k # k0
                    BY <4>2, <4>6
                <5>3. k[1] = q.env => (SecretIn(g.rows, k[2]) <=> k # k0 /\ SecretIn(f.rows, k[2]))
                    BY <2>2, <3>2, <5>1
                <5>4. k[1] # q.env => k # k0
                    BY <3>2
                <5> QED
                    BY <3>1, <3>2, <3>3, <4>4, <5>2, <5>3, <5>4
            <4> QED
                BY <4>5, <4>6
        <3>7. CASE ~moves
            <4>1. /\ WillHold(ElementsOf(p), k) <=> vault[k] # None
                  /\ WillIndex(ElementsOf(p), k) <=> k \in index
                BY <3>7, NoStepsCome
            <4>2. q.to = q.name \/ ~secret
                BY <3>7
            <4> HIDE DEF p
            <4>3. \A x : SecretIn(g.rows, x) <=> SecretIn(f.rows, x)
                BY <2>2, <2>5, <4>2
            <4> QED
                BY <3>1, <3>2, <3>3, <4>1, <4>3
        <3> QED
            BY <3>6, <3>7
    <2>7. X = Settings!Excuses(q) /\ q.op # "duplicate"
        OBVIOUS
    <2> HIDE DEF p, g, X
    <2> QED
        BY <2>2, <2>3, <2>4, <2>6, <2>7, WriteIsSound
<1> HIDE DEF refused, p, g
<1> QED
    BY <1>2, <1>3, <1>4

\* A file that goes leaves its keys behind, and is active no more.
LEMMA DeleteIsSound ==
    ASSUME SettingsTypes, NEW q, q.env \in Settings!Env, q.op = "delete",
           NEW f \in File, f = file[q.env]
    PROVE  SoundSteps(q, Settings!Delete(q, f))
<1> DEFINE r == [do |-> "remove", env |-> q.env]
           d == [do |-> "deactivate", env |-> q.env]
           X == Settings!Excuses(q)
           S == {r, d}
<1>0. file[q.env] # None
    BY NoneIsNone
<1>1. r \in Todo /\ d \in Todo /\ r.do = "remove" /\ r.env = q.env /\ d.do = "deactivate" /\ d.env = q.env
    BY DEF Todo
<1>2. Settings!Delete(q, f) = <<r, d>>
    BY DEF Settings!Delete
<1>x. X = {q.env} \X Var
    BY DEF Settings!Excuses
<1> HIDE DEF r, d, X
<1>3. Clear(r, d) /\ Clear(d, r)
    BY <1>1 DEF Clear, Copying
<1>4. <<r, d>> \in Seq(Todo) /\ Apart(<<r, d>>) /\ ElementsOf(<<r, d>>) = S
    BY <1>1, <1>3, OneOrTwo
<1>5. ASSUME WillAgree({}) PROVE SettlesBut(S, X)
    <2>1. ASSUME NEW k \in Settings!Key
          PROVE  /\ k \notin excused \cup X => (WillRefer(S, k) <=> WillHold(S, k))
                 /\ WillIndex(S, k) <=> WillHold(S, k)
        <3>1. /\ k \notin excused => (References(file[k[1]], k[2]) <=> vault[k] # None)
              /\ k \in index <=> vault[k] # None
            BY <1>5, NowAgree
        <3>2. k \notin X => k[1] # q.env
            BY <1>x, ItsKeys
        <3>3. ~WillCopy(S, k) /\ ~WillWrite(S, k[1]) /\ (WillRemove(S, k[1]) <=> k[1] = q.env)
            BY <1>1 DEF WillCopy, Copying, WillWrite, WillRemove
        <3>4. (WillHold(S, k) <=> vault[k] # None) /\ (WillIndex(S, k) <=> k \in index)
            BY <1>1, <3>3 DEF WillHold, WillIndex
        <3>5. k[1] # q.env => (WillRefer(S, k) <=> References(file[k[1]], k[2]))
            BY <3>3 DEF WillRefer
        <3> QED
            BY <3>1, <3>2, <3>4, <3>5
    <2>2. active # None => WillBeThere(S, active) \/ \E s \in S : s.do = "deactivate" /\ s.env = active
        <3>1. active # None => file[active] # None
            BY <1>5, NowAgree
        <3>2. CASE active = q.env
            BY <1>1, <3>2
        <3>3. CASE active # q.env
            BY <1>1, <3>1, <3>3 DEF WillBeThere, WillWrite, WillRemove
        <3> QED
            BY <3>2, <3>3
    <2>3. \A s \in S : /\ s.do = "activate" => WillBeThere(S, s.env)
                       /\ s.do = "remove" => file[s.env] # None
        BY <1>0, <1>1
    <2> QED
        BY <2>1, <2>2, <2>3 DEF SettlesBut
<1>6. \A s \in S : s.do # "write"
    BY <1>1
<1> QED
    BY <1>2, <1>4, <1>5, <1>6 DEF SoundSteps, X

LEMMA ActivateIsSound ==
    ASSUME SettingsTypes, NEW q, q.env \in Settings!Env, q.op = "activate",
           NEW f \in File, f = file[q.env]
    PROVE  SoundSteps(q, Settings!Activate(q, f))
<1> DEFINE a == [do |-> "activate", env |-> q.env]
           X == Settings!Excuses(q)
           S == {a}
<1>0. file[q.env] # None
    BY NoneIsNone
<1>1. a \in Todo /\ a.do = "activate" /\ a.env = q.env
    BY DEF Todo
<1>2. Settings!Activate(q, f) = <<a>>
    BY DEF Settings!Activate
<1> HIDE DEF a, X
<1>3. <<a>> \in Seq(Todo) /\ Apart(<<a>>) /\ ElementsOf(<<a>>) = S
    BY <1>1, OneOrTwo
<1>4. ASSUME WillAgree({}) PROVE SettlesBut(S, X)
    <2>1. ASSUME NEW k \in Settings!Key
          PROVE  /\ k \notin excused \cup X => (WillRefer(S, k) <=> WillHold(S, k))
                 /\ WillIndex(S, k) <=> WillHold(S, k)
        <3>1. /\ k \notin excused => (References(file[k[1]], k[2]) <=> vault[k] # None)
              /\ k \in index <=> vault[k] # None
            BY <1>4, NowAgree
        <3>2. ~WillCopy(S, k) /\ ~WillWrite(S, k[1]) /\ ~WillRemove(S, k[1])
            BY <1>1 DEF WillCopy, Copying, WillWrite, WillRemove
        <3>3. /\ WillHold(S, k) <=> vault[k] # None
              /\ WillIndex(S, k) <=> k \in index
              /\ WillRefer(S, k) <=> References(file[k[1]], k[2])
            BY <1>1, <3>2 DEF WillHold, WillIndex, WillRefer
        <3> QED
            BY <3>1, <3>3
    <2>2. \A e : WillBeThere(S, e) <=> file[e] # None
        BY <1>1 DEF WillBeThere, WillWrite, WillRemove
    <2>3. active # None => file[active] # None
        BY <1>4, NowAgree
    <2>4. \A s \in S : /\ s.do = "activate" => WillBeThere(S, s.env)
                       /\ s.do = "remove" => file[s.env] # None
        BY <1>0, <1>1, <2>2
    <2> QED
        BY <2>1, <2>2, <2>3, <2>4 DEF SettlesBut
<1>5. \A s \in S : s.do # "write"
    BY <1>1
<1> QED
    BY <1>2, <1>3, <1>4, <1>5 DEF SoundSteps, X

-----------------------------------------------------------------------------
(* A duplicate is written under a name that is free.                       *)

LEMMA CopyIsFree ==
    ASSUME SettingsTypes, NEW e \in Settings!Env, e[2] = 0,
           NEW to, to = Settings!CopyOf(e), to # None
    PROVE  to \in Settings!Env /\ file[to] = None /\ to # e
<1> DEFINE free == {n \in 1..MaxCopies : file[<<e[1], n>>] = None}
<1>1. free # {} /\ to = <<e[1], CHOOSE n \in free : \A m \in free : n <= m>>
    BY DEF Settings!CopyOf
<1>2. free \subseteq Nat /\ (\A n \in free : n \in 1..MaxCopies /\ file[<<e[1], n>>] = None)
    OBVIOUS
<1> HIDE DEF free
<1>3. \E x \in free : \A y \in free : ~(<<y, x>> \in OpToRel(<, Nat))
    BY <1>1, <1>2, NatLessThanWellFounded, WFMin
<1>4. \A x, y \in Nat : <<y, x>> \in OpToRel(<, Nat) <=> y < x
    BY DEF OpToRel
<1>5. PICK x \in free : \A y \in free : ~(y < x)
    BY <1>2, <1>3, <1>4
<1>6. \A y \in free : x <= y
    BY <1>2, <1>5
<1>7. PICK n \in free : to = <<e[1], n>>
    BY <1>1, <1>6
<1>8. e = <<e[1], e[2]>> /\ e[1] \in Base /\ n \in 0..MaxCopies /\ n # 0
    BY <1>2, <1>7, CollectionAssumption DEF CollectionAssumption, Settings!Env
<1> QED
    BY <1>2, <1>7, <1>8 DEF Settings!Env

LEMMA DuplicateIsSound ==
    ASSUME SettingsTypes, NEW q, q.env \in Settings!Env, q.op = "duplicate",
           NEW f \in File, f = file[q.env]
    PROVE  SoundSteps(q, Settings!Duplicate(q, f))
<1> DEFINE to == Settings!CopyOf(q.env)
           V == {r \in Settings!Row : r.value = Secret}
           secret == Settings!Only(f.rows, V)
           p == [i \in DOMAIN secret |-> [do |-> "copy", key |-> <<q.env, secret[i].name>>,
                                          to |-> <<to, secret[i].name>>]]
           refused == q.env[2] # 0 \/ to = None
           P == ElementsOf(p)
           X == Settings!Excuses(q)
<1>1. Settings!Duplicate(q, f) = IF refused THEN <<>> ELSE p \o Settings!Write(to, f)
    BY DEF Settings!Duplicate
<1>2. SoundSteps(q, <<>>)
    BY NoStepsCome, NothingToDo DEF SoundSteps
<1>3. ASSUME ~refused PROVE SoundSteps(q, p \o Settings!Write(to, f))
    <2>1. to \in Settings!Env /\ file[to] = None /\ to # q.env /\ f # None /\ Rows(f.rows)
        BY <1>3, CopyIsFree, NoneIsNone, FileWith
    <2>x. X = {k \in Settings!Key : <<q.env, k[2]>> \in excused /\ k[1] = to}
        BY DEF Settings!Excuses
    <2> HIDE DEF to, X
    <2>2. secret = Only(f.rows, V)
        BY DEF Settings!Only, Only
    <2>v. \A r \in V : r \in Settings!Row /\ r.value = Secret
        OBVIOUS
    <2>w. \A r \in Settings!Row : r \in V <=> r.value = Secret
        OBVIOUS
    <2> HIDE DEF V, secret
    <2>3. /\ secret \in Seq(Settings!Row \cap V) /\ Distinct(secret)
          /\ \A i \in DOMAIN secret : \E j \in DOMAIN f.rows : f.rows[j] = secret[i] /\ f.rows[j] \in V
          /\ \A j \in DOMAIN f.rows : f.rows[j] \in V => \E i \in DOMAIN secret : secret[i] = f.rows[j]
        <3>1. f.rows \in Seq(Settings!Row) /\ Distinct(f.rows)
            BY <2>1 DEF Rows
        <3>2. Distinct(secret)
            BY <2>2, <3>1, OnlyIsDistinct
        <3>3. \A s \in Seq(Settings!Row) : secret = Only(s, V) =>
                /\ secret \in Seq(Settings!Row \cap V)
                /\ \A i \in DOMAIN secret : \E j \in DOMAIN s : s[j] = secret[i] /\ s[j] \in V
                /\ \A j \in DOMAIN s : s[j] \in V => \E i \in DOMAIN secret : secret[i] = s[j]
            BY OnlyHas
        <3>4. /\ secret \in Seq(Settings!Row \cap V)
              /\ \A i \in DOMAIN secret : \E j \in DOMAIN f.rows : f.rows[j] = secret[i] /\ f.rows[j] \in V
              /\ \A j \in DOMAIN f.rows : f.rows[j] \in V => \E i \in DOMAIN secret : secret[i] = f.rows[j]
            BY <2>2, <3>1, <3>3
        <3> QED
            BY <3>2, <3>4
    <2>4. \A i \in DOMAIN secret : secret[i] \in V /\ secret[i].name \in Var
        BY <2>3 DEF Settings!Row
    <2>5. \A n : SecretIn(f.rows, n) <=> \E i \in DOMAIN secret : secret[i].name = n
        <3>1. \A j \in DOMAIN f.rows : f.rows[j] \in Settings!Row
            BY <2>1 DEF Rows
        <3> QED
            BY <2>3, <2>v, <2>w, <3>1 DEF SecretIn
    <2>6. Len(secret) \in Nat /\ DOMAIN secret = 1..Len(secret)
        BY <2>3
    <2>7. /\ DOMAIN p = DOMAIN secret
          /\ \A i \in DOMAIN p : /\ p[i].do = "copy" /\ p[i].key = <<q.env, secret[i].name>>
                                 /\ p[i].to = <<to, secret[i].name>> /\ p[i] \in Todo
        <3>1. ASSUME NEW i \in DOMAIN secret PROVE p[i] \in Todo
            <4>1. <<q.env, secret[i].name>> \in Settings!Key /\ <<to, secret[i].name>> \in Settings!Key
                BY <2>1, <2>4 DEF Settings!Key
            <4>2. <<q.env, secret[i].name>> # <<to, secret[i].name>>
                BY <2>1
            <4> QED
                BY <4>1, <4>2 DEF Todo
        <3> QED
            BY <3>1
    <2>8. p \in Seq(Todo)
        BY <2>6, <2>7
    <2> HIDE DEF p
    <2>9. \A s \in P : s.do = "copy" /\ StoreStep(s)
        BY <2>7 DEF ElementsOf, StoreStep
    <2>10. Apart(p)
        <3> SUFFICES ASSUME NEW i \in DOMAIN p, NEW j \in DOMAIN p, i # j PROVE Clear(p[i], p[j])
            BY DEF Apart
        <3>1. secret[i].name # secret[j].name
            BY <2>3, <2>7 DEF Distinct
        <3>2. p[i].key # p[j].key /\ p[i].to # p[j].key
            BY <2>1, <2>7, <3>1
        <3> QED
            BY <2>7, <3>2 DEF Clear
    <2>11. \A k \in Settings!Key :
            /\ (\E s \in P : s.to = k) <=> k[1] = to /\ SecretIn(f.rows, k[2])
            /\ (\E s \in P : s.key = k) <=> k[1] = q.env /\ SecretIn(f.rows, k[2])
            /\ \A s \in P : s.to = k => s.key = <<q.env, k[2]>>
        <3> TAKE k \in Settings!Key
        <3>1. \A n : /\ k = <<q.env, n>> <=> k[1] = q.env /\ k[2] = n
                     /\ k = <<to, n>> <=> k[1] = to /\ k[2] = n
            BY <2>1, ItsKeys
        <3>2. (\E s \in P : s.to = k) <=> \E i \in DOMAIN p : p[i].to = k
            BY DEF ElementsOf
        <3>3. (\E s \in P : s.key = k) <=> \E i \in DOMAIN p : p[i].key = k
            BY DEF ElementsOf
        <3>4. (\E i \in DOMAIN p : p[i].to = k) <=> k[1] = to /\ SecretIn(f.rows, k[2])
            BY <2>5, <2>7, <3>1
        <3>5. (\E i \in DOMAIN p : p[i].key = k) <=> k[1] = q.env /\ SecretIn(f.rows, k[2])
            BY <2>5, <2>7, <3>1
        <3>6. \A i \in DOMAIN p : p[i].to = k => p[i].key = <<q.env, k[2]>>
            BY <2>7, <3>1
        <3>7. \A s \in P : s.to = k => s.key = <<q.env, k[2]>>
            BY <3>6 DEF ElementsOf
        <3> QED
            BY <3>2, <3>3, <3>4, <3>5, <3>7
    <2> HIDE DEF P
    <2>12. ASSUME NEW k \in Settings!Key
           PROVE  /\ WillCopy(P, k) <=> k[1] = to /\ SecretIn(f.rows, k[2]) /\ vault[<<q.env, k[2]>>] # None
                  /\ WillHold(P, k) <=> vault[k] # None \/ WillCopy(P, k)
                  /\ WillIndex(P, k) <=> /\ k \in index \/ WillCopy(P, k)
                                         /\ ~(k[1] = q.env /\ SecretIn(f.rows, k[2]) /\ vault[k] = None)
        <3>1. WillCopy(P, k) <=> k[1] = to /\ SecretIn(f.rows, k[2]) /\ vault[<<q.env, k[2]>>] # None
            BY <2>9, <2>11 DEF WillCopy, Copying
        <3>2. WillHold(P, k) <=> vault[k] # None \/ WillCopy(P, k)
            BY <2>9 DEF WillHold
        <3>3. WillIndex(P, k) <=> /\ k \in index \/ WillCopy(P, k)
                                  /\ ~(k[1] = q.env /\ SecretIn(f.rows, k[2]) /\ vault[k] = None)
            BY <2>9, <2>11 DEF WillIndex
        <3> QED
            BY <3>1, <3>2, <3>3
    <2>13. ASSUME WillAgree({}), NEW k \in Settings!Key
           PROVE  /\ k \notin excused \cup X =>
                    ((IF k[1] = to THEN SecretIn(f.rows, k[2]) ELSE References(file[k[1]], k[2]))
                        <=> WillHold(P, k))
                  /\ WillIndex(P, k) <=> WillHold(P, k)
        <3> DEFINE j == <<q.env, k[2]>>
        <3>1. /\ k \notin excused => (References(file[k[1]], k[2]) <=> vault[k] # None)
              /\ k \in index <=> vault[k] # None
            BY <2>13, NowAgree
        <3>2. j \in Settings!Key /\ j[1] = q.env /\ j[2] = k[2]
            BY ItsKeys
        <3>3. j \notin excused => (SecretIn(f.rows, k[2]) <=> vault[j] # None)
            <4>1. j \notin excused => (References(file[q.env], k[2]) <=> vault[j] # None)
                BY <2>13, <3>2, NowAgree
            <4>2. References(file[q.env], k[2]) <=> SecretIn(f.rows, k[2])
                BY <2>1 DEF References
            <4> QED
                BY <4>1, <4>2
        <3>4. k \notin excused \cup X /\ k[1] = to => j \notin excused
            BY <2>x
        <3>5. k \notin excused \cup X => k \notin excused
            OBVIOUS
        <3>6. WillCopy(P, k) <=> k[1] = to /\ SecretIn(f.rows, k[2]) /\ vault[j] # None
            BY <2>12
        <3> HIDE DEF j, X
        <3>7. k[1] = to => ~References(file[k[1]], k[2]) /\ k[1] # q.env
            BY <2>1 DEF References
        <3>8. WillHold(P, k) <=> vault[k] # None \/ WillCopy(P, k)
            BY <2>12
        <3>9. WillIndex(P, k) <=> WillHold(P, k)
            BY <2>12, <3>1, <3>6, <3>7
        <3>10. ASSUME k \notin excused \cup X, k[1] = to PROVE SecretIn(f.rows, k[2]) <=> WillHold(P, k)
            <4>1. vault[k] = None
                BY <3>1, <3>5, <3>7, <3>10
            <4> QED
                BY <3>3, <3>4, <3>6, <3>8, <3>10, <4>1
        <3>11. ASSUME k \notin excused, k[1] # to PROVE References(file[k[1]], k[2]) <=> WillHold(P, k)
            BY <3>1, <3>6, <3>8, <3>11
        <3> QED
            BY <3>5, <3>9, <3>10, <3>11
    <2>14. X = Settings!Excuses(q)
        BY DEF X
    <2>15. ASSUME WillAgree({})
           PROVE \A k \in Settings!Key :
                  /\ k \notin excused \cup X =>
                    ((IF k[1] = to THEN SecretIn(f.rows, k[2]) ELSE References(file[k[1]], k[2]))
                        <=> WillHold(ElementsOf(p), k))
                  /\ WillIndex(ElementsOf(p), k) <=> WillHold(ElementsOf(p), k)
        BY <2>13, <2>15 DEF P
    <2>16. \A s \in ElementsOf(p) : StoreStep(s)
        BY <2>9 DEF P
    <2> QED
        BY <2>1, <2>8, <2>10, <2>14, <2>15, <2>16, WriteIsSound
<1> HIDE DEF refused, p, to
<1> QED
    BY <1>1, <1>2, <1>3

-----------------------------------------------------------------------------
(* Calls, one step at a time.                                              *)

LEMMA NoneIsNoSteps == None \notin Seq(Todo)
<1>1. Todo \subseteq Settings!Todo
    <2> SUFFICES ASSUME NEW s \in Todo PROVE s \in Settings!Todo
        OBVIOUS
    <2>1. File \subseteq Settings!File
        BY DEF File, Settings!File
    <2> QED
        BY <2>1 DEF Todo, Settings!Todo
<1>2. \A t : t \in Seq(Todo) => t \in Seq(Settings!Todo)
    BY <1>1
<1> QED
    BY <1>2, CollectionAssumption DEF CollectionAssumption

LEMMA StepsAreSound ==
    ASSUME SettingsTypes, NEW op \in Ops \ {"create"}, NEW e \in Settings!Env,
           NEW p \in Settings!Takes(op), NEW q,
           q = [op |-> op, env |-> e, name |-> p.name, value |-> p.value, to |-> p.to],
           NEW f \in File, f = file[q.env]
    PROVE  SoundSteps(q, Settings!Steps(q, f))
<1>1. /\ q.op = op /\ q.env \in Settings!Env /\ q.name = p.name /\ q.value = p.value /\ q.to = p.to
      /\ op \in {"set", "rename", "unset", "secret", "replace", "forget", "confirm", "script",
                 "duplicate", "delete", "activate"}
    BY CollectionAssumption DEF CollectionAssumption
<1>2. CASE op \in {"set", "script"}
    <2>1. q.name \in Var /\ q.value \in Plain
        BY <1>1, <1>2 DEF Settings!Takes
    <2>2. CASE op = "set"
        BY <1>1, <2>1, <2>2, SetIsSound DEF Settings!Steps
    <2>3. CASE op = "script"
        BY <1>1, <2>1, <2>3, SetIsSound DEF Settings!Steps
    <2> QED
        BY <1>2, <2>2, <2>3
<1>3. CASE op \in {"secret", "replace"}
    <2>1. q.name \in Var /\ q.value \in Credential
        BY <1>1, <1>3 DEF Settings!Takes
    <2>2. CASE op = "secret"
        BY <1>1, <2>1, <2>2, SecretIsSound DEF Settings!Steps
    <2>3. CASE op = "replace"
        BY <1>1, <2>1, <2>3, SecretIsSound DEF Settings!Steps
    <2> QED
        BY <1>3, <2>2, <2>3
<1>4. CASE op = "rename"
    <2>1. q.name \in Var /\ q.to \in Var
        BY <1>1, <1>4 DEF Settings!Takes
    <2> QED
        BY <1>1, <1>4, <2>1, RenameIsSound DEF Settings!Steps
<1>5. CASE op \in {"unset", "forget"}
    <2>1. q.name \in Var
        BY <1>1, <1>5 DEF Settings!Takes
    <2>2. CASE op = "unset"
        BY <1>1, <2>1, <2>2, UnsetIsSound DEF Settings!Steps
    <2>3. CASE op = "forget"
        BY <1>1, <2>1, <2>3, ForgetIsSound DEF Settings!Steps
    <2> QED
        BY <1>5, <2>2, <2>3
<1>6. CASE op = "confirm"
    BY <1>1, <1>6, ConfirmIsSound DEF Settings!Steps
<1>7. CASE op = "duplicate"
    BY <1>1, <1>7, DuplicateIsSound DEF Settings!Steps
<1>8. CASE op = "delete"
    BY <1>1, <1>8, DeleteIsSound DEF Settings!Steps
<1>9. CASE op = "activate"
    BY <1>1, <1>9, ActivateIsSound DEF Settings!Steps
<1> QED
    BY <1>1, <1>2, <1>3, <1>4, <1>5, <1>6, <1>7, <1>8, <1>9

\* A call that has t left now.
Left(c, t) == t \in Seq(Todo) /\ Apart(t) /\ todo' = [todo EXCEPT ![c] = t]

LEMMA LeftIs ==
    ASSUME SettingsTypes, StepsApart, NEW c \in Method, NEW t, Left(c, t)
    PROVE  /\ todo' = [d \in Method |-> todo'[d]] /\ todo'[c] = t
           /\ \A d \in Method : todo'[d] = None \/ todo'[d] \in Seq(Todo)
           /\ \A d \in Method \ {c} : /\ todo'[d] = todo[d]
                                      /\ d \in Settings!UnderWay' <=> d \in Settings!UnderWay
           /\ c \in Settings!UnderWay' <=> t # <<>>
           /\ StepsApart'
<1>1. /\ todo' = [d \in Method |-> IF d = c THEN t ELSE todo[d]]
      /\ \A d \in Method : todo'[d] = IF d = c THEN t ELSE todo[d]
    BY DEF Left, SettingsTypes
<1>2. Settings!UnderWay = {d \in Method : todo[d] # None /\ todo[d] # <<>>}
    BY DEF Settings!UnderWay
<1>3. Settings!UnderWay' = {d \in Method : todo'[d] # None /\ todo'[d] # <<>>}
    BY DEF Settings!UnderWay
<1>4. t # None
    BY NoneIsNoSteps DEF Left
<1>5. /\ todo'[c] = t
      /\ \A d \in Method \ {c} : /\ todo'[d] = todo[d]
                                 /\ d \in Settings!UnderWay' <=> d \in Settings!UnderWay
      /\ c \in Settings!UnderWay' <=> t # <<>>
    BY <1>1, <1>2, <1>3, <1>4
<1>6. \A d \in Method : todo'[d] = None \/ todo'[d] \in Seq(Todo)
    BY <1>1 DEF Left, SettingsTypes
<1>7. StepsApart'
    <2> SUFFICES ASSUME NEW d \in Settings!UnderWay' PROVE Apart(todo'[d])
        BY DEF StepsApart, Apart
    <2>1. d \in Method
        BY <1>3
    <2>2. CASE d = c
        BY <1>5, <2>2 DEF Left
    <2>3. CASE d # c
        BY <1>5, <2>1, <2>3 DEF StepsApart
    <2> QED
        BY <2>2, <2>3
<1>8. todo' = [d \in Method |-> todo'[d]]
    BY <1>1
<1> QED
    BY <1>5, <1>6, <1>7, <1>8

\* What a call under way has left makes files and store agree, and then so it does when it
\* has nothing left.
LEMMA LeftSettles ==
    ASSUME SettingsTypes, StepsApart, WillSettle, NEW c \in Settings!UnderWay, NEW t, Left(c, t),
           UNCHANGED <<alone, faults>>, NEW S, S = ElementsOf(t),
           alone /\ faults = 0 => WillAgree(S)'
    PROVE  WillSettle'
<1>1. c \in Method
    BY DEF Settings!UnderWay
<1>2. /\ todo'[c] = t
      /\ \A d \in Method \ {c} : d \in Settings!UnderWay' <=> d \in Settings!UnderWay
      /\ c \in Settings!UnderWay' <=> t # <<>>
    BY <1>1, LeftIs
<1> SUFFICES ASSUME alone', faults' = 0
             PROVE  /\ Settings!UnderWay' = {} => WillAgree({})'
                    /\ \A d \in Settings!UnderWay' :
                        /\ WillAgree(ElementsOf(todo[d]))'
                        /\ \A b \in Settings!UnderWay' : b = d
    BY DEF WillSettle
<1>3. WillAgree(S)' /\ \A d \in Settings!UnderWay : d = c
    BY DEF WillSettle
<1>4. \A d \in Settings!UnderWay' : d = c
    <2>1. Settings!UnderWay' \subseteq Method
        BY DEF Settings!UnderWay
    <2> QED
        BY <1>2, <1>3, <2>1
<1>5. t = <<>> => S = {}
    BY DEF ElementsOf
<1>6. ElementsOf(todo[c])' = S
    BY <1>2 DEF ElementsOf
<1>7. Settings!UnderWay' = {} => WillAgree({})'
    BY <1>2, <1>3, <1>5
<1>8. ASSUME NEW d \in Settings!UnderWay' PROVE WillAgree(ElementsOf(todo[d]))'
    <2>1. d = c
        BY <1>4
    <2> QED
        BY <1>3, <1>6, <2>1
<1> QED
    BY <1>4, <1>7, <1>8

LEMMA RowsStay ==
    ASSUME SettingsTypes, StepsApart, WritesItsRow, NEW c \in Settings!UnderWay, NEW t, Left(c, t),
           UNCHANGED <<file, request, stale>>,
           \A s \in ElementsOf(t) : s.do = "write" => s \in ElementsOf(todo[c])
    PROVE  WritesItsRow'
<1>1. c \in Method /\ Settings!UnderWay' \subseteq Method
    BY DEF Settings!UnderWay
<1>2. /\ todo'[c] = t
      /\ \A d \in Method \ {c} : /\ todo'[d] = todo[d]
                                 /\ d \in Settings!UnderWay' <=> d \in Settings!UnderWay
    BY <1>1, LeftIs
<1> SUFFICES ASSUME NEW d \in Settings!UnderWay' \ stale', request'[d].op # "duplicate",
                    NEW s \in ElementsOf(todo'[d]), s.do = "write"
             PROVE  /\ s.env = request'[d].env /\ file'[s.env] # None
                    /\ OwnRow(request'[d], file'[s.env].rows, s.file.rows)
    BY DEF WritesItsRow, ElementsOf, OwnRow
<1>3. d \in Settings!UnderWay \ stale
    BY <1>1, <1>2
<1>4. s \in ElementsOf(todo[d])
    BY <1>1, <1>2, <1>3
<1> QED
    BY <1>3, <1>4 DEF WritesItsRow

\* What is at the head of a call's steps, and what comes after.
LEMMA UnderWayHas ==
    ASSUME SettingsTypes, StepsApart, NEW c \in Settings!UnderWay
    PROVE  /\ c \in Method /\ todo[c] \in Seq(Todo) /\ todo[c] # <<>>
           /\ Head(todo[c]) \in Todo /\ Tail(todo[c]) \in Seq(Todo)
           /\ ElementsOf(todo[c]) = {Head(todo[c])} \cup ElementsOf(Tail(todo[c]))
           /\ ElementsOf(Tail(todo[c])) \in SUBSET Todo
           /\ Apart(todo[c]) /\ Apart(Tail(todo[c]))
           /\ Before(Head(todo[c]), ElementsOf(Tail(todo[c])))
<1>1. c \in Method /\ todo[c] \in Seq(Todo) /\ todo[c] # <<>>
    BY DEF Settings!UnderWay, SettingsTypes
<1>2. Apart(todo[c])
    BY DEF StepsApart
<1> QED
    BY <1>1, <1>2, HeadAndRest

\* A step that is done, of a call that goes on: WillAgree of the rest is left to show.
LEMMA GoesSettles ==
    ASSUME SettingsTypes, StepsApart, WillSettle, NEW c \in Settings!UnderWay, Settings!Goes(c),
           UNCHANGED <<alone, faults>>,
           NEW h, h = Head(todo[c]), NEW t, t = Tail(todo[c]), NEW S, S = ElementsOf(t),
           Before(h, S) /\ WillAgree({h} \cup S) => WillAgree(S)'
    PROVE  Left(c, t) /\ WillSettle'
<1>1. Left(c, t)
    BY UnderWayHas DEF Left, Settings!Goes
<1>2. Before(h, S) /\ ElementsOf(todo[c]) = {h} \cup S
    BY UnderWayHas
<1>3. alone /\ faults = 0 => WillAgree({h} \cup S)
    BY <1>2 DEF WillSettle
<1> QED
    BY <1>1, <1>2, <1>3, LeftSettles

\* A step that writes no file keeps the invariant, when what it was to come to has come.
LEMMA GoesOnByStep ==
    ASSUME SettingsInvariant, NEW c \in Settings!UnderWay, Settings!Goes(c),
           UNCHANGED <<file, request, stale, alone, faults>>,
           vault' \in [Settings!Key -> Credential \cup {None}],
           index' \subseteq Settings!Key, active' \in Settings!Env \cup {None},
           NEW h, h = Head(todo[c]), NEW t, t = Tail(todo[c]), NEW S, S = ElementsOf(t),
           Before(h, S) /\ WillAgree({h} \cup S) => WillAgree(S)'
    PROVE  SettingsInvariant'
<1> USE DEF SettingsInvariant
<1>1. Left(c, t) /\ WillSettle'
    BY GoesSettles
<1>2. c \in Method /\ ElementsOf(todo[c]) = {h} \cup S
    BY UnderWayHas
<1>3. /\ todo' = [d \in Method |-> todo'[d]] /\ StepsApart'
      /\ \A d \in Method : todo'[d] = None \/ todo'[d] \in Seq(Todo)
    BY <1>1, <1>2, LeftIs
<1>4. SettingsTypes'
    BY <1>3 DEF SettingsTypes
<1>5. WritesItsRow'
    BY <1>1, <1>2, RowsStay
<1> QED
    BY <1>1, <1>3, <1>4, <1>5

LEMMA PutsGoesOn ==
    ASSUME SettingsInvariant, NEW c \in Method, Settings!StorePuts(c) PROVE SettingsInvariant'
<1> USE DEF SettingsInvariant
<1>1. /\ c \in Settings!UnderWay /\ Settings!Goes(c)
      /\ UNCHANGED <<file, index, active, request, stale, alone, faults, excused>>
    BY DEF Settings!StorePuts, Settings!Step
<1>2. PICK h, t, S : h = Head(todo[c]) /\ t = Tail(todo[c]) /\ S = ElementsOf(t)
    OBVIOUS
<1>3. h \in Todo /\ S \in SUBSET Todo
    BY <1>1, <1>2, UnderWayHas
<1>4. h.do = "put" /\ vault' = [vault EXCEPT ![h.key] = h.value]
    BY <1>2 DEF Settings!StorePuts, Settings!Step
<1>5. vault' \in [Settings!Key -> Credential \cup {None}]
    BY <1>3, <1>4, TodoIs DEF SettingsTypes
<1>6. Before(h, S) /\ WillAgree({h} \cup S) => WillAgree(S)'
    BY <1>1, <1>3, <1>4, PutDone
<1>7. index' \subseteq Settings!Key /\ active' \in Settings!Env \cup {None}
    BY <1>1 DEF SettingsTypes
<1> QED
    BY <1>1, <1>2, <1>5, <1>6, <1>7, GoesOnByStep

LEMMA IndexesGoesOn ==
    ASSUME SettingsInvariant, NEW c \in Method, Settings!StoreIndexes(c) PROVE SettingsInvariant'
<1> USE DEF SettingsInvariant
<1>1. /\ c \in Settings!UnderWay /\ Settings!Goes(c)
      /\ UNCHANGED <<file, vault, active, request, stale, alone, faults, excused>>
    BY DEF Settings!StoreIndexes, Settings!Step
<1>2. PICK h, t, S : h = Head(todo[c]) /\ t = Tail(todo[c]) /\ S = ElementsOf(t)
    OBVIOUS
<1>3. h \in Todo /\ S \in SUBSET Todo
    BY <1>1, <1>2, UnderWayHas
<1>4. h.do = "index" /\ index' = index \cup {h.key}
    BY <1>2 DEF Settings!StoreIndexes, Settings!Step
<1>5. index' \subseteq Settings!Key
    BY <1>3, <1>4, TodoIs DEF SettingsTypes
<1>6. Before(h, S) /\ WillAgree({h} \cup S) => WillAgree(S)'
    BY <1>1, <1>3, <1>4, IndexDone
<1>7. vault' \in [Settings!Key -> Credential \cup {None}] /\ active' \in Settings!Env \cup {None}
    BY <1>1 DEF SettingsTypes
<1> QED
    BY <1>1, <1>2, <1>5, <1>6, <1>7, GoesOnByStep

LEMMA DropsGoesOn ==
    ASSUME SettingsInvariant, NEW c \in Method, Settings!StoreDrops(c) PROVE SettingsInvariant'
<1> USE DEF SettingsInvariant
<1>1. /\ c \in Settings!UnderWay /\ Settings!Goes(c)
      /\ UNCHANGED <<file, index, active, request, stale, alone, faults, excused>>
    BY DEF Settings!StoreDrops, Settings!Step
<1>2. PICK h, t, S : h = Head(todo[c]) /\ t = Tail(todo[c]) /\ S = ElementsOf(t)
    OBVIOUS
<1>3. h \in Todo /\ S \in SUBSET Todo
    BY <1>1, <1>2, UnderWayHas
<1>4. h.do = "drop" /\ vault' = [vault EXCEPT ![h.key] = None]
    BY <1>2 DEF Settings!StoreDrops, Settings!Step
<1>5. vault' \in [Settings!Key -> Credential \cup {None}]
    BY <1>3, <1>4, TodoIs DEF SettingsTypes
<1>6. Before(h, S) /\ WillAgree({h} \cup S) => WillAgree(S)'
    BY <1>1, <1>3, <1>4, DropDone
<1>7. index' \subseteq Settings!Key /\ active' \in Settings!Env \cup {None}
    BY <1>1 DEF SettingsTypes
<1> QED
    BY <1>1, <1>2, <1>5, <1>6, <1>7, GoesOnByStep

LEMMA UnindexesGoesOn ==
    ASSUME SettingsInvariant, NEW c \in Method, Settings!StoreUnindexes(c) PROVE SettingsInvariant'
<1> USE DEF SettingsInvariant
<1>1. /\ c \in Settings!UnderWay /\ Settings!Goes(c)
      /\ UNCHANGED <<file, vault, active, request, stale, alone, faults, excused>>
    BY DEF Settings!StoreUnindexes, Settings!Step
<1>2. PICK h, t, S : h = Head(todo[c]) /\ t = Tail(todo[c]) /\ S = ElementsOf(t)
    OBVIOUS
<1>3. h \in Todo /\ S \in SUBSET Todo
    BY <1>1, <1>2, UnderWayHas
<1>4. h.do = "unindex" /\ index' = index \ {h.key}
    BY <1>2 DEF Settings!StoreUnindexes, Settings!Step
<1>5. Before(h, S) /\ WillAgree({h} \cup S) => WillAgree(S)'
    BY <1>1, <1>3, <1>4, UnindexDone
<1>6. /\ index' \subseteq Settings!Key /\ active' \in Settings!Env \cup {None}
      /\ vault' \in [Settings!Key -> Credential \cup {None}]
    BY <1>1, <1>4 DEF SettingsTypes
<1> QED
    BY <1>1, <1>2, <1>5, <1>6, GoesOnByStep

LEMMA DeactivatesGoesOn ==
    ASSUME SettingsInvariant, NEW c \in Method, Settings!Deactivates(c) PROVE SettingsInvariant'
<1> USE DEF SettingsInvariant
<1>1. /\ c \in Settings!UnderWay /\ Settings!Goes(c)
      /\ UNCHANGED <<file, vault, index, request, stale, alone, faults, excused>>
    BY DEF Settings!Deactivates, Settings!Step
<1>2. PICK h, t, S : h = Head(todo[c]) /\ t = Tail(todo[c]) /\ S = ElementsOf(t)
    OBVIOUS
<1>3. h \in Todo /\ S \in SUBSET Todo
    BY <1>1, <1>2, UnderWayHas
<1>4. h.do = "deactivate" /\ active' = IF active = h.env THEN None ELSE active
    BY <1>2 DEF Settings!Deactivates, Settings!Step
<1>5. Before(h, S) /\ WillAgree({h} \cup S) => WillAgree(S)'
    BY <1>1, <1>3, <1>4, DeactivateDone
<1>6. /\ index' \subseteq Settings!Key /\ active' \in Settings!Env \cup {None}
      /\ vault' \in [Settings!Key -> Credential \cup {None}]
    BY <1>1, <1>4 DEF SettingsTypes
<1> QED
    BY <1>1, <1>2, <1>5, <1>6, GoesOnByStep

LEMMA ActivatesGoesOn ==
    ASSUME SettingsInvariant, NEW c \in Method, Settings!Activates(c) PROVE SettingsInvariant'
<1> USE DEF SettingsInvariant
<1>1. /\ c \in Settings!UnderWay /\ Settings!Goes(c)
      /\ UNCHANGED <<file, vault, index, request, stale, alone, faults, excused>>
    BY DEF Settings!Activates, Settings!Step
<1>2. PICK h, t, S : h = Head(todo[c]) /\ t = Tail(todo[c]) /\ S = ElementsOf(t)
    OBVIOUS
<1>3. h \in Todo /\ S \in SUBSET Todo
    BY <1>1, <1>2, UnderWayHas
<1>4. h.do = "activate" /\ active' = h.env
    BY <1>2 DEF Settings!Activates, Settings!Step
<1>5. Before(h, S) /\ WillAgree({h} \cup S) => WillAgree(S)'
    BY <1>1, <1>3, <1>4, ActivateDone
<1>6. active' \in Settings!Env \cup {None}
    BY <1>3, <1>4, TodoIs
<1>7. index' \subseteq Settings!Key /\ vault' \in [Settings!Key -> Credential \cup {None}]
    BY <1>1 DEF SettingsTypes
<1> QED
    BY <1>1, <1>2, <1>5, <1>6, <1>7, GoesOnByStep

\* A copy's steps in the store are in nobody's way.
LEMMA CopyStepsFit ==
    ASSUME SettingsTypes, NEW h \in Todo, Copying(h), vault[h.key] # None,
           NEW r \in Seq(Todo), Apart(r), Before(h, ElementsOf(r)),
           NEW t, t = Settings!Store(h.to, vault[h.key])
                      \o (IF h.do = "move" THEN Settings!Forget(h.key) ELSE <<>>) \o r
    PROVE  /\ t \in Seq(Todo) /\ Apart(t) /\ ElementsOf(t) = CopyOf(h) \cup ElementsOf(r)
           /\ \A s \in CopyOf(h) : s.do # "write"
<1> DEFINE a == Settings!Store(h.to, vault[h.key])
           b == IF h.do = "move" THEN Settings!Forget(h.key) ELSE <<>>
           p == [do |-> "put", key |-> h.to, value |-> vault[h.key]]
           x == [do |-> "index", key |-> h.to]
           d == [do |-> "drop", key |-> h.key]
           u == [do |-> "unindex", key |-> h.key]
<1>1. /\ h.to \in Settings!Key /\ h.key \in Settings!Key /\ h.to # h.key
      /\ vault[h.key] \in Credential
    BY TodoIs DEF Copying, SettingsTypes
<1>2. a = <<p, x>> /\ b = (IF h.do = "move" THEN <<d, u>> ELSE <<>>)
    BY DEF Settings!Store, Settings!Forget
<1>3. CopyOf(h) = {p, x} \cup (IF h.do = "move" THEN {d, u} ELSE {})
    BY DEF CopyOf
<1>4. /\ p.do = "put" /\ p.key = h.to /\ x.do = "index" /\ x.key = h.to
      /\ d.do = "drop" /\ d.key = h.key /\ u.do = "unindex" /\ u.key = h.key
    OBVIOUS
<1>5. p \in Todo /\ x \in Todo /\ d \in Todo /\ u \in Todo
    BY <1>1 DEF Todo
<1>t. t = (a \o b) \o r
    OBVIOUS
<1> HIDE DEF p, x, d, u, a, b
<1>6. Clear(p, x) /\ Clear(x, p) /\ Clear(d, u) /\ Clear(u, d)
    BY <1>4 DEF Clear, Copying
<1>7. a \in Seq(Todo) /\ Apart(a) /\ ElementsOf(a) = {p, x}
    BY <1>2, <1>5, <1>6, OneOrTwo
<1>8. b \in Seq(Todo) /\ Apart(b) /\ ElementsOf(b) = IF h.do = "move" THEN {d, u} ELSE {}
    <2>1. CASE h.do = "move"
        BY <1>2, <1>5, <1>6, <2>1, OneOrTwo
    <2>2. CASE h.do # "move"
        BY <1>2, <2>2, NoStepsCome
    <2> QED
        BY <2>1, <2>2
<1>9. \A s \in ElementsOf(a) : Before(s, ElementsOf(b))
    BY <1>1, <1>4, <1>7, <1>8 DEF Before, Clear, Copying
<1>10. a \o b \in Seq(Todo) /\ ElementsOf(a \o b) = CopyOf(h) /\ Apart(a \o b)
    BY <1>3, <1>7, <1>8, <1>9, Joined
<1>11. \A s \in CopyOf(h) : /\ s.do \in {"put", "index"} => s.key = h.to
                            /\ s.do \in {"drop", "unindex"} => s.key = h.key
                            /\ s.do \in {"put", "index", "drop", "unindex"}
    BY <1>3, <1>4
<1>12. \A s \in CopyOf(h) : Before(s, ElementsOf(r))
    <2> SUFFICES ASSUME NEW s \in CopyOf(h), NEW o \in ElementsOf(r) PROVE Clear(s, o) /\ Clear(o, s)
        BY DEF Before
    <2>1. Clear(h, o) /\ Clear(o, h)
        BY DEF Before
    <2>2. o.do \in {"drop", "unindex", "copy", "move"} => h.to # o.key /\ h.key # o.key
        BY <2>1 DEF Clear
    <2>3. o.do \in {"put", "index"} => o.key # h.key
        BY <2>1 DEF Clear, Copying
    <2>4. Copying(o) => o.to # h.key /\ o.key # h.key
        BY <2>1 DEF Clear, Copying
    <2>5. Clear(s, o)
        BY <1>11, <2>2 DEF Clear, Copying
    <2>6. Clear(o, s)
        BY <1>11, <2>3, <2>4 DEF Clear, Copying
    <2> QED
        BY <2>5, <2>6
<1>13. t \in Seq(Todo) /\ Apart(t) /\ ElementsOf(t) = CopyOf(h) \cup ElementsOf(r)
    BY <1>t, <1>10, <1>12, Joined
<1> QED
    BY <1>11, <1>13

LEMMA CopiesGoesOn ==
    ASSUME SettingsInvariant, NEW c \in Method, Settings!StoreCopies(c) PROVE SettingsInvariant'
<1> USE DEF SettingsInvariant
<1>1. /\ c \in Settings!UnderWay
      /\ UNCHANGED <<file, vault, active, request, stale, faults, alone, excused>>
    BY DEF Settings!StoreCopies
<1>2. PICK h, r, S : h = Head(todo[c]) /\ r = Tail(todo[c]) /\ S = ElementsOf(r)
    OBVIOUS
<1>3. /\ h \in Todo /\ S \in SUBSET Todo /\ r \in Seq(Todo) /\ Apart(r) /\ Before(h, S)
      /\ ElementsOf(todo[c]) = {h} \cup S
    BY <1>1, <1>2, UnderWayHas
<1>4. Copying(h)
    BY <1>2 DEF Settings!StoreCopies, Copying
<1>5. /\ vault' \in [Settings!Key -> Credential \cup {None}]
      /\ active' \in Settings!Env \cup {None}
    BY <1>1 DEF SettingsTypes
<1>6. CASE vault[h.key] = None
    <2>1. index' = index \ {h.key} /\ Settings!Goes(c)
        BY <1>2, <1>6 DEF Settings!StoreCopies
    <2>2. index' \subseteq Settings!Key
        BY <2>1 DEF SettingsTypes
    <2>3. Before(h, S) /\ WillAgree({h} \cup S) => WillAgree(S)'
        BY <1>1, <1>3, <1>4, <1>6, <2>1, SkippedDone
    <2> QED
        BY <1>1, <1>2, <1>5, <2>1, <2>2, <2>3, GoesOnByStep
<1>7. CASE vault[h.key] # None
    <2>1. PICK t : t = Settings!Store(h.to, vault[h.key])
                       \o (IF h.do = "move" THEN Settings!Forget(h.key) ELSE <<>>) \o r
        OBVIOUS
    <2>2. todo' = [todo EXCEPT ![c] = t] /\ UNCHANGED index
        BY <1>2, <1>7, <2>1 DEF Settings!StoreCopies
    <2>3. PICK N : N = CopyOf(h)
        OBVIOUS
    <2>4. PICK T : T = N \cup S
        OBVIOUS
    <2>5. t \in Seq(Todo) /\ Apart(t) /\ ElementsOf(t) = T /\ \A s \in N : s.do # "write"
        BY <1>2, <1>3, <1>4, <1>7, <2>1, <2>3, <2>4, CopyStepsFit
    <2>6. Left(c, t)
        BY <2>2, <2>5 DEF Left
    <2>7. WillAgree({h} \cup S) => WillAgree(T)'
        BY <1>1, <1>3, <1>4, <1>7, <2>2, <2>3, <2>4, CopyBegun
    <2>8. alone /\ faults = 0 => WillAgree(T)'
        BY <1>1, <1>3, <2>7 DEF WillSettle
    <2>9. WillSettle'
        BY <1>1, <2>5, <2>6, <2>8, LeftSettles
    <2>10. \A s \in ElementsOf(t) : s.do = "write" => s \in ElementsOf(todo[c])
        BY <1>3, <2>4, <2>5
    <2>11. WritesItsRow'
        BY <1>1, <2>6, <2>10, RowsStay
    <2>12. /\ todo' = [d \in Method |-> todo'[d]] /\ StepsApart'
           /\ \A d \in Method : todo'[d] = None \/ todo'[d] \in Seq(Todo)
        BY <2>6, LeftIs
    <2>13. SettingsTypes'
        BY <1>1, <2>2, <2>12 DEF SettingsTypes
    <2> QED
        BY <2>9, <2>11, <2>12, <2>13
<1> QED
    BY <1>6, <1>7

-----------------------------------------------------------------------------
(* A file that is written, and what others read of it.                     *)

\* A write or a removal of a file: whoever else read it is stale.
LEMMA FileChanges ==
    ASSUME SettingsTypes, StepsApart, WritesItsRow, NEW c \in Settings!UnderWay, NEW t, Left(c, t),
           NEW e \in Settings!Env, NEW g \in File \cup {None}, file' = [file EXCEPT ![e] = g],
           stale' = stale \cup {d \in Settings!UnderWay \ {c} : request[d].env = e},
           UNCHANGED <<request, vault, index, active, faults>>,
           \A s \in ElementsOf(t) : s.do # "write"
    PROVE  SettingsTypes' /\ StepsApart' /\ WritesItsRow'
<1>1. c \in Method /\ Settings!UnderWay' \subseteq Method
    BY DEF Settings!UnderWay
<1>2. /\ todo' = [d \in Method |-> todo'[d]] /\ todo'[c] = t
      /\ \A d \in Method : todo'[d] = None \/ todo'[d] \in Seq(Todo)
      /\ \A d \in Method \ {c} : /\ todo'[d] = todo[d]
                                 /\ d \in Settings!UnderWay' <=> d \in Settings!UnderWay
      /\ StepsApart'
    BY <1>1, LeftIs
<1>3. /\ file' \in [Settings!Env -> File \cup {None}]
      /\ \A x \in Settings!Env : x # e => file'[x] = file[x]
    BY DEF SettingsTypes
<1>4. SettingsTypes'
    BY <1>2, <1>3 DEF SettingsTypes
<1>5. WritesItsRow'
    <2> SUFFICES ASSUME NEW d \in Settings!UnderWay' \ stale', request'[d].op # "duplicate",
                        NEW s \in ElementsOf(todo'[d]), s.do = "write"
                 PROVE  /\ s.env = request'[d].env /\ file'[s.env] # None
                        /\ OwnRow(request'[d], file'[s.env].rows, s.file.rows)
        BY DEF WritesItsRow, ElementsOf, OwnRow
    <2>1. d # c
        BY <1>2
    <2>2. d \in Settings!UnderWay \ stale /\ s \in ElementsOf(todo[d]) /\ request[d].env # e
        BY <1>1, <1>2, <2>1
    <2>3. /\ s.env = request[d].env /\ file[s.env] # None
          /\ OwnRow(request[d], file[s.env].rows, s.file.rows)
        BY <2>2 DEF WritesItsRow
    <2>4. s.env \in Settings!Env
        <3>1. d \in Method /\ todo[d] \in Seq(Todo)
            BY <2>2 DEF Settings!UnderWay, SettingsTypes
        <3>2. s \in Todo
            BY <2>2, <3>1, SeqOfElements DEF ElementsOf
        <3> QED
            BY <3>2, TodoIs
    <2>5. file'[s.env] = file[s.env]
        BY <1>3, <2>2, <2>3, <2>4
    <2> QED
        BY <2>3, <2>5
<1> QED
    BY <1>2, <1>4, <1>5

LEMMA WritesGoesOn ==
    ASSUME SettingsInvariant, NEW c \in Method, Settings!Writes(c) PROVE SettingsInvariant'
<1> USE DEF SettingsInvariant
<1>1. /\ c \in Settings!UnderWay /\ Settings!Goes(c)
      /\ UNCHANGED <<vault, index, active, request, faults, alone, excused>>
    BY DEF Settings!Writes, Settings!Step
<1>2. PICK h, t, S : h = Head(todo[c]) /\ t = Tail(todo[c]) /\ S = ElementsOf(t)
    OBVIOUS
<1>3. h \in Todo /\ S \in SUBSET Todo /\ Before(h, S)
    BY <1>1, <1>2, UnderWayHas
<1>4. /\ h.do = "write" /\ file' = [file EXCEPT ![h.env] = h.file]
      /\ stale' = stale \cup {d \in Settings!UnderWay \ {c} : request[d].env = h.env}
    BY <1>2 DEF Settings!Writes, Settings!Step
<1>5. Before(h, S) /\ WillAgree({h} \cup S) => WillAgree(S)'
    BY <1>1, <1>3, <1>4, WriteDone
<1>6. Left(c, t) /\ WillSettle'
    BY <1>1, <1>2, <1>5, GoesSettles
<1>7. \A s \in ElementsOf(t) : s.do # "write"
    BY <1>2, <1>3, <1>4 DEF Before, Clear
<1>8. h.env \in Settings!Env /\ h.file \in File \cup {None}
    BY <1>3, <1>4, TodoIs
<1> QED
    BY <1>1, <1>4, <1>6, <1>7, <1>8, FileChanges

LEMMA RemovesGoesOn ==
    ASSUME SettingsInvariant, NEW c \in Method, Settings!Removes(c) PROVE SettingsInvariant'
<1> USE DEF SettingsInvariant
<1>1. /\ c \in Settings!UnderWay
      /\ UNCHANGED <<vault, index, active, request, faults, alone, excused>>
    BY DEF Settings!Removes, Settings!Step
<1>2. PICK h, r, S : h = Head(todo[c]) /\ r = Tail(todo[c]) /\ S = ElementsOf(r)
    OBVIOUS
<1>3. /\ h \in Todo /\ S \in SUBSET Todo /\ Before(h, S) /\ r \in Seq(Todo) /\ Apart(r)
      /\ ElementsOf(todo[c]) = {h} \cup S
    BY <1>1, <1>2, UnderWayHas
<1>4. /\ h.do = "remove" /\ file' = [file EXCEPT ![h.env] = None]
      /\ stale' = stale \cup {d \in Settings!UnderWay \ {c} : request[d].env = h.env}
      /\ IF file[h.env] = None THEN Settings!Ends(c) ELSE Settings!Goes(c)
    BY <1>2 DEF Settings!Removes, Settings!Step
<1>5. PICK t : t = IF file[h.env] = None THEN <<>> ELSE r
    OBVIOUS
<1>6. Left(c, t)
    <2>1. todo' = [todo EXCEPT ![c] = t]
        BY <1>2, <1>4, <1>5 DEF Settings!Ends, Settings!Goes
    <2> QED
        BY <1>3, <1>5, <2>1, NoStepsCome DEF Left
<1>7. PICK T : T = ElementsOf(t)
    OBVIOUS
<1>8. alone /\ faults = 0 => WillAgree(T)'
    <2> SUFFICES ASSUME alone, faults = 0 PROVE WillAgree(T)'
        OBVIOUS
    <2>1. WillAgree({h} \cup S)
        BY <1>1, <1>3 DEF WillSettle
    <2>2. file[h.env] # None /\ WillAgree(S)'
        BY <1>1, <1>3, <1>4, <2>1, RemoveDone
    <2>3. T = S
        BY <1>2, <1>5, <1>7, <2>2
    <2> QED
        BY <2>2, <2>3
<1>9. WillSettle'
    BY <1>1, <1>6, <1>7, <1>8, LeftSettles
<1>10. \A s \in ElementsOf(t) : s.do # "write"
    <2>1. \A s \in S : s.do # "write"
        BY <1>3, <1>4 DEF Before, Clear
    <2> QED
        BY <1>2, <1>5, <2>1, NoStepsCome
<1>11. h.env \in Settings!Env /\ None \in File \cup {None}
    BY <1>3, <1>4, TodoIs
<1> QED
    BY <1>1, <1>4, <1>6, <1>9, <1>10, <1>11, FileChanges

LEMMA FailsGoesOn ==
    ASSUME SettingsInvariant, NEW c \in Method, Settings!Fails(c) PROVE SettingsInvariant'
<1> USE DEF SettingsInvariant
<1>1. /\ c \in Settings!UnderWay /\ faults' = faults + 1
      /\ UNCHANGED <<file, vault, index, active, request, stale, alone, excused>>
    BY DEF Settings!Fails
<1>2. PICK t : t = IF Head(todo[c]).do \in {"drop", "copy", "move"} THEN Tail(todo[c]) ELSE <<>>
    OBVIOUS
<1>3. /\ Tail(todo[c]) \in Seq(Todo) /\ Apart(Tail(todo[c]))
      /\ ElementsOf(Tail(todo[c])) \subseteq ElementsOf(todo[c])
    BY <1>1, UnderWayHas
<1>4. Left(c, t)
    <2>1. todo' = [todo EXCEPT ![c] = t]
        BY <1>2 DEF Settings!Fails, Settings!Goes, Settings!Ends
    <2> QED
        BY <1>2, <1>3, <2>1, NoStepsCome DEF Left
<1>5. \A s \in ElementsOf(t) : s \in ElementsOf(todo[c])
    BY <1>2, <1>3, NoStepsCome
<1>6. WritesItsRow'
    BY <1>1, <1>4, <1>5, RowsStay
<1>7. /\ todo' = [d \in Method |-> todo'[d]] /\ StepsApart'
      /\ \A d \in Method : todo'[d] = None \/ todo'[d] \in Seq(Todo)
    BY <1>4, LeftIs
<1>8. faults' \in Nat /\ faults' # 0
    BY <1>1 DEF SettingsTypes
<1>9. SettingsTypes'
    BY <1>1, <1>7, <1>8 DEF SettingsTypes
<1>10. WillSettle'
    BY <1>8 DEF WillSettle
<1> QED
    BY <1>6, <1>7, <1>9, <1>10

\* Steps nobody took are as they were, and a file nobody was to write may change.
LEMMA NobodySteps ==
    ASSUME SettingsTypes, StepsApart, WritesItsRow, UNCHANGED <<todo, request>>,
           NEW e \in Settings!Env, NEW g \in File, file' = [file EXCEPT ![e] = g],
           stale \subseteq stale',
           file[e] = None \/ \A d \in Settings!UnderWay \ stale' : request[d].env # e
    PROVE  Settings!UnderWay' = Settings!UnderWay /\ StepsApart' /\ WritesItsRow'
<1>1. Settings!UnderWay' = Settings!UnderWay
    BY DEF Settings!UnderWay
<1>2. StepsApart'
    BY <1>1 DEF StepsApart, Apart
<1>3. WritesItsRow'
    <2> SUFFICES ASSUME NEW d \in Settings!UnderWay' \ stale', request'[d].op # "duplicate",
                        NEW s \in ElementsOf(todo'[d]), s.do = "write"
                 PROVE  /\ s.env = request'[d].env /\ file'[s.env] # None
                        /\ OwnRow(request'[d], file'[s.env].rows, s.file.rows)
        BY DEF WritesItsRow, ElementsOf, OwnRow
    <2>1. d \in Settings!UnderWay \ stale
        BY <1>1
    <2>2. /\ s.env = request[d].env /\ file[s.env] # None
          /\ OwnRow(request[d], file[s.env].rows, s.file.rows)
        BY <2>1 DEF WritesItsRow
    <2>3. s.env # e
        BY <1>1, <2>2
    <2>4. file'[s.env] = file[s.env]
        <3>1. d \in Method /\ todo[d] \in Seq(Todo)
            BY <2>1 DEF Settings!UnderWay, SettingsTypes
        <3>2. s \in Todo
            BY <3>1, SeqOfElements DEF ElementsOf
        <3>3. s.env \in Settings!Env
            BY <3>2, TodoIs
        <3> QED
            BY <2>3, <3>3 DEF SettingsTypes
    <2> QED
        BY <2>2, <2>4
<1> QED
    BY <1>1, <1>2, <1>3

LEMMA OtherWritesGoesOn ==
    ASSUME SettingsInvariant, NEW e \in Settings!Env, NEW rows \in Settings!HandRows,
           Settings!OtherWrites(e, rows)
    PROVE  SettingsInvariant'
<1> USE DEF SettingsInvariant
<1> DEFINE g == [rows |-> rows, confirm |-> FALSE]
<1>1. /\ file' = [file EXCEPT ![e] = g] /\ alone' = FALSE
      /\ stale' = stale \cup {d \in Settings!UnderWay : request[d].env = e}
      /\ UNCHANGED <<vault, index, active, request, todo, faults, excused>>
    BY DEF Settings!OtherWrites
<1>2. g \in File
    <2>1. Rows(rows)
        <3>1. CASE rows = <<>>
            BY <3>1 DEF Rows, Distinct
        <3>2. ASSUME NEW n \in Var, NEW v \in Settings!Value, rows = <<[name |-> n, value |-> v]>>
              PROVE  Rows(rows)
            <4>1. rows \in Seq(Settings!Row) /\ DOMAIN rows = {1}
                BY <3>2 DEF Settings!Row
            <4> QED
                BY <4>1 DEF Rows, Distinct
        <3> QED
            BY <3>1, <3>2 DEF Settings!HandRows
    <2> QED
        BY <2>1 DEF Rows, File
<1> HIDE DEF g
<1>3. StepsApart' /\ WritesItsRow'
    <2>1. \A d \in Settings!UnderWay \ stale' : request[d].env # e
        BY <1>1
    <2> QED
        BY <1>1, <1>2, <2>1, NobodySteps
<1>4. SettingsTypes'
    BY <1>1, <1>2 DEF SettingsTypes
<1>5. WillSettle'
    BY <1>1 DEF WillSettle
<1> QED
    BY <1>3, <1>4, <1>5

LEMMA CreateGoesOn ==
    ASSUME SettingsInvariant, NEW e \in Settings!Env, Settings!Create(e) PROVE SettingsInvariant'
<1> USE DEF SettingsInvariant
<1>1. /\ file[e] = None /\ file' = [file EXCEPT ![e] = Settings!NewFile]
      /\ UNCHANGED <<vault, index, active, request, todo, stale, faults, alone, excused>>
    BY DEF Settings!Create
<1>2. Settings!NewFile \in File
    BY DEF Settings!NewFile, Settings!NoRows, File, Distinct
<1>3. Settings!UnderWay' = Settings!UnderWay /\ StepsApart' /\ WritesItsRow'
    BY <1>1, <1>2, NobodySteps
<1>4. SettingsTypes'
    BY <1>1, <1>2 DEF SettingsTypes
<1>5. WillSettle'
    <2> SUFFICES ASSUME alone, faults = 0
                 PROVE  /\ Settings!UnderWay = {} => WillAgree({})'
                        /\ \A c \in Settings!UnderWay :
                            /\ WillAgree(ElementsOf(todo[c]))'
                            /\ \A d \in Settings!UnderWay : d = c
        BY <1>1, <1>3 DEF WillSettle
    <2>1. Settings!UnderWay = {} => WillAgree({})'
        BY <1>1, CreateAgrees DEF WillSettle
    <2>2. ASSUME NEW c \in Settings!UnderWay PROVE WillAgree(ElementsOf(todo[c]))'
        <3>1. PICK S : S = ElementsOf(todo[c])
            OBVIOUS
        <3>2. S \in SUBSET Todo /\ WillAgree(S)
            BY <3>1, UnderWayHas DEF WillSettle
        <3>3. WillAgree(S)'
            BY <1>1, <3>2, CreateAgrees
        <3>4. ElementsOf(todo[c])' = S
            BY <1>1, <3>1 DEF ElementsOf
        <3> QED
            BY <3>3, <3>4
    <2> QED
        BY <2>1, <2>2 DEF WillSettle
<1> QED
    BY <1>3, <1>4, <1>5

\* A method begins: what it is about to do is sound, and nobody else is under way.
LEMMA BeginGoesOn ==
    ASSUME SettingsInvariant, NEW c \in Method, NEW op \in Ops \ {"create"}, NEW e \in Settings!Env,
           NEW p \in Settings!Takes(op), NEW q,
           q = [op |-> op, env |-> e, name |-> p.name, value |-> p.value, to |-> p.to],
           Settings!Begin(c, q)
    PROVE  SettingsInvariant'
<1> USE DEF SettingsInvariant
<1>1. /\ q.env = e /\ todo[c] = None /\ file[e] # None
      /\ todo' = [todo EXCEPT ![c] = Settings!Steps(q, file[e])]
      /\ request' = [request EXCEPT ![c] = q] /\ stale' = stale \ {c}
      /\ alone' = (alone /\ Settings!UnderWay = {}) /\ excused' = excused \cup Settings!Excuses(q)
      /\ UNCHANGED <<file, vault, index, active, faults>>
    BY DEF Settings!Begin
<1>2. PICK f, t, X : f = file[e] /\ t = Settings!Steps(q, f) /\ X = Settings!Excuses(q)
    OBVIOUS
<1>3. f \in File
    BY <1>1, <1>2 DEF SettingsTypes
<1>4. SoundSteps(q, t)
    BY <1>1, <1>2, <1>3, StepsAreSound
<1>5. Left(c, t)
    BY <1>1, <1>2, <1>4 DEF Left, SoundSteps
<1>6. /\ todo' = [d \in Method |-> todo'[d]] /\ todo'[c] = t
      /\ \A d \in Method : todo'[d] = None \/ todo'[d] \in Seq(Todo)
      /\ \A d \in Method \ {c} : /\ todo'[d] = todo[d]
                                 /\ d \in Settings!UnderWay' <=> d \in Settings!UnderWay
      /\ c \in Settings!UnderWay' <=> t # <<>>
      /\ StepsApart'
    BY <1>5, LeftIs
<1>7. Settings!UnderWay' \subseteq Method
    BY DEF Settings!UnderWay
<1>8. /\ request'[c] = q /\ \A d \in Method \ {c} : request'[d] = request[d]
      /\ request' = [d \in Method |-> request'[d]]
    BY <1>1 DEF SettingsTypes
<1>9. SettingsTypes'
    BY <1>1, <1>6, <1>8 DEF SettingsTypes
<1>10. WillSettle'
    <2> SUFFICES ASSUME alone', faults' = 0
                 PROVE  /\ Settings!UnderWay' = {} => WillAgree({})'
                        /\ \A d \in Settings!UnderWay' :
                            /\ WillAgree(ElementsOf(todo[d]))'
                            /\ \A b \in Settings!UnderWay' : b = d
        BY DEF WillSettle
    <2>1. PICK S : S = ElementsOf(t)
        OBVIOUS
    <2>2. WillAgree({}) /\ Settings!UnderWay = {}
        BY <1>1 DEF WillSettle
    <2>3. SettlesBut(S, X)
        BY <1>2, <1>4, <2>1, <2>2 DEF SoundSteps
    <2>4. WillAgree(S)'
        BY <1>1, <1>2, <2>3, ThenAgree
    <2>5. \A d \in Settings!UnderWay' : d = c
        BY <1>6, <1>7, <2>2
    <2>6. ElementsOf(todo[c])' = S
        BY <1>6, <2>1 DEF ElementsOf
    <2>7. Settings!UnderWay' = {} => WillAgree({})'
        <3>1. t = <<>> => S = {}
            BY <2>1 DEF ElementsOf
        <3> QED
            BY <1>6, <2>4, <3>1
    <2>8. ASSUME NEW d \in Settings!UnderWay' PROVE WillAgree(ElementsOf(todo[d]))'
        BY <2>4, <2>5, <2>6
    <2> QED
        BY <2>5, <2>7, <2>8
<1>11. WritesItsRow'
    <2> SUFFICES ASSUME NEW d \in Settings!UnderWay' \ stale', request'[d].op # "duplicate",
                        NEW s \in ElementsOf(todo'[d]), s.do = "write"
                 PROVE  /\ s.env = request'[d].env /\ file'[s.env] # None
                        /\ OwnRow(request'[d], file'[s.env].rows, s.file.rows)
        BY DEF WritesItsRow, ElementsOf, OwnRow
    <2>1. CASE d = c
        BY <1>1, <1>4, <1>6, <1>8, <2>1 DEF SoundSteps
    <2>2. CASE d # c
        <3>1. d \in Settings!UnderWay \ stale /\ s \in ElementsOf(todo[d]) /\ request'[d] = request[d]
            BY <1>1, <1>6, <1>7, <1>8, <2>2
        <3> QED
            BY <1>1, <3>1 DEF WritesItsRow
    <2> QED
        BY <2>1, <2>2
<1> QED
    BY <1>6, <1>9, <1>10, <1>11

LEMMA SettingsBegins == Settings!Init => SettingsInvariant
<1> SUFFICES ASSUME Settings!Init PROVE SettingsInvariant
    OBVIOUS
<1> DEFINE g == [Settings!NewFile EXCEPT !.rows = FirstRows]
<1>1. /\ file = [e \in Settings!Env |-> IF e[2] = 0 THEN g ELSE None]
      /\ index = {k \in Settings!Key : k[1][2] = 0 /\ Settings!IsSecret(FirstRows, k[2])}
      /\ vault = [k \in Settings!Key |-> IF k \in index THEN CHOOSE v \in Credential : TRUE ELSE None]
      /\ active = None /\ faults = 0 /\ excused = {}
      /\ request = [c \in Method |-> None] /\ todo = [c \in Method |-> None]
    BY DEF Settings!Init
<1>2. /\ Rows(FirstRows) /\ (CHOOSE v \in Credential : TRUE) \in Credential
    BY CollectionAssumption, NoneIsNone DEF CollectionAssumption, Rows, Distinct
<1>3. g \in File /\ g.rows = FirstRows
    <2>1. Settings!NewFile \in File
        BY DEF Settings!NewFile, Settings!NoRows, File, Distinct
    <2> QED
        BY <1>2, <2>1, FileWith
<1> HIDE DEF g
<1>4. Settings!UnderWay = {}
    BY <1>1 DEF Settings!UnderWay
<1>5. SettingsTypes
    <2>1. file \in [Settings!Env -> File \cup {None}]
        BY <1>1, <1>3
    <2>2. vault \in [Settings!Key -> Credential \cup {None}]
        BY <1>1, <1>2
    <2> QED
        BY <1>1, <2>1, <2>2 DEF SettingsTypes
<1>6. WillAgree({})
    <2>1. ASSUME NEW k \in Settings!Key
          PROVE  /\ WillRefer({}, k) <=> References(file[k[1]], k[2])
                 /\ WillHold({}, k) <=> vault[k] # None
                 /\ WillIndex({}, k) <=> k \in index
        BY DEF WillRefer, WillHold, WillIndex, WillWrite, WillRemove, WillCopy
    <2>2. ASSUME NEW k \in Settings!Key
          PROVE  /\ References(file[k[1]], k[2]) <=> k \in index
                 /\ vault[k] # None <=> k \in index
        <3>1. k[1] \in Settings!Env
            BY NoneIsNone
        <3>2. file[k[1]] = IF k[1][2] = 0 THEN g ELSE None
            BY <1>1, <3>1
        <3>3. References(file[k[1]], k[2]) <=> k[1][2] = 0 /\ SecretIn(FirstRows, k[2])
            <4>1. CASE k[1][2] = 0
                BY <1>3, <3>2, <4>1, NoneIsNone DEF References
            <4>2. CASE k[1][2] # 0
                BY <3>2, <4>2 DEF References
            <4> QED
                BY <4>1, <4>2
        <3>4. Settings!IsSecret(FirstRows, k[2]) <=> SecretIn(FirstRows, k[2])
            BY <1>2, IsSecretIs
        <3>5. k \in index <=> k[1][2] = 0 /\ SecretIn(FirstRows, k[2])
            BY <1>1, <3>4
        <3>6. vault[k] # None <=> k \in index
            <4>1. vault[k] = IF k \in index THEN CHOOSE v \in Credential : TRUE ELSE None
                BY <1>1
            <4> QED
                BY <1>2, <4>1, NoneIsNone
        <3> QED
            BY <3>3, <3>5, <3>6
    <2> QED
        BY <1>1, <2>1, <2>2 DEF WillAgree
<1> QED
    BY <1>4, <1>5, <1>6 DEF SettingsInvariant, StepsApart, WillSettle, WritesItsRow

LEMMA SettingsGoesOn == ASSUME SettingsInvariant, Settings!Next PROVE SettingsInvariant'
<1>1. ASSUME NEW c \in Method, NEW op \in Ops \ {"create"}, NEW e \in Settings!Env,
             NEW p \in Settings!Takes(op),
             Settings!Begin(c, [op |-> op, env |-> e, name |-> p.name, value |-> p.value, to |-> p.to])
      PROVE  SettingsInvariant'
    <2>1. PICK q : q = [op |-> op, env |-> e, name |-> p.name, value |-> p.value, to |-> p.to]
        OBVIOUS
    <2>2. Settings!Begin(c, q)
        BY <1>1, <2>1
    <2> QED
        BY <2>1, <2>2, BeginGoesOn
<1>2. ASSUME NEW c \in Method,
             \/ Settings!StorePuts(c) \/ Settings!StoreIndexes(c) \/ Settings!StoreDrops(c)
             \/ Settings!StoreUnindexes(c) \/ Settings!StoreCopies(c)
             \/ Settings!Writes(c) \/ Settings!Removes(c) \/ Settings!Deactivates(c)
             \/ Settings!Activates(c) \/ Settings!Fails(c)
      PROVE  SettingsInvariant'
    BY <1>2, PutsGoesOn, IndexesGoesOn, DropsGoesOn, UnindexesGoesOn, CopiesGoesOn, WritesGoesOn,
       RemovesGoesOn, DeactivatesGoesOn, ActivatesGoesOn, FailsGoesOn
<1>3. ASSUME NEW e \in Settings!Env, \/ Settings!Create(e)
                                     \/ \E rows \in Settings!HandRows : Settings!OtherWrites(e, rows)
      PROVE  SettingsInvariant'
    BY <1>3, CreateGoesOn, OtherWritesGoesOn
<1> QED
    BY <1>1, <1>2, <1>3 DEF Settings!Next

\* What the invariant says of a step that writes.
LEMMA WritesTouch == ASSUME SettingsInvariant PROVE Settings!TouchesOneRow
<1>o. \A s, S : Settings!Only(s, S) = Only(s, S)
    BY DEF Settings!Only, Only
<1> SUFFICES ASSUME NEW c \in Method, Settings!Writes(c), c \notin stale, request[c].op # "duplicate",
                    NEW q, q = request[c], NEW new, new = file'[q.env].rows
             PROVE  LET old == file[q.env].rows
                        theirs == {r \in Settings!Row : r.name \notin {q.name, q.to}}
                    IN /\ Only(new, theirs) = Only(old, theirs)
                       /\ q.op # "unset" => \A i \in DOMAIN old :
                            new[i].name = old[i].name \/ (old[i].name = q.name /\ new[i].name = q.to)
    BY <1>o DEF Settings!TouchesOneRow
<1> USE DEF SettingsInvariant
<1>1. c \in Settings!UnderWay
    BY DEF Settings!Writes, Settings!Step
<1>2. PICK h : h = Head(todo[c])
    OBVIOUS
<1>3. h \in ElementsOf(todo[c]) /\ h \in Todo
    BY <1>1, <1>2, UnderWayHas
<1>4. h.do = "write" /\ file' = [file EXCEPT ![h.env] = h.file]
    BY <1>2 DEF Settings!Writes, Settings!Step
<1>5. h.env = q.env /\ OwnRow(q, file[h.env].rows, h.file.rows)
    BY <1>1, <1>3, <1>4 DEF WritesItsRow
<1>6. new = h.file.rows
    BY <1>3, <1>4, <1>5, TodoIs DEF SettingsTypes
<1> QED
    BY <1>5, <1>6 DEF OwnRow

LEMMA SettingsAgree == ASSUME SettingsInvariant PROVE Settings!FilesAndStoreAgree
<1> USE DEF SettingsInvariant
<1>1. \A e \in Settings!Env : file[e] = None \/ (file[e] \in File /\ Rows(file[e].rows))
    BY FileWith DEF SettingsTypes
<1>2. Settings!InTurn => WillAgree({})
    BY DEF Settings!InTurn, WillSettle
<1>3. \A k \in Settings!Key :
        (file[k[1]] # None /\ Settings!IsSecret(file[k[1]].rows, k[2])) <=> References(file[k[1]], k[2])
    <2> TAKE k \in Settings!Key
    <2>1. file[k[1]] # None => Rows(file[k[1]].rows)
        BY <1>1, NoneIsNone
    <2> QED
        BY <2>1, IsSecretIs DEF References
<1>4. Settings!StoreMatchesFiles
    <2> SUFFICES ASSUME Settings!InTurn
                 PROVE  /\ Settings!Referenced \ excused = Settings!Stored \ excused
                        /\ index = Settings!Stored
        BY DEF Settings!StoreMatchesFiles
    <2>1. \A k \in Settings!Key :
            /\ k \notin excused => (References(file[k[1]], k[2]) <=> vault[k] # None)
            /\ k \in index <=> vault[k] # None
        BY <1>2, NowAgree
    <2>2. index \subseteq Settings!Key
        BY DEF SettingsTypes
    <2> QED
        BY <1>3, <2>1, <2>2 DEF Settings!Referenced, Settings!Stored
<1>5. Settings!ActiveIsThere
    BY <1>2, NowAgree DEF Settings!ActiveIsThere
<1>6. Settings!NoCredentialInFiles
    <2> SUFFICES ASSUME NEW e \in Settings!Env, file[e] # None, NEW r \in Settings!ToSet(file[e].rows)
                 PROVE  r.value \notin Credential
        BY DEF Settings!NoCredentialInFiles
    <2>1. Rows(file[e].rows)
        BY <1>1
    <2>2. r \in Settings!Row
        BY <2>1 DEF Settings!ToSet, Rows
    <2> QED
        BY <2>2, NoneIsNone, CollectionAssumption DEF CollectionAssumption
<1> QED
    BY <1>4, <1>5, <1>6 DEF Settings!FilesAndStoreAgree

LEMMA QuietSettings ==
    ASSUME SettingsInvariant,
           UNCHANGED <<file, vault, index, active, request, todo, stale, faults, alone, excused>>
    PROVE  SettingsInvariant'
<1> USE DEF SettingsInvariant
<1>1. Settings!UnderWay' = Settings!UnderWay
    BY DEF Settings!UnderWay
<1>2. SettingsTypes'
    BY DEF SettingsTypes
<1>3. StepsApart'
    BY <1>1 DEF StepsApart, Apart
<1>4. WritesItsRow'
    <2> SUFFICES ASSUME NEW d \in Settings!UnderWay' \ stale', request'[d].op # "duplicate",
                        NEW s \in ElementsOf(todo'[d]), s.do = "write"
                 PROVE  /\ s.env = request'[d].env /\ file'[s.env] # None
                        /\ OwnRow(request'[d], file'[s.env].rows, s.file.rows)
        BY DEF WritesItsRow, ElementsOf, OwnRow
    <2> QED
        BY <1>1 DEF WritesItsRow
<1>5. ASSUME NEW S, WillAgree(S) PROVE WillAgree(S)'
    <2>1. SettlesBut(S, {})
        BY <1>5 DEF WillAgree, SettlesBut
    <2> QED
        BY <2>1, ThenAgree
<1>6. WillSettle'
    <2> SUFFICES ASSUME alone, faults = 0
                 PROVE  /\ Settings!UnderWay = {} => WillAgree({})'
                        /\ \A c \in Settings!UnderWay :
                            /\ WillAgree(ElementsOf(todo[c]))'
                            /\ \A d \in Settings!UnderWay : d = c
        BY <1>1 DEF WillSettle
    <2>1. ASSUME NEW c \in Settings!UnderWay PROVE WillAgree(ElementsOf(todo[c]))'
        <3>1. PICK S : S = ElementsOf(todo[c])
            OBVIOUS
        <3>2. WillAgree(S)'
            BY <1>5, <3>1 DEF WillSettle
        <3>3. ElementsOf(todo[c])' = S
            BY <3>1 DEF ElementsOf
        <3> QED
            BY <3>2, <3>3
    <2> QED
        BY <1>5, <2>1 DEF WillSettle
<1> QED
    BY <1>2, <1>3, <1>4, <1>6

SettingsInv == part = "settings" => SettingsInvariant

LEMMA SettingsInvBegins == CollectionInit => SettingsInv
BY SettingsBegins DEF CollectionInit, SettingsInv

LEMMA SettingsInvHolds ==
    ASSUME SettingsInv, [CollectionNext]_collectionVars PROVE SettingsInv'
<1> SUFFICES ASSUME part' = "settings" PROVE SettingsInvariant'
    BY DEF SettingsInv
<1>1. part = "settings" /\ SettingsInvariant
    BY DEF CollectionNext, collectionVars, SettingsInv
<1>2. CASE CollectionNext
    BY <1>1, <1>2, SettingsGoesOn DEF CollectionNext
<1>3. CASE UNCHANGED collectionVars
    <2>1. UNCHANGED <<file, vault, index, active, request, todo, stale, faults, alone, excused>>
        BY <1>3 DEF collectionVars, settingsVars
    <2> QED
        BY <1>1, <2>1, QuietSettings
<1> QED
    BY <1>2, <1>3

\* The files of environments, the credential store and the menu agree, for any names, any
\* first file, any number of calls and any failures: with one call at a time every
\* reference has its value and every value its reference, the index knows what is stored,
\* and the active environment is there; and whoever overlaps whom, no file holds a
\* credential (RenameVariable, MakeSecret, Duplicate, Delete of environment.go).
THEOREM CollectionFilesAndStoreAgree == CollectionSpec => []FilesAndStoreAgree
<1>1. SettingsInv => FilesAndStoreAgree
    BY SettingsAgree DEF SettingsInv, FilesAndStoreAgree
<1> QED
    BY SettingsInvBegins, SettingsInvHolds, <1>1, PTL DEF CollectionSpec

\* A write that no other write overlapped changes the row it was asked about and no other,
\* whatever other calls do and fail at (mutate, writeEnvVar).
THEOREM CollectionWritesTouchOneRow == CollectionSpec => WritesTouchOneRow
<1>1. SettingsInv /\ [CollectionNext]_collectionVars =>
        [part = "settings" => Settings!TouchesOneRow]_collectionVars
    BY WritesTouch DEF SettingsInv
<1> QED
    BY SettingsInvBegins, SettingsInvHolds, <1>1, PTL DEF CollectionSpec, WritesTouchOneRow
=============================================================================
