------------------------------- MODULE Staging -------------------------------
(***************************************************************************)
(* The git review: what changed against HEAD, and staging, unstaging,      *)
(* discarding and committing it, by the file and by the hunk               *)
(* (src/internal/diff/diff.go, hunks.go, apply.go, and the window's calls  *)
(* in src/internal/services/diff.go), while a person goes on editing.      *)
(*                                                                         *)
(* A text is a sequence of lines, each a number no other line of the text  *)
(* has; an edit writes a line never seen before, so two texts have one     *)
(* alignment.  Every path is inside the collection, and ends in a newline. *)
(***************************************************************************)
EXTENDS Integers, FiniteSets, SequencesExt

CONSTANTS Path,      \* the paths, 1..n: the order the changes list has
          Committed, \* Committed[p]: what HEAD holds at first, or Missing
          Missing,   \* no file on that side
          Big,       \* the paths whose content is past MaxDiffBytes
          Context,   \* the lines shown around a change (3 in the program)
          MaxEdits   \* how many times a person edits, moves or deletes

VARIABLES head, index, work,   \* the three sides of every path
          seen,                \* the diff the window shows: a path, its hunks
          did,                 \* what was just asked for, and what it acted on
          edits

vars == <<head, index, work, seen, did, edits>>

Content(t) == IF t = Missing THEN <<>> ELSE t
NotSeen == [path |-> 0, hunks |-> <<>>]
NotDone == [what |-> "other", at |-> 0, asked |-> <<>>, acted |-> <<>>]

----------------------------------------------------------------------------
(* Hunks: the changed lines of two texts with the lines around them.       *)

DiffLine(kind, text, old, new) == [kind |-> kind, text |-> text, old |-> old, new |-> new]

\* The lines of both texts in one sequence, what is gone before what came.
RECURSIVE Aligned(_, _, _, _)
Aligned(old, new, o, n) ==
    IF o > Len(old) /\ n > Len(new) THEN <<>>
    ELSE IF o <= Len(old) /\ ~Contains(new, old[o])
    THEN <<DiffLine("-", old[o], o, 0)>> \o Aligned(old, new, o + 1, n)
    ELSE IF n <= Len(new) /\ ~Contains(old, new[n])
    THEN <<DiffLine("+", new[n], 0, n)>> \o Aligned(old, new, o, n + 1)
    ELSE <<DiffLine(" ", old[o], o, n)>> \o Aligned(old, new, o + 1, n + 1)

\* The stretches of lines within Context of a change; two that touch are one.
Spans(all) ==
    LET near == {i \in DOMAIN all : \E j \in DOMAIN all :
                    all[j].kind # " " /\ i - j \in -Context..Context}
        from == {i \in near : i - 1 \notin near}
        Upto(i) == CHOOSE k \in near : k >= i /\ k + 1 \notin near /\ \A m \in i..k : m \in near
    IN  [k \in 1..Cardinality(from) |->
            LET i == CHOOSE i \in from : Cardinality({m \in from : m < i}) = k - 1
            IN  <<i, Upto(i)>>]

FirstOr(numbers, none) == IF numbers = <<>> THEN none ELSE numbers[1]

HunkOf(lines) ==
    LET olds == SelectSeq([i \in DOMAIN lines |-> lines[i].old], LAMBDA n : n # 0)
        news == SelectSeq([i \in DOMAIN lines |-> lines[i].new], LAMBDA n : n # 0)
    IN  [lines |-> lines, oldStart |-> FirstOr(olds, 0), oldLines |-> Len(olds),
         newStart |-> FirstOr(news, 0), newLines |-> Len(news)]

Hunks(old, new) ==
    LET all == IF old = new THEN <<>> ELSE Aligned(old, new, 1, 1)
        spans == Spans(all)
    IN  [k \in DOMAIN spans |-> HunkOf(SubSeq(all, spans[k][1], spans[k][2]))]

Marks(h) == [i \in DOMAIN h.lines |-> <<h.lines[i].kind, h.lines[i].text>>]

\* The identity of a hunk: where it starts in the old text, and its lines.
SameHunkBothSides(a, b) ==
    a.oldStart = b.oldStart /\ a.oldLines = b.oldLines /\ a.newStart = b.newStart /\ Marks(a) = Marks(b)
SameHunk(a, b) == a.oldStart = b.oldStart /\ a.oldLines = b.oldLines /\ Marks(a) = Marks(b)

ContainsHunk(list, h) == \E i \in DOMAIN list : SameHunk(list[i], h)

----------------------------------------------------------------------------
(* Apply and Reverse: some of a diff's hunks put into the text they came   *)
(* from, in place or out of it.                                            *)

RegionStart(h, reverse) ==
    LET start == IF reverse THEN h.newStart ELSE h.oldStart IN IF start = 0 THEN 1 ELSE start
RegionLen(h, reverse) == IF reverse THEN h.newLines ELSE h.oldLines
Survives(kind, reverse) == kind = " " \/ kind = (IF reverse THEN "-" ELSE "+")

Kept(h, reverse) ==
    LET stay == SelectSeq(h.lines, LAMBDA l : Survives(l.kind, reverse))
    IN  [i \in DOMAIN stay |-> stay[i].text]

\* The hunks are in order and apart, as Hunks made them.
Patch(text, hunks, reverse) ==
    LET done == FoldLeft(LAMBDA sofar, h :
            LET from == RegionStart(h, reverse)
            IN  IF from < sofar.at THEN sofar
                ELSE [out |-> sofar.out \o SubSeq(text, sofar.at, from - 1) \o Kept(h, reverse),
                      at |-> from + RegionLen(h, reverse)],
            [out |-> <<>>, at |-> 1], hunks)
    IN  done.out \o SubSeq(text, done.at, Len(text))

Apply(text, hunks) == Patch(text, hunks, FALSE)
ReverseHunks(text, hunks) == Patch(text, hunks, TRUE)

----------------------------------------------------------------------------
(* The states: git's two axes, the letter, and the renames paired up.      *)

Axis(old, new) ==
    CASE old = new -> "unmodified"
      [] old = Missing -> "added"
      [] new = Missing -> "deleted"
      [] OTHER -> "modified"

Untracked(p) == head[p] = Missing /\ index[p] = Missing /\ work[p] # Missing
StagingAxis(p) == IF Untracked(p) THEN "untracked" ELSE Axis(head[p], index[p])
WorktreeAxis(p) ==
    IF index[p] = Missing /\ work[p] # Missing THEN "untracked" ELSE Axis(index[p], work[p])

Classify(p) ==
    CASE Untracked(p) -> "U"
      [] "deleted" \in {StagingAxis(p), WorktreeAxis(p)} -> "D"
      [] StagingAxis(p) = "added" /\ WorktreeAxis(p) # "modified" -> "A"
      [] OTHER -> "M"

Changed == {p \in Path : StagingAxis(p) # "unmodified" \/ WorktreeAxis(p) # "unmodified"}

StateOf(p) ==
    [path |-> p, oldPath |-> 0, status |-> Classify(p), head |-> head[p], index |-> index[p], work |-> work[p],
     staged |-> StagingAxis(p) \notin {"unmodified", "untracked"},
     unstaged |-> WorktreeAxis(p) # "unmodified", oversized |-> p \in Big]

\* The lines two texts share out of the longer, the last newline counted.
Shared(a, b) ==
    IF a = b THEN [top |-> 1, of |-> 1]
    ELSE IF a = <<>> \/ b = <<>> THEN [top |-> 0, of |-> 1]
    ELSE [top |-> Cardinality(Range(a) \cap Range(b)) + 1,
          of |-> (IF Len(a) > Len(b) THEN Len(a) ELSE Len(b)) + 1]
MoreAlike(s, t) == s.top * t.of > t.top * s.of
RenameSimilarity(s) == 2 * s.top >= s.of

NoCandidate == [path |-> 0, score |-> [top |-> 0, of |-> 1]]

\* The arrival most like what is gone, the first of equals.
Candidate(from, arrived) ==
    FoldLeft(LAMBDA best, to :
        LET score == Shared(Content(head[from]), Content(work[to]))
        IN  IF MoreAlike(score, best.score) THEN [path |-> to, score |-> score] ELSE best,
        NoCandidate, SetToSortSeq(arrived, <))

Paired(states, from, to) ==
    LET gone == StateOf(from)
        moved == [states[to] EXCEPT !.status = "R", !.oldPath = from, !.head = head[from],
                    !.staged = @ /\ gone.staged, !.unstaged = @ \/ gone.unstaged]
    IN  [p \in DOMAIN states \ {from} |-> IF p = to THEN moved ELSE states[p]]

\* A pairing refused takes nothing off the list.
PairedOrDropped(states, from, best) ==
    IF best.path = 0 \/ ~RenameSimilarity(best.score)
    THEN [p \in DOMAIN states \ {from} |-> states[p]]
    ELSE Paired(states, from, best.path)
PairedIfAlike(states, from, best) ==
    IF best.path = 0 \/ ~RenameSimilarity(best.score) THEN states ELSE Paired(states, from, best.path)

States ==
    LET plain == [p \in Changed |-> StateOf(p)]
        gone == {p \in Changed : Classify(p) = "D"}
        arrived == {p \in Changed : Classify(p) \in {"U", "A"}}
    IN  FoldLeft(LAMBDA states, from :
            PairedIfAlike(states, from, Candidate(from, {p \in arrived : states[p].status # "R"})),
            plain, SetToSortSeq(gone, <))

FileDiff(st) ==
    LET staged == Hunks(Content(st.head), Content(st.index))
        hunks == Hunks(Content(st.head), Content(st.work))
    IN  IF st.oversized THEN <<>>
        ELSE [k \in DOMAIN hunks |-> [hunk |-> hunks[k], staged |-> ContainsHunk(staged, hunks[k])]]

HunksIn(fd) == [k \in DOMAIN fd |-> fd[k].hunk]

----------------------------------------------------------------------------
(* What the window does.  Every call reads the three sides afresh.         *)

\* The window asks for one file's diff, and shows it from then on.
Look(p) ==
    /\ p \in DOMAIN States
    /\ seen' = [path |-> p, hunks |-> HunksIn(FileDiff(States[p]))]
    /\ did' = NotDone /\ UNCHANGED <<head, index, work, edits>>

\* The index gets the working copy, or the deletion when there is none.
StagedWhole(i, paths) == [p \in Path |-> IF p \in paths THEN work[p] ELSE i[p]]

Stage(p) ==
    /\ p \in Changed
    /\ index' = StagedWhole(index, {p})
    /\ did' = NotDone /\ UNCHANGED <<head, work, seen, edits>>

Unstage(p) ==
    /\ p \in Changed
    /\ index' = [index EXCEPT ![p] = head[p]]
    /\ did' = NotDone /\ UNCHANGED <<head, work, seen, edits>>

\* Both halves of a rename, or the index keeps the file at its old path.
NewHalves(states) == {p \in DOMAIN states : states[p].unstaged}
BothHalves(states) ==
    NewHalves(states) \cup {states[p].oldPath : p \in {q \in NewHalves(states) : states[q].status = "R"}}

StageAll ==
    /\ did' = NotDone /\ UNCHANGED <<head, work, seen, edits>>
    /\ index' = StagedWhole(index, BothHalves(States))

\* The position the window names is looked up in the diff as it is now.
Picked(fd, at) == at \in DOMAIN fd

OnlyThis(fd, at, add) == IF add THEN <<fd[at].hunk>> ELSE <<>>

\* What stays staged: what is, with the hunk asked for added or taken out.
KeptStaged(fd, at, add) ==
    HunksIn(SelectSeq([k \in DOMAIN fd |-> [fd[k] EXCEPT !.staged = IF k = at THEN add ELSE @]],
                      LAMBDA h : h.staged))

Done(what, at, fd) ==
    [what |-> what, at |-> at, asked |-> Marks(seen.hunks[at]), acted |-> Marks(fd[at].hunk)]

Restage(at, add) ==
    LET p == seen.path
        st == States[p]
        fd == FileDiff(st)
        keep == KeptStaged(fd, at, add)
        content == Apply(Content(st.head), keep)
    IN  /\ p \in DOMAIN States
        /\ Picked(fd, at)
        /\ did' = Done(IF add THEN "stage" ELSE "unstage", at, fd)
        /\ index' = IF content = Content(st.head) /\ st.index = Missing THEN index
                    ELSE [index EXCEPT ![p] = IF keep = <<>> /\ st.head = Missing THEN Missing ELSE content]
        /\ UNCHANGED <<head, work, seen, edits>>

StageHunks(at) == at \in DOMAIN seen.hunks /\ Restage(at, TRUE)
UnstageHunks(at) == at \in DOMAIN seen.hunks /\ Restage(at, FALSE)

\* A file HEAD has goes back to HEAD on both sides, and a new file is
\* deleted; of a file too big to diff HEAD's content is read as empty.
Discard(p) ==
    LET back == IF head[p] # Missing /\ p \in Big THEN <<>> ELSE head[p]
    IN  /\ p \in Changed
        /\ work' = [work EXCEPT ![p] = back]
        /\ index' = [index EXCEPT ![p] = back]
        /\ did' = NotDone /\ UNCHANGED <<head, seen, edits>>

IndexAsItWas(p, st, keep) == st.index

\* The index loses a hunk that was staged and is now gone from the file.
IndexAfterDiscard(p, st, keep) ==
    CASE keep = <<>> /\ st.head = Missing -> Missing
      [] keep = <<>> /\ st.index # Missing /\ st.index # Content(st.head) -> st.head
      [] keep # <<>> -> Apply(st.head, keep)
      [] OTHER -> st.index

DiscardHunks(at) ==
    LET p == seen.path
        st == States[p]
        fd == FileDiff(st)
    IN  /\ at \in DOMAIN seen.hunks
        /\ p \in DOMAIN States
        /\ Picked(fd, at)
        /\ did' = Done("discard", at, fd)
        /\ work' = [work EXCEPT ![p] = ReverseHunks(Content(@), <<fd[at].hunk>>)]
        /\ index' = [index EXCEPT ![p] = IndexAfterDiscard(p, st, KeptStaged(fd, at, FALSE))]
        /\ UNCHANGED <<head, seen, edits>>

Commit ==
    /\ \E p \in Path : StateOf(p).staged
    /\ head' = index
    /\ did' = NotDone /\ UNCHANGED <<index, work, seen, edits>>

----------------------------------------------------------------------------
(* A person, in Otis or in another editor.                                 *)

Edited(p, text) ==
    /\ edits < MaxEdits /\ edits' = edits + 1
    /\ work' = [work EXCEPT ![p] = text]
    /\ did' = NotDone /\ UNCHANGED <<head, index, seen>>

Written == 100 + edits

Edit(p) ==
    /\ work[p] # Missing
    /\ \E i \in 1..Len(work[p]) :
        \/ Edited(p, [work[p] EXCEPT ![i] = Written])
        \/ Edited(p, RemoveAt(work[p], i))
        \/ Edited(p, InsertAt(work[p], i, Written))

DeleteFile(p) == work[p] # Missing /\ Edited(p, Missing)

MoveFile(p, q) ==
    /\ work[p] # Missing /\ work[q] = Missing
    /\ edits < MaxEdits /\ edits' = edits + 1
    /\ work' = [work EXCEPT ![p] = Missing, ![q] = work[p]]
    /\ did' = NotDone /\ UNCHANGED <<head, index, seen>>

----------------------------------------------------------------------------

Init ==
    /\ head = Committed /\ index = Committed /\ work = Committed
    /\ seen = NotSeen /\ did = NotDone /\ edits = 0

Next ==
    \/ \E p \in Path : Look(p) \/ Stage(p) \/ Unstage(p) \/ Discard(p) \/ Edit(p) \/ DeleteFile(p)
    \/ \E p, q \in Path : MoveFile(p, q)
    \/ \E at \in DOMAIN seen.hunks : StageHunks(at) \/ UnstageHunks(at) \/ DiscardHunks(at)
    \/ StageAll
    \/ Commit

Spec == Init /\ [][Next]_vars

----------------------------------------------------------------------------

\* The index is HEAD and the hunks of the diff marked staged.
HoldsTheStaged(h, i, fd) ==
    Content(i) = Apply(Content(h), HunksIn(SelectSeq(fd, LAMBDA k : k.staged)))

\* A path the window can act on by the hunk with nothing unusual about it: it
\* is no rename, its index is HEAD and some of the hunks shown, and it is no
\* staged deletion, which unstaging its hunk leaves staged.
Ordinary(p) ==
    /\ p \in DOMAIN States
    /\ index[p] = Missing => head[p] = Missing
    /\ States[p].status # "R"
    /\ HoldsTheStaged(head[p], index[p], FileDiff(States[p]))

StagedThen(h, i, w) ==
    LET staged == Hunks(Content(h), Content(i))
        hunks == Hunks(Content(h), Content(w))
    IN  [k \in DOMAIN hunks |-> [hunk |-> hunks[k], staged |-> ContainsHunk(staged, hunks[k])]]

\* The hunk the window showed where the call points stands there still.
Stands(at) == SameHunk(seen.hunks[at], FileDiff(States[seen.path])[at].hunk)

StagedIn(fd, h) == \E k \in DOMAIN fd : SameHunk(fd[k].hunk, h) /\ fd[k].staged

\* Staging or unstaging a hunk changes whether one hunk is staged and, of the
\* file's hunks as they are, no other: the diff reads the same but for the
\* mark at that position.  While the hunk the window showed there stands, it
\* is that one.  When it does not, it is the one that has come to stand there,
\* and the one shown keeps its mark wherever it is now: the comments of
\* StageHunks (apply.go:88) and of the window's call (services/diff.go:84) say
\* a stale view stages nothing else (restage, pick).
StagingIsByTheHunk ==
    did'.what \in {"stage", "unstage"} /\ Ordinary(seen.path) =>
        LET p == seen.path
            shown == seen.hunks[did'.at]
            before == FileDiff(States[p])
            after == StagedThen(head[p], index'[p], work[p])
        IN  /\ after = [before EXCEPT ![did'.at].staged = (did'.what = "stage")]
            /\ StagedIn(after, shown) =
                   IF Stands(did'.at) THEN did'.what = "stage" ELSE StagedIn(before, shown)

\* Discarding takes one hunk's change out of the file and out of the index,
\* the hunk the window showed while that stands and else the one that has come
\* to its position, and every other change of the file stays, staged where it
\* was, while the index claims no change the file no longer has (DiscardHunks).
SameButFor(rest, after) ==
    /\ Len(after) = Len(rest)
    /\ \A k \in DOMAIN rest : SameHunk(after[k].hunk, rest[k].hunk) /\ after[k].staged = rest[k].staged

DiscardIsByTheHunk ==
    did'.what = "discard" /\ Ordinary(seen.path) =>
        LET p == seen.path
            before == HunksIn(FileDiff(States[p]))
            after == StagedThen(head[p], index'[p], work'[p])
        IN  /\ SameButFor(RemoveAt(FileDiff(States[p]), did'.at), after)
            /\ HoldsTheStaged(head[p], index'[p], after)
            /\ ContainsHunk(before, seen.hunks[did'.at]) =>
                   (ContainsHunk(HunksIn(after), seen.hunks[did'.at]) <=> ~Stands(did'.at))

\* A view however stale puts no text of its own anywhere, renames and staged
\* deletions included: every line of the index and of the file after the call
\* is one HEAD, the index or the file had when it was made (the comment of
\* restage: two windows that disagree cannot corrupt the index).
LinesAt(p) == Range(Content(head[p])) \cup Range(Content(index[p])) \cup Range(Content(work[p]))

StaleViewsBringNothing ==
    did'.what # "other" =>
        LET p == seen.path
            had == LinesAt(p) \cup Range(Content(States[p].head))
        IN  Range(Content(index'[p])) \cup Range(Content(work'[p])) \subseteq had

\* Every path git calls changed is in the changes list once, under its own
\* name or as where a renamed file came from (pairRenames).
EveryChangeIsListedOnce ==
    LET states == States IN
    \A p \in Path :
        Cardinality({q \in DOMAIN states : q = p} \cup
                    {-q : q \in {r \in DOMAIN states : states[r].oldPath = p}})
            = IF p \in Changed THEN 1 ELSE 0

\* After "Stage all" nothing is left unstaged, the old half of a rename
\* included (StageAll).
StageAllLeavesNothing == index' = work' \/ ~StageAll

\* What comments say of a stale view: the positions of a diff that has changed
\* since cannot reach another hunk (apply.go:88, services/diff.go:84).  They
\* can, and a run of this property alone (StagingStale.cfg) shows it.
StaleViewReachesNothingElse == did.asked = did.acted

\* A call that names a position of the diff shown acts on one hunk and on nothing
\* else: the one shown while it stands, the one now in its place when it does not.
DoesAsAsked ==
    StagingIsByTheHunk /\ DiscardIsByTheHunk /\ StaleViewsBringNothing /\ StageAllLeavesNothing
DoesWhatItWasAsked == [][DoesAsAsked]_vars
=============================================================================
