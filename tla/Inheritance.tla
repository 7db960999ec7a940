----------------------------- MODULE Inheritance -----------------------------
(***************************************************************************)
(* The headers and the @auth a request ends up with, and what the editor   *)
(* and the folder view say of them: src/internal/resolve/inherit.go,       *)
(* Prepare in src/internal/httpclient/prepare.go, and the descriptions in  *)
(* src/internal/services/request.go and folder.go.                         *)
(*                                                                         *)
(* One request, in a folder, in the collection's root: three files, the    *)
(* outermost first.  A line of a file is a header's name and whether its   *)
(* value is the marker "!inherit"; names that differ only in case are one. *)
(***************************************************************************)
EXTENDS Naturals, FiniteSets, SequencesExt

CONSTANTS Header,     \* the header names written, "Authorization" among them
          AuthKinds,  \* what an @auth line says, "bad" when it does not parse
          MaxLines    \* how many header lines there are in all

Authorization == "Authorization"

\* The chain of files, as LevelsOf gives it: a folder without a _folder.http
\* is one that says nothing.
Chain == <<1, 2, 3>>
Request == 3
Folders == {1, 2}

Line == [name : Header, marker : BOOLEAN]
NoAuth == "nothing"

VARIABLES lines,   \* lines[f]: the header lines of file f
          auth     \* auth[f]: the last @auth line of file f, or NoAuth

vars == <<lines, auth>>

TypeOK ==
    /\ lines \in [Range(Chain) -> Seq(Line)]
    /\ auth \in [Range(Chain) -> AuthKinds \cup {NoAuth}]

LinesInAll == Len(lines[1]) + Len(lines[2]) + Len(lines[3])

\* A header with where it was written.
At(f, j) == [name |-> lines[f][j].name, file |-> f, line |-> j]

\* The lines of a file that carry a value, in file order.
OwnHeaders(f) ==
    LET kept == SelectSeq([j \in DOMAIN lines[f] |-> j], LAMBDA j : ~lines[f][j].marker)
    IN  [k \in DOMAIN kept |-> At(f, kept[k])]

----------------------------------------------------------------------------
(* Levels: what is in effect at the end of a chain of files.               *)

WithoutFirst(headers, n) ==
    LET hits == {i \in DOMAIN headers : headers[i].name = n}
    IN  IF hits = {} THEN headers
        ELSE RemoveAt(headers, CHOOSE i \in hits : \A k \in hits : i <= k)

RemoveHeader(headers, n) == SelectSeq(headers, LAMBDA h : h.name # n)

Nothing == [ok |-> TRUE, headers |-> <<>>, disabled |-> <<>>, auth |-> NoAuth, from |-> 0]

\* Both passes of one level: first every name it mentions, a marker or not,
\* takes away what was inherited under it; then its own values are added.
Apply(eff, f) ==
    LET dropped == FoldLeft(LAMBDA e, line :
                [e EXCEPT !.headers = RemoveHeader(@, line.name),
                          !.disabled = IF line.marker THEN Append(@, line.name) ELSE @],
                eff, lines[f])
        added == [dropped EXCEPT !.headers = @ \o OwnHeaders(f)]
    IN  CASE auth[f] = NoAuth -> added
          [] auth[f] = "bad" -> [added EXCEPT !.ok = FALSE]
          [] OTHER -> [added EXCEPT !.auth = auth[f], !.from = f]

Levels(chain) == FoldLeft(LAMBDA e, f : IF e.ok THEN Apply(e, f) ELSE e, Nothing, chain)

Effective == Levels(Chain)
FolderLevels(f) == SubSeq(Chain, 1, f)

\* Everything the files above the request offered, and what became of it: the
\* first nearer line of that name decides.
Settled(rows, f, line) ==
    [k \in DOMAIN rows |->
        IF rows[k].state = "sent" /\ rows[k].name = line.name
        THEN [rows[k] EXCEPT !.state = IF line.marker THEN "off" ELSE "overridden", !.by = f]
        ELSE rows[k]]

Offered(f) == [k \in DOMAIN OwnHeaders(f) |->
    [name |-> OwnHeaders(f)[k].name, file |-> f, line |-> OwnHeaders(f)[k].line,
     state |-> "sent", by |-> 0]]

InheritedHeaders ==
    FoldLeft(LAMBDA rows, f :
        FoldLeft(LAMBDA r, line : Settled(r, f, line), rows, lines[f])
            \o (IF f = Request THEN <<>> ELSE Offered(f)),
        <<>>, Chain)

\* The auth the folders declare; a malformed one shows as none.
AncestorAuth ==
    LET above == Levels(FolderLevels(Request - 1))
    IN  IF above.ok THEN above.auth ELSE NoAuth

----------------------------------------------------------------------------
(* The wire, and the editor's account of it.                               *)

AnyNamed(headers, n) == \E i \in DOMAIN headers : headers[i].name = n

\* What @auth puts on the request: one Authorization, signed for AWS; an
\* Authorization among the headers wins over it.
AddedFor(kind) == IF kind \in {"bearer", "basic", "aws"} THEN <<Authorization>> ELSE <<>>

Prepare(eff) ==
    [k \in DOMAIN eff.headers |-> eff.headers[k].name]
        \o (IF AnyNamed(eff.headers, Authorization) THEN <<>> ELSE AddedFor(eff.auth))

AuthRowAlways(eff) == eff.auth \notin {NoAuth, "none"}

\* Whether the editor shows a row for what @auth adds.
AuthRow(eff) == eff.auth \notin {NoAuth, "none"} /\ ~AnyNamed(eff.headers, Authorization)

HeadersFrom(eff, own) == Cardinality({k \in DOMAIN eff.headers : (eff.headers[k].file = Request) = own})
RowFrom(eff, own) == IF AuthRow(eff) /\ (eff.from = Request) = own THEN 1 ELSE 0

CountHeaders(eff) ==
    LET locally == HeadersFrom(eff, TRUE) + RowFrom(eff, TRUE)
        inherited == HeadersFrom(eff, FALSE) + RowFrom(eff, FALSE)
    IN  [local |-> locally, inherited |-> inherited, sent |-> locally + inherited]

\* The document of the request: with a malformed @auth it opens with nothing
\* in effect, and what was inherited still listed.
Described ==
    LET eff == IF Effective.ok THEN Effective ELSE Nothing
    IN  [effective |-> eff, rows |-> InheritedHeaders, counts |-> CountHeaders(eff),
         authRow |-> AuthRow(eff), inheritedAuth |-> AncestorAuth]

----------------------------------------------------------------------------
(* The folder view: what every request below starts with, and who does not *)
(* take it.                                                                *)

FolderSettings(f) ==
    LET eff == Levels(FolderLevels(f))
    IN  IF eff.ok THEN eff ELSE [Nothing EXCEPT !.ok = FALSE]

AuthOverriddenByKind(f) ==
    LET doc == FolderSettings(f)
    IN  doc.ok /\ doc.auth # NoAuth /\ Effective.ok /\ Effective.auth # doc.auth

AuthOverriddenBelow(f) ==
    LET doc == FolderSettings(f)
    IN  doc.ok /\ doc.auth # NoAuth /\ Effective.ok /\ Effective.from # doc.from

\* An override of a header is listed for the headers of the folder's own file.
HeaderOverrides(f) ==
    SelectSeq(InheritedHeaders, LAMBDA row : row.state # "sent" /\ row.file = f)

DescribeOverrides(f) == [auth |-> AuthOverriddenBelow(f), headers |-> HeaderOverrides(f)]

----------------------------------------------------------------------------
(* A file is saved with a line more or less, or another @auth.             *)

Write(f, line) ==
    /\ LinesInAll < MaxLines
    /\ lines' = [lines EXCEPT ![f] = Append(@, line)]
    /\ UNCHANGED auth

Take(f, j) ==
    /\ lines' = [lines EXCEPT ![f] = RemoveAt(@, j)]
    /\ UNCHANGED auth

SetAuth(f, a) ==
    /\ auth' = [auth EXCEPT ![f] = a]
    /\ UNCHANGED lines

Init ==
    /\ lines = [f \in Range(Chain) |-> <<>>]
    /\ auth = [f \in Range(Chain) |-> NoAuth]

Next == \E f \in Range(Chain) :
    \/ \E line \in Line : Write(f, line)
    \/ \E j \in DOMAIN lines[f] : Take(f, j)
    \/ \E a \in AuthKinds \cup {NoAuth} : SetAuth(f, a)

Spec == Init /\ [][Next]_vars

----------------------------------------------------------------------------
(* What docs/FORMAT.md 3 promises.                                         *)

MentionedBelow(f, n) ==
    \E g \in Range(Chain) : g > f /\ \E k \in DOMAIN lines[g] : lines[g][k].name = n

\* Override is total: a value is sent just when no nearer file mentions its
\* name, in order of the files and of the lines in each, and the nearest
\* @auth holds (apply, removeHeader).
NearestFileHasItsWay ==
    LET eff == Effective
        all == FlattenSeq([i \in DOMAIN Chain |-> OwnHeaders(Chain[i])])
        says == {f \in Range(Chain) : auth[f] # NoAuth}
    IN  /\ eff.ok <=> \A f \in Range(Chain) : auth[f] # "bad"
        /\ eff.ok =>
            /\ eff.headers = SelectSeq(all, LAMBDA h : ~MentionedBelow(h.file, h.name))
            /\ eff.auth = (IF says = {} THEN NoAuth
                           ELSE auth[CHOOSE f \in says : \A g \in says : g <= f])

\* The editor's tally is of what goes on the wire: as many headers as Prepare
\* sends, an @auth row just when it adds an Authorization, and an inherited
\* row called sent just when it is (authHeader, countHeaders, InheritedHeaders).
EditorTellsTheWire ==
    LET doc == Described
        wire == Prepare(Effective)
    IN  Effective.ok =>
        /\ doc.counts.sent = Len(wire)
        /\ doc.authRow <=> Len(wire) > Len(doc.effective.headers)
        /\ doc.counts.inherited >= Len(SelectSeq(doc.rows, LAMBDA r : r.state = "sent"))
        /\ \A k \in DOMAIN doc.rows :
            doc.rows[k].state = "sent" <=>
                \E i \in DOMAIN doc.effective.headers :
                    doc.effective.headers[i].file = doc.rows[k].file
                        /\ doc.effective.headers[i].line = doc.rows[k].line

\* Every setting of a folder's own file either reaches the request below or is
\* listed as overridden there, and never both (describeSettings,
\* describeOverrides).
FolderTellsWhoOptsOut ==
    Effective.ok => \A f \in Folders :
        LET doc == FolderSettings(f)
            out == DescribeOverrides(f)
        IN  /\ doc.auth # NoAuth => (out.auth <=> ~(Effective.auth = doc.auth /\ Effective.from = doc.from))
            /\ \A k \in DOMAIN doc.headers :
                doc.headers[k].file = f =>
                    (Contains(Effective.headers, doc.headers[k])
                        <=> ~\E i \in DOMAIN out.headers : out.headers[i].line = doc.headers[k].line)

\* A setting goes where the files say, and what the window says of it is what happens to
\* it, in the request's editor and in the folder's.
SettingsHoldAsTold == NearestFileHasItsWay /\ EditorTellsTheWire /\ FolderTellsWhoOptsOut
=============================================================================
