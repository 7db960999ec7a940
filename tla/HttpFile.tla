------------------------------ MODULE HttpFile ------------------------------
(***************************************************************************)
(* A .http file read, written back and renamed in: internal/httpfile       *)
(* (parser.go, serializer.go) and setRequestName in services/request.go.   *)
(*                                                                         *)
(* A line is what the parser takes it for, and a text.  The text of the    *)
(* n-th line read is <<n>>, so a line that is lost, doubled or put where   *)
(* another belongs can be told.  A multi-line URL becomes one line, whose  *)
(* text is the texts of its parts.                                         *)
(***************************************************************************)
EXTENDS Naturals, SequencesExt, FiniteSetsExt

CONSTANTS Kinds,      \* the kinds of line the file may hold, within AllKinds
          MaxLines    \* the longest file

AllKinds ==
    {"blank", "separator", "titled",          \* "", "###", "### title"
     "comment", "directive", "name",          \* "# c", "# @d", "# @name n"
     "variable", "request", "query",          \* "@v = x", "GET u", "  ?q=1"
     "header", "text", "bodyFile",            \* "H: v", other, "< ./file"
     "pre", "preOpen", "post", "postOpen",    \* "< {% s %}", "< {%", "> ..."
     "close",                                 \* "%}"
     "handler", "redirect",                   \* "> ./file", ">> ./file"
     "spaced"}                                \* ">  {% s %}", two blanks

L(kind, text) == [kind |-> kind, text |-> text]

\* What an entry holds; each item is the lines it is written as and the line
\* it was read from, 0 when it was not read.
Empty == [title |-> <<>>, comments |-> <<>>, variables |-> <<>>, directives |-> <<>>,
          pre |-> <<>>, url |-> <<>>, headers |-> <<>>, body |-> <<>>,
          post |-> <<>>, redirect |-> <<>>]

Start == [state |-> "preamble", cur |-> Empty, done |-> <<>>, body |-> <<>>,
          script |-> <<>>, line |-> 0]

Failed == [Start EXCEPT !.state = "failed"]

VARIABLES parser,   \* what reading the lines so far has come to
          lines,    \* how many have been read
          texts     \* the texts in them, blank lines and bare separators aside

vars == <<parser, lines, texts>>

----------------------------------------------------------------------------
(* Reading.                                                                *)

HasRequestLine(r) == r.url # <<>>
Item(p, l) == [as |-> <<l>>, line |-> p.line]

\* Leading and trailing blank lines separate, they are not body.
CloseBody(p) ==
    LET solid == {i \in DOMAIN p.body : p.body[i].kind # "blank"}
    IN  [p EXCEPT !.body = <<>>,
                  !.cur.body = IF solid = {} THEN @ ELSE SubSeq(p.body, Min(solid), Max(solid))]

\* The last body stays behind.
FinishUnlessBody(p) ==
    [Start EXCEPT !.line = p.line,
        !.done = IF p.cur = Empty THEN p.done ELSE Append(p.done, p.cur)]

FinishRequest(p) ==
    LET closed == IF p.state = "body" THEN CloseBody(p) ELSE p
    IN  [Start EXCEPT !.line = p.line,
            !.done = IF closed.cur = Empty THEN closed.done ELSE Append(closed.done, closed.cur)]

StartSeparator(p, l) ==
    [FinishRequest(p) EXCEPT !.cur.title = IF l.kind = "titled" THEN <<l>> ELSE <<>>]

AddComment(p, l) ==
    IF l.kind = "comment" THEN [p EXCEPT !.cur.comments = Append(@, Item(p, l))]
    ELSE [p EXCEPT !.cur.directives = Append(@, Item(p, l))]

Separators == {"separator", "titled"}
Comments == {"comment", "directive", "name"}
Handlers == {"post", "postOpen", "handler", "spaced", "redirect"}

\* A script block is taken whole: its lines are kept until one closes it.
ReadScript(p, l) ==
    LET kept == Append(p.script, l)
        whole == [as |-> kept, line |-> p.line + 1 - Len(kept)]
        ended == [p EXCEPT !.script = <<>>]
    IN  IF ~(l.kind \in {"close", "pre", "post", "spaced"}) THEN [p EXCEPT !.script = kept]
        ELSE IF p.state = "preamble" THEN [ended EXCEPT !.cur.pre = Append(@, whole)]
        ELSE [ended EXCEPT !.cur.post = Append(@, whole)]

PreambleLine(p, l) ==
    CASE l.kind = "blank" -> p
      [] l.kind \in Separators -> StartSeparator(p, l)
      [] l.kind \in Comments -> AddComment(p, l)
      [] l.kind = "variable" -> [p EXCEPT !.cur.variables = Append(@, Item(p, l))]
      [] l.kind \in {"pre", "preOpen"} -> ReadScript(p, l)
      [] l.kind = "request" -> [p EXCEPT !.cur.url = l.text, !.state = "headers"]
      [] l.kind = "header" -> [p EXCEPT !.cur.headers = Append(@, l), !.state = "headers"]
      [] OTHER -> Failed

AfterLine(p, l) ==
    CASE l.kind = "blank" -> p
      [] l.kind \in Separators -> StartSeparator(p, l)
      [] l.kind \in Comments -> AddComment(p, l)
      [] l.kind \in {"post", "postOpen"} -> ReadScript(p, l)
      [] l.kind = "redirect" /\ p.cur.redirect = <<>> -> [p EXCEPT !.cur.redirect = <<l>>]
      [] l.kind \in {"handler", "spaced"} -> [p EXCEPT !.cur.post = Append(@, Item(p, l))]
      [] OTHER -> Failed

HeaderLine(p, l) ==
    CASE l.kind = "blank" -> [p EXCEPT !.state = "body"]
      [] l.kind \in Separators -> StartSeparator(p, l)
      [] l.kind \in Comments -> AddComment(p, l)
      [] l.kind \in Handlers -> AfterLine([p EXCEPT !.state = "after"], l)
      [] l.kind = "query" /\ HasRequestLine(p.cur) /\ p.cur.headers = <<>> ->
            [p EXCEPT !.cur.url = @ \o l.text]
      [] l.kind = "header" -> [p EXCEPT !.cur.headers = Append(@, l)]
      [] OTHER -> Failed

BodyLine(p, l) ==
    CASE l.kind \in Separators -> StartSeparator(p, l)
      [] l.kind \in Handlers -> AfterLine([CloseBody(p) EXCEPT !.state = "after"], l)
      [] OTHER -> [p EXCEPT !.body = Append(@, l)]

ReadLine(old, l) ==
    LET p == [old EXCEPT !.line = @ + 1]
    IN  CASE p.state = "failed" -> Failed
          [] p.script # <<>> -> ReadScript(p, l)
          [] p.state = "preamble" -> PreambleLine(p, l)
          [] p.state = "headers" -> HeaderLine(p, l)
          [] p.state = "body" -> BodyLine(p, l)
          [] p.state = "after" -> AfterLine(p, l)

\* At the end of the file: it parses unless a line failed or a script is open.
Parses(p) == p.state # "failed" /\ p.script = <<>>
FileOf(p) == FinishRequest(p).done

Parse(text) == FoldLeft(ReadLine, Start, text)

----------------------------------------------------------------------------
(* Writing.                                                                *)

\* Items that were read keep their order; new ones follow, in the order
\* comments, variables, directives, scripts.
Before(items, i, j) ==
    LET a == items[i].line
        b == items[j].line
    IN  IF a = b THEN i < j ELSE b = 0 \/ (a # 0 /\ a < b)

\* Items in canonical order, read or new.
PreambleByKind(r) == r.comments \o r.variables \o r.directives \o r.pre

PreambleItems(r) ==
    LET items == r.comments \o r.variables \o r.directives \o r.pre
        order == SetToSortSeq(DOMAIN items, LAMBDA i, j : Before(items, i, j))
    IN  [k \in DOMAIN items |-> items[order[k]]]

Preamble(r) ==
    LET items == PreambleItems(r)
    IN  FlattenSeq([k \in DOMAIN items |-> items[k].as])

\* A handler read from a file is written with one blank after the ">".
WrittenScript(item) ==
    [k \in DOMAIN item.as |->
        IF item.as[k].kind = "spaced" /\ Len(item.as) = 1
        THEN L("post", item.as[k].text) ELSE item.as[k]]

Blank == <<L("blank", <<>>)>>

\* Without the blank line before the body.
WrittenClose(r, i) ==
    (IF i > 1 THEN Blank ELSE <<>>)
    \o (IF i > 1 /\ r.title = <<>> THEN <<L("separator", <<>>)>> ELSE r.title)
    \o Preamble(r)
    \o (IF HasRequestLine(r) THEN <<L("request", r.url)>> ELSE <<>>)
    \o r.headers \o r.body
    \o FlattenSeq([k \in DOMAIN r.post |-> WrittenScript(r.post[k])])
    \o r.redirect

WrittenEntry(r, i) ==
    (IF i > 1 THEN Blank ELSE <<>>)
    \o (IF i > 1 /\ r.title = <<>> THEN <<L("separator", <<>>)>> ELSE r.title)
    \o Preamble(r)
    \o (IF HasRequestLine(r) THEN <<L("request", r.url)>> ELSE <<>>)
    \o r.headers
    \o (IF r.body = <<>> THEN <<>> ELSE Blank \o r.body)
    \o (IF r.post = <<>> /\ r.redirect = <<>> THEN <<>> ELSE Blank)
    \o FlattenSeq([k \in DOMAIN r.post |-> WrittenScript(r.post[k])])
    \o r.redirect

Serialize(file) == FlattenSeq([i \in DOMAIN file |-> WrittenEntry(file[i], i)])

----------------------------------------------------------------------------
(* Renaming, as RequestService.Rename and Duplicate do it.                 *)

NewName == L("name", <<0>>)
Names(r) == SelectSeq(r.directives, LAMBDA d : d.as[1].kind = "name")
OtherDirectives(r) == SelectSeq(r.directives, LAMBDA d : d.as[1].kind # "name")

\* The first entry with a request line, or the first when none has one.
Shown(file) ==
    LET requests == {i \in DOMAIN file : HasRequestLine(file[i])}
    IN  IF requests = {} THEN 1 ELSE Min(requests)

\* The old title stays, or every directive goes.
RenamedAlone(r) ==
    [r EXCEPT !.title = <<>>, !.directives = <<[as |-> <<NewName>>, line |-> 0]>>]

Renamed(r) ==
    LET line == IF Names(r) = <<>> THEN 0 ELSE Names(r)[1].line
    IN  [r EXCEPT !.title = <<>>,
                  !.directives = Append(OtherDirectives(r), [as |-> <<NewName>>, line |-> line])]

SetRequestName(file) ==
    IF file = <<>> THEN file ELSE [file EXCEPT ![Shown(file)] = Renamed(@)]

----------------------------------------------------------------------------
(* The file grows by one line at a time, as the parser meets it.           *)

Init == parser = Start /\ lines = 0 /\ texts = {}

Next == \E kind \in Kinds :
    /\ lines < MaxLines /\ parser.state # "failed"
    /\ lines' = lines + 1
    /\ LET text == IF kind \in {"blank", "separator"} THEN <<>> ELSE <<lines + 1>>
       IN  /\ parser' = ReadLine(parser, L(kind, text))
           /\ texts' = texts \cup Range(text)

Spec == Init /\ [][Next]_vars

TypeOK ==
    /\ Kinds \subseteq AllKinds
    /\ lines \in 0 .. MaxLines
    /\ parser.state \in {"preamble", "headers", "body", "after", "failed"}
    /\ Parses(parser) => \A i \in DOMAIN FileOf(parser) : FileOf(parser)[i] # Empty

----------------------------------------------------------------------------
(* Properties.                                                             *)

\* An entry without the lines its items were read from.
Plain(r) ==
    LET as(items) == [k \in DOMAIN items |-> items[k].as]
    IN  <<r.title, as(r.comments), as(r.variables), as(r.directives), as(r.pre),
          r.url, r.headers, r.body, as(r.post), r.redirect>>

Same(f, g) ==
    /\ Len(f) = Len(g)
    /\ \A i \in DOMAIN f : Plain(f[i]) = Plain(g[i])

\* Whatever parses is written in a form that parses again, into the same
\* entries with the same items in the same order: saving a document nobody
\* edited loses nothing and moves nothing to another entry.
WrittenIsReadBack ==
    Parses(parser) =>
        LET file == FileOf(parser)
            again == Parse(Serialize(file))
        IN  Parses(again) /\ Same(FileOf(again), file)

\* No line of a file that parses disappears from it when Otis writes it:
\* every text read is written exactly once, whatever entry, block or body it
\* was part of.
EveryLineIsKept ==
    Parses(parser) =>
        LET written == FoldLeft(LAMBDA all, l : all \o l.text, <<>>, Serialize(FileOf(parser)))
        IN  IsInjective(written) /\ Range(written) = texts

\* A rename rewrites the name of the entry the editor shows and nothing else:
\* read back, that entry has the one new name, in the place of the old one or
\* else after the rest of the preamble, and no title; every other item is
\* where it was, and so is every other entry.
RenameLeavesTheRest ==
    Parses(parser) /\ FileOf(parser) # <<>> =>
        LET file == FileOf(parser)
            again == Parse(Serialize(SetRequestName(file)))
            renamed == FileOf(again)
            shown == Shown(file)
            as(items) == [k \in DOMAIN items |-> items[k].as]
            was == as(PreambleItems(file[shown]))
            now == as(PreambleItems(renamed[shown]))
            old == {k \in DOMAIN was : was[k][1].kind = "name"}
        IN  /\ Parses(again) /\ Len(renamed) = Len(file)
            /\ \A i \in DOMAIN file \ {shown} : Plain(renamed[i]) = Plain(file[i])
            /\ now = IF old = {} THEN Append(was, <<NewName>>)
                     ELSE FoldLeft(LAMBDA out, k :
                            IF k = Min(old) THEN Append(out, <<NewName>>)
                            ELSE IF k \in old THEN out ELSE Append(out, was[k]),
                            <<>>, [k \in DOMAIN was |-> k])
            /\ Plain([renamed[shown] EXCEPT !.directives = OtherDirectives(renamed[shown])]) =
               Plain([file[shown] EXCEPT !.title = <<>>, !.directives = OtherDirectives(file[shown])])

\* Saving is harmless: a file is written whole, what is written is what was read, and a
\* rename changes a name.
SavingIsHarmless == WrittenIsReadBack /\ EveryLineIsKept /\ RenameLeavesTheRest
=============================================================================
