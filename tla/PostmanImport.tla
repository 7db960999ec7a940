--------------------------- MODULE PostmanImport ---------------------------
(***************************************************************************)
(* What a Postman export becomes: internal/importer/postman (import.go,    *)
(* translate.go, report.go), with the names of collection/name.go, read    *)
(* back by the walk, by the parser (HttpFile) and by the inheritance of    *)
(* headers and auth (Inheritance).                                         *)
(*                                                                         *)
(* An export is its items, a parent before its children; the first is the  *)
(* collection itself.  A text is opaque but for what the parser takes a    *)
(* line that begins with it for.                                           *)
(***************************************************************************)
EXTENDS Naturals, FiniteSets, SequencesExt

CONSTANTS MaxItems    \* how many items below the collection

\* What the exports vary in, one thing at a time.
Axes == {"names", "auth", "scripts", "texts", "unescaped", "environments"}

VARIABLES axis,    \* what this export varies in
          items,   \* the collection, its folders and its requests
          envs     \* the environment exports given with it

vars == <<axis, items, envs>>

----------------------------------------------------------------------------
(* Exports.                                                                *)

Plain == [parent |-> 0, kind |-> "request", name |-> "a", decodes |-> TRUE, auth |-> "inherit",
          text |-> <<>>, body |-> <<>>, variables |-> {}, events |-> <<>>]

Kinds == {"folder", "request"}
Named == {[Plain EXCEPT !.kind = k, !.name = n] :
            k \in Kinds, n \in {"a", "A", "a-2", "env", "***", "request"}}
         \cup {[Plain EXCEPT !.decodes = FALSE]}
Authorized == {[Plain EXCEPT !.kind = k, !.auth = a] : k \in Kinds,
    a \in {"inherit", "noauth", "bearer", "aws", "header", "query", "oauth2"}}
Event == [listen : {"prerequest", "test"}, code : {"whole", "partly", "blank", "disabled"}]
Scripted == {[Plain EXCEPT !.kind = k, !.events = e] : k \in Kinds,
    e \in {<<>>} \cup {<<e>> : e \in Event} \cup Event \X Event}
Texts == {<<>>, <<"prose">>, <<"prose", "empty", "prose">>}
Worded(texts) ==
    {[Plain EXCEPT !.kind = k, !.text = t, !.variables = v] :
        k \in Kinds, t \in texts, v \in SUBSET {"plain", "secret", "off"}}
    \cup {[Plain EXCEPT !.text = t, !.body = b, !.auth = a] :
        t \in texts, b \in texts, a \in {"inherit", "bearer", "oauth2"}}

Forms ==
    CASE axis = "names" -> Named
      [] axis = "auth" -> Authorized
      [] axis = "scripts" -> Scripted
      [] axis = "texts" -> Worded(Texts)
      [] axis = "unescaped" -> Worded({<<"@auth">>, <<"###">>, <<"###", "prose">>})
      [] OTHER -> {[Plain EXCEPT !.kind = "folder"]}

Environment == [name : {"a", "A", "env"}, variables : SUBSET {"plain", "secret", "off"}]

AboveAnd(i) ==
    LET up[j \in DOMAIN items] == IF items[j].parent = 0 THEN <<j>>
                                  ELSE Append(up[items[j].parent], j)
    IN  up[i]

Children(i) == SelectSeq([j \in DOMAIN items |-> j], LAMBDA j : items[j].parent = i)
IsRequest(i) == items[i].kind = "request"

----------------------------------------------------------------------------
(* Names.  A slug is its word and the numbers put after it.                *)

Slug(name) == CASE name = "A" -> <<"a">>
                [] name = "a-2" -> <<"a", 2>>
                [] name = "***" -> <<>>
                [] OTHER -> <<name>>

Numbered(slug, used) ==
    IF slug \notin used THEN slug
    ELSE Append(slug, CHOOSE n \in 2 .. Cardinality(used) + 2 :
            /\ Append(slug, n) \notin used
            /\ \A m \in 2 .. n - 1 : Append(slug, m) \in used)

\* "env" is a name like another.
UniqueUnreserved(used, slug, fallback) == Numbered(IF slug = <<>> THEN fallback ELSE slug, used)

UniqueName(used, slug, fallback) ==
    Numbered(IF slug \in {<<>>, <<"env">>} THEN fallback ELSE slug, used)

Slugs ==
    FoldLeft(LAMBDA slugs, i :
        Append(slugs, IF items[i].parent = 0 THEN <<>>
            ELSE UniqueName({slugs[j] : j \in {j \in DOMAIN slugs : items[j].parent = items[i].parent}},
                            Slug(items[i].name), <<items[i].kind>>)),
        <<>>, [i \in DOMAIN items |-> i])

\* The directory of a folder, or of the folder a request is in.
Dir(i) == LET folders == SelectSeq(Tail(AboveAnd(i)), LAMBDA j : ~IsRequest(j))
          IN  [k \in DOMAIN folders |-> Slugs[folders[k]]]

Path(dir, stem, ext) == [dir |-> dir, stem |-> stem, ext |-> ext]
Stem(i) == IF IsRequest(i) THEN Slugs[i] ELSE <<"_">>
EntryPath(i) == Path(Dir(i), IF IsRequest(i) THEN Slugs[i] ELSE <<"_folder">>, "http")

----------------------------------------------------------------------------
(* The entry of a request, or of a folder's settings, as HttpFile has it.  *)

HF == INSTANCE HttpFile WITH Kinds <- {}, MaxLines <- 0, parser <- 0, lines <- 0, texts <- 0

CommentLines(text) == [k \in DOMAIN text |-> HF!L("comment", <<text[k]>>)]

HasDirective(a) == a \in {"noauth", "bearer", "aws"}

ApplyAuth(r, a, isFolder) ==
    CASE HasDirective(a) -> [r EXCEPT !.directives = Append(@, HF!L("directive", <<a>>))]
      [] a = "header" -> [r EXCEPT !.headers = Append(@, HF!L("header", <<a>>))]
      [] a = "query" /\ ~isFolder -> [r EXCEPT !.url = Append(@, a)]
      [] a = "oauth2" -> [r EXCEPT !.comments = Append(@, HF!L("comment", <<"TODO">>))]
      [] OTHER -> r

\* The order of the preamble: the name, the comments, the other directives,
\* the variables.
Layout(r) ==
    LET names == SelectSeq(r.directives, LAMBDA l : l.kind = "name")
        others == SelectSeq(r.directives, LAMBDA l : l.kind # "name")
        from(n, lines) == [k \in DOMAIN lines |-> [as |-> <<lines[k]>>, line |-> n + k]]
        first == Len(names)
        second == first + Len(r.comments)
    IN  [r EXCEPT !.directives = from(0, names) \o from(second, others),
                  !.comments = from(first, r.comments),
                  !.variables = from(second + Len(others), r.variables)]

Empty(i) == Children(i) = <<>>

\* A folder with nothing in it gets a comment, so that git keeps it.
FolderEntry(i) ==
    LET it == items[i]
        told == [HF!Empty EXCEPT !.comments = CommentLines(it.text),
                    !.variables = IF "plain" \in it.variables
                                  THEN <<HF!L("variable", <<"plain">>)>> ELSE <<>>]
        r == ApplyAuth(told, it.auth, TRUE)
    IN  Layout(IF r = HF!Empty /\ Empty(i) /\ it.parent # 0
               THEN [r EXCEPT !.comments = <<HF!L("comment", <<"was empty">>)>>] ELSE r)

RequestEntry(i) ==
    LET it == items[i]
        lines == [k \in DOMAIN it.body |->
                    HF!L(IF it.body[k] = "empty" THEN "blank" ELSE "text",
                         IF it.body[k] = "empty" THEN <<>> ELSE <<it.body[k]>>)]
        told == [HF!Empty EXCEPT !.directives = <<HF!L("name", <<it.name>>)>>,
                    !.comments = CommentLines(it.text), !.url = <<"url">>, !.body = lines]
    IN  Layout(ApplyAuth(told, it.auth, FALSE))

Entry(i) == IF IsRequest(i) THEN RequestEntry(i) ELSE FolderEntry(i)

----------------------------------------------------------------------------
(* The plan: the files, and the report.  A piece of the export is what an  *)
(* item, or an environment, says in one of its places.                     *)

Piece(i, place) == [of |-> i, place |-> place]
ScriptPiece(i, k) == Piece(i, <<"script", "second script">>[k])
VariablePiece(i, v) == Piece(i, v)
When(said, piece) == IF said THEN {piece} ELSE {}

Runs(event) == event.code = "whole"
Written(event) == event.code \in {"whole", "partly"}

\* The hook's name whatever is left of Postman in the script.
HookName(event) == IF event.listen = "prerequest" THEN "pre.js" ELSE "post.js"
ScriptName(event) ==
    IF Runs(event) THEN HookName(event)
    ELSE IF event.listen = "prerequest" THEN "postman-pre.js" ELSE "postman-post.js"

Scripts(i) == {[path |-> Path(Dir(i), Stem(i), ScriptName(items[i].events[k])),
                nth |-> k, holds |-> {ScriptPiece(i, k)}] :
                    k \in {k \in DOMAIN items[i].events : Written(items[i].events[k])}}

HoldsAuth(i) == HasDirective(items[i].auth) \/ items[i].auth = "header"
                    \/ (items[i].auth = "query" /\ IsRequest(i))

EntryFile(i) == {[path |-> EntryPath(i), nth |-> 1, holds |->
    {Piece(i, "text"), Piece(i, "body")}
        \cup When(HoldsAuth(i), Piece(i, "auth"))
        \cup {VariablePiece(i, v) : v \in items[i].variables \cap {"plain"}}]}

\* The lines of a folder's .order file.
Order(i) == LET listed == Children(i)
            IN  [k \in DOMAIN listed |-> [slug |-> Slugs[listed[k]], isDir |-> ~IsRequest(listed[k])]]

\* An item's own files; a request that does not decode has none.
FilesOf(i) ==
    IF IsRequest(i) THEN IF items[i].decodes THEN EntryFile(i) \cup Scripts(i) ELSE {}
    ELSE (IF Entry(i) = HF!Empty THEN {} ELSE EntryFile(i)) \cup Scripts(i)
         \cup When(~Empty(i), [path |-> Path(Dir(i), <<>>, "order"), nth |-> 1, holds |-> {}])

\* A secret keeps its name and not its value.
EnvironmentFile(e) ==
    [path |-> Path(<<<<"env">>>>, Slug(envs[e].name), "json"), nth |-> e,
     holds |-> {VariablePiece(Len(items) + e, v) : v \in envs[e].variables \cap {"plain"}}]

Writes == UNION {FilesOf(i) : i \in DOMAIN items} \cup {EnvironmentFile(e) : e \in DOMAIN envs}

\* The last write of a path is what the file holds.
Files == LET writes == Writes
         IN  {w \in writes : \A v \in writes : v.path = w.path => v.nth <= w.nth}

\* What Plan reports as skipped or in need of attention.
Report ==
    UNION {
        {Piece(i, p) : p \in {p \in {"text", "body", "auth", "script", "second script"} :
                                ~items[i].decodes}}
        \cup {VariablePiece(i, v) : v \in items[i].variables \cap {"secret", "off"}}
        \cup When(items[i].auth = "oauth2" \/ (items[i].auth = "query" /\ ~IsRequest(i)), Piece(i, "auth"))
        \cup {ScriptPiece(i, k) : k \in {k \in DOMAIN items[i].events :
                                            items[i].events[k].code \in {"disabled", "partly"}}}
        : i \in DOMAIN items}
    \cup UNION {{VariablePiece(Len(items) + e, v) : v \in envs[e].variables \cap {"secret", "off"}}
        : e \in DOMAIN envs}

----------------------------------------------------------------------------
(* The export grows by one item, or one environment, at a time.            *)

Init ==
    /\ axis \in Axes
    /\ \E root \in Forms : root.kind = "folder" /\ root.name = "a" /\ items = <<root>>
    /\ envs = <<>>

\* Names need several in one folder, an inherited auth a folder between.
Room == CASE axis = "names" -> MaxItems
          [] axis = "auth" -> 2
          [] axis = "environments" -> 0
          [] OTHER -> 1

AddItem(form, parent) ==
    /\ Len(items) <= Room
    /\ ~IsRequest(parent)
    /\ items' = Append(items, [form EXCEPT !.parent = parent])
    /\ UNCHANGED <<axis, envs>>

AddEnvironment(e) ==
    /\ axis = "environments" /\ Len(envs) < 2
    /\ envs' = Append(envs, e)
    /\ UNCHANGED <<axis, items>>

Next ==
    \/ \E form \in Forms, parent \in DOMAIN items : AddItem(form, parent)
    \/ \E e \in Environment : AddEnvironment(e)

Spec == Init /\ [][Next]_vars

TypeOK ==
    /\ axis \in Axes
    /\ Len(items) \in 1 .. MaxItems + 1 /\ Len(envs) \in 0 .. 2
    /\ \A i \in DOMAIN items : items[i].parent \in 0 .. i - 1

----------------------------------------------------------------------------
(* What reads the files afterwards.                                        *)

\* What the walk shows of a folder's requests and folders: the directory
\* env/ of the root is not one.
Walked(i, files) ==
    LET there(e) == \E w \in files :
            IF e.isDir THEN IsPrefix(Append(Dir(i), e.slug), w.path.dir) /\ Append(Dir(i), e.slug) # <<<<"env">>>>
            ELSE w.path = Path(Dir(i), e.slug, "http")
    IN  SelectSeq(Order(i), there)

\* A script that runs by itself: a folder's, or one with its request beside it.
IsHook(w, files) ==
    /\ w.path.ext \in {"pre.js", "post.js"}
    /\ \/ w.path.stem = <<"_">>
       \/ \E v \in files : v.path = Path(w.path.dir, w.path.stem, "http")

\* What the parser takes a line for, whatever it was meant to be.
OnDisk(l) == CASE l.kind = "comment" /\ l.text = <<"@auth">> -> HF!L("directive", l.text)
               [] l.kind = "text" /\ l.text = <<"###">> -> HF!L("titled", l.text)
               [] OTHER -> l

ReadBack(i) == LET lines == HF!Serialize(<<Entry(i)>>)
               IN  HF!Parse([k \in DOMAIN lines |-> OnDisk(lines[k])])

\* What the files say of headers and auth to Inheritance.
HeaderLines == [i \in DOMAIN items |->
    IF items[i].auth = "header" THEN <<[name |-> "Key", marker |-> FALSE]>> ELSE <<>>]
AuthLines == [i \in DOMAIN items |->
    CASE "@auth" \in Range(items[i].text) -> "bad"
      [] items[i].auth = "noauth" -> "none"
      [] HasDirective(items[i].auth) -> items[i].auth
      [] OTHER -> "nothing"]

Inherited == INSTANCE Inheritance WITH
    lines <- HeaderLines, auth <- AuthLines, Header <- {"Key"}, AuthKinds <- {}, MaxLines <- 0

\* The nearest item that does not inherit: Postman's auth of a request.
PostmanAuth(i) ==
    LET says == SelectSeq(AboveAnd(i), LAMBDA j : items[j].auth # "inherit")
    IN  IF says = <<>> THEN "noauth" ELSE items[says[Len(says)]].auth

----------------------------------------------------------------------------
(* Properties.                                                             *)

\* Every folder and every request that decodes is where the export has it, in
\* the export's order, and the walk finds it: no name is given twice, and none
\* hides an item in the directory of the environments (folder, UniqueName).
ArrivesInPlace ==
    LET files == Files IN
    \A i \in DOMAIN items : ~IsRequest(i) =>
        LET sound == SelectSeq(Children(i), LAMBDA j : items[j].decodes)
        IN  Walked(i, files) = [k \in DOMAIN sound |->
                            [slug |-> Slugs[sound[k]], isDir |-> ~IsRequest(sound[k])]]

\* What the export says: in each item's places, and in the environments.
Said ==
    UNION {
        When(items[i].text # <<>>, Piece(i, "text")) \cup When(items[i].body # <<>>, Piece(i, "body"))
        \cup When(items[i].auth # "inherit", Piece(i, "auth"))
        \cup {VariablePiece(i, v) : v \in {v \in items[i].variables : ~IsRequest(i)}}
        \cup {ScriptPiece(i, k) : k \in {k \in DOMAIN items[i].events : items[i].events[k].code # "blank"}}
        : i \in DOMAIN items}
    \cup UNION {{VariablePiece(Len(items) + e, v) : v \in envs[e].variables} : e \in DOMAIN envs}

\* What goes to a file that is written again: the first of two scripts of one
\* phase that get one name, and the first of two environments of one slug.
WrittenOver ==
    UNION {{ScriptPiece(i, 1) : k \in {k \in DOMAIN items[i].events :
                /\ k = 2 /\ Written(items[i].events[1]) /\ Written(items[i].events[2])
                /\ ScriptName(items[i].events[1]) = ScriptName(items[i].events[2])}} : i \in DOMAIN items}
    \cup UNION {{VariablePiece(Len(items) + 1, v) : v \in envs[1].variables} :
            e \in {e \in DOMAIN envs : e = 2 /\ Slug(envs[1].name) = Slug(envs[2].name)}}

\* What is neither in a file nor in the report is what was written over, and
\* what is written over is gone unless the report speaks of it for another
\* reason: of these two the second wins and nobody is told.  No file holds the
\* value of a secret (folder, scripts, environment, write, Report).
OnlyWhatIsWrittenOverIsLost ==
    LET held == UNION {w.holds : w \in Files}
    IN  /\ Said \ (held \cup Report) = WrittenOver \ Report
        /\ \A p \in held : p.place # "secret"

\* That none is lost: two scripts of a phase, or two environments of one slug,
\* show that some is (ImportsParted.cfg).
NothingIsLostSilently == Said \subseteq UNION {w.holds : w \in Files} \cup Report

\* A script runs by itself only when nothing of Postman is left in it (scripts).
OnlyWholeScriptsRun ==
    LET files == Files IN
    \A w \in files, i \in DOMAIN items : IsHook(w, files) =>
        \A k \in DOMAIN items[i].events : ScriptPiece(i, k) \in w.holds => Runs(items[i].events[k])

\* A description's line that begins with @ is a directive to the parser.
AsDirectives(r) ==
    LET taken(item) == item.as[1].text = <<"@auth">>
        directives == [k \in DOMAIN SelectSeq(r.comments, taken) |->
                        [as |-> <<HF!L("directive", <<"@auth">>)>>, line |-> 1]]
    IN  [r EXCEPT !.comments = SelectSeq(@, LAMBDA c : ~taken(c)),
                  !.directives = HF!Names(r) \o directives \o HF!OtherDirectives(r)]

\* Each entry reads back as it was planned, but for two kinds of line that
\* nothing escapes: a description's "@auth" comes back as a directive, and a
\* body's "###" ends the request there, so that a body that goes on makes a
\* file that does not parse.  FORMAT.md 7 calls a raw body verbatim (layout,
\* writeEntry, commentLines).
ReadsBackButForMarks ==
    \A i \in DOMAIN items : Entry(i) # HF!Empty =>
        LET body == items[i].body
            planned == AsDirectives(Entry(i))
            rest == [HF!Empty EXCEPT !.title = <<HF!L("titled", <<"###">>)>>]
        IN  IF Contains(body, "###") /\ IsRequest(i)
            THEN IF body[Len(body)] # "###" THEN ~HF!Parses(ReadBack(i))
                 ELSE /\ HF!Parses(ReadBack(i))
                      /\ HF!Same(HF!FileOf(ReadBack(i)), <<[planned EXCEPT !.body = <<>>], rest>>)
            ELSE HF!Parses(ReadBack(i)) /\ HF!Same(HF!FileOf(ReadBack(i)), <<planned>>)

\* What FORMAT.md 7 says: descriptions become comments and a raw body is
\* verbatim.  The same lines show that not all are (ImportsParted.cfg).
ReadsBackAsPlanned ==
    \A i \in DOMAIN items : Entry(i) # HF!Empty =>
        /\ HF!Parses(ReadBack(i))
        /\ HF!Same(HF!FileOf(ReadBack(i)), <<Entry(i)>>)

\* A request whose auth in Postman has a scheme in Otis has that scheme, from
\* the same place; a description above it or on it that reads as an @auth line
\* leaves it without any, and it cannot be sent (applyAuth, LevelsOf).
AuthIsPostmans ==
    \A i \in DOMAIN items : IsRequest(i) /\ HasDirective(PostmanAuth(i)) =>
        LET chain == AboveAnd(i)
            inherited == Inherited!Levels(chain)
        IN  IF \E k \in DOMAIN chain : "@auth" \in Range(items[chain[k]].text) THEN ~inherited.ok
            ELSE IF PostmanAuth(i) = "noauth" THEN inherited.auth \in {"none", "nothing"}
            ELSE inherited.ok /\ inherited.auth = PostmanAuth(i)

\* The credentials of a request are those of one auth, the nearest, as in
\* Postman: an API key does not travel with another's Authorization.
OneCredential ==
    \A i \in DOMAIN items : IsRequest(i) =>
        Len(Inherited!Prepare(Inherited!Levels(AboveAnd(i)))) <= 1

\* An import keeps the tree, the settings, the scripts and the texts of an export,
\* but for what it writes over and for the lines it does not escape, which are named.
ImportsFaithfully ==
    /\ ArrivesInPlace /\ OnlyWhatIsWrittenOverIsLost /\ OnlyWholeScriptsRun
    /\ ReadsBackButForMarks /\ AuthIsPostmans
=============================================================================
