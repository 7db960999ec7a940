----------------------------- MODULE Resolution -----------------------------
(***************************************************************************)
(* What {{name}} stands for when a request is sent                         *)
(* (src/internal/resolve/variables.go, session.go and resolveWith in       *)
(* request.go).  A collection has the root folder, one folder below it and *)
(* a request in that folder; each may declare a name, an environment may   *)
(* hold it in its file or in the keychain, a run may leave a value for the *)
(* session, and a pre-request script may set one for this send alone.      *)
(*                                                                         *)
(* A text is a sequence of tokens <<kind, what>>.  A token of kind "ref"   *)
(* is {{what}} as somebody wrote it; one of kind "quoted" is the same      *)
(* braces inside data a run produced.  Every other token is plain text,    *)
(* named for where it was written.                                         *)
(***************************************************************************)
EXTENDS Naturals, FiniteSets, SequencesExt

CONSTANTS Name,         \* the names requests mention
          MaxDeclared,  \* how many declarations the files hold in all
          MaxHeld       \* how many session values are held at once

Builtin == "$uuid"
Folders == <<"sub", "root">>                       \* nearest folder first
Files == {"request", "sub", "root"}
Owners == {"sub", "root", "env"}                   \* who a session value is for

Ref(n) == <<"ref", n>>
Literal(where, n) == <<where, n>>
Mentions(text) == {text[i][2] : i \in {j \in DOMAIN text : text[j][1] = "ref"}}

\* What a file declares for a name: nothing, plain text, or text that goes
\* on to mention a name, its own included.
Absent == <<>>
Written(where, n, how) ==
    CASE how = "absent" -> Absent
      [] how = "plain" -> <<Literal(where, n)>>
      [] OTHER -> <<Literal(where, n), Ref(how)>>

VARIABLES written,   \* written[f][n]: what file f declares for n
          env,       \* env[n]: "absent", "plain", "stored" or "unset" in the
                     \* active environment, or no environment at all
          session,   \* the keys <<owner, name>> that hold a session value
          extra,     \* the names a pre-request script has set for this send
          explicit   \* whether auth is AWS with the key written out

Decl(f, n) == Written(f, n, written[f][n])

vars == <<written, env, session, extra, explicit>>

NoEnvironment == [n \in Name |-> "none"]
EnvKinds == {"absent", "plain", "stored", "unset"}

TypeOK ==
    /\ written \in [Files -> [Name -> {"absent", "plain"} \cup Name]]
    /\ env \in [Name -> EnvKinds] \cup {NoEnvironment}
    /\ session \subseteq Owners \X Name
    /\ extra \subseteq Name
    /\ explicit \in BOOLEAN

----------------------------------------------------------------------------
(* The scope: where a name is looked up, in the code's order.              *)

NotFound == [found |-> FALSE]
Declared(origin, where, text, literal) ==
    [found |-> TRUE, origin |-> origin, where |-> where, text |-> text, literal |-> literal]

Declares(f) == \E n \in Name : written[f][n] # "absent"

\* A file that declares nothing contributes no level.
Levels == SelectSeq(<<"request", "sub", "root">>, Declares)

Find(f, n) ==
    IF written[f][n] = "absent" THEN NotFound
    ELSE Declared(IF f = "request" THEN "request" ELSE "folder", f, Decl(f, n), FALSE)

SessionValue(owner, n) ==
    IF <<owner, n>> \in session
    THEN Declared("session", owner, <<Literal("session", n), <<"quoted", n>>>>, TRUE)
    ELSE NotFound

First(found) ==
    LET hits == SelectSeq(found, LAMBDA d : d.found)
    IN  IF hits = <<>> THEN NotFound ELSE hits[1]

\* The request's own level has no session layer; each folder after it is
\* asked for its session value first and its declaration second.
Lookup(n) ==
    LET own == Levels # <<>> /\ Levels[1] = "request"
        rest == IF own THEN Tail(Levels) ELSE Levels
        At(folder) == <<SessionValue(folder, n)>>
            \o (IF Contains(rest, folder) THEN <<Find(folder, n)>> ELSE <<>>)
    IN  First((IF n \in extra
               THEN <<Declared("request", "script", <<Literal("script", n), <<"quoted", n>>>>, TRUE)>>
               ELSE <<>>)
              \o (IF own THEN <<Find("request", n)>> ELSE <<>>)
              \o FlattenSeq([i \in DOMAIN Folders |-> At(Folders[i])]))

----------------------------------------------------------------------------
(* The expander: what was used, what is missing, which secrets went in.    *)

NewExpander == [uses |-> <<>>, missing |-> <<>>, secrets |-> <<>>, error |-> "none"]

Use(n, origin, where, value, secret) ==
    [name |-> n, origin |-> origin, where |-> where, value |-> value, secret |-> secret]

\* The place of a new use, or 0 when this name was used from this origin
\* before; a builtin is recorded every time.
SlotFor(x, u) ==
    IF u.origin # "builtin" /\ \E i \in DOMAIN x.uses :
            x.uses[i].name = u.name /\ x.uses[i].origin = u.origin
    THEN 0 ELSE Len(x.uses) + 1

ReserveUse(x, u) == IF SlotFor(x, u) = 0 THEN x ELSE [x EXCEPT !.uses = Append(@, u)]

NoteMissing(x, n) == IF Contains(x.missing, n) THEN x ELSE [x EXCEPT !.missing = Append(@, n)]

KeepSecretOnce(x, token) ==
    IF Contains(x.secrets, token) THEN x ELSE [x EXCEPT !.secrets = Append(@, token)]
KeepSecret(x, token) == [x EXCEPT !.secrets = Append(@, token)]

Answer(x, text) == [x |-> x, ok |-> TRUE, text |-> text]
NoAnswer(x) == [x |-> x, ok |-> FALSE, text |-> <<>>]
Failed(x, kind) == NoAnswer([x EXCEPT !.error = kind])

\* A use of declared text shows it unless the text took in a secret.
Shown(x, slot, before, text) ==
    IF slot = 0 THEN x
    ELSE IF Len(x.secrets) > before THEN [x EXCEPT !.uses[slot].secret = TRUE]
    ELSE [x EXCEPT !.uses[slot].value = text]

\* The environment comes after every file and folder, its session value first.
FromEnvironment(x, n) ==
    IF env[n] # "none" /\ <<"env", n>> \in session
    THEN LET text == SessionValue("env", n).text
         IN  Answer(ReserveUse(x, Use(n, "session", "env", text, FALSE)), text)
    ELSE CASE env[n] = "plain" ->
                Answer(ReserveUse(x, Use(n, "env", "env", <<Literal("env", n)>>, FALSE)),
                       <<Literal("env", n)>>)
           [] env[n] = "unset" -> Failed(x, "secret")
           [] env[n] = "stored" ->
                Answer(KeepSecret(ReserveUse(x, Use(n, "env", "env", <<>>, TRUE)), Literal("secret", n)),
                       <<Literal("secret", n)>>)
           [] OTHER -> NoAnswer(x)

LiterallyNothing(d) == FALSE
Literally(d) == d.literal

Braces(token) == token[1] \in {"ref", "quoted"}

RECURSIVE Value(_, _, _), Expand(_, _, _)

\* A use of declared text that v, the text expanded, has not come to an error.
Settled(x, slot, v) ==
    IF v.x.error # "none" THEN NoAnswer(v.x)
    ELSE Answer(Shown(v.x, slot, Len(x.secrets), v.text), v.text)

FromDeclaration(x, n, d, chain) ==
    LET u == Use(n, d.origin, d.where, <<>>, FALSE)
        slot == SlotFor(x, u)
    IN  IF Literally(d)
        THEN Settled(x, slot, Answer(ReserveUse(x, u), d.text))
        ELSE Settled(x, slot, Expand(ReserveUse(x, u), d.text, chain \cup {n}))

Defined(x, n, d, chain) ==
    IF d.found THEN FromDeclaration(x, n, d, chain) ELSE FromEnvironment(x, n)

Value(x, n, chain) ==
    IF n = Builtin
    THEN Answer(ReserveUse(x, Use(n, "builtin", "builtin", <<Literal("builtin", n)>>, FALSE)),
                <<Literal("builtin", n)>>)
    ELSE IF n \in chain THEN Failed(x, "cycle")
    ELSE Defined(x, n, Lookup(n), chain)

\* What a token's value does to the text so far.
Taken(sofar, token, v) ==
    IF v.ok THEN Answer(v.x, sofar.text \o v.text)
    ELSE Answer(IF v.x.error = "none" THEN NoteMissing(v.x, token[2]) ELSE v.x,
                Append(sofar.text, token))

\* Token by token; after an error the rest of the text is left as it is.
Expand(x, text, chain) ==
    FoldLeft(LAMBDA sofar, token :
        IF sofar.x.error # "none" \/ ~Braces(token)
        THEN [sofar EXCEPT !.text = Append(@, token)]
        ELSE Taken(sofar, token, Value(sofar.x, token[2], chain)),
        Answer(x, <<>>), text)

----------------------------------------------------------------------------
(* One request: its URL and a header mention one name, the key it may      *)
(* write out for AWS another, and its body is read from a file that        *)
(* mentions both and is expanded after the rest.                           *)

Names == SetToSeq(Name)
Mentioned == Names[1]
Other == Names[Len(Names)]
URL == <<Literal("url", "path"), Ref(Mentioned)>>
Header == <<Ref(Mentioned), Ref(Builtin)>>
Key == IF explicit THEN <<Ref(Other)>> ELSE <<>>
FileBody == <<Ref(Mentioned), Ref(Other)>>
Fields == <<URL, Header, Key>>

Filled(texts, v) == [x |-> v.x, texts |-> Append(texts, v.text)]

\* The fields in turn, one expander for them all.
Fill(x, fields) ==
    FoldLeft(LAMBDA sofar, text :
        IF sofar.x.error # "none" THEN sofar
        ELSE Filled(sofar.texts, Expand(sofar.x, text, {})),
        [x |-> x, texts |-> <<>>], fields)

Outcome(x) == IF x.error # "none" THEN x.error
              ELSE IF x.missing # <<>> THEN "missing" ELSE "ok"

\* A key written out for AWS is masked wherever it came from.
Explicit(filled) ==
    IF Len(filled.texts) < 3 \/ filled.texts[3] = <<>> THEN filled.x
    ELSE [filled.x EXCEPT !.secrets = @ \o filled.texts[3]]

Resolve ==
    LET filled == Fill(NewExpander, Fields)
    IN  [outcome |-> Outcome(filled.x), texts |-> filled.texts,
         uses |-> filled.x.uses, missing |-> filled.x.missing, secrets |-> Explicit(filled).secrets]

ExpandUnmasked(r, text) ==
    LET v == Expand(NewExpander, text, {})
    IN  [r EXCEPT !.outcome = Outcome(v.x), !.texts = Append(@, v.text), !.uses = @ \o v.x.uses]

\* The body's file is known only now: a fresh expander over the same scope,
\* whose secrets and uses are added to the request's.
ExpandLater(r, text) ==
    LET v == Expand(NewExpander, text, {})
    IN  [r EXCEPT !.outcome = Outcome(v.x), !.texts = Append(@, v.text),
                  !.uses = @ \o v.x.uses, !.missing = v.x.missing,
                  !.secrets = @ \o v.x.secrets]

Sent == LET r == Resolve IN IF r.outcome = "ok" THEN ExpandLater(r, FileBody) ELSE r

Masked(r, text) == [i \in DOMAIN text |->
    IF Contains(r.secrets, text[i]) THEN <<"masked", "">> ELSE text[i]]

ReferencedOwnNames == UNION {Mentions(t) : t \in Range(Fields)}

\* Every name some part of the request or a declaration it can see mentions,
\* nothing looked up and no body file read.
ReferencedNames ==
    UNION {Mentions(t) : t \in Range(Fields)}
        \cup UNION {Mentions(Decl(f, n)) : f \in Files, n \in Name}

----------------------------------------------------------------------------
(* The session's store, and what a script sets before one send.            *)

Set(owner, n) ==
    /\ Cardinality(session \cup {<<owner, n>>}) <= MaxHeld
    /\ session' = session \cup {<<owner, n>>}

Delete(owner, n) == <<owner, n>> \in session /\ session' = session \ {<<owner, n>>}

Clear == session' = {}

ClearScope(owner) == session' = {k \in session : k[1] # owner}

\* What a script set is gone with the send it was set for.
ScriptSets(n) == extra' = {n}
SendOver == extra' = {}

Init ==
    /\ written \in [Files -> [Name -> {"absent", "plain"} \cup Name]]
    /\ Cardinality({<<f, n>> \in Files \X Name : written[f][n] # "absent"}) <= MaxDeclared
    /\ env \in [Name -> EnvKinds] \cup {NoEnvironment}
    /\ session = {} /\ extra = {}
    /\ explicit \in BOOLEAN

Next ==
    \/ /\ \/ \E o \in Owners, n \in Name : Set(o, n) \/ Delete(o, n)
          \/ Clear
          \/ \E o \in Owners : ClearScope(o)
       /\ UNCHANGED <<written, env, extra, explicit>>
    \/ /\ SendOver \/ \E n \in Name : ScriptSets(n)
       /\ UNCHANGED <<written, env, session, explicit>>

Spec == Init /\ [][Next]_vars

----------------------------------------------------------------------------
(* What docs/FORMAT.md 4 says a name stands for, apart from the code.      *)

\* The places a name may be defined, the nearest first.
Places == <<"script", "request", "session sub", "sub", "session root", "root", "session env", "env">>

DefinedAt(n) ==
    {p \in DOMAIN Places :
        \/ Places[p] = "script" /\ n \in extra
        \/ Places[p] \in Files /\ written[Places[p]][n] # "absent"
        \/ \E o \in {"sub", "root"} : Places[p] = "session " \o o /\ <<o, n>> \in session
        \/ Places[p] = "session env" /\ env # NoEnvironment /\ <<"env", n>> \in session
        \/ Places[p] = "env" /\ env[n] \in {"plain", "stored", "unset"}}

Nearest(n) ==
    LET at == DefinedAt(n)
    IN  IF at = {} THEN "nowhere" ELSE Places[CHOOSE p \in at : \A q \in at : p <= q]

Ran == {"session sub", "session root", "session env"}

StandsFor(n) ==
    CASE n = Builtin -> <<Literal("builtin", n)>>
      [] Nearest(n) \in Files -> Decl(Nearest(n), n)
      [] Nearest(n) \in Ran -> <<Literal("session", n), <<"quoted", n>>>>
      [] Nearest(n) = "script" -> <<Literal("script", n), <<"quoted", n>>>>
      [] Nearest(n) = "env" -> <<Literal(IF env[n] = "plain" THEN "env" ELSE "secret", n)>>
      [] OTHER -> <<Ref(n)>>

\* Every mention at once replaced by what it stands for, and again until
\* only names nobody defines are left.
Replaced(text) == FlattenSeq([i \in DOMAIN text |->
    IF text[i][1] = "ref" THEN StandsFor(text[i][2]) ELSE <<text[i]>>])
ReplacedFully(text) ==
    FoldFunction(LAMBDA i, t : Replaced(t), text, [i \in 1..(Cardinality(Name) + 1) |-> i])

\* The names one name leads to, itself included.
Leads(n) ==
    LET onward == [m \in Name |-> IF Nearest(m) \in Files THEN Mentions(StandsFor(m)) ELSE {}]
        Further(s) == s \cup UNION {onward[m] : m \in s}
    IN  FoldFunction(LAMBDA i, s : Further(s), {n}, [i \in 1..Cardinality(Name) |-> i])

Cyclic(n) == Nearest(n) \in Files /\ \E m \in Mentions(StandsFor(n)) : n \in Leads(m)
NothingThere(n) == Nearest(n) = "env" /\ env[n] = "unset"
LookedUp == UNION {Leads(n) : n \in Name \cap UNION {Mentions(t) : t \in Range(Fields)}}
Hidden(n) == \E m \in Leads(n) : Nearest(m) = "env" /\ env[m] = "stored"

\* A request resolves just when every name in it leads to values that are
\* there, and then each field reads as the nearest definitions say, with a
\* value a run or a script left taken as it is; otherwise what is missing is
\* named, all of it at once (the order of lookup, expand, Err).
ResolvesToTheNearest(r) ==
    LET names == LookedUp
        bad == \E n \in names : Cyclic(n) \/ NothingThere(n)
        undefined == {n \in names : Nearest(n) = "nowhere"}
    IN  /\ r.outcome \in {"cycle", "secret"} <=> bad
        /\ r.outcome = "missing" <=> ~bad /\ undefined # {}
        /\ r.outcome = "missing" => Range(r.missing) = undefined
        /\ r.outcome = "ok" => \A i \in DOMAIN Fields : r.texts[i] = ReplacedFully(Fields[i])

\* Nothing that leaves with a resolved request carries a keychain value: not
\* its texts once masked, the body read later included, and not the value
\* listed for any name used, which is marked secret just when what it stands
\* for took one in (value, Mask, Resolved.Expand).
SecretsStayHidden ==
    (\E n \in Name : env[n] = "stored") => LET s == Sent IN s.outcome = "ok" =>
        /\ \A i \in DOMAIN s.texts, n \in Name : ~Contains(Masked(s, s.texts[i]), Literal("secret", n))
        /\ \A i \in DOMAIN s.uses :
            LET u == s.uses[i]
            IN  /\ \A n \in Name : ~Contains(u.value, Literal("secret", n))
                /\ u.name \in Name => (u.secret <=> Hidden(u.name))

\* A request is counted among those that mention a name whenever sending it
\* would look the name up, found or not (ReferencedNames).
WhatIsLookedUpIsReferenced(s) ==
    {s.uses[i].name : i \in DOMAIN s.uses} \cup Range(s.missing) \subseteq ReferencedNames

\* What a name stands for, what the window says refers to it, and what goes out agree.
NamesAreAnswered ==
    LET r == Resolve IN ResolvesToTheNearest(r) /\ WhatIsLookedUpIsReferenced(r)
=============================================================================
