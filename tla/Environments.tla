---------------------------- MODULE Environments ----------------------------
(***************************************************************************)
(* The environment files, the credential store beside them, and which of   *)
(* them is active (src/internal/services/environment.go,                   *)
(* src/internal/secrets/keyring.go, and the write of a script,             *)
(* src/internal/services/send.go).                                         *)
(*                                                                         *)
(* A file is its variables in order and one setting; a variable is a plain *)
(* text or a reference to the store.  Every method reads the file, works   *)
(* on the store, and writes the file back whole, with no lock from the one *)
(* to the other: what is left of it are the steps in todo.  A step of the  *)
(* store or a write may fail.                                              *)
(***************************************************************************)
EXTENDS Rows, SequencesExt

CONSTANTS
    Base,      \* what environments are called
    MaxCopies, \* bound: copies of each
    Var,
    First,     \* the rows to begin with, secrets stored
    Plain,     \* texts that variables have
    Credential,\* texts that people store as secrets
    Call,      \* bound: calls of all the methods together
    Ops,       \* bound: the methods called
    MaxEdits,  \* bound: files another editor writes
    MaxFaults, \* bound: steps that fail
    None, Secret

Env   == Base \X (0..MaxCopies)
Key   == Env \X Var
Value == Plain \cup {Secret}

VARIABLES
    file,    \* file[e]: what env/<e>.json holds, None for no file
    vault,   \* vault[k]: the credential under each key, or None
    index,   \* the keys the store says it holds
    active,  \* the active environment, or None
    request, \* request[c]: what each call was asked
    todo,    \* todo[c]: the steps it has left, None before it begins
    stale,   \* calls whose environment was written since they read it
    edits, faults,
    alone,   \* no two calls have overlapped, and nobody else wrote a file
    excused  \* keys somebody forgot on purpose, or left by deleting a file

vars == <<file, vault, index, active, request, todo, stale, edits, faults, alone, excused>>

Row == [name : Var, value : Value]
File == [rows : Seq(Row), confirm : BOOLEAN]
NoRows  == <<>>
NewFile == [rows |-> NoRows, confirm |-> FALSE]

\* The steps there are.
Todo ==
    [do : {"put"}, key : Key, value : Credential]
    \cup [do : {"index", "drop", "unindex"}, key : Key]
    \cup [do : {"copy", "move"}, key : Key, to : Key]
    \cup [do : {"write"}, env : Env, file : File]
    \cup [do : {"remove", "deactivate", "activate"}, env : Env]

-----------------------------------------------------------------------------
(* The rows of a file.                                                     *)

Has(rows, n) == \E r \in ToSet(rows) : r.name = n

Of(rows, n) == (CHOOSE r \in ToSet(rows) : r.name = n).value

IsSecret(rows, n) == Has(rows, n) /\ Of(rows, n) = Secret

Without(rows, n) == Only(rows, {r \in Row : r.name # n})

\* Mutant of Put: what is written goes last.
PutLast(rows, n, v) == Append(Without(rows, n), [name |-> n, value |-> v])

\* A value goes where the variable is, and last when it is new.
Put(rows, n, v) ==
    IF Has(rows, n)
    THEN [i \in DOMAIN rows |-> IF rows[i].name = n THEN [rows[i] EXCEPT !.value = v] ELSE rows[i]]
    ELSE Append(rows, [name |-> n, value |-> v])

Renamed(rows, n, m) ==
    [i \in DOMAIN rows |-> IF rows[i].name = n THEN [rows[i] EXCEPT !.name = m] ELSE rows[i]]

-----------------------------------------------------------------------------
(* What each method does, once it has read the file f of its environment:  *)
(* the steps it takes, or none where it refuses.                           *)

Store(k, v) == <<[do |-> "put", key |-> k, value |-> v], [do |-> "index", key |-> k]>>
Forget(k)   == <<[do |-> "drop", key |-> k], [do |-> "unindex", key |-> k]>>
Write(e, f) == <<[do |-> "write", env |-> e, file |-> f]>>

SetVariable(q, f) ==
    (IF IsSecret(f.rows, q.name) THEN Forget(<<q.env, q.name>>) ELSE <<>>)
    \o Write(q.env, [f EXCEPT !.rows = Put(@, q.name, q.value)])

\* Mutant of RenameVariable: the stored value stays where it was.
RenameFileOnly(q, f) ==
    IF ~Has(f.rows, q.name) \/ (q.to # q.name /\ Has(f.rows, q.to)) THEN <<>>
    ELSE Write(q.env, [f EXCEPT !.rows = Renamed(@, q.name, q.to)])

RenameVariable(q, f) ==
    IF ~Has(f.rows, q.name) \/ (q.to # q.name /\ Has(f.rows, q.to)) THEN <<>>
    ELSE (IF q.to # q.name /\ IsSecret(f.rows, q.name)
          THEN <<[do |-> "move", key |-> <<q.env, q.name>>, to |-> <<q.env, q.to>>]>> ELSE <<>>)
         \o Write(q.env, [f EXCEPT !.rows = Renamed(@, q.name, q.to)])

RemoveVariable(q, f) ==
    IF ~Has(f.rows, q.name) THEN <<>>
    ELSE (IF IsSecret(f.rows, q.name) THEN Forget(<<q.env, q.name>>) ELSE <<>>)
         \o Write(q.env, [f EXCEPT !.rows = Without(@, q.name)])

MakeSecret(q, f) ==
    Store(<<q.env, q.name>>, q.value) \o Write(q.env, [f EXCEPT !.rows = Put(@, q.name, Secret)])

SetSecretValue(q, f) ==
    IF ~IsSecret(f.rows, q.name) THEN <<>>
    ELSE Store(<<q.env, q.name>>, q.value) \o Write(q.env, f)

ForgetSecret(q, f) ==
    IF ~IsSecret(f.rows, q.name) THEN <<>>
    ELSE Forget(<<q.env, q.name>>) \o Write(q.env, f)

SetConfirmBeforeSend(q, f) == Write(q.env, [f EXCEPT !.confirm = ~@])

\* A script's write: a secret is not overwritten.
WriteEnvVar(q, f) ==
    IF IsSecret(f.rows, q.name) THEN <<>>
    ELSE Write(q.env, [f EXCEPT !.rows = Put(@, q.name, q.value)])

CopyOf(e) ==
    LET free == {n \in 1..MaxCopies : file[<<e[1], n>>] = None}
    IN IF free = {} THEN None ELSE <<e[1], CHOOSE n \in free : \A m \in free : n <= m>>

\* Each secret's value is copied first, in the order of the file.
Duplicate(q, f) ==
    LET to == CopyOf(q.env)
        Copy(r) == [do |-> "copy", key |-> <<q.env, r.name>>, to |-> <<to, r.name>>]
    IN IF q.env[2] # 0 \/ to = None THEN <<>>
       ELSE LET secret == Only(f.rows, {r \in Row : r.value = Secret})
            IN [i \in DOMAIN secret |-> Copy(secret[i])] \o Write(to, f)

Delete(q, f) == <<[do |-> "remove", env |-> q.env], [do |-> "deactivate", env |-> q.env]>>

Activate(q, f) == <<[do |-> "activate", env |-> q.env]>>

Steps(q, f) ==
    CASE q.op = "set"       -> SetVariable(q, f)
      [] q.op = "rename"    -> RenameVariable(q, f)
      [] q.op = "unset"     -> RemoveVariable(q, f)
      [] q.op = "secret"    -> MakeSecret(q, f)
      [] q.op = "replace"   -> SetSecretValue(q, f)
      [] q.op = "forget"    -> ForgetSecret(q, f)
      [] q.op = "confirm"   -> SetConfirmBeforeSend(q, f)
      [] q.op = "script"    -> WriteEnvVar(q, f)
      [] q.op = "duplicate" -> Duplicate(q, f)
      [] q.op = "delete"    -> Delete(q, f)
      [] q.op = "activate"  -> Activate(q, f)

Takes(op) ==
    CASE op \in {"set", "script"}     -> [name : Var, value : Plain, to : {None}]
      [] op \in {"secret", "replace"} -> [name : Var, value : Credential, to : {None}]
      [] op = "rename"                -> [name : Var, value : {None}, to : Var]
      [] op \in {"unset", "forget"}   -> [name : Var, value : {None}, to : {None}]
      [] OTHER                        -> [name : {None}, value : {None}, to : {None}]

-----------------------------------------------------------------------------

TypeOK ==
    /\ \A e \in Env : file[e] \in File \cup {None}
    /\ vault \in [Key -> Credential \cup {None}]
    /\ index \subseteq Key
    /\ active \in Env \cup {None}
    /\ \A c \in Call : todo[c] \in Seq(Todo) \cup {None}

Init ==
    /\ file = [e \in Env |-> IF e[2] = 0 THEN [NewFile EXCEPT !.rows = First] ELSE None]
    /\ index = {k \in Key : k[1][2] = 0 /\ IsSecret(First, k[2])}
    /\ vault = [k \in Key |-> IF k \in index THEN CHOOSE v \in Credential : TRUE ELSE None]
    /\ active = None
    /\ request = [c \in Call |-> None]
    /\ todo = [c \in Call |-> None]
    /\ stale = {}
    /\ edits = 0 /\ faults = 0
    /\ alone = TRUE
    /\ excused = {}

UnderWay == {c \in Call : todo[c] # None /\ todo[c] # <<>>}

\* The keys that a request leaves without a value, or with one nothing refers to.
Excuses(q) ==
    CASE q.op = "forget" -> {<<q.env, q.name>>}
      [] q.op = "delete" -> {q.env} \X Var
      [] q.op = "rename" /\ <<q.env, q.name>> \in excused -> {<<q.env, q.to>>}
      [] q.op = "duplicate" -> {k \in Key : <<q.env, k[2]>> \in excused /\ k[1] = CopyOf(q.env)}
      [] OTHER -> {}

\* A method begins by reading the file of the environment it is about.
Begin(c, q) ==
    /\ todo[c] = None
    /\ file[q.env] # None
    /\ todo' = [todo EXCEPT ![c] = Steps(q, file[q.env])]
    /\ request' = [request EXCEPT ![c] = q]
    /\ stale' = stale \ {c}
    /\ alone' = (alone /\ UnderWay = {})
    /\ excused' = excused \cup Excuses(q)
    /\ UNCHANGED <<file, vault, index, active, edits, faults>>

Create(e) ==
    /\ file[e] = None /\ e[2] = 0 /\ "create" \in Ops
    /\ file' = [file EXCEPT ![e] = NewFile]
    /\ UNCHANGED <<vault, index, active, request, todo, stale, edits, faults, alone, excused>>

Step(c, kind) == c \in UnderWay /\ Head(todo[c]).do = kind

Goes(c) == todo' = [todo EXCEPT ![c] = Tail(@)]

Ends(c) == todo' = [todo EXCEPT ![c] = <<>>]

\* Set of the store: the credential, and then its key.
StorePuts(c) ==
    /\ Step(c, "put")
    /\ vault' = [vault EXCEPT ![Head(todo[c]).key] = Head(todo[c]).value]
    /\ Goes(c)
    /\ UNCHANGED <<file, index, active, request, stale, edits, faults, alone, excused>>

StoreIndexes(c) ==
    /\ Step(c, "index")
    /\ index' = index \cup {Head(todo[c]).key}
    /\ Goes(c)
    /\ UNCHANGED <<file, vault, active, request, stale, edits, faults, alone, excused>>

\* Delete of the store: the key leaves the index whatever came of it.
StoreDrops(c) ==
    /\ Step(c, "drop")
    /\ vault' = [vault EXCEPT ![Head(todo[c]).key] = None]
    /\ Goes(c)
    /\ UNCHANGED <<file, index, active, request, stale, edits, faults, alone, excused>>

StoreUnindexes(c) ==
    /\ Step(c, "unindex")
    /\ index' = index \ {Head(todo[c]).key}
    /\ Goes(c)
    /\ UNCHANGED <<file, vault, active, request, stale, edits, faults, alone, excused>>

\* A value read and stored under another key; a rename then drops the old one.  A value
\* that is not there is skipped, and its key forgotten.
StoreCopies(c) ==
    /\ c \in UnderWay /\ Head(todo[c]).do \in {"copy", "move"}
    /\ LET s == Head(todo[c]) IN
        IF vault[s.key] = None
        THEN /\ index' = index \ {s.key}
             /\ Goes(c)
        ELSE /\ todo' = [todo EXCEPT ![c] = Store(s.to, vault[s.key])
                            \o (IF s.do = "move" THEN Forget(s.key) ELSE <<>>) \o Tail(@)]
             /\ UNCHANGED index
    /\ UNCHANGED <<file, vault, active, request, stale, edits, faults, alone, excused>>

\* writeFile
Writes(c) ==
    /\ Step(c, "write")
    /\ LET s == Head(todo[c]) IN
        /\ file' = [file EXCEPT ![s.env] = s.file]
        /\ stale' = stale \cup {d \in UnderWay \ {c} : request[d].env = s.env}
    /\ Goes(c)
    /\ UNCHANGED <<vault, index, active, request, edits, faults, alone, excused>>

\* A file that is gone already ends the deletion with an error.
Removes(c) ==
    /\ Step(c, "remove")
    /\ file' = [file EXCEPT ![Head(todo[c]).env] = None]
    /\ IF file[Head(todo[c]).env] = None THEN Ends(c) ELSE Goes(c)
    /\ stale' = stale \cup {d \in UnderWay \ {c} : request[d].env = Head(todo[c]).env}
    /\ UNCHANGED <<vault, index, active, request, edits, faults, alone, excused>>

Deactivates(c) ==
    /\ Step(c, "deactivate")
    /\ active' = IF active = Head(todo[c]).env THEN None ELSE active
    /\ Goes(c)
    /\ UNCHANGED <<file, vault, index, request, stale, edits, faults, alone, excused>>

Activates(c) ==
    /\ Step(c, "activate")
    /\ active' = Head(todo[c]).env
    /\ Goes(c)
    /\ UNCHANGED <<file, vault, index, request, stale, edits, faults, alone, excused>>

\* A step that fails ends the call, but for the removal of a value, which is logged.
Fails(c) ==
    /\ c \in UnderWay /\ faults < MaxFaults
    /\ Head(todo[c]).do \in {"put", "drop", "copy", "move", "write", "remove"}
    /\ faults' = faults + 1
    /\ IF Head(todo[c]).do \in {"drop", "copy", "move"} THEN Goes(c) ELSE Ends(c)
    /\ UNCHANGED <<file, vault, index, active, request, stale, edits, alone, excused>>

\* Another editor, a branch, or a script run elsewhere.
OtherWrites(e, rows) ==
    /\ edits < MaxEdits
    /\ edits' = edits + 1
    /\ file' = [file EXCEPT ![e] = [rows |-> rows, confirm |-> FALSE]]
    /\ stale' = stale \cup {d \in UnderWay : request[d].env = e}
    /\ alone' = FALSE
    /\ UNCHANGED <<vault, index, active, request, todo, faults, excused>>

HandRows == {<<>>} \cup {<<[name |-> n, value |-> v]>> : n \in Var, v \in Value}

Next ==
    \/ \E c \in Call :
        \/ \E op \in Ops \ {"create"}, e \in Env : \E p \in Takes(op) :
            Begin(c, [op |-> op, env |-> e, name |-> p.name, value |-> p.value, to |-> p.to])
        \/ StorePuts(c) \/ StoreIndexes(c) \/ StoreDrops(c) \/ StoreUnindexes(c) \/ StoreCopies(c)
        \/ Writes(c) \/ Removes(c) \/ Deactivates(c) \/ Activates(c) \/ Fails(c)
    \/ \E e \in Env : Create(e) \/ \E rows \in HandRows : OtherWrites(e, rows)

Spec == Init /\ [][Next]_vars

Interchangeable == Permutations(Call) \cup Permutations(Var)

-----------------------------------------------------------------------------
(* Properties.                                                             *)

InTurn == alone /\ faults = 0 /\ UnderWay = {}

Referenced == {k \in Key : file[k[1]] # None /\ IsSecret(file[k[1]].rows, k[2])}

Stored == {k \in Key : vault[k] # None}

\* Methods called in turn keep the committed references and the store together: every
\* reference has its value and every value its reference, through renames, copies and
\* variables that become secret or plain, but for what was forgotten on purpose or left
\* behind by deleting a file; and the index knows what is stored.
StoreMatchesFiles ==
    InTurn => /\ Referenced \ excused = Stored \ excused
              /\ index = Stored

\* In turn, the active environment is one that is there (Activate, Delete).
ActiveIsThere == InTurn => active = None \/ file[active] # None

\* A write that no other write overlapped changes the row it was asked about, keeps the
\* others as they are and in their order, and moves no row (mutate, writeEnvVar: "must
\* not clobber a change made between requests").
TouchesOneRow ==
    \A c \in Call :
        Writes(c) /\ c \notin stale /\ request[c].op # "duplicate" =>
            LET q == request[c]
                old == file[q.env].rows
                new == file'[q.env].rows
                mine == {q.name, q.to}
                Others(rows) == Only(rows, {r \in Row : r.name \notin mine})
            IN /\ Others(new) = Others(old)
               /\ q.op # "unset" => \A i \in DOMAIN old : \/ new[i].name = old[i].name
                                                          \/ old[i].name = q.name /\ new[i].name = q.to
WritesTouchOneRow == [][TouchesOneRow]_vars

\* No file ever holds a credential that was given as a secret, whoever overlaps whom and
\* whatever fails (MakeSecret, SetSecretValue, Duplicate).
NoCredentialInFiles ==
    \A e \in Env : file[e] # None => \A r \in ToSet(file[e].rows) : r.value \notin Credential

\* With one call at a time and failures, a reference in a file keeps the value it had:
\* "a failure leaves the value reachable under the old name rather than nowhere"
\* (RenameVariable).
FailureKeepsValues ==
    alone /\ UnderWay = {} => Referenced \ excused \subseteq Stored

\* The files, the store and the menu agree: references and stored values match in turn,
\* the active environment is there, and no file ever holds a credential.
FilesAndStoreAgree == StoreMatchesFiles /\ ActiveIsThere /\ NoCredentialInFiles
=============================================================================
