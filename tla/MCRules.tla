----------------------------- MODULE MCRules -----------------------------
(* The parts of Otis that need no other part to be understood: the folder   *)
(* watcher, which EXTENDS makes this module's own; what a name stands for;  *)
(* what a request inherits; what a .http file says; what a diff shows; what *)
(* scripts do to a send; what an import makes.  They share no variable, so  *)
(* a behaviour is of one of them, and the others stay as they begin, or     *)
(* unused.                                                                  *)
EXTENDS Watching, Sequences

VARIABLES part

VARIABLES written, active, session, extra, explicit
Names == INSTANCE Resolution WITH
    env <- active, Name <- {"a", "b"}, MaxDeclared <- 2, MaxHeld <- 1

VARIABLES headers, auth
Folders == INSTANCE Inheritance WITH
    lines <- headers, Header <- {"Authorization", "Accept"},
    AuthKinds <- {"bearer", "none", "bad"}, MaxLines <- 3

CONSTANTS MaxLines
VARIABLES parser, lines, texts
Texts == INSTANCE HttpFile WITH
    Kinds <- {"blank", "separator", "titled", "comment", "directive", "name", "variable",
              "request", "query", "header", "text", "bodyFile", "pre", "preOpen", "post",
              "postOpen", "close", "handler", "redirect"}

CONSTANTS Missing
VARIABLES head, index, work, looked, did, changes
Review == INSTANCE Staging WITH
    seen <- looked, edits <- changes, Path <- {1, 2}, Committed <- <<<<1, 2, 3, 4, 5>>, Missing>>, Big <- {},
    Context <- 1, MaxEdits <- 2

CONSTANTS Unset
VARIABLES request, kept, envFile, sends, calls, step, caller, hooks, todo, node, shared, view,
          handles, changed, scratch, private, read, modules, loading, wire, masked, hops,
          tests, outcome, exit, status, meant, began, wrote, ran, evals
Scripts == INSTANCE ScriptedSend WITH
    session <- kept, env <- read, held <- shared, MaxSends <- 2, MaxCalls <- 2, MaxRedirects <- 1,
    Module <- {"m", "n"}

VARIABLES axis, items, envs
Exports == INSTANCE PostmanImport WITH MaxItems <- 3

watcherVars == vars
namesVars   == <<written, active, session, extra, explicit>>
foldersVars == <<headers, auth>>
fileVars    == <<parser, lines, texts>>
reviewVars  == <<head, index, work, looked, did, changes>>
scriptVars  == <<request, kept, envFile, sends, calls, step, caller, hooks, todo, node, shared, view,
                 handles, changed, scratch, private, read, modules, loading, wire, masked, hops,
                 tests, outcome, exit, status, meant, began, wrote, ran, evals>>
exportVars  == <<axis, items, envs>>

Unused == "unused"

NamesUnused   == /\ written = Unused /\ active = Unused /\ session = Unused /\ extra = Unused
                 /\ explicit = Unused
FoldersUnused == headers = Unused /\ auth = Unused
FileUnused    == parser = Unused /\ lines = Unused /\ texts = Unused
ReviewUnused  == /\ head = Unused /\ index = Unused /\ work = Unused /\ looked = Unused
                 /\ did = Unused /\ changes = Unused
ExportUnused  == axis = Unused /\ items = Unused /\ envs = Unused

RulesInit ==
    /\ part \in {"watcher", "names", "folders", "file", "review", "scripts", "imports"}
    /\ Init
    /\ IF part = "names" THEN Names!Init ELSE NamesUnused
    /\ IF part = "folders" THEN Folders!Init ELSE FoldersUnused
    /\ IF part = "file" THEN Texts!Init ELSE FileUnused
    /\ IF part = "review" THEN Review!Init ELSE ReviewUnused
    /\ IF part = "imports" THEN Exports!Init ELSE ExportUnused
    /\ Scripts!Init /\ (part # "scripts" => envFile = "inactive")

RulesNext ==
    /\ UNCHANGED part
    /\ \/ /\ part = "watcher" /\ Next
          /\ UNCHANGED <<namesVars, foldersVars, fileVars, reviewVars, scriptVars, exportVars>>
       \/ /\ part = "names" /\ UNCHANGED <<watcherVars, foldersVars, fileVars, reviewVars, scriptVars, exportVars>>
          /\ Names!Next
       \/ /\ part = "folders" /\ UNCHANGED <<watcherVars, namesVars, fileVars, reviewVars, scriptVars, exportVars>>
          /\ Folders!Next
       \/ /\ part = "file" /\ UNCHANGED <<watcherVars, namesVars, foldersVars, reviewVars, scriptVars, exportVars>>
          /\ Texts!Next
       \/ /\ part = "review" /\ UNCHANGED <<watcherVars, namesVars, foldersVars, fileVars, scriptVars, exportVars>>
          /\ Review!Next
       \/ /\ part = "scripts" /\ UNCHANGED <<watcherVars, namesVars, foldersVars, fileVars, reviewVars, exportVars>>
          /\ Scripts!Next
       \/ /\ part = "imports" /\ UNCHANGED <<watcherVars, namesVars, foldersVars, fileVars, reviewVars, scriptVars>>
          /\ Exports!Next

rulesVars == <<part, watcherVars, namesVars, foldersVars, fileVars, reviewVars, scriptVars, exportVars>>

RulesSpec == RulesInit /\ [][RulesNext]_rulesVars

-----------------------------------------------------------------------------
(* Properties, each of the behaviours of its part.                          *)

\* What a name stands for is the nearest definition, and it is referenced (Resolution).
NamesAreAnswered == part = "names" => Names!NamesAreAnswered

\* No keychain value leaves with a request that is shown (Resolution).
SecretsStayHidden == part = "names" => Names!SecretsStayHidden

\* A folder's setting goes where the files and the window say (Inheritance).
SettingsHoldAsTold == part = "folders" => Folders!SettingsHoldAsTold

\* Writing a file that was read loses, moves and renames nothing else (HttpFile).
SavingIsHarmless == part = "file" => Texts!SavingIsHarmless

\* Every change is in the changes list once (Staging).
EveryChangeIsListedOnce == part = "review" => Review!EveryChangeIsListedOnce

\* A request goes out as its scripts left it, no secret is shown to them, every test
\* is reported, and a module is evaluated once in a realm, of which a send has two
\* (ScriptedSend, where each says what FORMAT.md has otherwise).
ScriptsKeepTheirWord == part = "scripts" => Scripts!ScriptsKeepTheirWord

\* A Postman export arrives, but for a script or an environment written over by
\* another of its name and for lines the parser takes for marks; of these no report
\* speaks (PostmanImport).
ImportsFaithfully == part = "imports" => Exports!ImportsFaithfully

\* Staging, unstaging and discarding by position act on one hunk and nothing else:
\* the one the window showed while it stands, and when it does not the one now in
\* its place, which is not what comments say of a stale view (Staging).
DoesWhatItWasAsked == [][part = "review" => Review!DoesAsAsked]_rulesVars
=============================================================================
