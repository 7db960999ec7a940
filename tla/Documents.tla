----------------------------- MODULE Documents ------------------------------
(***************************************************************************)
(* One open request of the window (frontend/src/state/documents-context)   *)
(* over the service that reads and writes it                               *)
(* (src/internal/services/request.go).                                     *)
(*                                                                         *)
(* A text is known by the number of the edit that made it: another         *)
(* editor's, or the person's typing.  disk is what the file holds, walked  *)
(* what the service's cached walk parsed of it.  A document loaded is the  *)
(* text of both: raw read from the file, file taken from the walk.         *)
(*                                                                         *)
(* The watcher is that of Watching, seen from outside: some time after     *)
(* another editor's write it walks, caches and announces.  The window      *)
(* hears CollectionChanged later still, and each re-read it then begins is *)
(* answered on its own.                                                    *)
(***************************************************************************)
EXTENDS Integers

CONSTANTS
    Call,      \* bound: calls of the window under way at once
    Gone,      \* the text of a file that is not there
    Nothing,   \* no document, no conflict
    MaxTexts,  \* bound: texts made by anybody
    MaxAnnounced  \* bound: announcements on their way to the window

Text == 0..MaxTexts
Document == [raw : Text, file : Text \cup {Gone}]

VARIABLES
    disk, texts,  \* the file, and how many texts there have been
    walked,       \* the service's cached walk
    due,          \* the watcher has an event it has not walked for
    walk,         \* what a walk of the watcher under way has read, or Nothing
    announced,    \* CollectionChanged events the window has not heard yet
    doc,          \* the window's document
    saving,       \* the path is in the set of paths being saved
    call,         \* calls under way
    lost          \* texts typed that an answer nobody asked for replaced

diskVars == <<disk, texts>>
serviceVars == <<walked, due, walk, announced>>
vars == <<diskVars, serviceVars, doc, saving, call, lost>>

Idle == [kind |-> "idle", at |-> "idle"]
Closed == [open |-> FALSE, loaded |-> Nothing, draft |-> Gone, dirty |-> FALSE, busy |-> FALSE,
           error |-> FALSE, conflict |-> Nothing]

TypeOK ==
    /\ disk \in Text \cup {Gone} /\ texts \in Text
    /\ walked \in Text \cup {Gone} /\ due \in BOOLEAN
    /\ walk \in Text \cup {Gone, Nothing} /\ announced \in 0..MaxAnnounced
    /\ doc \in [open : BOOLEAN, loaded : Document \cup {Nothing}, draft : Text \cup {Gone},
                dirty : BOOLEAN, busy : BOOLEAN, error : BOOLEAN,
                conflict : Document \cup {Nothing}]
    /\ saving \in BOOLEAN
    /\ lost \subseteq Text

Init ==
    /\ disk = 0 /\ texts = 0 /\ walked = 0
    /\ due = FALSE /\ walk = Nothing /\ announced = 0
    /\ doc = Closed /\ saving = FALSE
    /\ call = [c \in Call |-> Idle]
    /\ lost = {}

-----------------------------------------------------------------------------
(* Another editor, and the watcher.                                        *)

OtherWrites ==
    /\ texts < MaxTexts
    /\ texts' = texts + 1
    /\ disk' = texts + 1
    /\ due' = TRUE
    /\ UNCHANGED <<walked, walk, announced, doc, saving, call, lost>>

OtherDeletes ==
    /\ disk # Gone
    /\ texts < MaxTexts
    /\ texts' = texts + 1
    /\ disk' = Gone
    /\ due' = TRUE
    /\ UNCHANGED <<walked, walk, announced, doc, saving, call, lost>>

WatcherWalks ==
    /\ due /\ walk = Nothing
    /\ walk' = disk
    /\ due' = FALSE
    /\ UNCHANGED <<diskVars, walked, announced, doc, saving, call, lost>>

\* The walk is cached whenever it is done, and announced.
WatcherCaches ==
    /\ walk # Nothing /\ announced < MaxAnnounced
    /\ walked' = walk
    /\ walk' = Nothing
    /\ announced' = announced + 1
    /\ UNCHANGED <<diskVars, due, doc, saving, call, lost>>

-----------------------------------------------------------------------------
(* RequestService.                                                         *)

Begin(c, r) == call[c] = Idle /\ call' = [call EXCEPT ![c] = r]

Fail(c) == call' = [call EXCEPT ![c].at = "failed"]

\* Load takes the parsed file from the cached walk...
LoadFinds(c) ==
    /\ call[c].at = "asked" /\ call[c].kind # "save"
    /\ IF walked = Gone THEN Fail(c)
       ELSE call' = [call EXCEPT ![c] = [kind |-> @.kind, at |-> "found", file |-> walked]]
    /\ UNCHANGED <<diskVars, serviceVars, doc, saving, lost>>

\* ...and then the text from the file.
LoadReads(c) ==
    /\ call[c].at = "found"
    /\ IF disk = Gone THEN Fail(c)
       ELSE call' = [call EXCEPT ![c] = [kind |-> @.kind, at |-> "answered",
                                         doc |-> [raw |-> disk, file |-> @.file]]]
    /\ UNCHANGED <<diskVars, serviceVars, doc, saving, lost>>

\* Save replaces the file whatever it holds by now.
SaveWrites(c) ==
    /\ call[c].kind = "save" /\ call[c].at = "asked"
    /\ disk' = call[c].draft
    /\ call' = [call EXCEPT ![c].at = "written"]
    /\ UNCHANGED <<texts, serviceVars, doc, saving, lost>>

SaveWalks(c) ==
    /\ call[c].at = "written"
    /\ call' = [call EXCEPT ![c] = [kind |-> "save", at |-> "walked", walk |-> disk]]
    /\ UNCHANGED <<diskVars, serviceVars, doc, saving, lost>>

\* Refresh ends, and Load of the same call begins: a file deleted meanwhile fails it.
SaveAnnounces(c) ==
    /\ call[c].at = "walked" /\ announced < MaxAnnounced
    /\ walked' = call[c].walk
    /\ announced' = announced + 1
    /\ call' = [call EXCEPT ![c] = [kind |-> "save",
                                    at |-> IF @.walk = Gone THEN "failed" ELSE "found",
                                    file |-> @.walk]]
    /\ UNCHANGED <<diskVars, due, walk, doc, saving, lost>>

-----------------------------------------------------------------------------
(* The window.                                                             *)

Loading == [Closed EXCEPT !.open = TRUE, !.busy = TRUE]

Open(c) ==
    /\ ~doc.open
    /\ doc' = Loading
    /\ Begin(c, [kind |-> "load", at |-> "asked"])
    /\ UNCHANGED <<diskVars, serviceVars, saving, lost>>

Edit ==
    /\ doc.draft # Gone
    /\ texts < MaxTexts
    /\ texts' = texts + 1
    /\ doc' = [doc EXCEPT !.draft = texts + 1, !.dirty = TRUE]
    /\ UNCHANGED <<disk, serviceVars, saving, call, lost>>

Save(c) ==
    /\ doc.draft # Gone /\ ~doc.busy
    /\ Begin(c, [kind |-> "save", at |-> "asked", draft |-> doc.draft])
    /\ saving' = TRUE
    /\ doc' = [doc EXCEPT !.busy = TRUE, !.error = FALSE]
    /\ UNCHANGED <<diskVars, serviceVars, lost>>

\* Offered by the banner of a conflict.
Reload(c) ==
    /\ doc.conflict # Nothing
    /\ Begin(c, [kind |-> "load", at |-> "asked"])
    /\ doc' = [doc EXCEPT !.busy = TRUE, !.error = FALSE, !.conflict = Nothing]
    /\ UNCHANGED <<diskVars, serviceVars, saving, lost>>

KeepMine ==
    /\ doc.conflict # Nothing
    /\ doc' = [doc EXCEPT !.loaded = doc.conflict, !.conflict = Nothing,
                          !.dirty = doc.draft # doc.conflict.file]
    /\ UNCHANGED <<diskVars, serviceVars, saving, call, lost>>

\* The tab closes: at once when clean, and after a question otherwise.
Forget ==
    /\ doc.open
    /\ doc' = Closed
    /\ UNCHANGED <<diskVars, serviceVars, saving, call, lost>>

Hears(c) ==
    /\ announced > 0
    /\ announced' = announced - 1
    /\ IF saving \/ doc.loaded = Nothing THEN UNCHANGED call
       ELSE Begin(c, [kind |-> "re-read", at |-> "asked"])
    /\ UNCHANGED <<diskVars, walked, due, walk, doc, saving, lost>>

Taking(d) == [doc EXCEPT !.loaded = d, !.draft = d.file]

\* Mutant of Reconciled: clean is what the document was when the re-read began.
ReconciledUnasked(d) ==
    IF doc.loaded = Nothing \/ saving THEN doc
    ELSE IF d.raw = doc.loaded.raw THEN doc
    ELSE [Taking(d) EXCEPT !.conflict = Nothing, !.dirty = FALSE]

\* What a re-read that came back does to the document.
Reconciled(d) ==
    IF doc.loaded = Nothing \/ saving THEN doc
    ELSE IF d.raw = doc.loaded.raw THEN doc
    ELSE IF doc.dirty THEN [doc EXCEPT !.conflict = d]
    ELSE [Taking(d) EXCEPT !.conflict = Nothing]

Answers(c) ==
    /\ call[c].at \in {"answered", "failed"}
    /\ call' = [call EXCEPT ![c] = Idle]
    /\ saving' = (saving /\ call[c].kind # "save")
    /\ doc' =
        CASE call[c].at = "failed" ->
                IF ~doc.open THEN doc
                ELSE [doc EXCEPT !.error = TRUE, !.busy = @ /\ call[c].kind = "re-read"]
          [] call[c].at = "answered" /\ call[c].kind = "re-read" -> Reconciled(call[c].doc)
          [] call[c].at = "answered" /\ call[c].kind = "save" /\ ~doc.open -> doc
          [] OTHER -> [Closed EXCEPT !.open = TRUE, !.loaded = call[c].doc,
                                     !.draft = call[c].doc.file]
    /\ lost' = IF doc.dirty /\ doc'.draft # doc.draft /\ call[c].kind = "re-read"
               THEN lost \cup {doc.draft} ELSE lost
    /\ UNCHANGED <<diskVars, serviceVars>>

Next ==
    \/ OtherWrites \/ OtherDeletes \/ WatcherWalks \/ WatcherCaches
    \/ Edit \/ KeepMine \/ Forget
    \/ \E c \in Call :
        \/ Open(c) \/ Save(c) \/ Reload(c) \/ Hears(c) \/ Answers(c)
        \/ LoadFinds(c) \/ LoadReads(c) \/ SaveWrites(c) \/ SaveWalks(c) \/ SaveAnnounces(c)

Spec == Init /\ [][Next]_vars

-----------------------------------------------------------------------------
(* Properties.                                                             *)

Quiet ==
    /\ ~due /\ walk = Nothing /\ announced = 0
    /\ \A c \in Call : call[c] = Idle

Clean == doc.open /\ doc.loaded # Nothing /\ ~doc.dirty /\ ~doc.error

\* What the person typed is never replaced by a re-read they did not ask for, however
\* many are under way and whatever they found clean when they began (reconcile).
RereadKeepsTyping == lost = {}

\* A document with no unsaved edits takes the new file: once all is quiet it shows
\* what is on disk.
QuietDocumentShowsTheFile == Quiet /\ Clean => doc.draft = disk
=============================================================================
