# Otis, specified

TLA+ specifications of Otis (`src/`), the TLC configurations that check them on small instances, and TLAPS
proofs of the results that should hold for every size. Otis is an HTTP client whose collections are
directories of `.http` files. It is a Go program with a Wails window (`frontend/src/state` is the window's own
logic), a command line (`cmd/otis`) and a local MCP server through which an AI agent may read the collection
and, when a person allows it, send requests.

Reading order: *Inventory* (what the system is), *Modules* (what models what), *Runs* (what is checked, within
which bounds), *Proofs*, *Where code and words part*, *What is left*.

## Inventory

A component is listed with its state, its operations, what makes it hard and what makes it correct.

### The agent's side

**Previews** (`internal/mcp/intent.go`). State: a map from an intent id to the tool, the fingerprint of the
resolved request and an expiry. Operations: `Issue`, `Verify`, `Redeem`, `VoidAll`, `Count`, and `sweepLocked`
in each of them. All run under one mutex, so each is one step. Hard: an expiry cut to a whole second; a guess
that must burn the intent; presentation at the exact moment of expiry. Correct when what is redeemed is what
was previewed, once, in time.

**Policy** (`internal/mcp/policy.go`, `session.go`, `resolve/env.go`). State: none; it is a decision over the
grants, the environment's `$otis.agents` block, the git status of the files and a request's own override.
Hard: the order of the gates *is* the policy. Correct when the strictest gate decides and a change that
tightens a gate never loosens the outcome.

**Rate limits** (`internal/mcp/limit.go`). State: a token bucket per capability. `Allow`, `Remaining`. Hard:
credit for time that has passed, fractional tokens, the cap. Correct when over any span no more than the burst
and what the span earned gets through, and a caller who waited is served.

**Tool calls** (`internal/mcpserver/run.go`, `confirm.go`, `tools.go`; `services/mcp.go` for the window's
end). State: the calls in flight, the dialogs that wait, the budget, the audit log. Operations: the two phases
of `send_request`, the wrapper `tool` that records every call, the two confirmation surfaces (the window's
dialog, the client's elicitation), `ConfirmSend`, the window closing, the kill switch. Hard: everything that
happens between the preview and the send. The file is edited, another call presents the same intent, a switch
is turned, nobody answers, the client hangs up. Correct when what goes out was agreed to, once, and the log
says what happened.

**Server switch** (`services/mcp.go`, `mcpserver/server.go`, `mcp/endpoint.go`). State: the settings document,
the service's pointer to the running server, each server's mutex and listener, and the endpoint file that
tells clients where to connect. Operations: `Enable`, `Disable`, `Disconnect`, `SetCapability`,
`SetAlwaysConfirmSends`, quitting. Hard: no lock spans these steps, and Wails runs every bound call on its own
goroutine. Correct when the kill switch is final, nothing listens that no pointer holds, and the endpoint file
makes no false claim.

**Other tools** (`mcpserver/run.go`, `session.go`, `write.go`, `tools.go`; `services/mcp.go`). State: the
session's values, the folder's requests, the plan and the preview a call holds. Operations:
`set_session_variable`, `run_folder` in both phases, `create_request`, `update_request`, the reading tools.
Hard: a folder run that begins as planned and meets an edit half way; a name that comes to be defined between
the preview of a write and the write. Correct when an agent does only what was agreed to, as shown, and the
log tells it.

**Audit log, redaction** (`mcp/audit.go`, `redact.go`). One log file with one rotation; a set of secret values
built per request.

### Sending

**Sender and open collection** (`services/send.go`, `services/collection.go`). State: the sends that can be
cancelled, the last 20 responses and 64 MiB of them in order, the cookie jar, the session variables; the
collection that is open. Operations: `Send`, `run` (resolve, before-script, exchange, after-script, keep,
emit), `Cancel`, `Discard`, `cancelAll`, `reset`; `Open`, `Close`. Each send is a goroutine that takes the
service's mutex several times and runs unlocked between. Hard: a collection that changes under a send. Correct
when every send ends with exactly one final event and what a collection's sends left does not outlive it.

**Response pane** (`frontend/src/state/send-context.tsx`). State: for one request, a phase, a send id (null
until known) and what is shown. Operations: `send`, `cancel`, `forget`, a reset when the collection changes,
`apply` for each event. Hard: the id arrives in the answer to a call, in an event, or not at all, and presses
do not wait for one another. Correct when the pane shows the send it says.

**Folder runs** (`services/send.go` `RunFolder`, `frontend/src/state/run-context.tsx`, `mcpserver/run.go` for
the agent's hook). State: one context per run, the counts of its summary; the panel's rows, run id and the map
`folderOf`. Hard: three exits that each count what was not reached; a cancel that lands in the last request;
two runs of one folder reporting at once. Correct when every request is counted once and the summary and the
rows agree.

### Files

**Open documents** (`documents-context.tsx`, `services/request.go`). State: a draft, the text loaded, a save
and re-reads in flight, a conflict. Operations: open, edit, save, reload, keep mine, forget, and the re-read
that an event brings. Hard: typing while a save is in flight; a re-read begun before a save. Correct when
nothing typed is taken away unasked.

**Watcher, guard, cached walk** (`internal/watch`, `services/collection.go`). State: one watcher with its
timer, a guard per file Otis is writing, one cached tree. Operations: `Start`, the loop, `flush`, `Close`,
`Writing`, `Open`, `Close`, `onChange`, `Refresh`. Hard: timer functions that outlive `Close`; walks that
overlap; another editor's write inside the grace. Correct when the window hears of every change.

**Ordering and undo** (`services/order.go`, `internal/collection/order.go`). State: entries, `.order` files,
the walk the window shows, a stack of undo entries. Operations: `Reorder`, `Move`, `SetMode`, `Undo`, and
`Create`, `Rename`, `Duplicate`, `Delete` as they touch a row. Hard: files others changed; two forms of one
name; one step of several failing. Correct when an operation does its entry and no other.

**Environments and secrets** (`services/environment.go`, `internal/secrets`). State: a file per environment,
the credential store and its index, the active one. Operations: twelve, each a read, some work on the store
and a whole-file write. Hard: no lock over the three; a write that fails between them. Correct when files and
store tell the same and a credential is in no file.

**Git review and staging** (`internal/diff`, `services/diff.go`). State: HEAD, index, working tree; the diff
the window looks at. Operations: stage, unstage, discard, commit, by file and by hunk. Hard: hunks are
positions in a diff that is computed afresh. Correct when what is asked of a hunk happens to it alone.

### Meaning

**Variable resolution** (`internal/resolve/variables.go`, `session.go`). Levels of precedence, chains of
references, cycles, which values are secret; the session's store. Correct when the nearest definition answers
and no stored secret shows.

**Inheritance** (`internal/resolve/inherit.go`, `httpclient/prepare.go`, the descriptions in `request.go` and
`folder.go`). Headers and `@auth` down a chain of files; what the editor says of them. Correct when the wire,
the request's editor and the folder's settings agree.

**Parser and serializer** (`internal/httpfile`, `setRequestName`). Correct when saving what was read loses
nothing and a rename renames.

**Scripts** (`internal/script`, `scriptrun`, `services/send.go`, `cmd/otis/run.go`). State: the request as the
hooks reshape it, three scopes of variables, the tests, the modules loaded. Hard: what survives from one send
to the next; a redirect, a second phase, a throw half way. Correct when what leaves is what the scripts asked
for, they see masks for secrets, and every test is reported.

### Coming and going

**Import** (`importer/postman`, `services/import.go`). State: an export, a plan, the files it becomes. Hard:
names that collide, texts that mean something to the parser. Correct when nothing is lost without being
reported, and every text reads back; neither holds of all exports, and the model says of which.

**New collections, clones, paths from outside** (`services/start.go`, `gitclone`, `collection.go`). State: the
one clone slot, the pending path, what a directory held. Hard: git in a process of its own, cancelled at any
moment beside other calls on the directory. Correct when the answer tells what is on the disk and in the
window.

**Settings** (`internal/settings`), **HTTP client** (`httpclient`), **held responses** (`response`),
**command line** (`cmd/otis`), **curl**, **views** (tabs, panes, palette), **build**. `PROJECT.json` gives
each its status and reason.

### How they interact

    agent --HTTP--> mcpserver (tool wrapper)
                      |-- policy, budget, previews          internal/mcp
                      |-- dialog --event--> window --ConfirmSend--> services/mcp
                      '-- Send / RunFolder --> services/send --exchange--> HTTP client
    window --bound call--> services (every call on a goroutine of its own)
    services --event--> window (in the order emitted, some time later)
    settings file  <-- read and rewritten by services/mcp
    endpoint file  <-- written and removed by every server there has been, read by clients
    .http files    <-- documents, ordering, agent writes, scripts, other editors; watched by internal/watch

Bound calls do not wait for one another, events are queued, and there is no lock over more than one component.
That is where the hazards in `PROJECT.json` come from.

## Modules

| module | models | extends / instantiates |
|---|---|---|
| `Permit` | the abstract promise of a preview: a permit shown, then at most once spent, refused, void or expired | |
| `Intents` | the store of previews on a clock with more than one tick to a second | `Permit` (refinement) |
| `Limiter` | the token buckets | |
| `AgentRules` | `Decide`, `DecideSessionWrite`, `ReviewOf`, `CanGrantWrite`, the block's default and validation, as operators | |
| `AgentPolicy` | the switches, the environment and the git status around them, each change an action | `AgentRules` |
| `AgentCalls` | calls of `send_request` from the first check to the audit line | `AgentRules`, `Intents` (as its `Store`) |
| `AgentTools` | the other tools: session values, folder runs, creating and updating requests | `AgentRules` |
| `AgentServer` | the switch, step by step | |
| `Sends` | the Go side of a send and of the open collection | |
| `SendPane` | the pane, composed with `Sends` and the queue of events | `Sends` |
| `FolderRun` | a folder's run, the agent's hook and the run panel | |
| `Watching` | the watcher, the guard and the cached walk | |
| `Documents` | one open document over the service that reads and writes it | |
| `Orders` | rows, `.order` files, undo | |
| `Environments` | environment files and the credential store | `Rows` |
| `Rows` | the filter of the code's loops over rows, as a recursive function | |
| `Staging` | the changes list, hunks, and what is done to them | |
| `Resolution` | what a name stands for; the session's values | |
| `Inheritance` | headers and `@auth` down the folders, and what is said of them | |
| `HttpFile` | the parser, the serializer, the rename of an entry | |
| `ScriptedSend` | scripts around one send after another, by window and shell | |
| `PostmanImport` | what an export becomes | `HttpFile`, `Inheritance` (as readers of what it wrote) |
| `Arrivals` | imports, new collections, clones and paths from outside | |
| `AgentGatesProofs` | the theorems about previews, buckets and policy | `Intents`, `Limiter`, `AgentPolicy`, `TLAPS` |
| `AgentCallsProofs`, `AgentToolsProofs`, `AgentServerProofs`, `FolderRunProofs`, `SendPaneProofs`, `WatchingProofs` | the theorems | the module, `TLAPS` |
| `CollectionProofs` | the theorems about documents, ordering, environments and arrivals | `MCCollection`, `TLAPS` |
| `MCAgentCalls`, `MCAgents`, `MCCollection`, `MCRules` | instances for the listed runs | `MCAgents` and `MCRules` extend the modules with theorems of their own; `MCCollection` instantiates `Documents`, `Orders`, `Environments` and `Arrivals` |
| `MCOrders`, `MCStaging`, `MCArrivals` | instances for the configurations that end in a counterexample | |

### How state and actions correspond to the code

**Intents.** `by` is the map, one record per id; `now` counts ticks, `Second` of them to a second. `Issue`,
`Verify`, `Redeem`, `VoidAll` and `Outstanding` are one action each, and sweep where the code sweeps
(`Swept`). An id is random in the code, so the model never issues one twice. `preview` (what was shown),
`paid` and `refused` are history.

**Policy.** The inputs the code reads from files, git and settings are variables, so that a property can speak
of a *change*: `Grant`, `Withdraw` and `SetAlwaysConfirmSends` turn switches, `SaveEnvironment` and
`SelectNone` change the environment, `Edit`, `Stage` and `Commit` move the git status of the file. An
environment that `validate` refuses is never the current one (`ValidEnv`).

**Limiter.** A token is `price[c]` parts and a tick earns one part, so fractions are whole numbers. `admitted`
and `mark` belong to an observer who starts counting at any moment.

**AgentCalls.** Each call has a program counter that names the place in the handler it is about to execute; a
step is what runs between two places where another goroutine can be seen (a lock, a wait, a channel). `world`
is what resolving the request yields at that moment, a fingerprint and what the policy is told; an edit
replaces it, and `prepared[c]` is the one a call was judged in. The kill switch is its separate steps, with
the server's mutex held through `Shutdown` and its two seconds. `sent`, `charged`, `consent`, `spentInTime`
and `edits` are history.

**AgentTools.** A call is a record of its arguments, the place it has come to (`at`) and what it decided; one
step per lock, dialog or exchange, as in `AgentCalls`. `version` and `listing` are the folder's requests, and
an edit of a person or of another call gives a request any other version; `permits` are previews, named for
the call that got one. `AddressOf` is the method and URL a version has in its surroundings (environment,
settings, session value). A plan is the address of each request, which is all that `planPrint` compares
(`run.go:302`): two versions that differ in headers or body have one address, and so may two environments, so
in the model as in the code an edit of a body, or a switch of environment that leaves the URLs alone, passes
the redeem. A run keeps the tree and the name of the environment it began with and resolves each request with
the session value it finds; a request's scripts may set another before the next.

**AgentServer.** `Program(o)` is the sequence of steps of a bound method and `todo[c]` what a call has left of
it; every read or write of the settings, of the service's pointer, of a mutex or of the endpoint file is a
step of its own. A step that may fail (binding, writing the endpoint, writing the settings) may fail whenever
`CanFail` allows. `final` and `overlapped` say whether the kill switch returned last and whether calls ran at
the same time.

**Sends and SendPane.** `Sends` walks each send through the places where `run` takes the mutex or waits.
`SendPane` adds the window: `pane` with its phase and ids, `asked` (sends whose answer has not come back) and
`calls` (cancels and discards on their way); `events` is the queue between them. One request, since `apply`
looks at one path at a time. A send may be refused at any time it loads (no collection, or a file that is gone
or broken). `newest`, `mixed`, `last` and `crossed` are history: `mixed` says that the pane's send began while
another of the request was under way, or that another began while the pane knew no id, which it never learns
of a send that was refused; `crossed` that a collection changed with a send under way. Properties that end in
`InTurn` are about behaviours that are not mixed (in `AgentServer`: where no call overlapped another).

**FolderRun.** `step[r]`, `index[r]` and `summary[r]` are the goroutine of one `RunFolder`: the place in its
loop, the request it has come to, its tallies; `inflight` and `cancelled` are its context. A request's own
send is abstract: it ends as sent, failed or cancelled. `panel` is the window's record of the folder and
`known` the keys of `folderOf` in the order `cancel` finds them.

**Watching.** `disk` is a version per file. A writer holds the guard, writes, re-walks, announces and lets go,
a step each; an event reaches a watcher's loop, arms its timer, and the timer's function looks whether it is
done before it reports (`report`), which is where it may outlive `Close`. Debounce and grace are not counted:
each ends at any moment. `owed` (history) is what the window has still to hear of.

**Documents.** A text is the number of the edit that made it. `doc` is the window's record, `saving` and
`call` what it has in flight; `disk`, `walked`, `due` and `walk` are the service and the watcher behind it. A
document loaded is two texts, the raw file and the walk's parse of it, since the code reads them apart.

**Orders.** A name is a slug and the number `UniqueName` gave it, an entry a name and a kind. Each method is
one action with all its writes; `Undo` is two, revert and pop, because the code works unlocked between them.
`last` says which operation the last step was, for the action properties, and a frame of the stack carries what
the folders and their `.order` files held when its operation began (`then`, history):
`UndoTakesBackItsOwn` says of an undo that succeeds that it gives those back, and of one that is refused what it
may have done all the same. Files sort by name with the extension, as `lessName` has it (`Suffix`).

**Environments.** `request[c]` is a call and `todo[c]` the steps it has left once it read the file; `stale`
are calls whose file changed since. A put, a removal or a write may fail (`faults`); `hand` is another editor.

**Staging.** A text is a sequence of distinct numbers, so that its alignment with another is unique. `head`,
`index` and `work` are the three sides, `seen` the diff the window looks at, `did` what the last call was
asked and did. A hunk is what the diff yields with `Context` lines around it. A call names a position of
`seen`, and the diff is computed again: `DoesWhatItWasAsked` says that the hunk shown there is the one acted on
as long as it stands there, that otherwise the one that has come to its place is, that nothing else of the file
changes state in either case, and that no text of the old view gets into the index or the file.

**Resolution.** `written` is what each file and environment declares, `session` and `extra` what runs and
scripts left. `Sent` is the whole of `resolveWith` as one expression: lookup by level, expansion with its
guard against cycles, what was used, missing and secret. The setters of the session are the actions.

**Inheritance.** `lines` and `auth` are the three files of a chain; `Prepare` and `Levels` are the functions
of the same name, and the editor's and the folder's accounts are computed beside them from the same state.

**HttpFile.** The parser is a state that takes one line a step, by the kind of the line; `Serialize` writes
entries back line by line; `Renamed` does what `setRequestName` does. The text of the n-th line is `<<n>>`, so
a line lost, doubled or moved shows.

**ScriptedSend.** One send after another walks the steps of `run`: the script phases with any sequence of the
calls that the realm provides there, resolution, the exchange with redirects, the checks. `node` is the parsed
request that a walk shares with the window, `view` the one scripts reshape, `kept`, `envFile` and `scratch`
the scopes. `meant`, `began`, `wrote`, `ran` and `evals` are history. `ScriptsKeepTheirWord` says what the code
does where FORMAT.md says otherwise: a phase that runs out of its budget after the response keeps response and
tests, a failed test or a thrown script exits with 1, and a module is evaluated once in each of the two realms.
The documented forms are stated below it and fail (`ScriptsStay.cfg`).

**PostmanImport.** `items` grows by one item or environment at a time; `Files` and `Report` are the whole
import of what is there so far, and the readers of those files are the project's own `HttpFile` and
`Inheritance`. One axis at a time is varied (names, auth, scripts, texts, texts with lines that mean something to
the parser, environments). `ImportsFaithfully` says exactly what does not arrive: `WrittenOver`, the first of two
scripts of one phase or of two environments of one slug, and the lines that nothing escapes, an `@auth` of a
description and a `###` of a body, which stand for others (`>`, `@name`).

**Arrivals.** A directory is there or not, and a file is of whoever wrote it last. Each bound call is the
steps between which another may act; git is a process that begins, checks out, fails or is killed.

Left out everywhere: wording, formatting, paths as text, bytes of a response, HTTP itself. What is external is
marked so in the `map` of `PROJECT.json`: the person at a dialog, the client that hangs up, another editor,
the exchange, git, the script's author.

## Runs

Sizes are distinct states. Each run ends within five minutes with two workers.

| run | instance | states | what it shows |
|---|---|---|---|
| `agent_calls` | 2 calls, 1 intent, 2 fingerprints, budget 1, 1 edit, one set of troubles per behaviour | 3,096,062 | `EverySendWasAgreed`, `AccountsAreTrue`, `KillSwitchStopsUnspent` |
| `agent_calls_end` | the same, kill switch or window closing, with fairness | 262,328 | `EveryCallEnds` |
| `agent_server` | 3 calls of any method, 4 servers, any step may fail, with fairness | 294,639 | `ServiceAndEndpointAgree`, `KillSwitchHolds`, `EveryCallReturns` |
| `send_pane` | 2 sends, 2 collections, 1 gesture, up to 2 responses held, each larger than the byte limit, with fairness | 619,061 | `PaneAndStoreAgree`, `EverySendSettles` |
| `folder_run` | 2 runs of a folder of 2, 1 gesture, by window or agent, with fairness | 586,410 | `AllAccountedFor`, `SummaryTellsHow`, `RowsTellTheSummary`, `ShownRunEnds` |
| `agents` | previews: 2 ids, 2 tools, 2 fingerprints, 2 ticks a second, 4 to live, 6 of clock; budgets: run at price 3 and burst 2, write at 2 and 1, an unknown capability, 6 ticks; policy: every input; tools: 2 calls, 2 requests of 3 versions with 7 addresses between them, 2 environments, budget 2, 1 edit | 1,022,192 | `SpentAsPreviewed`, `FreshUntilUsed`, `NoSecondTry`, `KeepsPromise`; `RateBound`, `NeverRefusesThePatient`; `GatesHold`, `TighteningNeverLoosens`; `ActsAsAgreed`, `CallsAreAccountedFor` |
| `collection` | window: 2 calls, 2 texts, 2 announcements; tree: 2 folders, 2 names, 2 operations, 2 undo entries, 1 edit by another; settings: 2 overlapping calls of any of 12 methods, 2 variables, 1 edit, 1 failure; coming: 2 calls on 2 directories, 1 stranger | 3,126,451 | `RereadKeepsTyping`; `ShownOnceAndInOrder`, `OthersStayAsTheyAre`, `UndoTakesBackItsOwn`; `FilesAndStoreAgree`, `WritesTouchOneRow`; `ArrivesAsAnswered` |
| `rules` | watcher: 2 collections, 2 files, 2 writers, 1 edit, 2 opens; names: 2 names over 8 places, 2 declarations, 1 value held; folders: 3 levels, 2 headers, 3 lines; file: 19 kinds of line, 4 lines; review: 2 files, 5 lines, 2 edits; scripts: 2 sends, 2 script calls, 1 redirect, 2 modules; imports: 3 items, 6 axes | 2,451,656 | `EveryChangeIsAnnounced`, `GuardAndCacheHold`; `NamesAreAnswered`, `SecretsStayHidden`; `SettingsHoldAsTold`; `SavingIsHarmless`; `EveryChangeIsListedOnce`, `DoesWhatItWasAsked`; `ScriptsKeepTheirWord`; `ImportsFaithfully` |

and four runs that end in a counterexample, each about a sentence of the repository (`sent_after_disconnect`,
`pane_adopts_stale`, `second_run_cancel`, `script_changes_stay`): see *Where code and words part*.

**Why three runs hold several parts.** `agents`, `collection` and `rules` instantiate modules that share no
variable. `part` is chosen once, and a behaviour is of that part alone, so the states are the sum of the
parts' and not their product. Of the parts that are extended, which have theorems in a module of their own, run and
theorem state one definition, and they stay in their initial state in the behaviours of another part. Of those
that are instantiated a property is guarded by its part, and the theorems of `CollectionProofs` are about the
composed specification and its guarded properties. Nothing is lost by it, since no action of one part reads
or writes a variable of another. Where components do share state they are composed in earnest:
`AgentCalls` with the store of previews and the rules, `SendPane` with `Sends`, `FolderRun` with the panel,
`Documents` with the service and the watcher, `PostmanImport` with the parser and the inheritance that read
what it wrote.

**Why these bounds.** The races are between two actors over one resource, so two calls (or sends, runs,
writers) and one resource show each pairwise order; in `AgentServer` a third call lets a stop overlap a start
that overlaps a setter. Two fingerprints and two tools are what `Redeem` can tell apart. A clock needs the
second, the truncated moment, the last live tick and one past it: 6 ticks for a life of 4. A limiter needs a
burst spent, earned again and capped: twice the price. A kept response of size 2 with a limit of 1 is larger
than the whole limit, the interesting eviction. `agent_calls` allows one combination of trouble in a behaviour
(an edit; the RUN switch; a refill with the window closing; the kill switch with a dropped connection) rather
than all at once, and each property involves at most two of them. Two names are a reference and what it refers
to, or a cycle; a request in a folder in a root is every level there is, plus one. Five lines with one line of
context and two edits make hunks that merge and hunks that do not. Four lines of a file are a title, a directive, a
request line and one thing after it, in any order. Two sends show what one leaves for the next. Symmetry is
used on model values that are alike, in runs with safety properties only.

**Deadlock.** A bounded instance ends: the calls are made, the clock is at its horizon. The configurations of
such systems say `CHECK_DEADLOCK FALSE`, and that nobody waits for ever is a liveness property instead
(`EveryCallEnds`, `EveryCallReturns`, `EverySendSettles`, `ShownRunEnds`).

**Fairness.** Only what a scheduler gives: weak fairness of each call's or send's own next step (goroutines
that can run do run), of the kill switch once begun, of timers (`Tick`), of the delivery of an emitted event,
and of a started change of collection. Nobody has to answer a dialog, press a button, edit a file, or make a
call, and the client's elicitation, whose answer is not in Otis' hands, is off in the run of `EveryCallEnds`
(`ClientAsks FALSE`): there the code waits for the client or its hang-up. An exchange is assumed to end: the
HTTP client has its own timeout.

**Mutants.** Each property of a passing run has a mutant in `PROJECT.json`, a plausible slip in the code (a
guard dropped, a sweep forgotten, the budget spent before the approval, an unlock too early) under which TLC
finds that property violated.

## Proofs

Checked by TLAPS, for every value of the constants that meets the named assumption.

- **Previews** (`IntentsAssumption`: clock constants are positive naturals, the sets arbitrary). The inductive
  invariant is `TypeOK /\ Consistent /\ SpentAsPreviewed /\ NoSecondTry`. `SpentAsPreviewed` is not inductive
  alone: that what the *store* holds for an id is what was *shown* for it (`Consistent`) is needed when it is
  redeemed, and that a redeemed or refused id is out of the store when it is presented again. From it:
  `PreviewsKeepTypes`, `SpendsWhatWasShown`, `OneTry`, `FreshPreviewsStay`, and `StoreKeepsPromise`: under the mapping
  `Stage` from the store and its history to a permit's life, each step of the store is a step of `Permit` or a
  stutter.
- **Rate limits** (`LimiterAssumption`: prices and bursts are positive; any capabilities, known or not). The
  invariant adds to the types that nothing was admitted by a bucket no call has touched (`Untouched`) and the
  balance `NothingEarnedTwice`: what was admitted since the observer began, and what is left, is no more than
  what was there and what was earned. `RateIsBounded` follows by arithmetic.
  `ThePatientAreNeverRefused`: a call that comes a full price after the last finds a token, in a bucket that
  earned one since or that was full.
- **Policy.** `TheStrictestGateDecides`, `UncommittedIsNeverQuiet` and, from both, `GatesAlwaysHold` follow
  from the types and the fact that an environment that allows and confirms is never current, which validation
  keeps. `TighteningIsMonotone` is an action property: the verdict is the strictest of a set of gates
  (`StrictestGate`), and each tighter switch, environment, edit or secret adds to the set.
- **Tool calls** (`CallStoreAssumption`: a preview lives a second at least; any calls, ids and worlds, every
  disturbance at once, where the run allows one a behaviour). `IInv` has a part for each concern:
  `StoreIsSound` (what the store holds is what was shown, unspent), `Placed(c)` (what is settled by the place a
  call has come to: charged or not, agreed or not), `Accounts(c)`, `SpentOnce` (two calls that got past the
  redeem spent different previews), `Judged(c)` (what a call was judged on is the world, unless edited),
  `Voided` (past the voiding no call presents an id that is held) and `Shipped(s)` (a send carries its call's
  own verdict and preview). `SpentOnce` is the heart: several calls verify one preview and wait in the same
  dialog, and only the redeem tells them apart. From it `NothingLeavesUnagreed`, `TheAccountsAreTrue`,
  `VoidedPreviewsStaySo`. `AgentCalls` instantiates the store, and the prover cannot cite lemmas proved in a
  module that extends what is instantiated here, so the facts about the store are proved over again.
- **Other tools** (`AgentToolsAssumption`: requests are numbers, as the folder orders them, environments are
  valid, what stands for no intent is none; any calls, requests, versions, environments and values, any
  function from them to addresses, any budget, any number of edits). A call is one record, so nearly every step is of one shape, and `CallKeeps` proves once what
  such a step must show for the whole invariant to be kept: of the call itself `Placed` (its tool, its intent,
  nothing decided before it is done), `Wanted` (past the dialog a session write is of what was shown and agreed
  to, and its name has been free since, or is not free and will be looked at again) and `OnCourse` (while
  nothing moves since the second plan, that plan is the folder's and what the run has left is as the folder has
  it now; the plan is the one the preview *showed*, however long ago; and what it is about to send was agreed
  to or found clean). `Recorded` says how who wrote or sent has ended. `Paid` counts what is
  done *and* what is paid for and in hand, without which neither payment nor send keeps the balance. From them
  `TheToolsActAsAgreed` and `CallsAreAccounted`. That a run's next request exists is that numbers are well
  founded (`FirstIsLeft`).
- **Server switch** (any calls and servers, any step failing where `CanFail` says so). A call is what it has
  left of its program, and `Orderly` says of any such rest which step follows which: proved once of each
  `Program` and kept by taking the head. `Owned` ties starts and removals to the servers and mutexes they are
  of, overlapping or not; from it `ClaimIsTrue`. `InTurn` and `Finality` hold while no call has overlapped
  another: what listens is held and findable, and after the kill switch neither the settings nor what a call
  has read of them grants anything. From them `TheyAgree`, `TheKillSwitchIsFinal`.
- **Response pane** (`SendsAssumption`, `SendPaneAssumption`: any number of sends, collections and gestures,
  any limits and sizes). `Ended`: what an event reports as ended is done. `Apart`: while no send was under way
  at a change of collection, those under way are of the open one, and none is during a change. `Alone`: a pane
  that knows no id is alone with its send, in the events, the questions and the goroutines. Of the store:
  eviction takes a beginning and never the newest (`EvictsTheOldest`, by the least number that fits), a discard
  takes one and leaves the last (`DroppingKeepsTheRest`). From them `PaneAndStoreGoTogether`. Two limits meet
  in this store and an entry may be larger than both, so `NewestIsHeld` is not a matter of a bound.
- **Folder runs** (`FolderRunAssumption`: numbers of runs and gestures, and at least one request).
  `Counted(r)`: the tallies, the request under way and what is left add up to the plan, in each place of the
  loop, where "left" is counted from an index that includes the request under way in some places and not in
  others. From it `EveryRequestAccountedFor`. `Reason(r)`: what the summary will say of the end has happened;
  from it `TheSummaryTellsHow`. For `TheRowsTellTheSummary` the rows of a run are those in the panel and those
  in events on their way (`Told`), and `Tallied(r)` says they are as many as the run has counted, though the
  panel drops what is of another run; `Queued(k)` and `Drawn` keep the queue in order and one event to a
  request.
- **Watcher, guard, walk** (`WatchingAssumption`: finitely many writers and openers, any files and
  collections). `Carried`: a write the window has still to hear of is with its writer, if it is Otis' own, and
  otherwise with the watcher of the present generation, as an event, in its timer or in a report that has yet
  to walk or saw the write when it did. `Generations` says which watcher that is and that it is on the open
  collection. From it `NothingGoesUnheard`; `TheyHold` counts the writers of a file.

- **Files of a collection** (`CollectionAssumption`: the open folder is not one of those to be made, the value
  that stands for nothing is none of those it stands in for, others touch names there are, at least one number can
  be taken and one operation undone, the methods are those there are, a credential is neither a plain value nor
  the mark of a reference, and the first file names a variable once: `resolve/env.go:329` keeps the last of two). `CollectionProofs` is about `MCCollection` as a whole. An invariant
  speaks of the behaviours of its part, and of the other parts' steps it only needs that they leave `part` alone.
  - *Documents* (any calls, texts and announcements): `WindowInvariant`, that nothing was lost and the document
    has a draft. The step that counts is the answer to a re-read, which finds the document dirty or not whatever
    it was when the re-read began (`ReconciledKeepsDraft`). From it `CollectionKeepsTyping`.
  - *Ordering and undo* (any folders, names and entries, a stack of any length, any number of operations and of
    edits by others): `CollectionUndoesItsOwn` and `CollectionOverwritesNothing` are of a step, and take
    `TreeInvariant` before it. A frame of the stack speaks of distinct folders (`Sound`), or putting back one
    of its files would undo the one put back before; every operation pushes such a frame (`PushIsSound`), and
    the stack that is cut to its limit still holds only such. Such a frame's `then` is what its files say was there
    before, so that giving them back gives back `then`. `Goes` shows once that an entry that goes to a
    free place takes nobody's; `UniqueIsFree` that the name the code makes is free, by the least number that
    is not taken (`MinIsThere`).
  - *What comes* (any directories, calls and others, any overlap of them). `ArrivesAsAnswered` has three parts
    and none is inductive. For the answers, `StandsAlone` says of a call at each of its stages what it found in
    its directory and what it has left there, as long as nobody else has been about it. It rests on `Staged`
    (a stage is one of what the call is) and `NothingInNothing` (a directory that is not there holds nothing,
    so that a clone that found none and removes it leaves what it found). For the slot, `SlotHeld`, which the
    run's invariant already says. For what is shown, calls that come one after another: `OneAtATime`,
    `Pulled` (a window that is mounted and has not been told has nothing left to take) and `ShowsCurrent` (what
    it shows, or is about to take, is what is open). From them `CollectionArrivesAsAnswered`.
  - *Environments and secrets* (any names, values and first file, any number of overlapping calls, of failures
    and of edits by others). A call is the list of steps it has left, so that files and store agree after every
    call is a statement about a future: `WillSettle` says that what is stored, with the steps left done to it,
    agrees, as long as one call came at a time and none failed. That is kept by a step only if no later step
    undoes it, which is `StepsApart` (`Clear`: what is put is not dropped or moved by another step, a file is
    written or removed once), and it is shown step by step (`PutDone` to `ActivateDone`) and once for each
    method as it begins (`SetIsSound` to `DuplicateIsSound`). `SettingsTypes` adds that the names in a file
    are distinct, without which a reference removed once would be there still, and that no file holds a
    credential, which holds under any overlap. `WritesItsRow` says of a call no other write has overlapped
    that the file it holds is the file there is but for its own row. All four make `SettingsInvariant`; from it
    `CollectionFilesAndStoreAgree` and `CollectionWritesTouchOneRow`. They rest on what filtering a list does
    (`Rows`): `OnlyHas`, `OnlyTwice`, `OnlyAlike`, `OnlyIsDistinct`, each by the least number for which it
    would fail (`NumberByNumber`, from `WFMin`), since the induction theorems cannot be instantiated.

Model-checked only:

- liveness and fairness, which the prover does not do, nor `ENABLED`: `EveryCallEnds`, `EveryCallReturns`,
  `EverySendSettles`, `ShownRunEnds`;
- `ShownOnceAndInOrder` and `OthersStayAsTheyAre`: `.order` files are filtered, sorted and joined as the code
  does it, with `SelectSeq`, the sort and the folds of the libraries, which take an operator as a parameter,
  and of what they yield nothing has been proved. The filter of `Environments` was in reach once it was a
  recursive function of its own that takes a set (`Rows`);
- `Resolution`, `Inheritance`, `HttpFile`, `Staging`, `ScriptedSend` and `PostmanImport`, whose substance is
  what a recursion over files, lines or folders yields for every input. Two of them declare `RECURSIVE`
  operators; no module proved about reaches one.

## Where code and words part

Four have a run that ends in a counterexample.

1. `sent_after_disconnect`. `docs/MCP.md:823` and `mcpserver/server.go:217` say calls in flight are cancelled
   when the server is cut off. The context that is cancelled is nobody's parent; `Shutdown` waits two seconds
   and returns, and a call past its redeem sends after `Disconnect` has returned. `KillSwitchStopsUnspent` is
   what does hold: a preview not redeemed by then never is.
2. `pane_adopts_stale`. `send-context.tsx:184` says events of a superseded send are dropped. Until the new id
   is known they are taken for the new send's.
3. `second_run_cancel`. `run-context.tsx:49`: cancel takes the first run that ever was of the folder, so from
   the second run on it does nothing.
4. `script_changes_stay`. `docs/FORMAT.md` 9.1 says nothing survives from one send to the next but what a
   script writes to a scope. `scriptrun/apply.go:30` writes what the script shaped into the parsed request of
   the walk, where the next send finds it until the folder is read again.

Others have a configuration beside the runs; `tlc -config <file>.cfg <module>` ends in the counterexample.

| configuration (module) | violated | what it shows |
|---|---|---|
| `AgentServerRevived` (`AgentServer`) | `KillSwitchIsFinal` | `services/mcp.go:465` calls the kill switch final; a setter that read the settings before it and wrote after (`mcp.go:280`) puts the grants back. With no overlap it is final. |
| `DocumentsTorn` (`Documents`) | `QuietDocumentShowsTheFile` | a re-read is two reads, of the file and of the walk, and can pair old with new (`documents-context.tsx:283`) |
| `OrdersParted` (`MCOrders`) | `RefusedUndoLeavesAll` | `order.go:377` says every file is checked before any is touched; a move's rename is taken back first, and the undo is then refused for good because the entry is back |
| the same, with the other property | `OneLineChanges` | a bare line names a file and a folder of the same name, and an operation on one takes the line of both |
| `EnvironmentsFault` (`Environments`) | `FailureKeepsValues` | `environment.go:481` says a failure leaves a value reachable; a rename whose read of the store fails renames the reference all the same, and one that fails to write the file has moved the value already (as `environment.go:448` has removed it) |
| `HttpFileSpaced` (`HttpFile`) | `WrittenIsReadBack` | `>  {% s %}` with two blanks is read as a handler's file name |
| `StagingStale` (`MCStaging`) | `StaleViewReachesNothingElse` | `diff/apply.go:90` and `services/diff.go:84` say a stale view cannot stage something else; the position may have become another hunk's, and that one is staged |
| `ImportsParted` (`PostmanImport`) | `OneCredential` | an API key written as a header goes out beside an inherited `Authorization` |
| the same, with another property | `ReadsBackAsPlanned` | `docs/FORMAT.md` 7 says a description becomes `#` comments and a raw body is verbatim; a line `@auth` of the one becomes a directive, a line `###` of the other ends the request |
| the same, with another property | `NothingIsLostSilently` | two scripts of one phase, or two environments of one slug: the second overwrites the first, and the report names neither |
| `ScriptsStay` (`ScriptedSend`), which the run `script_changes_stay` uses, with another property | `ExitsAsTold` | `docs/FORMAT.md` 8, `cli.go:5` and `run.go:45` give 1 to an error status alone and 2 to any other problem; `run.go:212` exits with 1 for a failed test and a thrown script |
| the same, with another property | `BudgetFailsTheSend` | `docs/FORMAT.md` 9.3: past the budget the send fails and no partial result is kept; after the response both stay (`send.go:896`) |
| the same, with another property | `OnceASend` | `docs/FORMAT.md` 9.8 and `script/modules.go:41`: a module is evaluated once per send; each phase has a realm of its own |
| the same, with another property | `AddedKeepsTheOthers` | FORMAT 9.5 and 9.7: `headers.add` keeps the others; a secret put on one replaces the value of every header of that name |
| the same, with another property | `WrittenIsReadBack` | `host.go`: a value a script writes can be read back; the environment's file is not read again in a send |
| `ArrivalsLate` (`MCArrivals`) | `DoneStays` | a clone that fails removes its destination though another call made it since the clone looked (`gitclone.go`) |
| the same, with the other property | `StoppedSwitchesNothing` | a clone cancelled after git has ended still opens the collection, against the comment at `clone-dialog.tsx:129` |

Where a configuration has several, one property is listed and the others are in a comment to exchange for it.

Met while reading, without a run:

- `docs/MCP.md:498` says what is sent is what was shown. The redeem compares a fingerprint taken before the
  person was asked (`mcpserver/run.go:128`), and the send resolves the file again. `DriftsOnlyUnderEdit` is
  what holds: the two differ only if the file was edited in between.
- `docs/MCP.md:816, 1327` speak of calls logged as rate-limited; `run.go:95, 135` return a refusal and
  `tools.go:167` logs it as refused. The dialog's minute and the preview's start apart, so a call may be
  refused though a person agreed (`confirm.go:43`).
- A folder run sends a file's edited content quietly after its tree was read clean and edited since; a run
  whose requests were all refused is logged as allowed; headers or a body edited, or an
  environment switched, between plan and run go unnoticed if the URLs are equal, so `RunsWereAgreed` promises
  the address and not the rest; the policy of a session write is read before the dialog and not after. A
  `create_request` that is refused at its second step leaves the stub it made. MCP.md 8.1 aside, an intent is
  not spent when `SessionTarget` fails in the second phase.
- A start that is overtaken by a stop while it binds can leave a listener no pointer holds
  (`services/mcp.go:422`). Switching off and on quickly can let the old server's close remove the new server's
  endpoint file (`server.go:264`, `docs/MCP.md:75`).
- `run-context.tsx:25` says a second run cancels the first in Go; nothing does. Its `start` is memoised on the
  environment alone, so the drafts it saves first may be old ones. `send.go:1300` says the response pane fills
  in as a folder runs; `apply` drops events of sends the pane did not begin. A run cancelled in a request whose
  failure stops it reports "stopped". A row reads "passed" though a test failed, where `otis run` exits with 1.
- A press that Send refuses leaves the pane without an id, and `apply` takes the events of the next send of that
  request for the pane's, whoever makes it: an agent's or a folder run's response appears in a pane that showed
  an error (`send-context.tsx:190`). The proof of `PaneShowsItsOwnInTurn` failed on it where the bounds of the
  run had hidden it, and `mixed` now says so.
- A send that has loaded its file just before a close, and registers after, is missed by `cancelAll`; one past
  its last look at its context keeps its response, cookies and session variables in what the close has just
  reset (`send.go:945`). `NothingLeftBehind` therefore speaks of behaviours in which no send was under way at
  a change of collection (`crossed`).
- `watcher.go:121`: nothing is to be reported after `Close`; a timer function past its look at `done` may.
  `guard.go:107`: another editor's write within the grace after Otis' own is dropped, so
  `EveryChangeIsAnnounced` excuses it. `collection.go:450`: two walks at once may be cached in the wrong
  order. Two concurrent `Open`s leak a watcher, and `Open` walks before it watches.
- `documents-context.tsx:184`: what is typed during a save is replaced by what the save wrote.
- Staging: `UnstageHunks` of a staged deletion does nothing, `StageHunks` of one stages an empty file; a file
  whose HEAD blob is over the limit is discarded to an *empty* file; staging another hunk drops one staged
  before and edited since; discarding a renamed row leaves the old path deleted, and staging it stages the new
  half only.
- Scripts: a module has what its importer has, `request`, `response`, `test` and `expect` included, where FORMAT
  9.8 says it has not (`ScriptedSend` lets a module call them). An imported `var responseBody` becomes
  `var response.body`, which does not parse; a script file that cannot be read, or is too large, is left out of
  the plan unsaid.
- A file whose URL continues as `  ?a=1 b=2`, or an entry of settings only whose headers were blanked, is
  written in a form the parser does not read back.
- A cancel pressed before a clone has taken its slot does nothing. A failed import leaves the files it wrote,
  and they block the same destination. An import's answer names a root that is stale if the open collection
  changed meanwhile.

## What is left

**Partly modelled.** The server switch (port conflicts, token text, status queries), the sender (the paging of
a held response), the other tools (`create_folder` and `update_documentation`, which write what no send
reads), imports (curl is a conversion of one text), the HTTP client (preparation, redirects and the outcome of
an exchange are modelled; bodies, cookies, certificates and signatures are not) and the command line (`otis
run` is; the other commands call the same packages once and print).

**Not modelled.** The settings store's recents and recovery, the audit file's rotation, and which values a
redactor hides in a reply about another request, which are small and next in line. The line index and folding
of a held response are about bytes, and its package's own tests reach what matters there. Views (tabs, panes,
palette) are presentation. Build and bindings are configuration and generated code.

**Theorems left.** Of the invariants the runs check those remain that are listed above as model-checked only.
`OthersStayAsTheyAre` would be next, and then `ShownOnceAndInOrder`: with `Applied`, the sort and the joining of
`.order` lines written as recursive functions, the facts about them could be shown the way those of `Rows` were.
