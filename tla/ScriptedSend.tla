---------------------------- MODULE ScriptedSend ----------------------------
(***************************************************************************)
(* One request and the scripts around it, sent again and again by the      *)
(* window and by `otis run`: src/internal/scriptrun, src/internal/script,  *)
(* run in src/internal/services/send.go, runRequest in src/cmd/otis/run.go *)
(* and Do in src/internal/httpclient/client.go.                            *)
(*                                                                         *)
(* The request's file has a header "h", its folder a header "k" whose      *)
(* value is {{x}}, and the active environment may hold x and one secret.   *)
(* A script is any sequence of calls on what the realm gives it, and the   *)
(* scripts of a phase, the folder's and the request's own, share the realm. *)
(*                                                                         *)
(* A text is named for what it holds: "file" and "plain" are literal,      *)
(* "ref" is {{x}}, "mask" is what a secret handle turns into, "secret" the *)
(* value behind it, and any other is a value of x, named for who wrote it. *)
(*                                                                         *)
(* meant, began, wrote, ran and evals are history variables: the request   *)
(* as the calls so far asked for it, the view they began with, the scope   *)
(* x was last written to, the tests that ran, and how often each phase of  *)
(* this send has evaluated each module.                                    *)
(***************************************************************************)
EXTENDS Naturals, FiniteSets, SequencesExt

CONSTANTS MaxSends,      \* bound: sends in a behaviour
          MaxCalls,      \* bound: script calls in a behaviour
          MaxRedirects,  \* hops the client follows
          Module,        \* files of the collection that scripts may import
          Unset          \* no value

HeaderName == {"h", "k"}
Body == "body"
Handled == HeaderName \cup {Body}
Scope == {"request", "session", "env"}
Caller == {"window", "cli"}
Place == {"folder", "own"}

VARIABLES
    request,   \* the parsed request of the walk the window holds
    session,   \* the folder's session value of x
    envFile,   \* x in the active environment's file, "inactive" when there is none
    sends, calls,
    step, caller,
    hooks,     \* whose scripts this send has: the folder's, the request's own
    todo,      \* those left to run in the phase, the first being under way
    node,      \* the parsed request this send works on
    held,      \* whether that is the one in the window's walk
    view,      \* what pre-request scripts read and shape
    handles,   \* slots a secret handle was put on
    changed,
    scratch,   \* x as vars.request.set left it, for this send
    private,   \* the session value of a store that ends with its send
    env,       \* the environment as it was read when the send began
    modules,   \* modules evaluated in this realm
    loading,   \* the chain of imports under way
    wire,      \* what went out, or Unset
    masked,    \* whether the masker knows the secret
    hops,      \* redirects followed
    tests,     \* results recorded
    outcome, exit,
    status,    \* what the server answered, once the send is over, or 0
    meant, began, wrote, ran, evals

sharedVars  == <<request, session, envFile>>
viewVars    == <<node, held, view, handles, changed>>
scopeVars   == <<scratch, private, env>>
moduleVars  == <<modules, loading, evals>>
wireVars    == <<wire, masked, hops>>
resultVars  == <<tests, outcome, exit, status, ran>>
historyVars == <<meant, began, wrote>>
vars == <<sharedVars, sends, calls, step, caller, hooks, todo, viewVars, scopeVars, moduleVars,
          wireVars, resultVars, historyVars>>

Header(n, v) == [name |-> n, value |-> v]
Written == [own |-> <<Header("h", "file")>>, url |-> "file", body |-> "file"]
Inherited == <<Header("k", "ref")>>

Without(headers, n) == SelectSeq(headers, LAMBDA header : header.name # n)

\* The request's own lines after the folder's, and in place of those they name.
Effective(own) ==
    SelectSeq(Inherited, LAMBDA header : \A j \in DOMAIN own : own[j].name # header.name) \o own

RequestView(entry) ==
    [headers |-> Effective(entry.own), url |-> entry.url, body |-> entry.body]

Steps == {"idle", "begun", "pre", "prepared", "wire", "post"}
Outcomes == {"none", "script", "resolve", "request", "cancelled", "timeout", "redirect",
             "network", "complete", "complete after a script error", "complete after a timeout"}

\* How the scripts about a response end: a throw of one stops the phase, as its budget does.
Endings == {"through", "threw", "killed"}
Phase == {"pre", "post"}
NotEvaluated == [phase \in Phase |-> [m \in Module |-> 0]]

TypeOK ==
    /\ session \in {Unset, "session"} /\ envFile \in {"inactive", "env", "rewritten"}
    /\ sends \in 0..MaxSends /\ calls \in 0..MaxCalls
    /\ step \in Steps /\ caller \in Caller
    /\ hooks \subseteq Place /\ todo \in Seq(Place)
    /\ handles \subseteq Handled /\ changed \in BOOLEAN /\ held \in BOOLEAN
    /\ scratch \in {Unset, "scratch"} /\ private \in {Unset, "session"}
    /\ env \in {"inactive", "env", "rewritten"}
    /\ modules \subseteq Module /\ loading \in Seq(Module)
    /\ masked \in BOOLEAN /\ hops \in 0..(MaxRedirects + 1)
    /\ tests \in Seq(BOOLEAN) /\ ran \in Seq(BOOLEAN)
    /\ outcome \in Outcomes /\ exit \in 0..2 /\ status \in {0, 200, 404}

Init ==
    /\ request = Written
    /\ session = Unset /\ envFile \in {"inactive", "env"}
    /\ sends = 0 /\ calls = 0
    /\ step = "idle" /\ caller = "window" /\ hooks = {} /\ todo = <<>>
    /\ node = Written /\ held = FALSE /\ view = RequestView(Written) /\ handles = {} /\ changed = FALSE
    /\ scratch = Unset /\ private = Unset /\ env = envFile
    /\ modules = {} /\ loading = <<>> /\ evals = NotEvaluated
    /\ wire = Unset /\ masked = FALSE /\ hops = 0
    /\ tests = <<>> /\ ran = <<>> /\ outcome = "none" /\ exit = 0 /\ status = 0
    /\ meant = RequestView(Written) /\ began = RequestView(Written) /\ wrote = Unset

-----------------------------------------------------------------------------
(* The shared state, with a send under way or none.                        *)

\* A walk of the folder reads the request's file again; a send keeps the one it has.
Refresh ==
    /\ request # Written \/ held
    /\ request' = Written /\ held' = FALSE
    /\ UNCHANGED <<session, envFile, sends, calls, step, caller, hooks, todo, node, view, handles, changed,
                   scopeVars, moduleVars, wireVars, resultVars, historyVars>>

ClearSessionVars ==
    /\ session # Unset
    /\ session' = Unset
    /\ UNCHANGED <<request, envFile, sends, calls, step, caller, hooks, todo, viewVars, scopeVars,
                   moduleVars, wireVars, resultVars, historyVars>>

-----------------------------------------------------------------------------
(* The beginning of a send.                                                *)

NewRealm == modules' = {} /\ loading' = <<>>

\* The window's send works on the walk it holds, `otis run` on one of its own and on a
\* session store that ends with it.  Both read the environment once.
Begin(who) ==
    /\ step = "idle" /\ sends < MaxSends
    /\ sends' = sends + 1
    /\ caller' = who
    /\ step' = "begun"
    /\ node' = IF who = "window" THEN request ELSE Written
    /\ held' = (who = "window")
    /\ view' = RequestView(node')
    /\ handles' = {} /\ changed' = FALSE
    /\ scratch' = Unset /\ env' = envFile
    /\ private' = Unset
    /\ hooks' = {} /\ todo' = <<>>
    /\ NewRealm /\ evals' = NotEvaluated
    /\ wire' = Unset /\ masked' = FALSE /\ hops' = 0
    /\ tests' = <<>> /\ ran' = <<>> /\ outcome' = "none" /\ exit' = 0 /\ status' = 0
    /\ meant' = view' /\ began' = view' /\ wrote' = Unset
    /\ UNCHANGED <<sharedVars, calls>>

\* A send without a response: a failure for the window, exit code 2 for the shell.
Fail(kind) ==
    /\ step' = "idle"
    /\ outcome' = kind /\ exit' = 2
    /\ todo' = <<>>
    /\ UNCHANGED <<sends, calls, caller, hooks, tests, ran, status>>

\* The order of a phase's scripts: from the folder in, and back from the request out.
Plan(phase, places) ==
    LET order == IF phase = "pre" THEN <<"folder", "own">> ELSE <<"own", "folder">>
    IN  SelectSeq(order, LAMBDA place : place \in places)

\* The scripts that can be read are the plan; one that is missing or larger than a hook
\* may be is left out of it.
PlanScripts(places) ==
    /\ step = "begun"
    /\ step' = "pre"
    /\ hooks' = places /\ todo' = Plan("pre", places)
    /\ UNCHANGED <<sharedVars, sends, calls, caller, viewVars, scopeVars, moduleVars, wireVars,
                   resultVars, historyVars>>

\* The environment cannot be read, or @script-timeout is no positive number of seconds.
PlanFails ==
    /\ step = "begun"
    /\ Fail("resolve") \/ Fail("request")
    /\ UNCHANGED <<sharedVars, viewVars, scopeVars, moduleVars, wireVars, historyVars>>

-----------------------------------------------------------------------------
(* What a script can call.                                                 *)

\* What a realm has: there is nothing to test before there is a response.
Provided(phase) ==
    {"vars", "secrets", "request", "import"}
        \cup (IF phase = "post" THEN {"response", "test", "expect"} ELSE {})

\* Calls are the script's that is under way, or of a module it imports.
Calling(what) ==
    /\ step \in {"pre", "post"} /\ todo # <<>> /\ what \in Provided(step)
    /\ calls < MaxCalls /\ calls' = calls + 1

\* The request can be shaped until it has been sent.
Shaping == step = "pre" /\ Calling("request")

\* What a script can hand to a setter; secrets.ref needs an environment to declare it.
Given == {"plain", "ref"} \cup (IF env = "inactive" THEN {} ELSE {"handle"})

\* A handle is shown by its mask wherever text is made of it.
Text(v) == IF v = "handle" THEN "mask" ELSE v
Real(v) == IF v = "handle" THEN "secret" ELSE v

\* Mutant of Remembered: a plain value leaves the slot's handle where it was.
RememberedForGood(slot, v) == IF v = "handle" THEN handles \cup {slot} ELSE handles

\* The handle put on a slot is remembered, and forgotten with the value it stood for.
Remembered(slot, v) == IF v = "handle" THEN handles \cup {slot} ELSE handles \ {slot}

Replaced(headers, n, v) ==
    LET at == {i \in DOMAIN headers : headers[i].name = n}
        first == CHOOSE i \in at : \A j \in at : i <= j
    IN  IF at = {} THEN Append(headers, Header(n, v))
        ELSE Without(SubSeq(headers, 1, first - 1), n) \o <<Header(n, v)>>
                \o Without(SubSeq(headers, first + 1, Len(headers)), n)

Shape(newView, newMeant) ==
    /\ view' = newView /\ meant' = newMeant /\ changed' = TRUE
    /\ UNCHANGED <<sharedVars, sends, step, caller, hooks, todo, node, held, scopeVars, moduleVars,
                   wireVars, resultVars, began, wrote>>

SetHeader(n, v) ==
    /\ Shaping
    /\ handles' = Remembered(n, v)
    /\ Shape([view EXCEPT !.headers = Replaced(@, n, Text(v))],
             [meant EXCEPT !.headers = Replaced(@, n, Real(v))])

AddHeader(n, v) ==
    /\ Shaping
    /\ handles' = Remembered(n, v)
    /\ Shape([view EXCEPT !.headers = Append(@, Header(n, Text(v)))],
             [meant EXCEPT !.headers = Append(@, Header(n, Real(v)))])

RemoveHeader(n) ==
    /\ Shaping
    /\ handles' = handles \ {n}
    /\ Shape([view EXCEPT !.headers = Without(@, n)], [meant EXCEPT !.headers = Without(@, n)])

SetBody(v) ==
    /\ Shaping
    /\ handles' = Remembered(Body, v)
    /\ Shape([view EXCEPT !.body = Text(v)], [meant EXCEPT !.body = Real(v)])

\* The URL takes text and no handle.
SetURL(v) ==
    /\ Shaping /\ v # "handle"
    /\ UNCHANGED handles
    /\ Shape([view EXCEPT !.url = v], [meant EXCEPT !.url = v])

\* The environment's file can be written when one is active.
Writable(scope) == scope = "env" => env # "inactive"

\* This send's scratch, the folder's session value, or the environment's file, which is
\* not read again.
WriteScope(scope) ==
    /\ scratch' = IF scope = "request" THEN "scratch" ELSE scratch
    /\ session' = IF scope = "session" /\ caller = "window" THEN "session" ELSE session
    /\ private' = IF scope = "session" /\ caller = "cli" THEN "session" ELSE private
    /\ envFile' = IF scope = "env" THEN "rewritten" ELSE envFile

\* vars.<scope>.set("x", ...)
SetVar(scope) ==
    /\ Calling("vars")
    /\ Writable(scope) /\ WriteScope(scope)
    /\ wrote' = scope
    /\ UNCHANGED <<request, sends, step, caller, hooks, todo, viewVars, env, moduleVars, wireVars,
                   resultVars, meant, began>>

\* The collection's session store for the window, one of its own for a run of the shell.
Store == IF caller = "window" THEN session ELSE private

\* What {{x}} and vars.get("x") stand for: the nearest scope that holds it.
ValueOfX ==
    CASE scratch # Unset -> scratch
      [] scratch = Unset /\ Store # Unset -> Store
      [] scratch = Unset /\ Store = Unset /\ env # "inactive" -> env
      [] OTHER -> Unset

-----------------------------------------------------------------------------
(* Modules.                                                                *)

\* An import of a module the realm does not have yet and is not already loading.
Import(m) ==
    /\ Calling("import")
    /\ m \notin modules /\ ~Contains(loading, m)
    /\ loading' = Append(loading, m)
    /\ UNCHANGED <<sharedVars, sends, step, caller, hooks, todo, viewVars, scopeVars, modules, evals,
                   wireVars, resultVars, historyVars>>

\* The module's body is over, and its exports are everybody's.
Evaluated ==
    /\ loading # <<>>
    /\ modules' = modules \cup {Last(loading)}
    /\ evals' = [evals EXCEPT ![step][Last(loading)] = @ + 1]
    /\ loading' = Front(loading)
    /\ UNCHANGED <<sharedVars, sends, calls, step, caller, hooks, todo, viewVars, scopeVars, wireVars,
                   resultVars, historyVars>>

\* The module threw, and what imported it goes on if it catches that.
ImportThrows ==
    /\ loading # <<>>
    /\ loading' = Front(loading)
    /\ UNCHANGED <<sharedVars, sends, calls, step, caller, hooks, todo, viewVars, scopeVars, modules, evals,
                   wireVars, resultVars, historyVars>>

-----------------------------------------------------------------------------
(* From one script to the next, and the end of the pre-request phase.      *)

NextScript ==
    /\ step \in {"pre", "post"} /\ loading = <<>> /\ Len(todo) > 1
    /\ todo' = Tail(todo)
    /\ UNCHANGED <<sharedVars, sends, calls, step, caller, hooks, viewVars, scopeVars, moduleVars,
                   wireVars, resultVars, historyVars>>

\* The last script of the phase is through, or the phase has none.
Through == loading = <<>> /\ Len(todo) <= 1

\* A throw, a refused call (what the realm has not, a handle for the URL or a variable,
\* an import that is a cycle, leads outside or names no file), or the budget: nothing of
\* the view is taken, the scripts after it do not run, and what was written to a scope
\* stays.
HookFails ==
    /\ step = "pre" /\ todo # <<>>
    /\ Fail("script")
    /\ UNCHANGED <<sharedVars, viewVars, scopeVars, moduleVars, wireVars, historyVars>>

\* The parsed request takes the view's method, URL and body, and gives up its own headers
\* for the view's, which go into the effective list of this send.
ApplyView(entry) == [own |-> <<>>, url |-> view.url, body |-> view.body]

Resolved(v) == IF v = "ref" THEN ValueOfX ELSE v
ResolvedRequest(headers, entry) ==
    [headers |-> [i \in DOMAIN headers |-> Header(headers[i].name, Resolved(headers[i].value))],
     url |-> Resolved(entry.url), body |-> Resolved(entry.body)]

LacksAValue(r) ==
    Unset \in {r.headers[i].value : i \in DOMAIN r.headers} \cup {r.url, r.body}

\* The hooks are through: the request is rewritten, in the walk itself where the walk is
\* shared, and resolved; a name nothing defines ends the send.
HooksEnd ==
    /\ step = "pre" /\ Through
    /\ node' = IF changed THEN ApplyView(node) ELSE node
    /\ request' = IF held THEN node' ELSE request
    /\ LET r == ResolvedRequest(view.headers, node')
       IN  IF LacksAValue(r)
           THEN Fail("resolve") /\ UNCHANGED <<wire, meant>>
           ELSE /\ step' = "prepared" /\ wire' = r
                /\ meant' = ResolvedRequest(meant.headers, meant)
                /\ todo' = <<>>
                /\ UNCHANGED <<sends, calls, caller, hooks, resultVars>>
    /\ UNCHANGED <<session, envFile, held, view, handles, changed, scopeVars, moduleVars,
                   masked, hops, began, wrote>>

\* Every header of a slot that has a handle, and the body, take the value behind it, and
\* the masker is told.
SubstituteHandles ==
    /\ wire' = [headers |-> [i \in DOMAIN wire.headers |->
                                IF wire.headers[i].name \in handles
                                THEN Header(wire.headers[i].name, "secret") ELSE wire.headers[i]],
                url |-> wire.url, body |-> IF Body \in handles THEN "secret" ELSE wire.body]
    /\ masked' = (handles # {})

\* Prepare fails (a body file that cannot be read, a directive that is no number) or the
\* request goes on the wire.
Prepare ==
    /\ step = "prepared"
    /\ \/ /\ Fail("request") /\ wire' = Unset /\ UNCHANGED masked
       \/ /\ SubstituteHandles
          /\ step' = "wire"
          /\ UNCHANGED <<sends, calls, caller, hooks, todo, resultVars>>
    /\ UNCHANGED <<sharedVars, viewVars, scopeVars, moduleVars, hops, historyVars>>

-----------------------------------------------------------------------------
(* The wire: Do.                                                           *)

\* The server points elsewhere: the client follows, up to the limit.
Redirect ==
    /\ step = "wire"
    /\ hops' = hops + 1
    /\ IF hops' > MaxRedirects
       THEN Fail("redirect")
       ELSE UNCHANGED <<sends, calls, caller, step, hooks, todo, resultVars>>
    /\ UNCHANGED <<sharedVars, viewVars, scopeVars, moduleVars, wire, masked, historyVars>>

\* The context is asked first what ended the exchange, and only then the error.
ExchangeFails ==
    /\ step = "wire"
    /\ \E kind \in {"cancelled", "timeout", "network"} : Fail(kind)
    /\ UNCHANGED <<sharedVars, viewVars, scopeVars, moduleVars, wireVars, historyVars>>

\* A response, and a realm of its own for the scripts about it.
Respond ==
    /\ step = "wire"
    /\ step' = "post"
    /\ todo' = Plan("post", hooks)
    /\ NewRealm
    /\ UNCHANGED <<sharedVars, sends, calls, caller, hooks, viewVars, scopeVars, evals, wireVars,
                   resultVars, historyVars>>

-----------------------------------------------------------------------------
(* The post-response phase.                                                *)

\* What a matcher makes of a value: `not` turns every verdict round.
Verdict(holds, negated) == holds # negated

\* test(name, fn) runs at once; a throw, a matcher's or any other, is a failure and the
\* script goes on.
Test(holds, negated) ==
    LET passed == Verdict(holds, negated) IN
    /\ Calling("test")
    /\ ran' = Append(ran, passed)
    /\ tests' = Append(tests, passed)
    /\ UNCHANGED <<sharedVars, sends, step, caller, hooks, todo, viewVars, scopeVars, moduleVars, wireVars,
                   outcome, exit, status, historyVars>>

FailedTests(results) == Cardinality({i \in DOMAIN results : ~results[i]})

\* Mutant of ExitCode: the script's own failure is only printed.
ExitCodeOfTests(answer, ending) == IF FailedTests(tests) > 0 \/ answer >= 400 THEN 1 ELSE 0

\* A failing test, a script that threw or was killed, or an error status: the run failed.
ExitCode(answer, ending) ==
    IF FailedTests(tests) > 0 \/ ending # "through" \/ answer >= 400 THEN 1 ELSE 0

\* The send is over and its response kept, whether or not a script about it threw (any
\* change of the request does) or ran out of its budget; the window is told which.
Finish(answer, ending) ==
    /\ step = "post" /\ (IF ending = "through" THEN Through ELSE todo # <<>>)
    /\ step' = "idle" /\ todo' = <<>>
    /\ outcome' = CASE ending = "through" -> "complete"
                    [] ending = "threw" -> "complete after a script error"
                    [] ending = "killed" -> "complete after a timeout"
    /\ status' = answer /\ exit' = ExitCode(answer, ending)
    /\ UNCHANGED <<sharedVars, sends, calls, caller, hooks, viewVars, scopeVars, moduleVars,
                   wireVars, tests, ran, historyVars>>

-----------------------------------------------------------------------------
Call ==
    \/ \E n \in HeaderName, v \in Given : SetHeader(n, v) \/ AddHeader(n, v)
    \/ \E n \in HeaderName : RemoveHeader(n)
    \/ \E v \in Given : SetBody(v) \/ SetURL(v)
    \/ \E s \in Scope : SetVar(s)
    \/ \E m \in Module : Import(m)
    \/ Evaluated
    \/ ImportThrows
    \/ \E holds, negated \in BOOLEAN : Test(holds, negated)

Next ==
    \/ Refresh
    \/ ClearSessionVars
    \/ \E who \in Caller : Begin(who)
    \/ \E places \in SUBSET Place : PlanScripts(places)
    \/ PlanFails
    \/ Call
    \/ NextScript
    \/ HookFails
    \/ HooksEnd
    \/ Prepare
    \/ Redirect
    \/ ExchangeFails
    \/ Respond
    \/ \E answer \in {200, 404}, ending \in Endings : Finish(answer, ending)

Spec == Init /\ [][Next]_vars

-----------------------------------------------------------------------------
(* Properties.                                                             *)

Distinct(headers) == \A i, j \in DOMAIN headers : headers[i].name = headers[j].name => i = j

\* The request goes out as the scripts left it: every header and the body they set, with
\* {{x}} as the nearest scope has it and a secret where a handle was put, and nowhere
\* else (ApplyView, SubstituteHandles).  Of a header that is there twice this is not so.
SentAsScriptsAsked ==
    step = "wire" /\ Distinct(meant.headers) => wire = meant

Shown(v) == IF v = "secret" /\ masked THEN "mask" ELSE v

\* No secret is in the account of the request that the window and later scripts are given
\* (Mask, SentView).
ScriptsSeeMasks ==
    step \in {"wire", "post"} =>
        "secret" \notin {Shown(wire.headers[i].value) : i \in DOMAIN wire.headers}
                            \cup {Shown(wire.url), Shown(wire.body)}

\* Every test that ran is in the report, whatever the script did after it: it threw, or
\* it ran out of its budget, of which FORMAT.md 9.3 says that no partial result is kept.
\* The exit code is 2 without a response, whatever ended the send; with one it is 1 for
\* an error status, a failed test or a script that threw or was killed, and 0 only when
\* there was none of these.  FORMAT.md 8, cli.go:5 and run.go:45 have 1 for an error
\* status alone, and 2 for any other problem (testFn, script.Run, runRequest).
VerdictsAreComplete ==
    /\ tests = ran
    /\ step = "idle" /\ outcome # "none" =>
        /\ exit = 2 <=> status = 0
        /\ exit = 1 <=> \/ status >= 400
                        \/ status # 0 /\ (outcome # "complete" \/ \E i \in DOMAIN ran : ~ran[i])

\* A realm evaluates a module to its end at most once, and no module waits for itself.  A
\* send has two realms, and a module that both phases import is evaluated in each, where
\* FORMAT.md 9.8 and modules.go:41 say once per send (importModule, script.Run).
ModulesLoadOnce ==
    /\ IsInjective(loading) /\ modules \cap Range(loading) = {}
    /\ \A phase \in Phase, m \in Module : evals[phase][m] <= 1

\* The four together: what leaves, what is seen, what is reported, what is run.
ScriptsKeepTheirWord ==
    SentAsScriptsAsked /\ ScriptsSeeMasks /\ VerdictsAreComplete /\ ModulesLoadOnce

-----------------------------------------------------------------------------
(* What docs and comments say besides, each of which the code does not do:  *)
(* ScriptsStay.cfg takes one of them at a time.                             *)

\* "Nothing survives from one send to the next except what a script deliberately writes
\* to a scope that outlives it" (docs/FORMAT.md 9.1): each send begins with the file.
NothingSurvives == step = "pre" => began = RequestView(Written)

\* "Rebuilt after a write, so a script that sets a value can read it back" (Vars.Scope).
WrittenIsReadBack ==
    wrote = "env" /\ scratch = Unset /\ Store = Unset => ValueOfX = envFile

\* "headers.add appends, keeping any existing" and a handle is "a whole header value"
\* (docs/FORMAT.md 9.5 and 9.7).
AddedKeepsTheOthers ==
    step = "wire" => \A i \in DOMAIN meant.headers :
        meant.headers[i].value \in {"plain", "secret"} => wire.headers[i].value = meant.headers[i].value

\* "A module is evaluated once per send, whatever imports it" (docs/FORMAT.md 9.8).
OnceASend == \A m \in Module : evals["pre"][m] + evals["post"][m] <= 1

\* Past the budget "the send fails with a timeout naming the phase, and no partial result
\* is kept" (docs/FORMAT.md 9.3).
BudgetFailsTheSend == outcome # "complete after a timeout"

\* "Exits 1 when the response status is 4xx or 5xx, 2 on any other problem" (run.go:45,
\* and docs/FORMAT.md 8).
ExitsAsTold == exit = 1 => status >= 400
=============================================================================
