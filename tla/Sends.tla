-------------------------------- MODULE Sends --------------------------------
(***************************************************************************)
(* The sender of the app (src/internal/services/send.go) and the           *)
(* collection it sends from (Open and Close in collection.go).             *)
(*                                                                         *)
(* Each send is a goroutine with an id of its own.  It takes the           *)
(* collection as it finds it, registers a cancel function, runs its        *)
(* scripts, goes on the wire, keeps its response and reports itself in     *)
(* events.  The service holds the newest responses, a cookie jar for one   *)
(* collection, and the session variables that scripts set.  Opening or     *)
(* closing a collection resets all of that, in steps.                      *)
(*                                                                         *)
(* All sends here are of one request path.  The events are a queue that    *)
(* the window takes from (the event system of the app is external).        *)
(*                                                                         *)
(* last and crossed are history variables: the newest response, and whether *)
(* a collection changed with a send under way.                             *)
(***************************************************************************)
EXTENDS Integers, Sequences, SequencesExt

CONSTANTS
    MaxSends,      \* bound: sends made in a behaviour
    Collection,    \* collections that may be opened
    NoCollection,
    MaxKeptResponses, MaxKeptBytes,
    Sizes          \* what a response may cost to hold

ASSUME SendsAssumption ==
    /\ MaxSends \in Nat
    /\ MaxKeptResponses \in Nat \ {0} /\ MaxKeptBytes \in Nat
    /\ Sizes \subseteq Nat
    /\ Collection # {} /\ NoCollection \notin Collection

VARIABLES
    open,       \* the current collection
    closing,    \* what a change of collection has left to do
    target,     \* the collection it changes to
    step,       \* how far each send has come
    owner,      \* the collection a send was made in
    inflight,   \* sends whose cancel function is registered
    cancelled,  \* sends whose context is cancelled
    order,      \* the responses held, oldest first, and what each costs
    jar,        \* whose cookies the jar holds
    vars,       \* collections whose scripts have set session variables
    events,     \* on their way to the window
    last, crossed

sendVars    == <<step, owner>>
cancelVars  == <<inflight, cancelled>>
storeVars   == <<order, jar, vars>>
changeVars  == <<open, closing, target>>
historyVars == <<last, crossed>>
serviceVars == <<sendVars, cancelVars, storeVars, changeVars, events, historyVars>>

Id == 1..MaxSends
Places == Collection \cup {NoCollection}
Steps == {"unmade", "called", "loaded", "running", "resolved", "wire", "answered",
          "kept", "refused", "done"}

Sent(kind, id) == [kind |-> kind, id |-> id, place |-> NoCollection]
Opened(place)  == [kind |-> "opened", id |-> 0, place |-> place]
Event == [kind : {"started", "complete", "error", "cancelled", "opened"},
          id : 0..MaxSends, place : Places]

ServiceTypeOK ==
    /\ open \in Places /\ target \in Places
    /\ closing \in {<<>>, <<"open">>, <<"reset", "open">>, <<"cancel", "reset", "open">>}
    /\ step \in [Id -> Steps] /\ owner \in [Id -> Places]
    /\ inflight \subseteq Id /\ cancelled \subseteq inflight
    /\ order \in Seq([id : Id, cost : Sizes])
    /\ jar \in Places /\ vars \subseteq Places
    /\ events \in Seq(Event)
    /\ last \in 0..MaxSends /\ crossed \in BOOLEAN

ServiceInit ==
    /\ open = CHOOSE c \in Collection : TRUE  \* collections are interchangeable
    /\ target = NoCollection
    /\ closing = <<>>
    /\ step = [i \in Id |-> "unmade"]
    /\ owner = [i \in Id |-> NoCollection]
    /\ inflight = {} /\ cancelled = {}
    /\ order = <<>> /\ jar = NoCollection /\ vars = {}
    /\ events = <<>>
    /\ last = 0 /\ crossed = FALSE

-----------------------------------------------------------------------------
(* What the steps share.                                                   *)

Held == {order[n].id : n \in DOMAIN order}

UnderWay == {i \in Id : step[i] \notin {"unmade", "called", "refused", "done"}}

Reach(i, s) == step' = [step EXCEPT ![i] = s]
Emit(e) == events' = Append(events, e)

\* The send ends: its one outcome goes out and its cancel function is released.
End(i, event) ==
    /\ Reach(i, "done")
    /\ Emit(event)
    /\ inflight' = inflight \ {i}
    /\ cancelled' = cancelled \ {i}

\* A send that produced no response: fail.
Fail(i) ==
    /\ End(i, Sent("error", i))
    /\ UNCHANGED <<owner, storeVars, changeVars, historyVars>>

\* What the held responses cost.
Footprint(s) == FoldLeft(LAMBDA sum, entry : sum + entry.cost, 0, s)

\* Mutant of Evicted: the newest is dropped as any other.
EvictedToTheLast(s) ==
    LET fits(n) == LET rest == SubSeq(s, n, Len(s)) IN
                   Len(rest) <= MaxKeptResponses /\ Footprint(rest) <= MaxKeptBytes
        first == CHOOSE n \in 1..(Len(s) + 1) : fits(n) /\ \A m \in 1..(n - 1) : ~fits(m)
    IN  SubSeq(s, first, Len(s))

\* The oldest go until the rest fits, and never the one just stored.
Evicted(s) ==
    LET fits(n) == LET rest == SubSeq(s, n, Len(s)) IN
                   \/ Len(rest) = 1
                   \/ Len(rest) <= MaxKeptResponses /\ Footprint(rest) <= MaxKeptBytes
        first == CHOOSE n \in 1..Len(s) : fits(n) /\ \A m \in 1..(n - 1) : ~fits(m)
    IN  SubSeq(s, first, Len(s))

-----------------------------------------------------------------------------
(* A send.                                                                 *)

\* A send is asked for, by the window or by an agent, under the next id.
Call(i) ==
    /\ step[i] = "unmade" /\ \A j \in 1..(i - 1) : step[j] # "unmade"
    /\ Reach(i, "called")
    /\ UNCHANGED <<owner, cancelVars, storeVars, changeVars, events, historyVars>>

\* Loaded: the collection as it is now.  With none, or where the file is gone or broken by
\* now, the send is refused.
Load(i) ==
    /\ step[i] = "called"
    /\ \/ Reach(i, "refused") /\ UNCHANGED <<owner, crossed>>
       \/ /\ open # NoCollection
          /\ Reach(i, "loaded")
          /\ owner' = [owner EXCEPT ![i] = open]
          /\ crossed' = (crossed \/ closing # <<>>)
    /\ UNCHANGED <<cancelVars, storeVars, changeVars, events, last>>

\* The cancel function is registered and the goroutine starts.
Register(i) ==
    /\ step[i] = "loaded"
    /\ Reach(i, "running")
    /\ inflight' = inflight \cup {i}
    /\ UNCHANGED <<owner, cancelled, storeVars, changeVars, events, historyVars>>

\* Pre-request scripts run, and set a session variable of the collection; then the
\* request is resolved.  Nothing here looks at the context.
Resolve(i) ==
    /\ step[i] = "running"
    /\ \/ Fail(i)
       \/ /\ vars' = vars \cup {owner[i]}
          /\ Reach(i, "resolved")
          /\ UNCHANGED <<owner, cancelVars, order, jar, changeVars, events, historyVars>>

\* The jar is the collection's own, made anew when it was another's, and the request
\* is prepared.
Prepare(i) ==
    /\ step[i] = "resolved"
    /\ jar' = owner[i]
    /\ \/ End(i, Sent("error", i))
       \/ /\ Reach(i, "wire")
          /\ Emit(Sent("started", i))
          /\ UNCHANGED cancelVars
    /\ UNCHANGED <<owner, order, vars, changeVars, historyVars>>

\* The wire: an answer, an error (a timeout among them), or the cancellation; a
\* cancel that comes as the last byte is read comes too late.  After an answer the
\* post-response scripts run, and set a session variable too.
Exchange(i) ==
    /\ step[i] = "wire"
    /\ \/ /\ Reach(i, "answered")
          /\ vars' = vars \cup {owner[i]}
          /\ UNCHANGED <<events, cancelVars>>
       \/ i \notin cancelled /\ End(i, Sent("error", i)) /\ UNCHANGED vars
       \/ i \in cancelled /\ End(i, Sent("cancelled", i)) /\ UNCHANGED vars
    /\ UNCHANGED <<owner, order, jar, changeVars, historyVars>>

\* The response is held, and older ones go to make room.
Keep(i) ==
    /\ step[i] = "answered"
    /\ \E cost \in Sizes : order' = Evicted(Append(order, [id |-> i, cost |-> cost]))
    /\ last' = i
    /\ Reach(i, "kept")
    /\ UNCHANGED <<owner, cancelVars, jar, vars, changeVars, events, crossed>>

Complete(i) ==
    /\ step[i] = "kept"
    /\ End(i, Sent("complete", i))
    /\ UNCHANGED <<owner, storeVars, changeVars, historyVars>>

-----------------------------------------------------------------------------
(* Cancel and Discard.                                                     *)

\* Cancelling a send that is not in flight is not an error.
Cancel(i) ==
    /\ cancelled' = cancelled \cup ({i} \cap inflight)
    /\ UNCHANGED <<sendVars, inflight, storeVars, changeVars, events, historyVars>>

\* A send's response is held once at most.
Dropped(i) ==
    LET places == {n \in DOMAIN order : order[n].id = i}
    IN  IF places = {} THEN order ELSE RemoveAt(order, CHOOSE n \in places : TRUE)

Discard(i) ==
    /\ order' = Dropped(i)
    /\ last' = IF last = i THEN 0 ELSE last
    /\ UNCHANGED <<sendVars, cancelVars, jar, vars, changeVars, events, crossed>>

-----------------------------------------------------------------------------
(* Another collection, or none.                                            *)

\* A collection is opened or the open one closed; only another collection resets
\* what belongs to the old one.  Bound: changes are made one at a time.
Change(to) ==
    /\ closing = <<>>
    /\ target' = to
    /\ closing' = IF to = open /\ to # NoCollection
                  THEN <<"open">> ELSE <<"cancel", "reset", "open">>
    /\ crossed' = (crossed \/ UnderWay # {})
    /\ UNCHANGED <<open, sendVars, cancelVars, storeVars, events, last>>

NextOfChange(s) == closing # <<>> /\ Head(closing) = s /\ closing' = Tail(closing)

\* cancelAll, of the sends in flight now.
CancelAll ==
    /\ NextOfChange("cancel")
    /\ cancelled' = cancelled \cup inflight
    /\ UNCHANGED <<open, target, sendVars, inflight, storeVars, events, historyVars>>

\* The jar, the held responses and the session variables.
ResetStore ==
    /\ NextOfChange("reset")
    /\ jar' = NoCollection /\ order' = <<>> /\ vars' = {} /\ last' = 0
    /\ UNCHANGED <<open, target, sendVars, cancelVars, events, crossed>>

\* The new collection is the current one, and the window is told.
MakeCurrent ==
    /\ NextOfChange("open")
    /\ open' = target
    /\ target' = NoCollection
    /\ Emit(Opened(target))
    /\ UNCHANGED <<sendVars, cancelVars, storeVars, historyVars>>

-----------------------------------------------------------------------------
Run(i) ==
    \/ Load(i)
    \/ Register(i)
    \/ Resolve(i)
    \/ Prepare(i)
    \/ Exchange(i)
    \/ Keep(i)
    \/ Complete(i)

ContinueChange ==
    \/ CancelAll
    \/ ResetStore
    \/ MakeCurrent
=============================================================================
