------------------------------- MODULE Intents -------------------------------
(***************************************************************************)
(* The store of outstanding previews (src/internal/mcp/intent.go).         *)
(*                                                                         *)
(* Every method takes the store's mutex for its whole body, so each is one *)
(* action.  by is the map of the code: by[i] = NoIntent where the map has  *)
(* no key i.  The clock is the wall clock (Truncate drops the monotonic    *)
(* reading), in ticks of which Second make one second; it is assumed not   *)
(* to step back.  Intent ids are random and never repeat, so Issue draws   *)
(* an id that was never handed out.                                        *)
(*                                                                         *)
(* preview, paid and refused are history variables: what was shown when an *)
(* intent was issued, what was presented when it was redeemed, and which   *)
(* ids have been answered with an error.                                   *)
(***************************************************************************)
EXTENDS Integers

CONSTANTS
    IntentId,   \* ids crypto/rand may draw
    Tool,       \* the tools that issue intents
    Fingerprint,      \* fingerprints of resolved operations
    NoIntent,   \* a key that is not in the map, a preview never issued
    Second,     \* ticks in a second
    IntentTTL,  \* how long a preview stays spendable, in ticks
    Horizon     \* bound: the last tick a behaviour reaches

ASSUME IntentsAssumption ==
    /\ Second \in Nat \ {0}
    /\ IntentTTL \in Nat /\ IntentTTL >= Second
    /\ Horizon \in Nat

\* NoIntent is no record the store could hold.
ASSUME NoIntentAssumption ==
    NoIntent \notin [tool : Tool, print : Fingerprint, expires : Int]
                  \cup [tool : Tool, print : Fingerprint, at : Int]

VARIABLES by, now, preview, paid, refused

vars == <<by, now, preview, paid, refused>>

\* Expiries are whole seconds.
WholeSecond == {t \in Int : t % Second = 0}

Intent  == [tool : Tool, print : Fingerprint, expires : WholeSecond]
Receipt == [tool : Tool, print : Fingerprint, at : Int]

\* At most one value for each key, and every moment within the horizon.
TypeOK ==
    /\ by \in [IntentId -> Intent \cup {NoIntent}]
    /\ now \in 0..Horizon
    /\ preview \in [IntentId -> Receipt \cup {NoIntent}]
    /\ paid \in [IntentId -> Receipt \cup {NoIntent}]
    /\ refused \subseteq IntentId

-----------------------------------------------------------------------------
\* time.Truncate(time.Second)
Truncated(t) == t - (t % Second)

\* Mutant of ExpiryFrom: the time to live not added.
ExpiryAtOnce(t) == Truncated(t)

ExpiryFrom(t) == Truncated(t + IntentTTL)

\* Mutant of Expired: the last moment counted as still good.
ExpiredOnlyAfter(i) == now > by[i].expires

Expired(i) == now >= by[i].expires

Held == {i \in IntentId : by[i] # NoIntent}

\* The store without the previews that have run out: sweepLocked.
Swept == [i \in IntentId |-> IF i \in Held /\ Expired(i) THEN NoIntent ELSE by[i]]

Init ==
    /\ by = [i \in IntentId |-> NoIntent]
    /\ now = 0
    /\ preview = [i \in IntentId |-> NoIntent]
    /\ paid = [i \in IntentId |-> NoIntent]
    /\ refused = {}

\* A preview is recorded under a fresh id.
Issue(i, tool, print) ==
    /\ preview[i] = NoIntent
    /\ by' = [Swept EXCEPT ![i] = [tool |-> tool, print |-> print,
                                   expires |-> ExpiryFrom(now)]]
    /\ preview' = [preview EXCEPT ![i] = [tool |-> tool, print |-> print, at |-> now]]
    /\ UNCHANGED <<now, paid, refused>>

\* What checkLocked answers to an id presented with a tool and a fingerprint.
Outcome(i, tool, print) ==
    CASE i \notin Held           -> "no-such-intent"
      [] i \in Held /\ Expired(i) -> "intent-expired"
      [] i \in Held /\ ~Expired(i) /\ by[i].tool # tool -> "no-such-intent"
      [] i \in Held /\ ~Expired(i) /\ by[i].tool = tool
            /\ by[i].print # print -> "intent-stale"
      [] OTHER -> "ok"

Good(i, tool, print) == Outcome(i, tool, print) = "ok"

RefusedAfter(i, tool, print) ==
    IF Good(i, tool, print) THEN refused ELSE refused \cup {i}

\* Mutant of Verify: a mismatch reported without voiding the intent.
VerifyKeepsMismatch(i, tool, print) ==
    /\ refused' = RefusedAfter(i, tool, print)
    /\ UNCHANGED <<by, now, preview, paid>>

\* The entry is deleted first and put back only when everything matched.
Verify(i, tool, print) ==
    /\ by' = IF Good(i, tool, print) THEN by ELSE [by EXCEPT ![i] = NoIntent]
    /\ refused' = RefusedAfter(i, tool, print)
    /\ UNCHANGED <<now, preview, paid>>

\* Mutant of Redeem: redeemed and left in the map.
RedeemKeeps(i, tool, print) ==
    /\ by' = IF Good(i, tool, print) THEN by ELSE [by EXCEPT ![i] = NoIntent]
    /\ paid' = IF Good(i, tool, print)
               THEN [paid EXCEPT ![i] = [tool |-> tool, print |-> print, at |-> now]]
               ELSE paid
    /\ refused' = RefusedAfter(i, tool, print)
    /\ UNCHANGED <<now, preview>>

\* As Verify, and gone on success too.
Redeem(i, tool, print) ==
    /\ by' = [by EXCEPT ![i] = NoIntent]
    /\ paid' = IF Good(i, tool, print)
               THEN [paid EXCEPT ![i] = [tool |-> tool, print |-> print, at |-> now]]
               ELSE paid
    /\ refused' = RefusedAfter(i, tool, print)
    /\ UNCHANGED <<now, preview>>

\* The kill switch drops every outstanding preview.
VoidAll ==
    /\ by' = [i \in IntentId |-> NoIntent]
    /\ UNCHANGED <<now, preview, paid, refused>>

\* Counting the live previews for the indicator sweeps the store.
Outstanding ==
    /\ by' = Swept
    /\ UNCHANGED <<now, preview, paid, refused>>

Tick ==
    /\ now < Horizon
    /\ now' = now + 1
    /\ UNCHANGED <<by, preview, paid, refused>>

\* Only an id that was handed out can be presented: ids are unguessable.
Known == {i \in IntentId : preview[i] # NoIntent}

Next ==
    \/ \E i \in IntentId, t \in Tool, p \in Fingerprint : Issue(i, t, p)
    \/ \E i \in Known, t \in Tool, p \in Fingerprint : Verify(i, t, p) \/ Redeem(i, t, p)
    \/ VoidAll
    \/ Outstanding
    \/ Tick

Spec == Init /\ [][Next]_vars

-----------------------------------------------------------------------------
(* Properties.                                                             *)

\* An intent buys exactly the operation that was previewed, by the tool that
\* previewed it, and within its time to live, whatever was presented with it
\* before and however the sweeps and the kill switch fell (checkLocked).
SpentAsPreviewed ==
    \A i \in IntentId : paid[i] # NoIntent =>
        /\ preview[i] # NoIntent
        /\ paid[i].tool = preview[i].tool
        /\ paid[i].print = preview[i].print
        /\ preview[i].at <= paid[i].at
        /\ paid[i].at < preview[i].at + IntentTTL

\* A second of the minute may be lost to the truncation, and no more.
Unexpired(i) == now <= preview[i].at + IntentTTL - Second

\* A preview shown less than its minute ago, but for a second, is good, and stays so until
\* it is used, or presented as something it is not, or everything is voided: no sweep that
\* another preview or the indicator makes, and no clock, takes it away from the person who
\* is looking at it.
FreshUntilUsed ==
    [][\A i \in Held : Unexpired(i) =>
          /\ Good(i, preview[i].tool, preview[i].print)
          /\ i \notin Held' => paid'[i] # NoIntent \/ i \in refused' \/ VoidAll]_vars

\* Nothing is tried twice: an id that was redeemed, or that any check answered
\* with an error, is out of the store, so that no one can go on presenting it
\* with other requests until one matches (Verify and Redeem alike).
NoSecondTry == \A i \in Held : paid[i] = NoIntent /\ i \notin refused

\* What the store knows of an id agrees with what was shown when it was issued,
\* and of an id that was never issued it knows nothing: the strengthening that
\* makes the invariants above inductive.
Consistent ==
    /\ \A i \in Held :
        /\ preview[i] # NoIntent
        /\ by[i].tool = preview[i].tool
        /\ by[i].print = preview[i].print
        /\ by[i].expires = ExpiryFrom(preview[i].at)
    /\ \A i \in IntentId : preview[i] # NoIntent => preview[i].at \in 0..now
    /\ \A i \in IntentId : preview[i] = NoIntent =>
          by[i] = NoIntent /\ paid[i] = NoIntent /\ i \notin refused

Stage ==
    [i \in IntentId |->
        CASE i \in Held /\ paid[i] = NoIntent    -> "live"
          [] i \notin Held /\ paid[i] # NoIntent -> "spent"
          [] i \notin Held /\ paid[i] = NoIntent /\ preview[i] # NoIntent -> "void"
          [] i \notin Held /\ paid[i] = NoIntent /\ preview[i] = NoIntent -> "unused"
          [] OTHER -> "spent and live"]

Promise == INSTANCE Permit WITH Id <- IntentId, stage <- Stage

\* The store keeps the promise of a permit: at most one use, and a preview that
\* was spent, refused once, expired or voided never comes back.
KeepsPromise == Promise!Spec
=============================================================================
