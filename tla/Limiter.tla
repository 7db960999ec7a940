------------------------------- MODULE Limiter -------------------------------
(***************************************************************************)
(* The token buckets of the agent tools (src/internal/mcp/limit.go).       *)
(*                                                                         *)
(* Budgets are counted in parts, so chosen that a bucket earns one part in *)
(* each tick: Price[c] parts make a token of capability c, which is then   *)
(* what the code writes as perSecond.  The clock is monotonic.  A bucket   *)
(* is created, full, by the first call that touches it.                    *)
(*                                                                         *)
(* admitted and mark belong to an observer, who at any moment starts to    *)
(* count what a bucket lets through.                                       *)
(***************************************************************************)
EXTENDS Integers

CONSTANTS
    Capability,  \* what a tool may ask for
    Rated,       \* those with a row in the table of rates
    Price,       \* ticks a bucket needs to earn one token
    Burst,       \* tokens a full bucket holds
    LastTick      \* bound: the last tick a behaviour reaches

ASSUME LimiterAssumption ==
    /\ Rated \subseteq Capability
    /\ Price \in [Rated -> Nat \ {0}]
    /\ Burst \in [Rated -> Nat \ {0}]
    /\ LastTick \in Nat

VARIABLES
    clock,
    seen,      \* capabilities with a bucket
    tokens,    \* parts in each bucket as of last
    last,      \* when each bucket was last brought up to date
    turnedAway,   \* the capability the latest call was refused, if it was
    admitted,  \* parts spent since the observer's mark
    mark       \* when the observer started counting

limiterVars == <<clock, seen, tokens, last, turnedAway, admitted, mark>>

Capacity(c) == Burst[c] * Price[c]

AtMost(a, b) == IF a <= b THEN a ELSE b

LimiterTypeOK ==
    /\ clock \in 0..LastTick
    /\ seen \subseteq Rated
    /\ tokens \in [Rated -> Int]
    /\ \A c \in Rated : 0 <= tokens[c] /\ tokens[c] <= Capacity(c)
    /\ last \in [Rated -> 0..LastTick]
    /\ \A c \in Rated : last[c] <= clock
    /\ turnedAway \in SUBSET Capability
    /\ admitted \in [Rated -> Nat]
    /\ mark \in [Rated -> 0..LastTick]
    /\ \A c \in Rated : mark[c] <= clock

LimiterInit ==
    /\ clock = 0
    /\ seen = {}
    /\ tokens = [c \in Rated |-> Capacity(c)]
    /\ last = [c \in Rated |-> 0]
    /\ turnedAway = {}
    /\ admitted = [c \in Rated |-> 0]
    /\ mark = [c \in Rated |-> 0]

\* What is in the bucket once the time since last has been credited.
Refilled(c) ==
    IF c \notin seen THEN Capacity(c)
    ELSE AtMost(Capacity(c), tokens[c] + (clock - last[c]))

\* Mutant of Admits: the last token held back.
AdmitsSparing(c) == c \in Rated /\ Refilled(c) > Price[c]

Admits(c) == c \in Rated /\ Refilled(c) >= Price[c]

\* Mutant of Credit: the moment of the refill not recorded on a refusal.
CreditWithoutTime(c) ==
    /\ seen' = seen \cup {c}
    /\ last' = IF Admits(c) THEN [last EXCEPT ![c] = clock] ELSE last
    /\ tokens' = [tokens EXCEPT ![c] = IF Admits(c) THEN Refilled(c) - Price[c]
                                       ELSE Refilled(c)]

\* The bucket is brought up to date, and pays when it can.
Credit(c) ==
    /\ seen' = seen \cup {c}
    /\ last' = [last EXCEPT ![c] = clock]
    /\ tokens' = [tokens EXCEPT ![c] = IF Admits(c) THEN Refilled(c) - Price[c]
                                       ELSE Refilled(c)]

\* A call takes a token, or is refused for want of one.
Allow(c) ==
    /\ IF c \in Rated THEN Credit(c) ELSE UNCHANGED <<seen, last, tokens>>
    /\ turnedAway' = IF Admits(c) THEN {} ELSE {c}
    /\ admitted' = IF Admits(c) /\ c \in Rated
                   THEN [admitted EXCEPT ![c] = @ + Price[c]] ELSE admitted
    /\ UNCHANGED <<clock, mark>>

\* What the indicator shows, without touching the bucket.
Available(c) == IF c \in Rated THEN Refilled(c) ELSE 0

Pass ==
    /\ clock < LastTick
    /\ clock' = clock + 1
    /\ turnedAway' = {}
    /\ UNCHANGED <<seen, tokens, last, admitted, mark>>

\* The observer starts counting again.
StartCount(c) ==
    /\ mark' = [mark EXCEPT ![c] = clock]
    /\ admitted' = [admitted EXCEPT ![c] = 0]
    /\ UNCHANGED <<clock, seen, tokens, last, turnedAway>>

LimiterNext ==
    \/ \E c \in Capability : Allow(c)
    \/ Pass
    \/ \E c \in Rated : StartCount(c)

LimiterSpec == LimiterInit /\ [][LimiterNext]_limiterVars

-----------------------------------------------------------------------------
(* Properties.                                                             *)

\* Over any span of time, however it is chosen, a capability gets at most its
\* burst and what the span earns: the rate limit docs/MCP.md section 10 states,
\* whatever the pattern of refused and admitted calls.
RateBound ==
    \A c \in Rated : admitted[c] <= Capacity(c) + (clock - mark[c])

\* A call that comes a full price after the previous one is never refused, so an
\* agent that keeps to the sustained rate never meets the limit.
NeverRefusesThePatient ==
    [][\A c \in Rated : Allow(c) /\ clock - last[c] >= Price[c] => turnedAway' = {}]_limiterVars

\* Time is credited once: bringing a bucket up to date earns nothing by itself.
\* What a bucket holds and has paid never exceeds a full one and what was earned.
NothingEarnedTwice ==
    \A c \in Rated :
        admitted[c] + Available(c) <= Capacity(c) + (clock - mark[c])
=============================================================================
