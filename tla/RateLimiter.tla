------------------------------ MODULE RateLimiter ------------------------------
(***************************************************************************)
(* The rate limiter of the control plane (api/middleware/ratelimit.go): a  *)
(* map of token buckets, filled lazily at each request, out of which a     *)
(* cleanup goroutine deletes the keys that were idle.  A tick is the time  *)
(* in which a bucket gains Rate tokens.                                    *)
(***************************************************************************)
EXTENDS Naturals

CONSTANTS
    Keys,     \* remote addresses or X-PEP-ID values
    Rate,     \* tokens gained at each tick
    Burst,    \* tokens a bucket holds
    Idle,     \* ticks after its last request that a key is deleted
    MaxTime   \* bound: ticks

\* app.go: 20/s and 40, 100/s and 200, so two seconds fill a bucket that is
\* deleted after five minutes.
ASSUME LimiterConstants ==
    /\ Rate \in Nat \ {0} /\ Burst \in Nat \ {0} /\ Idle \in Nat /\ MaxTime \in Nat
    /\ Burst <= Rate * Idle

VARIABLES
    now,      \* time.Now()
    limiters, \* RateLimiter.limiters: tokens at a time, and lastSeen
    answer,   \* the last answer: the key and whether its request passed
    since,    \* history: the start of a window, chosen at any time
    granted   \* history: the requests of each key that passed since then

limiterVars == <<now, limiters, answer, since, granted>>

Entry == [tokens : 0..Burst, last : Nat, lastSeen : Nat]
NewLimiter == [tokens |-> Burst, last |-> now, lastSeen |-> now]

AtMost(n, limit) == IF n < limit THEN n ELSE limit

\* rate.Limiter.advance: the tokens of an entry by now.
Advance(e) == AtMost(e.tokens + Rate * (now - e.last), Burst)

LimiterInit ==
    /\ now = 0
    /\ limiters = [k \in {} |-> NewLimiter]
    /\ answer = <<>>
    /\ since = 0 /\ granted = [k \in Keys |-> 0]

\* The entry of a key, made when the map has none.
EntryOf(k) == IF k \in DOMAIN limiters THEN limiters[k] ELSE NewLimiter

\* The map after a request of k leaves it the entry e.
Put(k, e) == limiters' = [j \in DOMAIN limiters \cup {k} |-> IF j = k THEN e ELSE limiters[j]]

\* Mutant: the tokens taken are written back under the old time.
Allow_KeepsLast(k) ==
    /\ Advance(EntryOf(k)) >= 1
    /\ Put(k, [tokens |-> Advance(EntryOf(k)) - 1, last |-> EntryOf(k).last, lastSeen |-> now])
    /\ answer' = <<k, TRUE>>
    /\ granted' = [granted EXCEPT ![k] = @ + 1]
    /\ UNCHANGED <<now, since>>

\* allow, with a token to take.
Allow(k) ==
    /\ Advance(EntryOf(k)) >= 1
    /\ Put(k, [tokens |-> Advance(EntryOf(k)) - 1, last |-> now, lastSeen |-> now])
    /\ answer' = <<k, TRUE>>
    /\ granted' = [granted EXCEPT ![k] = @ + 1]
    /\ UNCHANGED <<now, since>>

\* allow, without: the answer is 429 and the bucket is left as it was.
Deny(k) ==
    /\ Advance(EntryOf(k)) = 0
    /\ Put(k, [EntryOf(k) EXCEPT !.lastSeen = now])
    /\ answer' = <<k, FALSE>>
    /\ UNCHANGED <<now, since, granted>>

\* lastSeen is before the threshold.
Stale(k) == limiters[k].lastSeen + Idle < now

Cleanup ==
    /\ limiters' = [k \in {j \in DOMAIN limiters : ~Stale(j)} |-> limiters[k]]
    /\ UNCHANGED <<now, answer, since, granted>>

Tick ==
    /\ now < MaxTime
    /\ now' = now + 1
    /\ UNCHANGED <<limiters, answer, since, granted>>

\* History: a new window starts.
OpenWindow ==
    /\ since' = now
    /\ granted' = [k \in Keys |-> 0]
    /\ UNCHANGED <<now, limiters, answer>>

LimiterNext ==
    \/ \E k \in Keys : Allow(k) \/ Deny(k)
    \/ Cleanup \/ Tick \/ OpenWindow

LimiterSpec == LimiterInit /\ [][LimiterNext]_limiterVars

-----------------------------------------------------------------------------
\* The variables stay in their types, and no entry is of the future.
LimiterTypeOK ==
    /\ now \in Nat /\ since \in Nat /\ since <= now
    /\ granted \in [Keys -> Nat]
    /\ DOMAIN limiters \subseteq Keys
    /\ \A k \in DOMAIN limiters :
         limiters[k] \in Entry /\ limiters[k].last <= limiters[k].lastSeen /\ limiters[k].lastSeen <= now

\* In any window a key passes at most its burst and what flows in meanwhile,
\* whatever the cleanup deletes and makes again.
WithinRate == \A k \in Keys : granted[k] <= Burst + Rate * (now - since)

\* Deleting idle entries cannot be told from keeping every bucket for ever.
Bucket == INSTANCE TokenBucket WITH bucket <- [k \in Keys |-> Advance(EntryOf(k))]
ImplementsBucket == Bucket!BucketSpec
=============================================================================
