----------------------------- MODULE DecisionCache -----------------------------
(***************************************************************************)
(* The gateway's cache of decisions (infra/cache/cache.go) and its only    *)
(* user, the handlers' resolveDecision (usecase/connect/handler.go), with  *)
(* the control plane whose policy changes meanwhile.  A lookup reads the   *)
(* clock, then the map under the read lock, and deletes an expired item in *)
(* a second critical section; the answer of the control plane is put into  *)
(* the cache some time after it was given.                                 *)
(***************************************************************************)
EXTENDS Naturals, FiniteSets

CONSTANTS
    Handlers,     \* goroutines resolving a decision, one request each
    Keys,         \* cache keys: subject, action, type, host and port
    MaxEntries,   \* maxEntries of the cache
    CacheTTL,     \* Handler.cacheTTL, 0 when not configured
    DecisionTTL,  \* ttl_seconds of the control plane's decisions
    MaxVersion,   \* bound: policy versions
    MaxTurns,     \* bound: handlers after the first ones
    MaxTime       \* bound: the clock

ASSUME CacheConstants ==
    /\ MaxEntries \in Nat \ {0} /\ IsFiniteSet(Keys)
    /\ CacheTTL \in Nat /\ DecisionTTL \in Nat \ {0}
    /\ MaxVersion \in Nat \ {0} /\ MaxTurns \in Nat /\ MaxTime \in Nat

VARIABLES
    now,       \* the clock
    version,   \* the active policy version of the control plane
    items,     \* the cache: the items of the keys it holds
    pc,        \* where each handler is in resolveDecision
    key,       \* its cache key
    asof,      \* the time.Now() its lookup was called with
    asked,     \* history: when it asked the control plane
    decision,  \* the decision it got: policy version and TTL
    source,    \* history: the item a hit was served from
    retired,   \* history: per version, when it was replaced
    turns      \* bound: handlers started after another

cacheVars == <<now, version, items, pc, key, asof, asked, decision, source, retired, turns>>

Versions == 1..MaxVersion
Times == 0..MaxTime
NoKey == "none"
NoDecision == [version |-> 0, ttl |-> 0]
NoItem == [version |-> 0, expires |-> 0, asked |-> 0, put |-> 0, of |-> NoKey]

\* The expiry a Put gives: the configured TTL, else the decision's.
PutTTL == IF CacheTTL > 0 THEN CacheTTL ELSE DecisionTTL

CacheInit ==
    /\ now = 0
    /\ version = 1
    /\ items = [k \in {} |-> NoItem]
    /\ pc = [h \in Handlers |-> "new"]
    /\ key = [h \in Handlers |-> NoKey]
    /\ asof = [h \in Handlers |-> 0]
    /\ asked = [h \in Handlers |-> 0]
    /\ decision = [h \in Handlers |-> NoDecision]
    /\ source = [h \in Handlers |-> NoItem]
    /\ retired = [v \in {} |-> 0]
    /\ turns = 0

Goto(h, where) == pc' = [pc EXCEPT ![h] = where]

-----------------------------------------------------------------------------
(***************************************************************************)
(* The environment: time, and an administrator who activates policies.     *)
(***************************************************************************)
Tick ==
    /\ now < MaxTime
    /\ now' = now + 1
    /\ UNCHANGED <<version, items, pc, key, asof, asked, decision, source, retired, turns>>

Activate ==
    /\ version < MaxVersion
    /\ version' = version + 1
    /\ retired' = [v \in DOMAIN retired \cup {version} |-> IF v = version THEN now ELSE retired[v]]
    /\ UNCHANGED <<now, items, pc, key, asof, asked, decision, source, turns>>

-----------------------------------------------------------------------------
(***************************************************************************)
(* Get                                                                     *)
(***************************************************************************)

\* resolveDecision makes the key of what was asked for and calls Get with time.Now().
Lookup(h) ==
    /\ pc[h] = "new"
    /\ \E k \in Keys : key' = [key EXCEPT ![h] = k]
    /\ asof' = [asof EXCEPT ![h] = now]
    /\ Goto(h, "lookup")
    /\ UNCHANGED <<now, version, items, asked, decision, source, retired, turns>>

Valid(k, t) == k \in DOMAIN items /\ t <= items[k].expires

\* Mutant: a hit renews the item.
Hit_Renews(h) ==
    /\ pc[h] = "lookup" /\ Valid(key[h], asof[h])
    /\ items' = [items EXCEPT ![key[h]].expires = asof[h] + PutTTL]
    /\ decision' = [decision EXCEPT ![h] = [version |-> items[key[h]].version, ttl |-> 0]]
    /\ source' = [source EXCEPT ![h] = items[key[h]]]
    /\ Goto(h, "resolved")
    /\ UNCHANGED <<now, version, key, asof, asked, retired, turns>>

\* A hit: the answer carries the cached entry, which has no TTL.
Hit(h) ==
    /\ pc[h] = "lookup" /\ Valid(key[h], asof[h])
    /\ decision' = [decision EXCEPT ![h] = [version |-> items[key[h]].version, ttl |-> 0]]
    /\ source' = [source EXCEPT ![h] = items[key[h]]]
    /\ Goto(h, "resolved")
    /\ UNCHANGED <<now, version, items, key, asof, asked, retired, turns>>

\* No item: on to the control plane.  An expired one: delete it first.
Miss(h) ==
    /\ pc[h] = "lookup" /\ ~Valid(key[h], asof[h])
    /\ Goto(h, IF key[h] \in DOMAIN items THEN "expired" ELSE "asking")
    /\ UNCHANGED <<now, version, items, key, asof, asked, decision, source, retired, turns>>

Without(k) == [x \in DOMAIN items \ {k} |-> items[x]]

\* The second critical section deletes what is there by now.
DeleteExpired(h) ==
    /\ pc[h] = "expired"
    /\ items' = Without(key[h])
    /\ Goto(h, "asking")
    /\ UNCHANGED <<now, version, key, asof, asked, decision, source, retired, turns>>

-----------------------------------------------------------------------------
(***************************************************************************)
(* The control plane's answer, and Put                                     *)
(***************************************************************************)
Ask(h) ==
    /\ pc[h] = "asking"
    /\ asked' = [asked EXCEPT ![h] = now]
    /\ Goto(h, "asked")
    /\ UNCHANGED <<now, version, items, key, asof, decision, source, retired, turns>>

\* Authorize answers under the policy that is active while it serves the call.
Answer(h) ==
    /\ pc[h] = "asked"
    /\ decision' = [decision EXCEPT ![h] = [version |-> version, ttl |-> DecisionTTL]]
    /\ Goto(h, "answered")
    /\ UNCHANGED <<now, version, items, key, asof, asked, source, retired, turns>>

\* The control plane cannot be reached or refuses: whatever cp_down_mode says,
\* the error is returned and the connection denied.
AnswerFails(h) ==
    /\ pc[h] = "asked"
    /\ Goto(h, "refused")
    /\ UNCHANGED <<now, version, items, key, asof, asked, decision, source, retired, turns>>

\* The item Put writes, and when it expires.
NewItem(h) ==
    [version |-> decision[h].version, expires |-> now + PutTTL,
     asked |-> asked[h], put |-> now, of |-> key[h]]

Full == Cardinality(DOMAIN items) >= MaxEntries

\* When the cache is full the map's first key makes room, whichever it is, also
\* when the key is already there.
Put(h) ==
    /\ pc[h] = "answered"
    /\ \E gone \in IF Full THEN {{k} : k \in DOMAIN items} ELSE {{}} :
          items' = [k \in (DOMAIN items \ gone) \cup {key[h]} |->
                      IF k = key[h] THEN NewItem(h) ELSE items[k]]
    /\ Goto(h, "resolved")
    /\ UNCHANGED <<now, version, key, asof, asked, decision, source, retired, turns>>

\* The handler is over; its place is taken by that of another connection.
Return(h) ==
    /\ pc[h] \in {"resolved", "refused"}
    /\ turns < MaxTurns /\ turns' = turns + 1
    /\ Goto(h, "new")
    /\ key' = [key EXCEPT ![h] = NoKey]
    /\ asof' = [asof EXCEPT ![h] = 0]
    /\ asked' = [asked EXCEPT ![h] = 0]
    /\ decision' = [decision EXCEPT ![h] = NoDecision]
    /\ source' = [source EXCEPT ![h] = NoItem]
    /\ UNCHANGED <<now, version, items, retired>>

\* The gateway closes.
Clear ==
    /\ items' = [k \in {} |-> NoItem]
    /\ UNCHANGED <<now, version, pc, key, asof, asked, decision, source, retired, turns>>

-----------------------------------------------------------------------------
Resolve(h) ==
    \/ Lookup(h) \/ Hit(h) \/ Miss(h) \/ DeleteExpired(h)
    \/ Ask(h) \/ Answer(h) \/ AnswerFails(h) \/ Put(h) \/ Return(h)

CacheNext == Tick \/ Activate \/ Clear \/ \E h \in Handlers : Resolve(h)

CacheSpec == CacheInit /\ [][CacheNext]_cacheVars

-----------------------------------------------------------------------------
(***************************************************************************)
(* Properties                                                              *)
(***************************************************************************)

\* The cache never holds more than its maximum, although Put evicts before it
\* knows whether its key is new and lookups delete meanwhile (cache.go:63-69).
CacheBounded == Cardinality(DOMAIN items) <= MaxEntries

\* An allow or deny is only ever served to the requests it was given for
\* (handler.go:383, cache.go:40-70).
ServedForItsKey ==
    \A h \in Handlers :
        pc[h] = "resolved" /\ source[h] # NoItem => source[h].of = key[h]

\* Once no longer active, a policy version decides nothing new but what the cache
\* still holds: a served decision was active when its handler asked or later, and
\* was put at most the cache's TTL before the lookup (handler.go:387-434).
StaleWithinTTL ==
    \A h \in Handlers :
        pc[h] = "resolved" =>
            LET served == source[h]
                v == decision[h].version
                since == IF served = NoItem THEN asked[h] ELSE served.asked
            IN  /\ v \in DOMAIN retired => retired[v] >= since
                /\ served # NoItem => asof[h] <= served.put + PutTTL
=============================================================================
