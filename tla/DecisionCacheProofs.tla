-------------------------- MODULE DecisionCacheProofs --------------------------
(***************************************************************************)
(* Theorems about the decision cache: its bound, the key of what it serves *)
(* and how old that may be, for any number of handlers and keys; and about *)
(* the resolution of names that drives it.                                 *)
(***************************************************************************)
EXTENDS PublishedResources, FiniteSetTheorems, TLAPS

USE CacheConstants DEF Versions

(***************************************************************************)
(* The inductive invariant.  A version is never active again once retired; *)
(* an item, and a decision on its way to the cache, was computed under a   *)
(* version that was active at or after the moment its handler asked.       *)
(***************************************************************************)
NotBefore(v, t) == v \in DOMAIN retired => retired[v] >= t

CacheTypes ==
    /\ now \in Nat
    /\ key \in [Handlers -> Keys \cup {NoKey}]
    /\ \A h \in Handlers : pc[h] # "new" => key[h] \in Keys
    /\ turns \in Nat
    /\ pc \in [Handlers -> {"new", "lookup", "expired", "asking", "asked", "answered",
                            "resolved", "refused"}]
    /\ asof \in [Handlers -> Nat] /\ asked \in [Handlers -> Nat]
    /\ decision \in [Handlers -> [version : Nat, ttl : Nat]]
    /\ source \in [Handlers -> [version : Nat, expires : Nat, asked : Nat, put : Nat,
                                of : Keys \cup {NoKey}]]
    /\ version \in Nat
    /\ version \notin DOMAIN retired
    /\ \A v \in DOMAIN retired : v \in Nat /\ v < version /\ retired[v] \in Nat

ItemOK(k) ==
    /\ items[k] \in [version : Nat, expires : Nat, asked : Nat, put : Nat, of : Keys \cup {NoKey}]
    /\ items[k].of = k
    /\ items[k].expires = items[k].put + PutTTL
    /\ items[k].asked <= now
    /\ NotBefore(items[k].version, items[k].asked)

AnswerOK(h) ==
    /\ asked[h] <= now
    /\ pc[h] = "answered" => NotBefore(decision[h].version, asked[h])

Since(h) == IF source[h] = NoItem THEN asked[h] ELSE source[h].asked

ServedOK(h) ==
    pc[h] = "resolved" =>
        /\ Since(h) <= now
        /\ NotBefore(decision[h].version, Since(h))
        /\ source[h] # NoItem => source[h].of = key[h] /\ asof[h] <= source[h].put + PutTTL

UnservedOK(h) == pc[h] # "resolved" => source[h] = NoItem

Bounded == DOMAIN items \subseteq Keys /\ CacheBounded

CacheInv ==
    /\ CacheTypes
    /\ Bounded
    /\ \A k \in DOMAIN items : ItemOK(k)
    /\ \A h \in Handlers : AnswerOK(h) /\ ServedOK(h) /\ UnservedOK(h)

-----------------------------------------------------------------------------
LEMMA PutTTLType == PutTTL \in Nat \ {0}
BY DEF PutTTL

\* An item of the cache is never the NoItem that stands for "not served".
LEMMA ItemIsSome == ASSUME NEW k \in DOMAIN items, ItemOK(k) PROVE items[k] # NoItem
<1>1. items[k].expires # 0
  BY PutTTLType DEF ItemOK
<1>2. NoItem.expires = 0
  BY DEF NoItem
<1> QED
  BY <1>1, <1>2

LEMMA CacheInitially == CacheInit => CacheInv
<1> SUFFICES ASSUME CacheInit PROVE CacheInv
  OBVIOUS
<1> USE DEF CacheInit, NoItem, NoDecision, NoKey
<1>1. CacheTypes
  BY DEF CacheTypes
<1>2. Bounded
  BY FS_EmptySet DEF Bounded, CacheBounded
<1>3. \A k \in DOMAIN items : ItemOK(k)
  OBVIOUS
<1>4. \A h \in Handlers : AnswerOK(h) /\ ServedOK(h) /\ UnservedOK(h)
  BY DEF AnswerOK, ServedOK, UnservedOK
<1> QED
  BY <1>1, <1>2, <1>3, <1>4 DEF CacheInv

\* Each action preserves the types.
LEMMA TypesKept == ASSUME CacheInv, CacheNext PROVE CacheTypes'
<1> USE DEF CacheInv, CacheTypes
<1>1. CASE Tick
  BY <1>1 DEF Tick
<1>2. CASE Activate
  BY <1>2 DEF Activate
<1>3. CASE Clear
  BY <1>3 DEF Clear
<1>4. ASSUME NEW h \in Handlers, Resolve(h) PROVE CacheTypes'
  <2>1. CASE Lookup(h)
    BY <2>1 DEF Lookup, Goto
  <2>2. CASE Hit(h)
    <3>1. items[key[h]] \in [version : Nat, expires : Nat, asked : Nat, put : Nat,
                              of : Keys \cup {NoKey}]
      BY <2>2 DEF Hit, Valid, ItemOK
    <3> QED
      BY <2>2, <3>1 DEF Hit, Goto
  <2>3. CASE Miss(h)
    BY <2>3 DEF Miss, Goto
  <2>4. CASE DeleteExpired(h)
    BY <2>4 DEF DeleteExpired, Goto
  <2>5. CASE Ask(h)
    BY <2>5 DEF Ask, Goto
  <2>6. CASE Answer(h)
    BY <2>6 DEF Answer, Goto
  <2>7. CASE AnswerFails(h)
    BY <2>7 DEF AnswerFails, Goto
  <2>8. CASE Put(h)
    BY <2>8 DEF Put, Goto
  <2>9. CASE Return(h)
    BY <2>9 DEF Return, Goto, NoItem, NoDecision
  <2> QED
    BY <1>4, <2>1, <2>2, <2>3, <2>4, <2>5, <2>6, <2>7, <2>8, <2>9 DEF Resolve
<1> QED
  BY <1>1, <1>2, <1>3, <1>4 DEF CacheNext

\* What Put leaves of the old items leaves room for the new one.
LEMMA PutBounded == ASSUME Bounded, NEW h \in Handlers, key[h] \in Keys, Put(h) PROVE Bounded'
<1> DEFINE old == DOMAIN items
<1>1. IsFiniteSet(old) /\ Cardinality(old) \in Nat /\ Cardinality(old) <= MaxEntries
  BY FS_Subset, FS_CardinalityType DEF Bounded, CacheBounded
<1>2. PICK gone \in IF Full THEN {{k} : k \in old} ELSE {{}} :
        DOMAIN items' = (old \ gone) \cup {key[h]}
  BY DEF Put
<1>3. Cardinality(old \ gone) < MaxEntries /\ IsFiniteSet(old \ gone)
      /\ Cardinality(old \ gone) \in Nat
  <2>1. CASE Full
    <3>1. PICK k \in old : gone = {k}
      BY <1>2, <2>1
    <3>2. IsFiniteSet(old \ {k}) /\ Cardinality(old \ {k}) = Cardinality(old) - 1
      BY <1>1, FS_RemoveElement
    <3>3. Cardinality(old \ {k}) \in Nat
      BY <3>2, FS_CardinalityType
    <3> QED
      BY <1>1, <3>1, <3>2, <3>3
  <2>2. CASE ~Full
    <3>1. old \ gone = old
      BY <1>2, <2>2
    <3> QED
      BY <1>1, <2>2, <3>1 DEF Full
  <2> QED
    BY <2>1, <2>2
<1>4. Cardinality((old \ gone) \cup {key[h]}) <= MaxEntries
  <2> DEFINE rest == old \ gone
  <2>1. IsFiniteSet(rest) /\ Cardinality(rest) \in Nat /\ Cardinality(rest) < MaxEntries
    BY <1>3
  <2> HIDE DEF rest
  <2>2. Cardinality(rest \cup {key[h]}) = Cardinality(rest)
        \/ Cardinality(rest \cup {key[h]}) = Cardinality(rest) + 1
    BY <2>1, FS_AddElement
  <2>3. Cardinality(rest \cup {key[h]}) <= MaxEntries
    BY <2>1, <2>2
  <2> QED
    BY <2>3 DEF rest
<1>5. Cardinality(DOMAIN items') <= MaxEntries
  BY <1>2, <1>4
<1>6. DOMAIN items' \subseteq Keys
  <2>1. old \subseteq Keys
    BY DEF Bounded
  <2> QED
    BY <1>2, <2>1
<1> QED
  BY <1>5, <1>6 DEF Bounded, CacheBounded

LEMMA BoundKept == ASSUME CacheInv, CacheNext PROVE Bounded'
<1> USE DEF CacheInv
<1>1. CASE Clear
  BY <1>1, FS_EmptySet DEF Clear, Bounded, CacheBounded
<1>2. ASSUME NEW h \in Handlers, Put(h) PROVE Bounded'
  BY <1>2, PutBounded DEF CacheTypes, Put
<1>3. ASSUME NEW h \in Handlers, DeleteExpired(h) PROVE Bounded'
  <2>1. DOMAIN items' = DOMAIN items \ {key[h]}
    BY <1>3 DEF DeleteExpired, Without
  <2>2. IsFiniteSet(DOMAIN items)
    BY FS_Subset DEF Bounded
  <2>3. Cardinality(DOMAIN items') <= Cardinality(DOMAIN items)
        /\ Cardinality(DOMAIN items') \in Nat /\ Cardinality(DOMAIN items) \in Nat
    BY <2>1, <2>2, FS_Subset, FS_CardinalityType
  <2> QED
    BY <2>1, <2>3 DEF Bounded, CacheBounded
<1>4. CASE UNCHANGED items
  BY <1>4 DEF Bounded, CacheBounded
<1> QED
  BY <1>1, <1>2, <1>3, <1>4
  DEF CacheNext, Resolve, Tick, Activate, Lookup, Hit, Miss, Ask, Answer, AnswerFails, Return

\* Retiring the active version now keeps every "not before" that lies behind.
LEMMA RetiredLater ==
  ASSUME CacheTypes, CacheNext, NEW v \in Nat, NEW t \in Nat, t <= now, NotBefore(v, t)
  PROVE  NotBefore(v, t)'
<1>1. CASE Activate
  BY <1>1 DEF Activate, NotBefore, CacheTypes
<1>2. CASE UNCHANGED retired
  BY <1>2 DEF NotBefore
<1> QED
  BY <1>1, <1>2 DEF CacheNext, Resolve, Tick, Clear, Lookup, Hit, Miss, DeleteExpired,
                    Ask, Answer, AnswerFails, Put, Return

LEMMA TimeMovesOn == ASSUME CacheTypes, CacheNext PROVE now <= now' /\ now' \in Nat
BY DEF CacheTypes, CacheNext, Resolve, Tick, Activate, Clear, Lookup, Hit, Miss,
       DeleteExpired, Ask, Answer, AnswerFails, Put, Return

LEMMA ItemsKept == ASSUME CacheInv, CacheNext PROVE \A k \in DOMAIN items' : ItemOK(k)'
<1> SUFFICES ASSUME NEW k \in DOMAIN items' PROVE ItemOK(k)'
  OBVIOUS
<1> USE DEF CacheInv
<1>1. CASE k \in DOMAIN items /\ items'[k] = items[k]
  <2>1. ItemOK(k)
    BY <1>1
  <2>2. NotBefore(items[k].version, items[k].asked)'
    <3>1. items[k].version \in Nat /\ items[k].asked \in Nat /\ items[k].asked <= now
      BY <2>1 DEF ItemOK
    <3>2. items'[k].version = items[k].version /\ items'[k].asked = items[k].asked
      BY <1>1
    <3>3. items[k].version \notin DOMAIN retired \/ retired[items[k].version] >= items[k].asked
      BY <2>1 DEF ItemOK, NotBefore
    <3>4. items[k].version \in DOMAIN retired' => retired'[items[k].version] >= items[k].asked
      BY <3>1, <3>3, RetiredLater DEF NotBefore
    <3> QED
      BY <3>2, <3>4 DEF NotBefore
  <2>3. items[k].asked <= now'
    BY <2>1, TimeMovesOn DEF ItemOK, CacheTypes
  <2> QED
    BY <1>1, <2>1, <2>2, <2>3 DEF ItemOK, PutTTL
<1>2. ASSUME NEW h \in Handlers, Put(h), k = key[h] PROVE ItemOK(k)'
  <2>1. items'[k] = NewItem(h)
    BY <1>2 DEF Put
  <2>2. decision[h] \in [version : Nat, ttl : Nat] /\ asked[h] \in Nat /\ now \in Nat
        /\ key[h] \in Keys
    BY <1>2 DEF CacheTypes, Put
  <2>3. UNCHANGED <<now, retired>>
    BY <1>2 DEF Put
  <2>4. AnswerOK(h) /\ pc[h] = "answered"
    BY <1>2 DEF Put
  <2>5. items'[k] \in [version : Nat, expires : Nat, asked : Nat, put : Nat,
                        of : Keys \cup {NoKey}]
    BY <2>1, <2>2, PutTTLType DEF NewItem
  <2>6. /\ items'[k].version = decision[h].version
        /\ items'[k].asked = asked[h]
        /\ items'[k].of = k
        /\ items'[k].expires = items'[k].put + PutTTL
    BY <1>2, <2>1 DEF NewItem
  <2>7. asked[h] <= now /\ (decision[h].version \in DOMAIN retired =>
                              retired[decision[h].version] >= asked[h])
    BY <2>4 DEF AnswerOK, NotBefore
  <2> QED
    BY <2>3, <2>5, <2>6, <2>7 DEF ItemOK, NotBefore, PutTTL
<1>3. (k \in DOMAIN items /\ items'[k] = items[k])
      \/ \E h \in Handlers : Put(h) /\ k = key[h]
  <2>1. CASE UNCHANGED items
    BY <2>1
  <2>2. CASE Clear
    BY <2>2 DEF Clear
  <2>3. ASSUME NEW h \in Handlers, DeleteExpired(h)
        PROVE k \in DOMAIN items /\ items'[k] = items[k]
    BY <2>3 DEF DeleteExpired, Without
  <2>4. ASSUME NEW h \in Handlers, Put(h)
        PROVE (k \in DOMAIN items /\ items'[k] = items[k]) \/ k = key[h]
    BY <2>4 DEF Put
  <2> QED
    BY <2>1, <2>2, <2>3, <2>4
    DEF CacheNext, Resolve, Tick, Activate, Lookup, Hit, Miss, Ask, Answer, AnswerFails, Return
<1> QED
  BY <1>1, <1>2, <1>3

\* The step of a handler changes its own place, clock readings and decision only.
LEMMA OthersKept ==
  ASSUME CacheInv, CacheNext, NEW g \in Handlers,
         pc'[g] = pc[g], asked'[g] = asked[g], decision'[g] = decision[g],
         source'[g] = source[g], asof'[g] = asof[g], key'[g] = key[g]
  PROVE  AnswerOK(g)' /\ ServedOK(g)' /\ UnservedOK(g)'
<1> USE DEF CacheInv
<1>1. now <= now' /\ now \in Nat /\ now' \in Nat
  BY TimeMovesOn DEF CacheTypes
<1>2. asked[g] \in Nat /\ decision[g].version \in Nat /\ Since(g) \in Nat
  BY DEF CacheTypes, Since
<1>3. asked[g] <= now /\ (pc[g] = "resolved" => Since(g) <= now)
  BY DEF AnswerOK, ServedOK
<1>4. asked'[g] <= now' /\ (pc[g] = "resolved" => Since(g) <= now')
  BY <1>1, <1>2, <1>3
<1>5. Since(g)' = Since(g)
  BY DEF Since, NoItem
<1>6. \A t \in Nat : t <= now /\ NotBefore(decision[g].version, t) =>
         (decision[g].version \in DOMAIN retired' => retired'[decision[g].version] >= t)
  BY <1>2, RetiredLater DEF NotBefore
<1>7. AnswerOK(g)'
  BY <1>2, <1>3, <1>4, <1>6 DEF AnswerOK, NotBefore
<1>8. ServedOK(g)'
  BY <1>2, <1>3, <1>4, <1>5, <1>6 DEF ServedOK, NotBefore, NoItem, PutTTL
<1>9. UnservedOK(g)'
  BY DEF UnservedOK, NoItem
<1> QED
  BY <1>7, <1>8, <1>9

LEMMA AnswersKept ==
  ASSUME CacheInv, CacheNext, NEW g \in Handlers
  PROVE  AnswerOK(g)' /\ ServedOK(g)' /\ UnservedOK(g)'
<1> USE DEF CacheInv
<1>1. now <= now' /\ now \in Nat /\ now' \in Nat
  BY TimeMovesOn DEF CacheTypes
<1>2. asked[g] \in Nat /\ asked[g] <= now /\ asked[g] <= now'
  BY <1>1 DEF CacheTypes, AnswerOK
<1>3. UnservedOK(g)
  OBVIOUS
<1>4. CASE Tick \/ Activate \/ Clear
  BY <1>4, OthersKept DEF Tick, Activate, Clear
<1>5. ASSUME NEW h \in Handlers, Resolve(h), g # h
      PROVE  AnswerOK(g)' /\ ServedOK(g)' /\ UnservedOK(g)'
  <2>1. /\ pc'[g] = pc[g] /\ asked'[g] = asked[g] /\ decision'[g] = decision[g]
        /\ source'[g] = source[g] /\ asof'[g] = asof[g] /\ key'[g] = key[g]
    BY <1>5 DEF Resolve, Lookup, Hit, Miss, DeleteExpired, Ask, Answer, AnswerFails, Put, Return,
                Goto, CacheTypes
  <2> QED
    BY <2>1, OthersKept
<1>6. ASSUME Resolve(g) PROVE AnswerOK(g)' /\ ServedOK(g)' /\ UnservedOK(g)'
  <2>1. CASE Lookup(g) \/ Miss(g) \/ DeleteExpired(g) \/ AnswerFails(g)
    <3>1. /\ pc'[g] \in {"lookup", "expired", "asking", "refused"}
          /\ asked'[g] = asked[g] /\ source'[g] = source[g] /\ pc[g] # "resolved"
      BY <2>1 DEF Lookup, Miss, DeleteExpired, AnswerFails, Goto, CacheTypes
    <3> QED
      BY <1>2, <1>3, <3>1 DEF AnswerOK, ServedOK, UnservedOK, NoItem
  <2>2. CASE Ask(g)
    <3>1. /\ pc'[g] = "asked" /\ pc[g] # "resolved"
          /\ asked'[g] = now /\ source'[g] = source[g] /\ now' = now
      BY <2>2 DEF Ask, Goto, CacheTypes
    <3> QED
      BY <1>1, <1>3, <3>1 DEF AnswerOK, ServedOK, UnservedOK, NoItem
  <2>3. CASE Answer(g)
    <3>1. /\ pc'[g] = "answered" /\ pc[g] # "resolved" /\ asked'[g] = asked[g]
          /\ source'[g] = source[g] /\ retired' = retired
          /\ decision'[g].version = version
      BY <2>3 DEF Answer, Goto, CacheTypes
    <3>2. version \notin DOMAIN retired
      BY DEF CacheTypes
    <3> QED
      BY <1>2, <1>3, <3>1, <3>2 DEF AnswerOK, ServedOK, UnservedOK, NotBefore, NoItem
  <2>4. CASE Put(g)
    <3>1. /\ pc[g] = "answered" /\ pc'[g] = "resolved" /\ asked'[g] = asked[g]
          /\ source'[g] = source[g] /\ decision'[g] = decision[g] /\ retired' = retired
      BY <2>4 DEF Put, Goto, CacheTypes
    <3>2. source[g] = NoItem
      BY <1>3, <3>1 DEF UnservedOK
    <3>3. NotBefore(decision[g].version, asked[g])
      BY <3>1 DEF AnswerOK
    <3> QED
      BY <1>2, <3>1, <3>2, <3>3 DEF AnswerOK, ServedOK, UnservedOK, NotBefore, Since, NoItem
  <2>5. CASE Hit(g)
    <3> DEFINE it == items[key[g]]
    <3>1. /\ pc'[g] = "resolved" /\ asked'[g] = asked[g] /\ source'[g] = it
          /\ decision'[g].version = it.version /\ retired' = retired
          /\ asof'[g] = asof[g] /\ key'[g] = key[g]
          /\ key[g] \in DOMAIN items /\ asof[g] <= it.expires
      BY <2>5 DEF Hit, Valid, Goto, CacheTypes
    <3>2. ItemOK(key[g])
      BY <3>1
    <3>3. it # NoItem
      BY <3>1, <3>2, ItemIsSome
    <3>4. it.asked <= now' /\ NotBefore(it.version, it.asked) /\ it.of = key[g]
          /\ it.expires = it.put + PutTTL
      BY <1>1, <3>2 DEF ItemOK
    <3>5. Since(g)' = it.asked
      BY <3>1, <3>3 DEF Since, NoItem
    <3>6. ServedOK(g)'
      BY <3>1, <3>3, <3>4, <3>5 DEF ServedOK, NotBefore, NoItem, PutTTL
    <3> QED
      BY <1>2, <3>1, <3>6 DEF AnswerOK, UnservedOK
  <2>6. CASE Return(g)
    <3>1. pc'[g] = "new" /\ asked'[g] = 0 /\ source'[g] = NoItem
      BY <2>6 DEF Return, Goto, CacheTypes
    <3> QED
      BY <1>1, <3>1 DEF AnswerOK, ServedOK, UnservedOK, NoItem
  <2> QED
    BY <1>6, <2>1, <2>2, <2>3, <2>4, <2>5, <2>6 DEF Resolve
<1> QED
  BY <1>4, <1>5, <1>6 DEF CacheNext

LEMMA CacheInvInductive == CacheInv /\ [CacheNext]_cacheVars => CacheInv'
<1>1. ASSUME CacheInv, CacheNext PROVE CacheInv'
  BY <1>1, TypesKept, BoundKept, ItemsKept, AnswersKept DEF CacheInv
<1>2. ASSUME CacheInv, UNCHANGED cacheVars PROVE CacheInv'
  BY <1>2 DEF cacheVars, CacheInv, CacheTypes, Bounded, CacheBounded, ItemOK, AnswerOK,
              ServedOK, UnservedOK, NotBefore, Since, NoItem, PutTTL
<1> QED
  BY <1>1, <1>2

LEMMA CacheInvHolds == CacheSpec => []CacheInv
BY CacheInitially, CacheInvInductive, PTL DEF CacheSpec

-----------------------------------------------------------------------------
\* The cache never outgrows maxEntries (cache.go:63-69), whatever the handlers,
\* their expiries and evictions.
THEOREM CacheBoundedHolds == CacheSpec => []CacheBounded
<1>1. CacheInv => CacheBounded
  BY DEF CacheInv, Bounded
<1> QED
  BY <1>1, CacheInvHolds, PTL

\* A cached decision is only served to requests of its key (handler.go:383-397).
THEOREM ServedForItsKeyHolds == CacheSpec => []ServedForItsKey
<1>1. CacheInv => ServedForItsKey
  BY DEF CacheInv, ServedForItsKey, ServedOK
<1> QED
  BY <1>1, CacheInvHolds, PTL

\* What is served of a replaced policy is at most a TTL older than its Put, and was
\* the policy when its handler asked or later (handler.go:387-434).
THEOREM StaleWithinTTLHolds == CacheSpec => []StaleWithinTTL
<1>1. CacheInv => StaleWithinTTL
  BY DEF CacheInv, StaleWithinTTL, ServedOK, NotBefore, Since
<1> QED
  BY <1>1, CacheInvHolds, PTL

-----------------------------------------------------------------------------
(***************************************************************************)
(* The resolution of names                                                 *)
(***************************************************************************)
Entries == [backend : Keys \cup {Absent}, asked : Nat, put : Nat, expires : Nat]

\* b was published as n at t or later.
EverSince(n, b, t) == published[n] = b \/ withdrawn[n][b] >= t

PepTypes ==
    /\ published \in [Names -> Keys \cup {Absent}]
    /\ withdrawn \in [Names -> [Keys -> Nat]]
    /\ rcache \in [Names -> Entries]
    /\ rpc \in [Handlers -> {"request", "miss", "answered", "found", "refused"}]
    /\ name \in [Handlers -> Names \cup {NoName}]
    /\ wanted \in [Handlers -> Keys \cup {NoKey}]
    /\ target \in [Handlers -> Keys \cup {NoKey}]
    /\ basis \in [Handlers -> Entries]
    /\ looked \in [Handlers -> Nat]

EntryOK(n) ==
    rcache[n] # NoEntry =>
        /\ rcache[n].backend \in Keys
        /\ rcache[n].asked <= now
        /\ rcache[n].expires = rcache[n].put + ResourceTTL
        /\ EverSince(n, rcache[n].backend, rcache[n].asked)

\* What the control plane answered, until it is stored.
AnsweredOK(h) ==
    rpc[h] = "answered" => wanted[h] \in Keys /\ EverSince(name[h], wanted[h], looked[h])

\* What was resolved, by name or by route.
FoundOK(h) ==
    rpc[h] = "found" =>
        IF name[h] = NoName
        THEN wanted[h] \in DOMAIN Routes /\ target[h] = Routes[wanted[h]]
        ELSE /\ wanted[h] \in Keys /\ target[h] = wanted[h]
             /\ EverSince(name[h], target[h], basis[h].asked)
             /\ basis[h].asked <= now
             /\ looked[h] < basis[h].put + ResourceTTL

\* The name is there while it is being resolved, and a decision only after that.
PlaceOK(h) ==
    /\ looked[h] <= now
    /\ rpc[h] \in {"miss", "answered"} => name[h] # NoName
    /\ rpc[h] = "request" => name[h] = NoName
    /\ rpc[h] # "found" => pc[h] = "new"
    /\ pc[h] # "new" => key[h] = wanted[h]

PepInv ==
    /\ CacheInv /\ PepTypes
    /\ \A n \in Names : EntryOK(n)
    /\ \A h \in Handlers : AnsweredOK(h) /\ FoundOK(h) /\ PlaceOK(h)

\* Every step of the composition is one of the cache's or leaves it alone.
LEMMA PepStepsCache == ASSUME PepNext PROVE [CacheNext]_cacheVars
<1>1. ASSUME NEW h \in Handlers, Decides(h) PROVE CacheNext
  BY <1>1 DEF Decides, CacheNext
<1>2. ASSUME NEW h \in Handlers, Leave(h) PROVE [CacheNext]_cacheVars
  BY <1>2 DEF Leave, CacheNext, Resolve
<1>3. ASSUME NEW h \in Handlers, Resolution(h) PROVE UNCHANGED cacheVars
  BY <1>3 DEF Resolution, ResourceHit, ResourceMiss, CPResolves, ResolveFails, Store, Legacy
<1>4. ASSUME NEW n \in Names, Publish(n) PROVE UNCHANGED cacheVars
  BY <1>4 DEF Publish, AdminCreate, AdminUpdate, AdminDelete, Row
<1> QED
  BY <1>1, <1>2, <1>3, <1>4 DEF PepNext, CacheNext

\* The composition of resolution and decision drives the cache as CacheSpec says, so
\* each theorem above holds of it (handler.go:157-256).
THEOREM PepImplementsCache == PepSpec => CacheSpec
<1>1. PepInit => CacheInit
  BY DEF PepInit
<1>2. [PepNext]_pepVars => [CacheNext]_cacheVars
  BY PepStepsCache DEF pepVars
<1> QED
  BY <1>1, <1>2, PTL DEF PepSpec, CacheSpec

-----------------------------------------------------------------------------
LEMMA PepInitially == PepInit => PepInv
<1> SUFFICES ASSUME PepInit PROVE PepInv
  OBVIOUS
<1> USE DEF PepInit
<1>1. CacheInv
  BY CacheInitially
<1>2. PepTypes
  BY DEF PepTypes, NoEntry, Entries
<1>3. \A n \in Names : EntryOK(n)
  BY DEF EntryOK
<1>4. \A h \in Handlers : AnsweredOK(h) /\ FoundOK(h) /\ PlaceOK(h)
  BY DEF AnsweredOK, FoundOK, PlaceOK, CacheInit
<1> QED
  BY <1>1, <1>2, <1>3, <1>4 DEF PepInv

LEMMA PepTypesKept == ASSUME PepInv, PepNext PROVE PepTypes'
<1> USE ResourceConstants DEF PepInv, PepTypes, CacheInv, CacheTypes
<1>1. ASSUME NEW n \in Names, Publish(n) PROVE PepTypes'
  <2>1. PICK b \in Keys \cup {Absent} : Row(n, b)
    BY <1>1 DEF Publish, AdminCreate, AdminUpdate, AdminDelete
  <2>2. published' \in [Names -> Keys \cup {Absent}]
    BY <2>1 DEF Row
  <2>3. withdrawn' \in [Names -> [Keys -> Nat]]
    <3>1. CASE published[n] \in Keys
      <4>1. withdrawn' = [withdrawn EXCEPT ![n] = [withdrawn[n] EXCEPT ![published[n]] = now]]
        BY <2>1, <3>1 DEF Row
      <4>2. [withdrawn[n] EXCEPT ![published[n]] = now] \in [Keys -> Nat]
        BY <3>1
      <4> QED
        BY <4>1, <4>2
    <3>2. CASE published[n] \notin Keys
      BY <2>1, <3>2 DEF Row
    <3> QED
      BY <3>1, <3>2
  <2> QED
    BY <2>1, <2>2, <2>3 DEF Row
<1>2. ASSUME NEW h \in Handlers, Resolution(h) PROVE PepTypes'
  <2>1. ASSUME NEW n \in Names, ResourceHit(h, n) PROVE PepTypes'
    BY <2>1 DEF ResourceHit, Found, RGoto, Usable, EntryOK, Entries
  <2>2. ASSUME NEW n \in Names, ResourceMiss(h, n) PROVE PepTypes'
    BY <2>2 DEF ResourceMiss, RGoto
  <2>3. CASE CPResolves(h)
    BY <2>3 DEF CPResolves, RGoto
  <2>4. CASE ResolveFails(h)
    BY <2>4 DEF ResolveFails, RGoto
  <2>5. CASE Store(h)
    <3>1. NewEntry(h) \in Entries /\ NewEntry(h).backend \in Keys
      BY <2>5 DEF Store, NewEntry, Entries, AnsweredOK
    <3>2. name[h] \in Names
      BY <2>5 DEF Store, PlaceOK
    <3> QED
      BY <2>5, <3>1, <3>2 DEF Store, Found, RGoto
  <2>6. CASE Legacy(h)
    BY <2>6 DEF Legacy, RGoto
  <2> QED
    BY <1>2, <2>1, <2>2, <2>3, <2>4, <2>5, <2>6 DEF Resolution
<1>3. ASSUME NEW h \in Handlers, Leave(h) PROVE PepTypes'
  BY <1>3 DEF Leave, RGoto, NoEntry, Entries
<1>4. CASE UNCHANGED resourceVars
  BY <1>4 DEF resourceVars
<1> QED
  BY <1>1, <1>2, <1>3, <1>4 DEF PepNext, Decides

LEMMA PepTimeMovesOn == ASSUME PepInv, PepNext PROVE now \in Nat /\ now' \in Nat /\ now <= now'
BY PepStepsCache, TimeMovesOn DEF PepInv, CacheInv, CacheTypes, cacheVars

\* A withdrawal is dated now, after anything asked before.
LEMMA SinceKept ==
  ASSUME PepInv, PepNext, NEW n \in Names, NEW b \in Keys, NEW t \in Nat, t <= now,
         EverSince(n, b, t)
  PROVE  EverSince(n, b, t)'
<1>1. ASSUME NEW m \in Names, Publish(m) PROVE EverSince(n, b, t)'
  BY <1>1 DEF Publish, AdminCreate, AdminUpdate, AdminDelete, Row, EverSince, PepInv, PepTypes
<1>2. CASE UNCHANGED <<published, withdrawn>>
  BY <1>2 DEF EverSince
<1> QED
  BY <1>1, <1>2 DEF PepNext, Decides, Leave, Resolution, ResourceHit, ResourceMiss, CPResolves,
                    ResolveFails, Store, Legacy, resourceVars

LEMMA EntriesKept == ASSUME PepInv, PepNext, NEW n \in Names PROVE EntryOK(n)'
<1> USE DEF PepInv
<1>1. ASSUME NEW h \in Handlers, Store(h), n = name[h] PROVE EntryOK(n)'
  <2>1. /\ rcache'[n] = NewEntry(h) /\ UNCHANGED <<published, withdrawn, now>>
        /\ AnsweredOK(h) /\ rpc[h] = "answered" /\ looked[h] <= now
    BY <1>1 DEF Store, PepTypes, PlaceOK, cacheVars
  <2>2. /\ rcache'[n].backend = wanted[h] /\ rcache'[n].asked = looked[h]
        /\ rcache'[n].expires = rcache'[n].put + ResourceTTL
    BY <2>1 DEF NewEntry
  <2>3. wanted[h] \in Keys /\ EverSince(n, wanted[h], looked[h])
    BY <1>1, <2>1 DEF AnsweredOK
  <2> QED
    BY <2>1, <2>2, <2>3 DEF EntryOK, EverSince
<1>2. CASE rcache'[n] = rcache[n]
  <2>1. SUFFICES ASSUME rcache[n] # NoEntry PROVE EntryOK(n)'
    BY <1>2 DEF EntryOK, NoEntry
  <2>2. /\ rcache[n].backend \in Keys /\ rcache[n].asked \in Nat /\ rcache[n].asked <= now
        /\ rcache[n].expires = rcache[n].put + ResourceTTL
        /\ EverSince(n, rcache[n].backend, rcache[n].asked)
    BY <2>1 DEF EntryOK, PepTypes, Entries
  <2>3. \A b \in Keys, t \in Nat : t <= now /\ EverSince(n, b, t) =>
           published'[n] = b \/ withdrawn'[n][b] >= t
    BY SinceKept DEF EverSince
  <2>4. rcache[n].asked <= now'
    BY <2>2, PepTimeMovesOn
  <2> QED
    BY <1>2, <2>2, <2>3, <2>4 DEF EntryOK, EverSince
<1> QED
  BY <1>1, <1>2 DEF PepNext, Decides, Leave, Resolution, ResourceHit, ResourceMiss, CPResolves,
                    ResolveFails, Store, Legacy, Publish, AdminCreate, AdminUpdate, AdminDelete, Row, resourceVars, PepTypes

\* A handler none of whose own variables change.
LEMMA OtherHandlers ==
  ASSUME PepInv, PepNext, NEW g \in Handlers,
         rpc'[g] = rpc[g], name'[g] = name[g], wanted'[g] = wanted[g], target'[g] = target[g],
         basis'[g] = basis[g], looked'[g] = looked[g]
  PROVE  /\ AnsweredOK(g)' /\ FoundOK(g)'
         /\ pc'[g] = pc[g] /\ key'[g] = key[g] => PlaceOK(g)'
<1> USE DEF PepInv
<1>1. now \in Nat /\ now' \in Nat /\ now <= now'
  BY PepTimeMovesOn
<1>2. /\ looked[g] \in Nat /\ looked[g] <= now /\ basis[g].asked \in Nat
      /\ rpc[g] \in {"miss", "answered"} => name[g] # NoName
      /\ name[g] # NoName => name[g] \in Names
  BY DEF PepTypes, PlaceOK, Entries
<1>3. \A n \in Names, b \in Keys, t \in Nat : t <= now /\ EverSince(n, b, t) =>
         published'[n] = b \/ withdrawn'[n][b] >= t
  BY SinceKept DEF EverSince
<1>4. AnsweredOK(g)'
  BY <1>2, <1>3 DEF AnsweredOK, EverSince
<1>5. FoundOK(g)'
  <2>1. SUFFICES ASSUME rpc[g] = "found", name[g] # NoName PROVE FoundOK(g)'
    BY DEF FoundOK
  <2>2. /\ wanted[g] \in Keys /\ target[g] = wanted[g] /\ basis[g].asked <= now
        /\ EverSince(name[g], target[g], basis[g].asked)
        /\ looked[g] < basis[g].put + ResourceTTL
    BY <2>1 DEF FoundOK
  <2>3. EverSince(name[g], target[g], basis[g].asked)' /\ basis[g].asked <= now'
    BY <1>1, <1>2, <1>3, <2>1, <2>2 DEF EverSince
  <2> QED
    BY <2>2, <2>3 DEF FoundOK, EverSince
<1>6. pc'[g] = pc[g] /\ key'[g] = key[g] => PlaceOK(g)'
  BY <1>1, <1>2 DEF PlaceOK
<1> QED
  BY <1>4, <1>5, <1>6

LEMMA HandlersKept ==
  ASSUME PepInv, PepNext, NEW g \in Handlers
  PROVE  AnsweredOK(g)' /\ FoundOK(g)' /\ PlaceOK(g)'
<1> USE ResourceConstants DEF PepInv, PepTypes
<1> DEFINE OK == AnsweredOK(g)' /\ FoundOK(g)' /\ PlaceOK(g)'
<1>1. AnsweredOK(g) /\ FoundOK(g) /\ PlaceOK(g) /\ now \in Nat
  BY PepTimeMovesOn
<1>2. ASSUME NEW n \in Names, Publish(n) PROVE OK
  BY <1>2, OtherHandlers DEF Publish, AdminCreate, AdminUpdate, AdminDelete, Row, cacheVars
<1>3. CASE (Tick \/ Activate \/ Clear) /\ UNCHANGED resourceVars
  BY <1>3, OtherHandlers DEF Tick, Activate, Clear, resourceVars
<1>4. ASSUME NEW h \in Handlers, Resolution(h) \/ Leave(h) \/ Decides(h), h # g PROVE OK
  <2>1. pc'[g] = pc[g] /\ key'[g] = key[g]
    BY <1>4 DEF Resolution, ResourceHit, ResourceMiss, CPResolves, ResolveFails, Store, Legacy,
                Leave, Decides, cacheVars, Resolve, Lookup, Hit, Miss, DeleteExpired, Ask, Answer,
                AnswerFails, Put, Return, Goto, CacheInv, CacheTypes
  <2>2. /\ rpc'[g] = rpc[g] /\ name'[g] = name[g] /\ wanted'[g] = wanted[g]
        /\ target'[g] = target[g] /\ basis'[g] = basis[g] /\ looked'[g] = looked[g]
    BY <1>4 DEF Resolution, ResourceHit, ResourceMiss, CPResolves, ResolveFails, Store, Legacy,
                Leave, Decides, Found, RGoto, resourceVars
  <2> QED
    BY <2>1, <2>2, OtherHandlers
<1>5. ASSUME NEW n \in Names, ResourceHit(g, n) PROVE OK
  <2>1. EntryOK(n) /\ rcache[n] # NoEntry /\ now < rcache[n].expires /\ rcache[n] \in Entries
    BY <1>5 DEF ResourceHit, Usable
  <2>2. /\ rpc[g] = "request" /\ rpc'[g] = "found" /\ name'[g] = n /\ n # NoName
        /\ wanted'[g] = rcache[n].backend /\ target'[g] = rcache[n].backend
        /\ basis'[g] = rcache[n] /\ looked'[g] = now
        /\ UNCHANGED <<now, pc, key, published, withdrawn>>
    BY <1>5 DEF ResourceHit, Found, RGoto, cacheVars
  <2>3. pc[g] = "new"
    BY <1>1, <2>2 DEF PlaceOK
  <2>4. AnsweredOK(g)' /\ PlaceOK(g)'
    BY <1>1, <2>2, <2>3 DEF AnsweredOK, PlaceOK
  <2>5. FoundOK(g)'
    BY <2>1, <2>2 DEF FoundOK, EntryOK, EverSince
  <2> QED
    BY <2>4, <2>5
<1>6. ASSUME NEW n \in Names, ResourceMiss(g, n) PROVE OK
  BY <1>1, <1>6 DEF ResourceMiss, RGoto, cacheVars, AnsweredOK, FoundOK, PlaceOK
<1>7. CASE CPResolves(g)
  <2>1. /\ rpc[g] = "miss" /\ rpc'[g] = "answered" /\ wanted'[g] = published[name[g]]
        /\ published[name[g]] \in Keys
        /\ UNCHANGED <<now, pc, key, published, withdrawn, name, looked>>
    BY <1>7 DEF CPResolves, RGoto, cacheVars
  <2> QED
    BY <1>1, <2>1 DEF AnsweredOK, FoundOK, PlaceOK, EverSince
<1>8. CASE ResolveFails(g)
  BY <1>1, <1>8 DEF ResolveFails, RGoto, cacheVars, AnsweredOK, FoundOK, PlaceOK
<1>9. CASE Store(g)
  <2>1. /\ rpc[g] = "answered" /\ rpc'[g] = "found" /\ name'[g] = name[g] /\ name[g] # NoName
        /\ wanted'[g] = wanted[g] /\ target'[g] = wanted[g] /\ basis'[g] = NewEntry(g)
        /\ UNCHANGED <<now, pc, key, published, withdrawn, looked>>
    BY <1>1, <1>9 DEF Store, Found, RGoto, NewEntry, cacheVars, PlaceOK
  <2>2. basis'[g].asked = looked[g] /\ basis'[g].put = now
    BY <2>1 DEF NewEntry
  <2>3. /\ wanted[g] \in Keys /\ EverSince(name[g], wanted[g], looked[g])
        /\ looked[g] \in Nat /\ looked[g] <= now
    BY <1>1, <2>1 DEF AnsweredOK, PlaceOK
  <2>4. FoundOK(g)'
    <3> HIDE DEF PepInv, PepTypes
    <3>1. looked'[g] = looked[g] /\ now' = now /\ ResourceTTL \in Nat \ {0} /\ now \in Nat
      BY <1>1, <2>1
    <3>2. looked'[g] < basis'[g].put + ResourceTTL /\ basis'[g].asked <= now'
      BY <2>2, <2>3, <3>1
    <3>3. EverSince(name[g], target[g], basis[g].asked)'
      BY <2>1, <2>2, <2>3 DEF EverSince
    <3> QED
      BY <2>1, <2>3, <3>2, <3>3 DEF FoundOK
  <2>5. AnsweredOK(g)' /\ PlaceOK(g)'
    BY <1>1, <2>1 DEF AnsweredOK, PlaceOK
  <2> QED
    BY <2>4, <2>5
<1>10. CASE Legacy(g)
  <2>1. PICK k \in DOMAIN Routes : wanted'[g] = k /\ target'[g] = Routes[k]
    BY <1>10 DEF Legacy
  <2>2. /\ rpc[g] = "request" /\ rpc'[g] = "found"
        /\ UNCHANGED <<now, pc, key, name, looked>>
    BY <1>10 DEF Legacy, RGoto, cacheVars
  <2> QED
    BY <1>1, <2>1, <2>2 DEF AnsweredOK, FoundOK, PlaceOK
<1>11. CASE Leave(g)
  <2>1. rpc'[g] = "request" /\ name'[g] = NoName /\ looked'[g] = 0 /\ now' \in Nat
    BY <1>11, PepTimeMovesOn DEF Leave, RGoto
  <2>2. pc'[g] = "new"
    BY <1>1, <1>11 DEF Leave, Return, Goto, cacheVars, PlaceOK, CacheInv, CacheTypes
  <2> QED
    BY <2>1, <2>2 DEF AnsweredOK, FoundOK, PlaceOK
<1>12. CASE Decides(g)
  <2>1. AnsweredOK(g)' /\ FoundOK(g)' /\ rpc'[g] = "found" /\ UNCHANGED <<wanted, looked>>
    BY <1>12, OtherHandlers DEF Decides, resourceVars
  <2>2. key'[g] = wanted[g]
    <3>1. CASE Lookup(g)
      BY <1>12, <3>1 DEF Decides, Lookup
    <3>2. CASE ~Lookup(g)
      BY <1>1, <1>12, <3>2 DEF Decides, PlaceOK, Resolve, Hit, Miss, DeleteExpired, Ask, Answer,
                               AnswerFails, Put
    <3> QED
      BY <3>1, <3>2
  <2>3. looked'[g] <= now'
    BY <1>1, <2>1, PepTimeMovesOn DEF PlaceOK
  <2> QED
    BY <2>1, <2>2, <2>3 DEF PlaceOK
<1> QED
  BY <1>2, <1>3, <1>4, <1>5, <1>6, <1>7, <1>8, <1>9, <1>10, <1>11, <1>12 DEF PepNext, Resolution

LEMMA PepInvInductive == PepInv /\ [PepNext]_pepVars => PepInv'
<1>1. ASSUME PepInv, PepNext PROVE PepInv'
  <2>1. CacheInv'
    BY <1>1, PepStepsCache, CacheInvInductive DEF PepInv
  <2> QED
    BY <1>1, <2>1, PepTypesKept, EntriesKept, HandlersKept DEF PepInv
<1>2. ASSUME PepInv, UNCHANGED pepVars PROVE PepInv'
  <2>1. CacheInv'
    BY <1>2, CacheInvInductive DEF PepInv, pepVars
  <2>2. PepTypes'
    BY <1>2 DEF PepInv, pepVars, resourceVars, PepTypes
  <2>3. \A n \in Names : EntryOK(n)'
    BY <1>2 DEF PepInv, pepVars, cacheVars, resourceVars, EntryOK, EverSince, NoEntry
  <2>4. \A h \in Handlers : AnsweredOK(h)' /\ FoundOK(h)' /\ PlaceOK(h)'
    BY <1>2 DEF PepInv, pepVars, cacheVars, resourceVars, AnsweredOK, FoundOK, PlaceOK, EverSince
  <2> QED
    BY <2>1, <2>2, <2>3, <2>4 DEF PepInv
<1> QED
  BY <1>1, <1>2

LEMMA PepInvHolds == PepSpec => []PepInv
BY PepInitially, PepInvInductive, PTL DEF PepSpec

\* For any number of handlers and names, a name is dialled at a backend it had when the
\* gateway asked or later, at most a TTL after the answer (client.go:59-113).
THEOREM PublishedWithinTTLHolds == PepSpec => []PublishedWithinTTL
<1>1. PepInv => PublishedWithinTTL
  BY DEF PepInv, FoundOK, PublishedWithinTTL, EverSince
<1> QED
  BY <1>1, PepInvHolds, PTL

\* A session's backend is the one its decision was given on (handler.go:157-256, 380-442).
THEOREM AuthorizedIsDialledHolds == PepSpec => []AuthorizedIsDialled
<1>1. ASSUME PepInv, NEW h \in Handlers, pc[h] = "resolved"
      PROVE  LET decided == IF source[h] = NoItem THEN key[h] ELSE source[h].of IN
             target[h] = IF name[h] = NoName THEN Routes[decided] ELSE decided
  <2>1. rpc[h] = "found" /\ key[h] = wanted[h] /\ FoundOK(h)
    BY <1>1 DEF PepInv, PlaceOK
  <2>2. source[h] # NoItem => source[h].of = key[h]
    BY <1>1 DEF PepInv, CacheInv, ServedOK
  <2> QED
    BY <2>1, <2>2 DEF FoundOK
<1>2. PepInv => AuthorizedIsDialled
  BY <1>1 DEF AuthorizedIsDialled
<1> QED
  BY <1>2, PepInvHolds, PTL
=============================================================================
