--------------------------- MODULE RateLimiterProofs ---------------------------
(***************************************************************************)
(* Proofs about RateLimiter, for every rate, burst and idle time such that *)
(* an idle bucket is full before its key is deleted.                       *)
(***************************************************************************)
EXTENDS RateLimiter, TLAPS

LEMMA RateAdds == \A x \in Nat : Rate * (x + 1) = Rate * x + Rate /\ Rate * x \in Nat
  BY LimiterConstants

LEMMA RateGrows == \A x, y \in Nat : x <= y => Rate * x <= Rate * y
<1> SUFFICES ASSUME NEW x \in Nat, NEW y \in Nat, x <= y PROVE Rate * x <= Rate * y
  OBVIOUS
<1>1. Rate * y = Rate * x + Rate * (y - x)
  BY LimiterConstants
<1>2. Rate * (y - x) \in Nat /\ Rate * x \in Nat
  BY RateAdds
<1> QED
  BY <1>1, <1>2

\* Every variable keeps its type.
THEOREM LimiterTypeCorrect == LimiterSpec => []LimiterTypeOK
<1> USE LimiterConstants DEF LimiterTypeOK, Entry
<1>1. LimiterInit => LimiterTypeOK
  BY DEF LimiterInit
<1>2. LimiterTypeOK /\ [LimiterNext]_limiterVars => LimiterTypeOK'
  <2> SUFFICES ASSUME LimiterTypeOK, [LimiterNext]_limiterVars PROVE LimiterTypeOK'
    OBVIOUS
  <2>1. ASSUME NEW k \in Keys PROVE EntryOf(k) \in Entry /\ EntryOf(k).last <= now
    BY DEF EntryOf, NewLimiter
  <2>2. ASSUME NEW k \in Keys PROVE Advance(EntryOf(k)) \in 0..Burst
    <3>1. EntryOf(k).tokens \in 0..Burst /\ now - EntryOf(k).last \in Nat
      BY <2>1
    <3>2. Rate * (now - EntryOf(k).last) \in Nat
      BY <3>1, RateAdds
    <3> QED
      BY <3>1, <3>2 DEF Advance, AtMost
  <2>3. ASSUME NEW k \in Keys, NEW e \in Entry, e.last <= e.lastSeen, e.lastSeen = now,
               Put(k, e), UNCHANGED now
        PROVE  /\ DOMAIN limiters' \subseteq Keys
               /\ \A j \in DOMAIN limiters' : /\ limiters'[j] \in Entry
                                              /\ limiters'[j].last <= limiters'[j].lastSeen
                                              /\ limiters'[j].lastSeen <= now'
    BY <2>3 DEF Put
  <2>4. ASSUME NEW k \in Keys, Allow(k) PROVE LimiterTypeOK'
    <3> DEFINE e == [tokens |-> Advance(EntryOf(k)) - 1, last |-> now, lastSeen |-> now]
    <3>1. e \in Entry /\ e.last <= e.lastSeen /\ e.lastSeen = now
      BY <2>2, <2>4 DEF Allow
    <3>2. Put(k, e) /\ UNCHANGED <<now, since>>
      BY <2>4 DEF Allow
    <3>3. granted' \in [Keys -> Nat]
      BY <2>4 DEF Allow
    <3> HIDE DEF e
    <3> QED
      BY <2>3, <3>1, <3>2, <3>3
  <2>5. ASSUME NEW k \in Keys, Deny(k) PROVE LimiterTypeOK'
    <3> DEFINE e == [EntryOf(k) EXCEPT !.lastSeen = now]
    <3>1. e \in Entry /\ e.last <= e.lastSeen /\ e.lastSeen = now
      BY <2>1
    <3>2. Put(k, e) /\ UNCHANGED <<now, since, granted>>
      BY <2>5 DEF Deny
    <3> HIDE DEF e
    <3> QED
      BY <2>3, <3>1, <3>2
  <2>6. CASE Cleanup
    BY <2>6 DEF Cleanup
  <2>7. CASE Tick
    BY <2>7 DEF Tick
  <2>8. CASE OpenWindow
    BY <2>8 DEF OpenWindow
  <2>9. CASE UNCHANGED limiterVars
    BY <2>9 DEF limiterVars
  <2> QED
    BY <2>4, <2>5, <2>6, <2>7, <2>8, <2>9 DEF LimiterNext
<1> QED
  BY <1>1, <1>2, PTL DEF LimiterSpec
-----------------------------------------------------------------------------
(***************************************************************************)
(* The level of a key's bucket, whether the map has it or not              *)
(***************************************************************************)
Level(k) == Advance(EntryOf(k))

LEMMA LevelType == ASSUME LimiterTypeOK, NEW k \in Keys PROVE Level(k) \in 0..Burst
<1> USE LimiterConstants DEF LimiterTypeOK, Entry
<1>1. EntryOf(k) \in Entry /\ EntryOf(k).last <= now
  BY DEF EntryOf, NewLimiter
<1>2. EntryOf(k).tokens \in Nat /\ now - EntryOf(k).last \in Nat
  BY <1>1
<1>3. Rate * (now - EntryOf(k).last) \in Nat
  BY <1>2, RateAdds
<1>4. Level(k) = AtMost(EntryOf(k).tokens + Rate * (now - EntryOf(k).last), Burst)
  BY DEF Level, Advance
<1> QED
  BY <1>2, <1>3, <1>4 DEF AtMost

\* A key the map does not have counts as full.
LEMMA LevelOfNone == ASSUME LimiterTypeOK, NEW k \in Keys \ DOMAIN limiters PROVE Level(k) = Burst
<1>1. Rate * (now - now) = 0
  BY LimiterConstants DEF LimiterTypeOK
<1> QED
  BY <1>1, LimiterConstants DEF LimiterTypeOK, Level, Advance, AtMost, EntryOf, NewLimiter

LEMMA AllowLevel ==
    ASSUME LimiterTypeOK, NEW k \in Keys, Allow(k)
    PROVE  /\ Level(k) >= 1 /\ Level(k)' = Level(k) - 1
           /\ \A j \in Keys \ {k} : Level(j)' = Level(j)
<1> DEFINE e == [tokens |-> Level(k) - 1, last |-> now, lastSeen |-> now]
<1>1. Put(k, e) /\ now' = now /\ Level(k) >= 1
  BY DEF Allow, Level
<1>2. EntryOf(k)' = e /\ \A j \in Keys \ {k} : EntryOf(j)' = EntryOf(j)
  <2> HIDE DEF e
  <2> QED
    BY <1>1 DEF Put, EntryOf, NewLimiter
<1>3. Level(k) \in 0..Burst
  BY LevelType
<1>4. Rate * (now - now) = 0
  BY LimiterConstants DEF LimiterTypeOK
<1>5. Level(k)' = AtMost(e.tokens + Rate * (now - e.last), Burst)
  BY <1>1, <1>2 DEF Level, Advance
<1>6. Level(k)' = Level(k) - 1
  BY <1>1, <1>3, <1>4, <1>5, LimiterConstants DEF AtMost
<1>7. \A j \in Keys \ {k} : Level(j)' = Level(j)
  BY <1>1, <1>2 DEF Level, Advance
<1> QED
  BY <1>1, <1>6, <1>7

LEMMA DenyLevel ==
    ASSUME LimiterTypeOK, NEW k \in Keys, Deny(k)
    PROVE  Level(k) = 0 /\ \A j \in Keys : Level(j)' = Level(j)
<1> DEFINE e == [EntryOf(k) EXCEPT !.lastSeen = now]
<1>1. Put(k, e) /\ now' = now /\ Level(k) = 0
  BY DEF Deny, Level
<1>2. EntryOf(k)' = e /\ \A j \in Keys \ {k} : EntryOf(j)' = EntryOf(j)
  <2> HIDE DEF e
  <2> QED
    BY <1>1 DEF Put, EntryOf, NewLimiter
<1>3. EntryOf(k) \in Entry
  BY LimiterConstants DEF LimiterTypeOK, Entry, EntryOf, NewLimiter
<1>4. e.tokens = EntryOf(k).tokens /\ e.last = EntryOf(k).last
  BY <1>3 DEF Entry
<1>5. Level(k)' = Level(k)
  BY <1>1, <1>2, <1>4 DEF Level, Advance
<1>6. \A j \in Keys \ {k} : Level(j)' = Level(j)
  BY <1>1, <1>2 DEF Level, Advance
<1> QED
  BY <1>1, <1>5, <1>6

LEMMA TickLevel ==
    ASSUME LimiterTypeOK, Tick, NEW k \in Keys PROVE Level(k)' = AtMost(Level(k) + Rate, Burst)
<1> USE LimiterConstants DEF LimiterTypeOK
<1>1. limiters' = limiters /\ now' = now + 1
  BY DEF Tick
<1>2. CASE k \in DOMAIN limiters
  <2> DEFINE e == limiters[k]
             t == Rate * (now - e.last)
  <2>1. e \in Entry /\ now - e.last \in Nat
    BY <1>2 DEF Entry
  <2>2. t \in Nat /\ Rate * ((now - e.last) + 1) = t + Rate
    BY <2>1, RateAdds
  <2>3. (now + 1) - e.last = (now - e.last) + 1
    BY <2>1 DEF Entry
  <2>4. Level(k) = AtMost(e.tokens + t, Burst)
    BY <1>2 DEF Level, Advance, EntryOf
  <2>5. Level(k)' = AtMost(e.tokens + Rate * ((now + 1) - e.last), Burst)
    BY <1>1, <1>2 DEF Level, Advance, EntryOf
  <2>6. Level(k)' = AtMost(e.tokens + (t + Rate), Burst)
    BY <2>2, <2>3, <2>5
  <2>7. e.tokens \in Nat
    BY <2>1 DEF Entry
  <2> HIDE DEF t, e
  <2> QED
    BY <2>2, <2>4, <2>6, <2>7 DEF AtMost
<1>3. CASE k \notin DOMAIN limiters
  <2>1. LimiterTypeOK'
    BY <1>1 DEF Tick, Entry
  <2>2. Level(k) = Burst
    BY <1>3, LevelOfNone
  <2>3. Rate * ((now + 1) - (now + 1)) = 0
    OBVIOUS
  <2>4. Level(k)' = Burst
    BY <1>1, <1>3, <2>3 DEF Level, Advance, AtMost, EntryOf, NewLimiter
  <2> QED
    BY <2>2, <2>4 DEF AtMost
<1> QED
  BY <1>2, <1>3

\* The key idled so long that its bucket was full: deleting it loses nothing.
LEMMA CleanupLevel ==
    ASSUME LimiterTypeOK, Cleanup, NEW k \in Keys PROVE Level(k)' = Level(k)
<1> USE LimiterConstants DEF LimiterTypeOK
<1>1. now' = now /\ limiters' = [j \in {j \in DOMAIN limiters : ~Stale(j)} |-> limiters[j]]
  BY DEF Cleanup
<1>2. CASE k \notin DOMAIN limiters \/ ~Stale(k)
  BY <1>1, <1>2 DEF Level, Advance, EntryOf, NewLimiter
<1>3. CASE k \in DOMAIN limiters /\ Stale(k)
  <2> DEFINE e == limiters[k]
  <2>1. e \in Entry /\ e.last + Idle < now
    BY <1>3 DEF Stale, Entry
  <2>2. now - e.last \in Nat /\ Idle <= now - e.last /\ e.tokens \in Nat
    BY <2>1 DEF Entry
  <2>3. Rate * Idle <= Rate * (now - e.last) /\ Rate * (now - e.last) \in Nat /\ Rate * Idle \in Nat
    BY <2>2, RateGrows, RateAdds
  <2>4. Level(k) = AtMost(e.tokens + Rate * (now - e.last), Burst)
    BY <1>3 DEF Level, Advance, EntryOf
  <2>5. Level(k) = Burst
    <3> HIDE DEF e
    <3> QED
      BY <2>2, <2>3, <2>4 DEF AtMost
  <2>6. Rate * (now - now) = 0
    OBVIOUS
  <2>7. Level(k)' = Burst
    BY <1>1, <1>3, <2>6 DEF Level, Advance, AtMost, EntryOf, NewLimiter
  <2> QED
    BY <2>5, <2>7
<1> QED
  BY <1>2, <1>3
-----------------------------------------------------------------------------
(***************************************************************************)
(* The rate of a window, and the abstract bucket                           *)
(***************************************************************************)
\* What passed in the window and what is left never exceed what it was given.
WindowInv == \A k \in Keys : granted[k] + Level(k) <= Burst + Rate * (now - since)

LEMMA WindowInvStep == LimiterTypeOK /\ WindowInv /\ [LimiterNext]_limiterVars => WindowInv'
<1> SUFFICES ASSUME LimiterTypeOK, WindowInv, [LimiterNext]_limiterVars, NEW j \in Keys
             PROVE  (granted[j] + Level(j) <= Burst + Rate * (now - since))'
  BY DEF WindowInv
<1> USE LimiterConstants
<1>1. Level(j) \in 0..Burst /\ granted[j] \in Nat /\ now - since \in Nat
  BY LevelType DEF LimiterTypeOK
<1>2. granted[j] + Level(j) <= Burst + Rate * (now - since) /\ Rate * (now - since) \in Nat
  BY <1>1, RateAdds DEF WindowInv
<1>3. ASSUME NEW k \in Keys, Allow(k) PROVE (granted[j] + Level(j) <= Burst + Rate * (now - since))'
  <2>1. now' = now /\ since' = since
    BY <1>3 DEF Allow
  <2>2. CASE j = k
    <3>1. granted'[j] = granted[j] + 1 /\ Level(j)' = Level(j) - 1
      BY <1>3, <2>2, AllowLevel DEF Allow, LimiterTypeOK
    <3> QED
      BY <1>1, <1>2, <2>1, <3>1
  <2>3. CASE j # k
    <3>1. granted'[j] = granted[j] /\ Level(j)' = Level(j)
      BY <1>3, <2>3, AllowLevel DEF Allow, LimiterTypeOK
    <3> QED
      BY <1>2, <2>1, <3>1
  <2> QED
    BY <2>2, <2>3
<1>4. ASSUME NEW k \in Keys, Deny(k) PROVE (granted[j] + Level(j) <= Burst + Rate * (now - since))'
  BY <1>2, <1>4, DenyLevel DEF Deny
<1>5. CASE Cleanup
  BY <1>2, <1>5, CleanupLevel DEF Cleanup
<1>6. CASE Tick
  <2>1. granted' = granted /\ since' = since /\ now' = now + 1
    BY <1>6 DEF Tick
  <2>2. Level(j)' <= Level(j) + Rate /\ Level(j)' \in Nat
    BY <1>1, <1>6, TickLevel DEF AtMost
  <2>3. Rate * (now' - since) = Rate * (now - since) + Rate
    <3>1. now' - since = (now - since) + 1
      BY <2>1 DEF LimiterTypeOK
    <3> QED
      BY <3>1, <1>1, RateAdds
  <2> QED
    BY <1>1, <1>2, <2>1, <2>2, <2>3
<1>7. CASE OpenWindow
  <2>1. granted'[j] = 0 /\ now' - since' = 0 /\ UNCHANGED <<limiters, now>>
    BY <1>7 DEF OpenWindow, LimiterTypeOK
  <2>2. Level(j)' = Level(j)
    BY <2>1 DEF Level, Advance, EntryOf, NewLimiter
  <2>3. Rate * (now' - since') = 0
    BY <2>1
  <2> QED
    BY <1>1, <2>1, <2>2, <2>3
<1>8. CASE UNCHANGED limiterVars
  BY <1>2, <1>8 DEF limiterVars, Level, Advance, EntryOf, NewLimiter
<1> QED
  BY <1>3, <1>4, <1>5, <1>6, <1>7, <1>8 DEF LimiterNext

LEMMA WindowInvInit == LimiterInit => WindowInv
<1> SUFFICES ASSUME LimiterInit, NEW k \in Keys
             PROVE  granted[k] + Level(k) <= Burst + Rate * (now - since)
  BY DEF WindowInv
<1>1. LimiterTypeOK
  BY DEF LimiterInit, LimiterTypeOK
<1>2. Level(k) = Burst
  BY <1>1, LevelOfNone DEF LimiterInit
<1>3. granted[k] = 0 /\ Rate * (now - since) = 0
  BY LimiterConstants DEF LimiterInit
<1> QED
  BY <1>2, <1>3, LimiterConstants

\* No window lets a key pass more than its burst and the rate allow.
THEOREM WithinRateHolds == LimiterSpec => []WithinRate
<1>1. LimiterTypeOK /\ WindowInv => WithinRate
  <2> SUFFICES ASSUME LimiterTypeOK, WindowInv, NEW k \in Keys
               PROVE  granted[k] <= Burst + Rate * (now - since)
    BY DEF WithinRate
  <2>1. Level(k) \in 0..Burst /\ granted[k] \in Nat /\ now - since \in Nat
    BY LevelType DEF LimiterTypeOK
  <2>2. Rate * (now - since) \in Nat
    BY <2>1, RateAdds
  <2> QED
    BY <2>1, <2>2, LimiterConstants DEF WindowInv
<1> QED
  BY <1>1, WindowInvInit, WindowInvStep, LimiterTypeCorrect, PTL DEF LimiterSpec

\* The limiter with its cleanup implements buckets that are kept for ever.
THEOREM BucketImplemented == LimiterSpec => ImplementsBucket
<1> DEFINE bucket == [k \in Keys |-> Level(k)]
<1>1. LimiterInit => Bucket!BucketInit
  <2> SUFFICES ASSUME LimiterInit PROVE Bucket!BucketInit
    OBVIOUS
  <2>1. LimiterTypeOK
    BY DEF LimiterInit, LimiterTypeOK
  <2>2. \A k \in Keys : Level(k) = Burst
    BY <2>1, LevelOfNone DEF LimiterInit
  <2> QED
    BY <2>2 DEF LimiterInit, Bucket!BucketInit, Level
<1>2. LimiterTypeOK /\ [LimiterNext]_limiterVars => [Bucket!BucketNext]_(Bucket!bucketVars)
  <2> SUFFICES ASSUME LimiterTypeOK, [LimiterNext]_limiterVars
               PROVE  Bucket!BucketNext \/ UNCHANGED Bucket!bucketVars
    OBVIOUS
  <2>1. ASSUME NEW k \in Keys, Allow(k) PROVE Bucket!Pass(k)
    <3>1. Level(k) >= 1 /\ Level(k)' = Level(k) - 1 /\ \A j \in Keys \ {k} : Level(j)' = Level(j)
      BY <2>1, AllowLevel
    <3> QED
      BY <2>1, <3>1 DEF Bucket!Pass, Level, Allow
  <2>2. ASSUME NEW k \in Keys, Deny(k) PROVE Bucket!Reject(k)
    <3>1. Level(k) = 0 /\ \A j \in Keys : Level(j)' = Level(j)
      BY <2>2, DenyLevel
    <3> QED
      BY <2>2, <3>1 DEF Bucket!Reject, Level, Deny
  <2>3. CASE Tick
    <3>1. \A k \in Keys : Level(k)' = AtMost(Level(k) + Rate, Burst)
      BY <2>3, TickLevel
    <3>2. \A k \in Keys : Bucket!AtMost(Level(k) + Rate, Burst) = AtMost(Level(k) + Rate, Burst)
      BY DEF Bucket!AtMost, AtMost
    <3>3. [k \in Keys |-> Advance(EntryOf(k))]' =
            [k \in Keys |-> Bucket!AtMost([j \in Keys |-> Advance(EntryOf(j))][k] + Rate, Burst)]
      BY <3>1, <3>2 DEF Level
    <3>4. answer' = answer
      BY <2>3 DEF Tick
    <3>5. Bucket!Pour
      BY <3>3, <3>4 DEF Bucket!Pour
    <3> QED
      BY <3>5 DEF Bucket!BucketNext
  <2>4. CASE Cleanup
    <3>1. \A k \in Keys : Level(k)' = Level(k)
      BY <2>4, CleanupLevel
    <3> QED
      BY <2>4, <3>1 DEF Bucket!bucketVars, Level, Cleanup
  <2>5. CASE UNCHANGED <<now, limiters, answer>>
    BY <2>5 DEF Bucket!bucketVars, Advance, EntryOf, NewLimiter
  <2> QED
    BY <2>1, <2>2, <2>3, <2>4, <2>5 DEF LimiterNext, Bucket!BucketNext, OpenWindow, limiterVars
<1> QED
  BY <1>1, <1>2, LimiterTypeCorrect, PTL DEF LimiterSpec, ImplementsBucket, Bucket!BucketSpec
=============================================================================
