-------------------------- MODULE JwksValidatorProofs --------------------------
(***************************************************************************)
(* Proofs about JwksValidator, for any number of requests and keys.        *)
(***************************************************************************)
EXTENDS JwksValidator, TLAPS

(***************************************************************************)
(* Types                                                                   *)
(***************************************************************************)
Record == [at : Busy \cup Outcomes \cup {"idle"}, kid : Kids \cup {NoKid}, keys : SUBSET Kids, sent : Nat]

LEMMA EndedIsRecord == \A outcome \in Outcomes \cup {"idle"} : Ended(outcome) \in Record
BY DEF Ended, Record

\* What Decode and Store leave in the record of their request.
LEMMA DecodeEffect ==
  ASSUME JwksTypeOK, NEW r \in Requests, Decode(r)
  PROVE  /\ request'[r].at = "decoded" /\ request'[r].kid = request[r].kid
         /\ request'[r].keys = published /\ request'[r].sent = now
         /\ \A s \in Requests : s # r => request'[s] = request[s]
         /\ request' \in [Requests -> Record]
<1> DEFINE new == [at |-> "decoded", kid |-> request[r].kid, keys |-> published, sent |-> now]
<1>1. request \in [Requests -> Record] /\ request[r] \in Record
  BY DEF JwksTypeOK, Record
<1>3. new \in Record
  BY <1>1 DEF Record, Busy, JwksTypeOK
<1>4. request' = [request EXCEPT ![r] = new]
  BY DEF Decode
<1> QED
  BY <1>1, <1>3, <1>4

LEMMA StoreEffect ==
  ASSUME JwksTypeOK, NEW r \in Requests, Store(r)
  PROVE  /\ request'[r].at = "stored" /\ request'[r].kid = request[r].kid
         /\ request'[r].sent = 0
         /\ \A s \in Requests : s # r => request'[s] = request[s]
         /\ request' \in [Requests -> Record]
         /\ cache'.keys = request[r].keys /\ cache'.keys \subseteq Kids
         /\ cache'.expiresAt = now + TTL /\ cache' \in [keys : SUBSET Kids, expiresAt : Nat]
<1> DEFINE new == [at |-> "stored", kid |-> request[r].kid, keys |-> {}, sent |-> 0]
<1>1. request \in [Requests -> Record] /\ request[r] \in Record
  BY DEF JwksTypeOK, Record
<1>3. new \in Record
  BY <1>1 DEF Record, Busy
<1>4. request' = [request EXCEPT ![r] = new]
  BY DEF Store
<1>5. cache' = [keys |-> request[r].keys, expiresAt |-> now + TTL] /\ request[r].keys \subseteq Kids
  BY <1>1 DEF Store, Record
<1>6. now + TTL \in Nat
  BY JwksConstants DEF JwksTypeOK
<1> QED
  BY <1>1, <1>3, <1>4, <1>5, <1>6

LEMMA JwksTypeInit == JwksInit => JwksTypeOK
BY JwksConstants, EndedIsRecord DEF JwksInit, JwksTypeOK, Record, Ended

LEMMA JwksTypeStep == JwksTypeOK /\ [JwksNext]_jwksVars => JwksTypeOK'
<1> SUFFICES ASSUME JwksTypeOK, [JwksNext]_jwksVars PROVE JwksTypeOK'
  OBVIOUS
<1> USE JwksConstants
<1>1. ASSUME NEW r \in Requests, NEW kid \in Kids, Ask(r, kid) PROVE JwksTypeOK'
  <2>1. PICK stage \in {"keyed", "fetching"} : Begin(r, kid, stage)
    BY <1>1 DEF Ask
  <2>2. request \in [Requests -> Record] /\ request[r] \in Record
    BY DEF JwksTypeOK, Record
  <2>3. [request[r] EXCEPT !.at = stage, !.kid = kid] \in Record
    BY <2>2 DEF Record, Busy
  <2>4. request' = [request EXCEPT ![r] = [request[r] EXCEPT !.at = stage, !.kid = kid]]
    BY <2>1 DEF Begin
  <2>5. request' \in [Requests -> Record]
    BY <2>2, <2>3, <2>4
  <2>6. \A s \in Requests : request'[s].sent = request[s].sent
    BY <2>2, <2>4 DEF Record
  <2> QED
    BY <2>1, <2>5, <2>6 DEF Begin, JwksTypeOK, Record
<1>2. ASSUME NEW r \in Requests, Decode(r) PROVE JwksTypeOK'
  <2>1. \A s \in Requests : request'[s].sent <= now
    BY <1>2, DecodeEffect DEF JwksTypeOK
  <2>2. request' \in [Requests -> Record]
    BY <1>2, DecodeEffect
  <2> QED
    BY <1>2, <2>1, <2>2 DEF Decode, JwksTypeOK, Record
<1>3. ASSUME NEW r \in Requests, NEW outcome \in Outcomes, Finish(r, outcome) PROVE JwksTypeOK'
  <2>1. Ended(outcome) \in Record /\ Ended(outcome).sent = 0
    BY EndedIsRecord DEF Ended
  <2> QED
    BY <1>3, <2>1 DEF Finish, JwksTypeOK, Record
<1>4. ASSUME NEW r \in Requests, Store(r) PROVE JwksTypeOK'
  <2>1. \A s \in Requests : request'[s].sent <= now
    BY <1>4, StoreEffect DEF JwksTypeOK
  <2>2. request' \in [Requests -> Record]
    BY <1>4, StoreEffect
  <2>3. cache' \in [keys : SUBSET Kids, expiresAt : Nat] /\ cache'.expiresAt <= now + TTL
    BY <1>4, StoreEffect DEF JwksTypeOK
  <2> QED
    BY <1>4, <2>1, <2>2, <2>3 DEF Store, JwksTypeOK, Record
<1>5. ASSUME NEW r \in Requests, Found(r) PROVE JwksTypeOK'
  BY <1>5 DEF Found, JwksTypeOK, Busy
<1>6. ASSUME NEW kid \in Kids, Publish(kid) PROVE JwksTypeOK'
  BY <1>6 DEF Publish, JwksTypeOK
<1>7. ASSUME NEW kid \in Kids, Retire(kid) PROVE JwksTypeOK'
  BY <1>7 DEF Retire, JwksTypeOK
<1>8. CASE Tick
  BY <1>8 DEF Tick, JwksTypeOK
<1>9. CASE UNCHANGED jwksVars
  BY <1>9 DEF jwksVars, JwksTypeOK
<1> QED
  BY <1>1, <1>2, <1>3, <1>4, <1>5, <1>6, <1>7, <1>8, <1>9
     DEF JwksNext, FetchFails, Unknown, Judge, Outcomes

\* The type invariant of the validator.
THEOREM JwksTypeCorrect == JwksSpec => []JwksTypeOK
BY JwksTypeInit, JwksTypeStep, PTL DEF JwksSpec

(***************************************************************************)
(* Stale keys.  What is cached or on its way to the cache holds only keys  *)
(* that are published or were when it was sent, and expires in time.       *)
(***************************************************************************)
Within(kid, limit) ==
    \/ kid \in published
    \/ kid \in DOMAIN retiredAt /\ limit <= retiredAt[kid]

StaleInv ==
    /\ \A k \in cache.keys :
         \/ k \in published
         \/ k \in DOMAIN retiredAt /\ cache.expiresAt <= retiredAt[k] + Timeout + TTL
    /\ \A r \in Requests : request[r].at = "decoded" =>
         /\ now <= request[r].sent + Timeout
         /\ \A k \in request[r].keys : Within(k, request[r].sent)

LEMMA StaleInvInit == JwksInit => StaleInv
BY DEF JwksInit, StaleInv, Ended

LEMMA StaleInvStep == JwksTypeOK /\ StaleInv /\ [JwksNext]_jwksVars => StaleInv'
<1> SUFFICES ASSUME JwksTypeOK, StaleInv, [JwksNext]_jwksVars PROVE StaleInv'
  OBVIOUS
<1> USE JwksConstants
<1>1. ASSUME NEW r \in Requests, NEW kid \in Kids, Ask(r, kid) PROVE StaleInv'
  BY <1>1 DEF Ask, Begin, JwksTypeOK, StaleInv, Within
<1>2. ASSUME NEW r \in Requests, Decode(r) PROVE StaleInv'
  BY <1>2, DecodeEffect DEF Decode, JwksTypeOK, StaleInv, Within
<1>3. ASSUME NEW r \in Requests, NEW outcome \in Outcomes, Finish(r, outcome) PROVE StaleInv'
  BY <1>3 DEF Finish, Ended, Outcomes, JwksTypeOK, StaleInv, Within
<1>4. ASSUME NEW r \in Requests, Store(r) PROVE StaleInv'
  BY <1>4, StoreEffect DEF Store, JwksTypeOK, StaleInv, Within
<1>5. ASSUME NEW r \in Requests, Found(r) PROVE StaleInv'
  BY <1>5 DEF Found, JwksTypeOK, StaleInv, Within
<1>6. ASSUME NEW kid \in Kids, Publish(kid) PROVE StaleInv'
  BY <1>6 DEF Publish, JwksTypeOK, StaleInv, Within
<1>7. ASSUME NEW kid \in Kids, Retire(kid) PROVE StaleInv'
  BY <1>7 DEF Retire, JwksTypeOK, StaleInv, Within
<1>8. CASE Tick
  BY <1>8 DEF Tick, JwksTypeOK, StaleInv, Within
<1>9. CASE UNCHANGED jwksVars
  BY <1>9 DEF jwksVars, StaleInv, Within
<1> QED
  BY <1>1, <1>2, <1>3, <1>4, <1>5, <1>6, <1>7, <1>8, <1>9
     DEF JwksNext, FetchFails, Unknown, Judge, Outcomes

\* A cached key that may be used left the key set recently, if at all.
LEMMA CachedIsRecent == JwksTypeOK /\ StaleInv => \A kid \in Kids : cachedKey(kid) => Recent(kid)
BY JwksConstants DEF JwksTypeOK, StaleInv, cachedKey, Recent

\* No token is verified with a key withdrawn longer ago than one download
\* and one lifetime of the cache.
THEOREM StaleKeyBoundedHolds == JwksSpec => StaleKeyBounded
<1>1. JwksTypeOK /\ StaleInv /\ [JwksNext]_jwksVars =>
        [\A r \in Requests :
           request[r].at # "keyed" /\ request'[r].at = "keyed" => Recent(request'[r].kid)]_jwksVars
  <2> SUFFICES ASSUME JwksTypeOK, StaleInv, JwksNext, NEW r \in Requests,
                      request[r].at # "keyed", request'[r].at = "keyed"
               PROVE  Recent(request'[r].kid)
    OBVIOUS
  <2>1. ASSUME NEW s \in Requests, NEW kid \in Kids, Ask(s, kid) PROVE Recent(request'[r].kid)
    BY <2>1, CachedIsRecent DEF Ask, Begin, JwksTypeOK
  <2>2. ASSUME NEW s \in Requests, Found(s) PROVE Recent(request'[r].kid)
    <3>1. s = r /\ request'[r].kid = request[r].kid /\ cachedKey(request[r].kid)
      BY <2>2 DEF Found, JwksTypeOK
    <3>2. request[r].kid \in Kids
      BY <3>1 DEF cachedKey, JwksTypeOK
    <3> QED
      BY <3>1, <3>2, CachedIsRecent
  <2>3. ASSUME NEW s \in Requests, Decode(s) PROVE FALSE
    BY <2>3 DEF Decode, JwksTypeOK
  <2>4. ASSUME NEW s \in Requests, NEW outcome \in Outcomes, Finish(s, outcome) PROVE FALSE
    BY <2>4 DEF Finish, Ended, Outcomes, JwksTypeOK
  <2>5. ASSUME NEW s \in Requests, Store(s) PROVE FALSE
    BY <2>5 DEF Store, JwksTypeOK
  <2>6. ASSUME request' = request PROVE FALSE
    BY <2>6
  <2> QED
    BY <2>1, <2>2, <2>3, <2>4, <2>5, <2>6
       DEF JwksNext, FetchFails, Unknown, Judge, Outcomes, Publish, Retire, Tick
<1> QED
  BY <1>1, StaleInvInit, StaleInvStep, JwksTypeCorrect, PTL DEF JwksSpec, StaleKeyBounded

(***************************************************************************)
(* Known keys.  The key of a due request is published, in the set it       *)
(* downloaded, and in the cache when it looks again.                       *)
(***************************************************************************)
DueInv ==
    \A r \in due :
      /\ request[r].at \in Busy
      /\ request[r].kid \in published
      /\ request[r].at = "decoded" => request[r].kid \in request[r].keys
      /\ request[r].at = "stored" => cachedKey(request[r].kid)

LEMMA DueInvStep == JwksTypeOK /\ DueInv /\ [JwksNext]_jwksVars => DueInv'
<1> SUFFICES ASSUME JwksTypeOK, DueInv, [JwksNext]_jwksVars PROVE DueInv'
  OBVIOUS
<1> USE JwksConstants
<1>1. ASSUME NEW r \in Requests, NEW kid \in Kids, Ask(r, kid) PROVE DueInv'
  BY <1>1 DEF Ask, Begin, JwksTypeOK, DueInv, Busy, cachedKey
<1>2. ASSUME NEW r \in Requests, Decode(r) PROVE DueInv'
  BY <1>2 DEF Decode, JwksTypeOK, DueInv, Busy, cachedKey
<1>3. ASSUME NEW r \in Requests, NEW outcome \in Outcomes, Finish(r, outcome) PROVE DueInv'
  BY <1>3 DEF Finish, JwksTypeOK, DueInv, Busy, cachedKey
<1>4. ASSUME NEW r \in Requests, Store(r) PROVE DueInv'
  BY <1>4 DEF Store, Overtaken, JwksTypeOK, DueInv, Busy, cachedKey
<1>5. ASSUME NEW r \in Requests, Found(r) PROVE DueInv'
  BY <1>5 DEF Found, JwksTypeOK, DueInv, Busy, cachedKey
<1>6. ASSUME NEW kid \in Kids, Publish(kid) PROVE DueInv'
  BY <1>6 DEF Publish, JwksTypeOK, DueInv, Busy, cachedKey
<1>7. ASSUME NEW kid \in Kids, Retire(kid) PROVE DueInv'
  BY <1>7 DEF Retire, JwksTypeOK, DueInv, Busy, cachedKey
<1>8. CASE Tick
  BY <1>8 DEF Tick, JwksTypeOK, DueInv, Busy, cachedKey
<1>9. CASE UNCHANGED jwksVars
  BY <1>9 DEF jwksVars, DueInv, cachedKey
<1> QED
  BY <1>1, <1>2, <1>3, <1>4, <1>5, <1>6, <1>7, <1>8, <1>9
     DEF JwksNext, FetchFails, Unknown, Judge, Outcomes

\* A published key is unknown only to a request that another one overtook.
THEOREM KnownKeyIsFoundHolds == JwksSpec => KnownKeyIsFound
<1>1. JwksInit => DueInv
  BY DEF JwksInit, DueInv
<1>2. JwksTypeOK /\ DueInv /\ [JwksNext]_jwksVars =>
        [\A r \in due : request'[r].at # "unknown"]_jwksVars
  <2> SUFFICES ASSUME JwksTypeOK, DueInv, JwksNext, NEW r \in due
               PROVE  request'[r].at # "unknown"
    OBVIOUS
  <2>0. r \in Requests /\ request[r].at # "unknown"
    BY DEF JwksTypeOK, DueInv, Busy
  <2>1. ASSUME NEW s \in Requests, NEW kid \in Kids, Ask(s, kid) PROVE request'[r].at # "unknown"
    BY <2>0, <2>1 DEF Ask, Begin, JwksTypeOK
  <2>2. ASSUME NEW s \in Requests, Decode(s) \/ Store(s) \/ Found(s) PROVE request'[r].at # "unknown"
    BY <2>0, <2>2 DEF Decode, Store, Found, JwksTypeOK
  <2>3. ASSUME NEW s \in Requests, NEW outcome \in Outcomes \ {"unknown"}, Finish(s, outcome)
        PROVE  request'[r].at # "unknown"
    BY <2>0, <2>3 DEF Finish, Ended, JwksTypeOK
  <2>4. ASSUME NEW s \in Requests, Unknown(s) PROVE request'[r].at # "unknown"
    <3>1. s # r
      BY <2>4 DEF Unknown, DueInv
    <3> QED
      BY <2>0, <2>4, <3>1 DEF Unknown, Finish, JwksTypeOK
  <2>5. ASSUME request' = request PROVE request'[r].at # "unknown"
    BY <2>0, <2>5
  <2> QED
    BY <2>1, <2>2, <2>3, <2>4, <2>5 DEF JwksNext, FetchFails, Judge, Outcomes, Publish, Retire, Tick
<1> QED
  BY <1>1, <1>2, DueInvStep, JwksTypeCorrect, PTL DEF JwksSpec, KnownKeyIsFound
=============================================================================
