----------------------------- MODULE JwksValidator -----------------------------
(***************************************************************************)
(* The validation of user tokens (security/oidc/validator.go): a cache of  *)
(* the identity provider's key set that concurrent requests read, find     *)
(* expired or short of a key, download again each on its own, and replace. *)
(***************************************************************************)
EXTENDS Naturals

CONSTANTS
    Requests, \* requests in flight
    Kids,     \* key identifiers that tokens name
    First,    \* the keys published at first
    TTL,      \* Validator.cacheTTL
    Timeout,  \* http.Client.Timeout: an answer older than this is not used
    MaxTime   \* bound: ticks

ASSUME JwksConstants ==
    /\ First \subseteq Kids
    /\ TTL \in Nat /\ Timeout \in Nat /\ MaxTime \in Nat

VARIABLES
    now,       \* time.Now()
    cache,     \* Validator.cache
    request,   \* Validate: where it stands, its kid, the set it downloaded and when that was sent
    published, \* the identity provider's key set
    retiredAt, \* history: when a key left it that is not in it now
    due        \* history: requests whose key was published since they began,
               \* and that no other request's set overtook

jwksVars == <<now, cache, request, published, retiredAt, due>>

Busy == {"fetching", "decoded", "stored", "keyed"}
Outcomes == {"unknown", "failed", "accepted", "refused"}

NoKid == "none"
Ended(outcome) == [at |-> outcome, kid |-> NoKid, keys |-> {}, sent |-> 0]

JwksInit ==
    /\ now = 0
    /\ cache = [keys |-> {}, expiresAt |-> 0]
    /\ request = [r \in Requests |-> Ended("idle")]
    /\ published = First
    /\ retiredAt = [k \in {} |-> 0]
    /\ due = {}

\* Mutant: the expiry is not looked at.
cachedKey_Eternal(kid) == kid \in cache.keys

\* cachedKey finds the key.
cachedKey(kid) == now <= cache.expiresAt /\ kid \in cache.keys

Begin(r, kid, stage) ==
    /\ request[r].at \notin Busy
    /\ request' = [request EXCEPT ![r] = [@ EXCEPT !.at = stage, !.kid = kid]]
    /\ due' = IF kid \in published THEN due \cup {r} ELSE due \ {r}
    /\ UNCHANGED <<now, cache, published, retiredAt>>

\* Mutant: a miss is only answered by a download once the cache expired.
Ask_Unforced(r, kid) ==
    Begin(r, kid, IF cachedKey(kid) THEN "keyed" ELSE IF now < cache.expiresAt THEN "stored" ELSE "fetching")

\* Validate, keyForKID: a miss downloads whatever the age of the cache.
Ask(r, kid) == Begin(r, kid, IF cachedKey(kid) THEN "keyed" ELSE "fetching")

\* The identity provider answers with its keys and refreshJWKS decodes them.
Decode(r) ==
    /\ request[r].at = "fetching"
    /\ request' = [request EXCEPT ![r] = [at |-> "decoded", kid |-> @.kid, keys |-> published, sent |-> now]]
    /\ UNCHANGED <<now, cache, published, retiredAt, due>>

Finish(r, outcome) ==
    /\ request' = [request EXCEPT ![r] = Ended(outcome)]
    /\ due' = due \ {r}
    /\ UNCHANGED <<now, cache, published, retiredAt>>

\* The download fails, or its caller is gone.
FetchFails(r) == request[r].at \in {"fetching", "decoded"} /\ Finish(r, "failed")

\* The requests before their second look whose key the set of r lacks.
Overtaken(r) == {s \in Requests \ {r} : request[s].at = "stored" /\ request[s].kid \notin request[r].keys}

\* refreshJWKS replaces the cache, whatever is in it.
Store(r) ==
    /\ request[r].at = "decoded"
    /\ cache' = [keys |-> request[r].keys, expiresAt |-> now + TTL]
    /\ due' = due \ Overtaken(r)
    /\ request' = [request EXCEPT ![r] = [at |-> "stored", kid |-> @.kid, keys |-> {}, sent |-> 0]]
    /\ UNCHANGED <<now, published, retiredAt>>

\* The second cachedKey of keyForKID.
Found(r) ==
    /\ request[r].at = "stored" /\ cachedKey(request[r].kid)
    /\ request' = [request EXCEPT ![r] = [@ EXCEPT !.at = "keyed"]]
    /\ UNCHANGED <<now, cache, published, retiredAt, due>>

Unknown(r) == request[r].at = "stored" /\ ~cachedKey(request[r].kid) /\ Finish(r, "unknown")

\* The signature and the claims decide.
Judge(r) == request[r].at = "keyed" /\ \E outcome \in {"accepted", "refused"} : Finish(r, outcome)

\* The identity provider publishes a key, or withdraws one.
Publish(kid) ==
    /\ kid \notin published
    /\ published' = published \cup {kid}
    /\ retiredAt' = [k \in DOMAIN retiredAt \ {kid} |-> retiredAt[k]]
    /\ UNCHANGED <<now, cache, request, due>>

Retire(kid) ==
    /\ kid \in published
    /\ published' = published \ {kid}
    /\ retiredAt' = [k \in DOMAIN retiredAt \cup {kid} |-> IF k = kid THEN now ELSE retiredAt[k]]
    /\ due' = {r \in due : request[r].kid # kid}
    /\ UNCHANGED <<now, cache, request>>

\* An answer is stored before the client's timeout, and the second look
\* follows the store within a tick.
Tick ==
    /\ now < MaxTime
    /\ \A r \in Requests : /\ request[r].at # "stored"
                           /\ request[r].at = "decoded" => now < request[r].sent + Timeout
    /\ now' = now + 1
    /\ UNCHANGED <<cache, request, published, retiredAt, due>>

JwksNext ==
    \/ \E r \in Requests, kid \in Kids : Ask(r, kid)
    \/ \E r \in Requests : Decode(r) \/ FetchFails(r) \/ Store(r) \/ Found(r) \/ Unknown(r) \/ Judge(r)
    \/ \E kid \in Kids : Publish(kid) \/ Retire(kid)
    \/ Tick

JwksSpec == JwksInit /\ [][JwksNext]_jwksVars

-----------------------------------------------------------------------------
\* The variables stay in their types and no time is of the future.
JwksTypeOK ==
    /\ now \in Nat
    /\ cache \in [keys : SUBSET Kids, expiresAt : Nat] /\ cache.expiresAt <= now + TTL
    /\ request \in [Requests -> [at : Busy \cup Outcomes \cup {"idle"}, kid : Kids \cup {NoKid},
                                 keys : SUBSET Kids, sent : Nat]]
    /\ \A r \in Requests : request[r].sent <= now
    /\ published \subseteq Kids
    /\ DOMAIN retiredAt \subseteq Kids
    /\ \A k \in DOMAIN retiredAt : retiredAt[k] \in Nat /\ retiredAt[k] <= now
    /\ due \subseteq Requests

\* The key is published, or left within one timeout and one lifetime of the cache.
Recent(kid) ==
    \/ kid \in published
    \/ kid \in DOMAIN retiredAt /\ now <= retiredAt[kid] + Timeout + TTL

\* A token is verified only with a key that the identity provider publishes,
\* or withdrew at most one download and one lifetime of the cache ago,
\* although an older download may replace a newer one.
StaleKeyBounded ==
    [][\A r \in Requests :
         request[r].at # "keyed" /\ request'[r].at = "keyed" => Recent(request'[r].kid)]_jwksVars

\* A token whose key was published from before its request began is not
\* turned away as unknown, unless another request put a set without the key
\* over the one that this request had just stored.
KnownKeyIsFound == [][\A r \in due : request'[r].at # "unknown"]_jwksVars
=============================================================================
