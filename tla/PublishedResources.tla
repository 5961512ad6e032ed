--------------------------- MODULE PublishedResources ---------------------------
(***************************************************************************)
(* From the name in a CONNECT request to the backend that is dialled.      *)
(* Administrators publish names at the control plane; the gateway resolves *)
(* a name there and keeps the answer for a minute                          *)
(* (infra/resource/client.go); the handler asks for a decision on the      *)
(* backend it was given (DecisionCache) and dials it.  A request without a *)
(* name goes by the gateway's configured routes.  The requests are one     *)
(* user's, so that a cache key of DecisionCache is a host and its port.    *)
(***************************************************************************)
EXTENDS DecisionCache

CONSTANTS
    Names,        \* names of published resources
    Routes,       \* configured routes: from requested host:port to backend
    ResourceTTL,  \* cacheTTL of the resource client
    MaxChanges    \* bound: publications, withdrawals and changes of the policy

NoName == "no name"
Absent == "absent"    \* not published, or not for this gateway

ASSUME ResourceConstants ==
    /\ NoName \notin Names /\ Absent \notin Keys
    /\ Routes \in [DOMAIN Routes -> Keys] /\ DOMAIN Routes \subseteq Keys
    /\ ResourceTTL \in Nat \ {0} /\ MaxChanges \in Nat

VARIABLES
    published,   \* the table of resources: the backend of each name
    changes,     \* bound: how often it was changed
    withdrawn,   \* history: when each backend was last withdrawn from each name
    rcache,      \* the resource client's cache: per name the entry, or NoEntry
    rpc,         \* where each handler is: request, miss, answered, found, refused
    name,        \* the name in its request
    wanted,      \* the host:port it asks a decision on
    target,      \* the backend it dials
    basis,       \* history: the entry its resolution rests on
    looked       \* history: when it consulted the resource cache

resourceVars == <<published, changes, withdrawn, rcache, rpc, name, wanted, target, basis, looked>>
pepVars == <<cacheVars, resourceVars>>

NoEntry == [backend |-> Absent, asked |-> 0, put |-> 0, expires |-> 0]

PepInit ==
    /\ CacheInit
    /\ published \in [Names -> Keys \cup {Absent}] /\ changes = 0
    /\ withdrawn = [n \in Names |-> [k \in Keys |-> 0]]
    /\ rcache = [n \in Names |-> NoEntry]
    /\ rpc = [h \in Handlers |-> "request"]
    /\ name = [h \in Handlers |-> NoName]
    /\ wanted = [h \in Handlers |-> NoKey]
    /\ target = [h \in Handlers |-> NoKey]
    /\ basis = [h \in Handlers |-> NoEntry]
    /\ looked = [h \in Handlers |-> 0]

RGoto(h, where) == rpc' = [rpc EXCEPT ![h] = where]

-----------------------------------------------------------------------------
(***************************************************************************)
(* The control plane                                                       *)
(***************************************************************************)
\* The bound is on the administrators' changes of the table and the policy together.
MayChange == changes + (version - 1) < MaxChanges

\* One statement makes the row of a name another.
Row(n, backend) ==
    /\ MayChange /\ changes' = changes + 1
    /\ published' = [published EXCEPT ![n] = backend]
    /\ withdrawn' = IF published[n] \in Keys
                    THEN [withdrawn EXCEPT ![n][published[n]] = now] ELSE withdrawn
    /\ UNCHANGED <<cacheVars, rcache, rpc, name, wanted, target, basis, looked>>

\* A name is created once.
AdminCreate(n) == published[n] = Absent /\ \E b \in Keys : Row(n, b)

\* Another backend, or another gateway's; what was another gateway's may become ours.
AdminUpdate(n) == \E b \in (Keys \cup {Absent}) \ {published[n]} : Row(n, b)

AdminDelete(n) == published[n] \in Keys /\ Row(n, Absent)

Publish(n) == AdminCreate(n) \/ AdminUpdate(n) \/ AdminDelete(n)

-----------------------------------------------------------------------------
(***************************************************************************)
(* GetResource                                                             *)
(***************************************************************************)
Found(h, n, entry) ==
    /\ name' = [name EXCEPT ![h] = n]
    /\ wanted' = [wanted EXCEPT ![h] = entry.backend]
    /\ target' = [target EXCEPT ![h] = entry.backend]
    /\ basis' = [basis EXCEPT ![h] = entry]
    /\ RGoto(h, "found")

Usable(n) == rcache[n] # NoEntry /\ now < rcache[n].expires

\* Mutant: a hit renews the entry.
ResourceHit_Renews(h, n) ==
    /\ rpc[h] = "request" /\ Usable(n)
    /\ looked' = [looked EXCEPT ![h] = now]
    /\ rcache' = [rcache EXCEPT ![n].expires = now + ResourceTTL]
    /\ Found(h, n, rcache[n])
    /\ UNCHANGED <<cacheVars, published, changes, withdrawn>>

ResourceHit(h, n) ==
    /\ rpc[h] = "request" /\ Usable(n)
    /\ looked' = [looked EXCEPT ![h] = now]
    /\ Found(h, n, rcache[n])
    /\ UNCHANGED <<cacheVars, published, changes, withdrawn, rcache>>

\* On to the control plane, without the lock.
ResourceMiss(h, n) ==
    /\ rpc[h] = "request" /\ ~Usable(n)
    /\ name' = [name EXCEPT ![h] = n]
    /\ looked' = [looked EXCEPT ![h] = now]
    /\ RGoto(h, "miss")
    /\ UNCHANGED <<cacheVars, published, changes, withdrawn, rcache, wanted, target, basis>>

\* Resolve reads the row and answers, if it is this gateway's.
CPResolves(h) ==
    /\ rpc[h] = "miss" /\ published[name[h]] \in Keys
    /\ wanted' = [wanted EXCEPT ![h] = published[name[h]]]
    /\ RGoto(h, "answered")
    /\ UNCHANGED <<cacheVars, published, changes, withdrawn, rcache, name, target, basis, looked>>

\* 404, 403, or no answer: the handler denies, and nothing is cached.
ResolveFails(h) ==
    /\ rpc[h] \in {"miss", "answered"}
    /\ RGoto(h, "refused")
    /\ UNCHANGED <<cacheVars, published, changes, withdrawn, rcache, name, wanted, target, basis, looked>>

NewEntry(h) ==
    [backend |-> wanted[h], asked |-> looked[h], put |-> now, expires |-> now + ResourceTTL]

\* The answer goes into the cache, over a newer one if that came first.
Store(h) ==
    /\ rpc[h] = "answered"
    /\ rcache' = [rcache EXCEPT ![name[h]] = NewEntry(h)]
    /\ Found(h, name[h], NewEntry(h))
    /\ UNCHANGED <<cacheVars, published, changes, withdrawn, looked>>

\* Without a name: a decision on what was asked for, a dial of its route.
Legacy(h) ==
    /\ rpc[h] = "request"
    /\ \E k \in DOMAIN Routes :
          /\ wanted' = [wanted EXCEPT ![h] = k]
          /\ target' = [target EXCEPT ![h] = Routes[k]]
    /\ RGoto(h, "found")
    /\ UNCHANGED <<cacheVars, published, changes, withdrawn, rcache, name, basis, looked>>

-----------------------------------------------------------------------------
\* Mutant: the key is made of what the cache of resources holds by now.
Decides_ReadsAgain(h) ==
    /\ rpc[h] = "found" /\ Resolve(h) /\ ~Return(h)
    /\ pc[h] = "new" =>
          key'[h] = IF name[h] \in Names THEN rcache[name[h]].backend ELSE wanted[h]
    /\ UNCHANGED resourceVars

\* resolveDecision on what was resolved.
Decides(h) ==
    /\ rpc[h] = "found" /\ Resolve(h) /\ ~Return(h)
    /\ pc[h] = "new" => key'[h] = wanted[h]
    /\ UNCHANGED resourceVars

\* The handler of another connection takes the place of one that is over.
Leave(h) ==
    /\ \/ Return(h)
       \/ rpc[h] = "refused" /\ UNCHANGED cacheVars
    /\ RGoto(h, "request")
    /\ name' = [name EXCEPT ![h] = NoName]
    /\ wanted' = [wanted EXCEPT ![h] = NoKey]
    /\ target' = [target EXCEPT ![h] = NoKey]
    /\ basis' = [basis EXCEPT ![h] = NoEntry]
    /\ looked' = [looked EXCEPT ![h] = 0]
    /\ UNCHANGED <<published, changes, withdrawn, rcache>>

Resolution(h) ==
    \/ \E n \in Names : ResourceHit(h, n) \/ ResourceMiss(h, n)
    \/ CPResolves(h) \/ ResolveFails(h) \/ Store(h) \/ Legacy(h)

PepNext ==
    \/ (Tick \/ Clear \/ (MayChange /\ Activate)) /\ UNCHANGED resourceVars
    \/ \E n \in Names : Publish(n)
    \/ \E h \in Handlers : Resolution(h) \/ Decides(h) \/ Leave(h)

PepSpec == PepInit /\ [][PepNext]_pepVars

-----------------------------------------------------------------------------
(***************************************************************************)
(* Properties                                                              *)
(***************************************************************************)

\* A named resource is dialled at a backend it was published with when the gateway
\* asked or later, and asked for at most the cache's TTL after the answer came; a late
\* answer over a newer one is no older than that either (client.go:59-113).
PublishedWithinTTL ==
    \A h \in Handlers :
        rpc[h] = "found" /\ name[h] # NoName =>
            /\ \/ published[name[h]] = target[h]
               \/ withdrawn[name[h]][target[h]] >= basis[h].asked
            /\ looked[h] < basis[h].put + ResourceTTL

\* The decision a session is opened with, cached or not, was given on the backend it
\* dials, whatever names and policies do meanwhile; a request by host and port is
\* dialled at the route of what was decided on (handler.go:157-256, 380-442).
AuthorizedIsDialled ==
    \A h \in Handlers :
        pc[h] = "resolved" =>
            LET decided == IF source[h] = NoItem THEN key[h] ELSE source[h].of IN
            target[h] = IF name[h] = NoName THEN Routes[decided] ELSE decided
=============================================================================
