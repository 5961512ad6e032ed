---------------------------- MODULE SessionManager ----------------------------
(***************************************************************************)
(* The gateway's in-memory session manager                                 *)
(* (gateway/internal/infra/session/manager.go).                            *)
(*                                                                         *)
(* Every critical section under Manager.mu is one action.  What the code   *)
(* does after it released the lock - calling the CancelFunc of a session   *)
(* it took out of the map, moving to the next id of a snapshot - is an     *)
(* action of its own, so the garbage collector, the CRL callback, the      *)
(* shutdown and the connection handlers interleave as the Go scheduler     *)
(* may interleave them.  The specification lets the callers call in any    *)
(* order; Gateway.tla says in which order the handlers really do.          *)
(***************************************************************************)
EXTENDS Naturals, FiniteSets

CONSTANTS
    Sessions,       \* the ids generateUUID may return, each at most once
    Subjects,       \* OIDC subjects
    Serials,        \* certificate serial numbers
    SubOf,          \* the Sub field a session is registered with
    SerialOf,       \* the CertSerial field a session is registered with
    MaxPerSubject,  \* Manager.maxPerSubject, 0 = unlimited
    TTLs,           \* the TTLSeconds a decision may carry, 0 = unlimited
    ProxyReasons,   \* the reasons a handler may pass to SetEndStats
    MaxTime         \* bound of the clock, for TLC

ASSUME ManagerConstants ==
    /\ SubOf \in [Sessions -> Subjects]
    /\ SerialOf \in [Sessions -> Serials]
    /\ MaxPerSubject \in Nat
    /\ TTLs \subseteq Nat
    /\ ProxyReasons \subseteq STRING
    /\ "cert_revoked" \notin ProxyReasons
    /\ MaxTime \in Nat

VARIABLES
    now,        \* time.Now(), in units of TTLSeconds
    issued,     \* ids handed out by Register so far
    sessions,   \* the keys of the map m.sessions
    ttl,        \* Session.TTLSeconds
    expiresAt,  \* Session.ExpiresAt (0 is the zero time)
    endReason,  \* Session.EndReason
    expired,    \* reapExpired's snapshot: the ids it has still to look at
    pending,    \* per killer, the sessions it removed and has yet to cancel
    cancelled   \* the sessions whose CancelFunc a killer has called

managerVars ==
    <<now, issued, sessions, ttl, expiresAt, endReason, expired, pending, cancelled>>

\* The goroutines that end a session by force, and the reason each one writes:
\* the garbage collector, the CRL refresh callback and KillSession's caller.
Killers == {"gc", "crl", "admin"}
ForcedReason == [gc |-> "ttl_expired", crl |-> "cert_revoked", admin |-> "admin_kill"]

Reasons == ProxyReasons \cup {"", "ttl_expired", "cert_revoked", "admin_kill"}

ManagerInit ==
    /\ now = 0
    /\ issued = {}
    /\ sessions = {}
    /\ ttl = [s \in Sessions |-> 0]
    /\ expiresAt = [s \in Sessions |-> 0]
    /\ endReason = [s \in Sessions |-> ""]
    /\ expired = {}
    /\ pending = [k \in Killers |-> {}]
    /\ cancelled = {}

-----------------------------------------------------------------------------
OfSubject(u) == {s \in sessions : SubOf[s] = u}
OfSerial(n) == {s \in sessions : SerialOf[s] = n}
\* Mutant: the limit is off by one.
HasRoom_OffByOne(u) == MaxPerSubject > 0 => Cardinality(OfSubject(u)) <= MaxPerSubject

HasRoom(u) == MaxPerSubject > 0 => Cardinality(OfSubject(u)) < MaxPerSubject
PastTTL(s) == ttl[s] > 0 /\ now > expiresAt[s]

\* Register, when the subject has room.  Without room it changes nothing.
Register(s, t) ==
    /\ s \notin issued
    /\ HasRoom(SubOf[s])
    /\ issued' = issued \cup {s}
    /\ sessions' = sessions \cup {s}
    /\ ttl' = [ttl EXCEPT ![s] = t]
    /\ expiresAt' = [expiresAt EXCEPT ![s] = IF t > 0 THEN now + t ELSE 0]
    /\ UNCHANGED <<now, endReason, expired, pending, cancelled>>

\* Mutant: the handler writes through the session it holds, not through the map.
SetEndStats_Unchecked(s, reason) ==
    /\ endReason' = IF reason # "" THEN [endReason EXCEPT ![s] = reason] ELSE endReason
    /\ UNCHANGED <<now, issued, sessions, ttl, expiresAt, expired, pending, cancelled>>

\* SetEndStats writes through the map: a session no longer in it is left alone.
SetEndStats(s, reason) ==
    /\ endReason' = IF s \in sessions /\ reason # ""
                    THEN [endReason EXCEPT ![s] = reason]
                    ELSE endReason
    /\ UNCHANGED <<now, issued, sessions, ttl, expiresAt, expired, pending, cancelled>>

\* Unregister is idempotent.
Unregister(s) ==
    /\ sessions' = sessions \ {s}
    /\ UNCHANGED <<now, issued, ttl, expiresAt, endReason, expired, pending, cancelled>>

\* The critical section every forced end shares: the killer k writes its reason
\* on the sessions of S and deletes them; the cancels follow outside the lock.
ForceOut(k, S) ==
    /\ sessions' = sessions \ S
    /\ endReason' = [s \in Sessions |-> IF s \in S THEN ForcedReason[k] ELSE endReason[s]]
    /\ pending' = [pending EXCEPT ![k] = @ \cup S]

\* KillSession on a session of the map (otherwise it only returns an error).
KillSession(s) ==
    /\ pending["admin"] = {}
    /\ s \in sessions
    /\ ForceOut("admin", {s})
    /\ UNCHANGED <<now, issued, ttl, expiresAt, expired, cancelled>>

\* KillBySerial takes all the sessions of a certificate out in one section.
KillBySerial(n) ==
    /\ pending["crl"] = {}
    /\ ForceOut("crl", OfSerial(n))
    /\ UNCHANGED <<now, issued, ttl, expiresAt, expired, cancelled>>

\* Mutant: a session without TTL has the zero time as its end, and is taken too.
ReapSnapshot_ZeroTime ==
    /\ expired = {}
    /\ pending["gc"] = {}
    /\ expired' = {s \in sessions : now > expiresAt[s]}
    /\ UNCHANGED <<now, issued, sessions, ttl, expiresAt, endReason, pending, cancelled>>

\* Mutant: the comparison is the wrong way round, ExpiresAt.After(now).
ReapSnapshot_Swapped ==
    /\ expired = {}
    /\ pending["gc"] = {}
    /\ expired' = {s \in sessions : ttl[s] > 0 /\ now < expiresAt[s]}
    /\ UNCHANGED <<now, issued, sessions, ttl, expiresAt, endReason, pending, cancelled>>

\* reapExpired, first section: the ids whose TTL has passed.
ReapSnapshot ==
    /\ expired = {}
    /\ pending["gc"] = {}
    /\ expired' = {s \in sessions : PastTTL(s)}
    /\ UNCHANGED <<now, issued, sessions, ttl, expiresAt, endReason, pending, cancelled>>

\* reapExpired, one section per id: the session may be gone since the snapshot.
ReapOne(s) ==
    /\ s \in expired
    /\ pending["gc"] = {}
    /\ expired' = expired \ {s}
    /\ ForceOut("gc", {s} \cap sessions)
    /\ UNCHANGED <<now, issued, ttl, expiresAt, cancelled>>

\* A killer calls the CancelFunc of a session it has removed.
CancelFunc(k, s) ==
    /\ s \in pending[k]
    /\ pending' = [pending EXCEPT ![k] = @ \ {s}]
    /\ cancelled' = cancelled \cup {s}
    /\ UNCHANGED <<now, issued, sessions, ttl, expiresAt, endReason, expired>>

Tick ==
    /\ now < MaxTime
    /\ now' = now + 1
    /\ UNCHANGED <<issued, sessions, ttl, expiresAt, endReason, expired, pending, cancelled>>

ManagerNext ==
    \/ \E s \in Sessions :
          \/ \E t \in TTLs : Register(s, t)
          \/ \E r \in ProxyReasons : SetEndStats(s, r)
          \/ Unregister(s)
          \/ KillSession(s)
          \/ ReapOne(s)
          \/ \E k \in Killers : CancelFunc(k, s)
    \/ \E n \in Serials : KillBySerial(n)
    \/ ReapSnapshot
    \/ Tick

ManagerSpec == ManagerInit /\ [][ManagerNext]_managerVars

\* StartGarbageCollector keeps ticking, and a goroutine that holds a removed
\* session is scheduled until it has cancelled it.  Callers owe nothing.
ManagerFairness ==
    /\ WF_managerVars(ReapSnapshot)
    /\ WF_managerVars(\E s \in Sessions : ReapOne(s))
    /\ \A k \in Killers : WF_managerVars(\E s \in Sessions : CancelFunc(k, s))

FairManagerSpec == ManagerSpec /\ ManagerFairness

\* The sessions some killer has removed and not cancelled yet.
Held == {s \in issued : \E k \in Killers : s \in pending[k]}

\* The sessions of the map whose TTL has passed.
Overdue == {s \in sessions : PastTTL(s)}

\* What the manager promises, whichever goroutine ends a session.
Registry == INSTANCE SessionRegistry WITH
    active <- sessions,
    overdue <- Overdue,
    left <- issued \ sessions,
    doomed <- Held,
    stopped <- cancelled

-----------------------------------------------------------------------------
(***************************************************************************)
(* Properties                                                              *)
(***************************************************************************)

\* Every variable has its type; only issued ids are in the map, a snapshot,
\* a killer's hands or the cancelled set; the map is finite.
ManagerTypeOK ==
    /\ now \in Nat
    /\ issued \subseteq Sessions
    /\ sessions \subseteq issued /\ IsFiniteSet(sessions)
    /\ ttl \in [Sessions -> Nat]
    /\ expiresAt \in [Sessions -> Nat]
    /\ endReason \in [Sessions -> Reasons]
    /\ expired \subseteq issued
    /\ pending \in [Killers -> SUBSET issued]
    /\ cancelled \subseteq issued

\* Register's limit (manager.go:113-128) holds in every state, whatever
\* removals and registrations interleave.
SubjectLimit ==
    MaxPerSubject > 0 => \A u \in Subjects : Cardinality(OfSubject(u)) <= MaxPerSubject

\* A session leaves the map by one hand only: two killers never both hold it,
\* and a session held or already cancelled is no longer in the map, so its
\* CancelFunc is called at most once (manager.go:185-238, 312-346).
OneKillerPerSession ==
    /\ \A j, k \in Killers : j # k => pending[j] \cap pending[k] = {}
    /\ \A k \in Killers : pending[k] \cap (sessions \cup cancelled) = {}
    /\ sessions \cap cancelled = {}

\* The reason on a session a killer removed is that killer's, although the
\* session's handler calls SetEndStats concurrently (manager.go:280-290).
ForcedReasonKept ==
    /\ \A k \in Killers : \A s \in pending[k] : endReason[s] = ForcedReason[k]
    /\ \A s \in cancelled : \E k \in Killers : endReason[s] = ForcedReason[k]

\* The collector ends a session only past a TTL it really has, although it
\* works from a snapshot taken before it locked (manager.go:312-346).
ReapOnlyPastTTL == \A s \in expired \cup pending["gc"] : PastTTL(s)

\* What a revocation removed is either cancelled or about to be: no session
\* is dropped from the map with its relay left without a cancel.
RevokedIsCancelled ==
    \A s \in issued \ sessions :
        endReason[s] = "cert_revoked" => s \in pending["crl"] \cup cancelled

\* Once out of the map a session's end reason is final, and it never returns.
EndIsFinal ==
    [][\A s \in issued \ sessions : s \notin sessions' /\ endReason'[s] = endReason[s]]_managerVars

\* The manager implements the registry it promises to be: a session is opened
\* once and within the limit, leaves once, and is stopped if it was forced out.
ImplementsRegistry == Registry!Spec

\* The same with the registry's promises of progress: a session past its TTL does
\* not stay in the map for ever, whatever ticks found nothing to do before
\* (manager.go:294-321), and a session forced out is stopped.
ImplementsFairRegistry == Registry!FairSpec
=============================================================================
