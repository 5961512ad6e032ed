-------------------------------- MODULE Gateway --------------------------------
(***************************************************************************)
(* The gateway process around its session manager: one handler goroutine   *)
(* per accepted connection (mtls/listener.go, connect/handler.go), the     *)
(* relay it runs (proxy/tcp.go), the CRL refresh goroutine                 *)
(* (revocation/crl.go) with the callback that kills sessions, the session  *)
(* garbage collector, and the shutdown (cmd/ztna-gateway/main.go,          *)
(* bootstrap/app.go).                                                      *)
(*                                                                         *)
(* A connection is named by the id its session gets if it is admitted.     *)
(* The decision on a request is any the control plane may give; the        *)
(* decision cache and the telemetry have modules of their own.             *)
(***************************************************************************)
EXTENDS SessionManager

CONSTANTS
    Revocable,  \* the certificates the control plane may revoke, to bound a run
    StopBefore  \* the time before which a shutdown may come, to bound a run

ASSUME GatewayConstants ==
    /\ Revocable \subseteq Serials
    /\ StopBefore \in Nat
    /\ {"dial_failure", "peer_end", "ttl_expired", "admin_kill"} \subseteq ProxyReasons

VARIABLES
    pc,         \* where the handler of each connection is
    ctxErr,     \* ctx.Err() of the session's context
    result,     \* ProxyResult.EndReason, once Proxy has returned
    cpRevoked,  \* serials revoked at the control plane
    revoked,    \* Store.revoked, the CRL the gateway has in memory
    refresh,    \* where the CRL refresh goroutine is
    fetched,    \* the serials of the CRL it has downloaded
    newly,      \* newlyRevoked serials the callback has still to kill
    gw,         \* where main and App.Close are
    listening,  \* the listener is open
    deadline,   \* Close's drain deadline has passed
    counted,    \* history: the sessions App.Close counted as active
    toKill,     \* the sessions ListActive returned, not yet killed
    listed      \* history: sessions registered when the CRL already listed them

crlVars == <<cpRevoked, revoked, refresh, fetched, newly>>
closeVars == <<gw, listening, deadline, counted, toKill>>
handlerVars == <<pc, ctxErr, result, listed>>
gatewayVars == <<managerVars, handlerVars, crlVars, closeVars>>

Phases == {"new", "accepted", "checked", "registered", "dialing", "relaying",
           "relayed", "stats", "done"}
\* A handler between Register and Unregister.
InSession == {"registered", "dialing", "relaying", "relayed", "stats"}

GatewayInit ==
    /\ ManagerInit
    /\ pc = [c \in Sessions |-> "new"]
    /\ ctxErr = [c \in Sessions |-> "none"]
    /\ result = [c \in Sessions |-> ""]
    /\ cpRevoked = {}
    /\ revoked = {}
    /\ refresh = "idle"
    /\ fetched = {}
    /\ newly = {}
    /\ gw = "running"
    /\ listening = TRUE
    /\ deadline = FALSE
    /\ counted = {}
    /\ toKill = {}
    /\ listed = {}

Goto(c, phase) == pc' = [pc EXCEPT ![c] = phase]

\* cancel() on a context: the first error stays.
Canceled(c) == ctxErr' = [ctxErr EXCEPT ![c] = IF @ = "none" THEN "canceled" ELSE @]

-----------------------------------------------------------------------------
(***************************************************************************)
(* The handler of a connection.                                            *)
(***************************************************************************)

\* Handshake and the listener's CRL check; a revoked certificate is closed.
Accept(c) ==
    /\ pc[c] = "new"
    /\ listening
    /\ Goto(c, IF SerialOf[c] \in revoked THEN "done" ELSE "accepted")
    /\ UNCHANGED <<managerVars, ctxErr, result, listed, crlVars, closeVars>>

\* The handler's own CRL check.
CheckRevoked(c) ==
    /\ pc[c] = "accepted"
    /\ Goto(c, IF SerialOf[c] \in revoked THEN "done" ELSE "checked")
    /\ UNCHANGED <<managerVars, ctxErr, result, listed, crlVars, closeVars>>

\* Bad request, unknown resource, deny, control plane down, or no room left:
\* a deny is sent and the handler returns.
Refuse(c) ==
    /\ pc[c] = "checked"
    /\ Goto(c, "done")
    /\ UNCHANGED <<managerVars, ctxErr, result, listed, crlVars, closeVars>>

\* An allow with TTL t: the session's context is created and it is registered.
Admit(c, t) ==
    /\ pc[c] = "checked"
    /\ Register(c, t)
    /\ listed' = IF SerialOf[c] \in revoked THEN listed \cup {c} ELSE listed
    /\ Goto(c, "registered")
    /\ UNCHANGED <<ctxErr, result, crlVars, closeVars>>

\* Mutant: the handler returns on a failed write without unregistering.
AllowFailed_LeaksSession(c) ==
    /\ pc[c] = "registered"
    /\ Canceled(c)
    /\ Goto(c, "done")
    /\ UNCHANGED <<managerVars, result, listed, crlVars, closeVars>>

\* The allow answer reaches the client, or the write fails and the session is
\* unregistered (the deferred cancel runs as the handler returns).
AllowSent(c) ==
    /\ pc[c] = "registered"
    /\ Goto(c, "dialing")
    /\ UNCHANGED <<managerVars, ctxErr, result, listed, crlVars, closeVars>>

AllowFailed(c) ==
    /\ pc[c] = "registered"
    /\ Unregister(c)
    /\ Canceled(c)
    /\ Goto(c, "done")
    /\ UNCHANGED <<result, listed, crlVars, closeVars>>

\* Mutant: the target is dialed without the session's context.
DialOK_NoContext(c) ==
    /\ pc[c] = "dialing"
    /\ Goto(c, "relaying")
    /\ UNCHANGED <<managerVars, ctxErr, result, listed, crlVars, closeVars>>

\* Proxy dials the target with the session's context.  dial_failure stands for
\* invalid_target and target_unreachable.
DialOK(c) ==
    /\ pc[c] = "dialing"
    /\ ctxErr[c] = "none"
    /\ Goto(c, "relaying")
    /\ UNCHANGED <<managerVars, ctxErr, result, listed, crlVars, closeVars>>

DialFails(c) ==
    /\ pc[c] = "dialing"
    /\ result' = [result EXCEPT ![c] = "dial_failure"]
    /\ Goto(c, "relayed")
    /\ UNCHANGED <<managerVars, ctxErr, listed, crlVars, closeVars>>

\* Proxy names the end of a relay after the state of the context (peer_end stands
\* for normal, client_close and target_close).
RelayReason == [none |-> "peer_end", canceled |-> "admin_kill", deadline |-> "ttl_expired"]

\* One io.Copy returned: a peer closed or failed.  Nothing else ends a relay;
\* the context is only read afterwards, to name the reason.
RelayEnds(c) ==
    /\ pc[c] = "relaying"
    /\ result' = [result EXCEPT ![c] = RelayReason[ctxErr[c]]]
    /\ Goto(c, "relayed")
    /\ UNCHANGED <<managerVars, ctxErr, listed, crlVars, closeVars>>

\* Mutant: the handler writes the reason on the Session it registered.
EndStats_ThroughPointer(c) ==
    /\ pc[c] = "relayed"
    /\ endReason' = [endReason EXCEPT ![c] = result[c]]
    /\ Goto(c, "stats")
    /\ UNCHANGED <<now, issued, sessions, ttl, expiresAt, expired, pending, cancelled,
                   ctxErr, result, listed, crlVars, closeVars>>

EndStats(c) ==
    /\ pc[c] = "relayed"
    /\ SetEndStats(c, result[c])
    /\ Goto(c, "stats")
    /\ UNCHANGED <<ctxErr, result, listed, crlVars, closeVars>>

\* Unregister, and the handler returns through its deferred cancel.
Leave(c) ==
    /\ pc[c] = "stats"
    /\ Unregister(c)
    /\ Canceled(c)
    /\ result' = [result EXCEPT ![c] = ""]
    /\ Goto(c, "done")
    /\ UNCHANGED <<listed, crlVars, closeVars>>

\* The timer of context.WithTimeout fires.
DeadlineExceeded(c) ==
    /\ pc[c] \in InSession
    /\ ttl[c] > 0 /\ now >= expiresAt[c]
    /\ ctxErr[c] = "none"
    /\ ctxErr' = [ctxErr EXCEPT ![c] = "deadline"]
    /\ UNCHANGED <<managerVars, pc, result, listed, crlVars, closeVars>>

\* Mutant: the registered CancelFunc is not the one of the relay's context.
KillerCancels_OtherContext(k, c) ==
    /\ CancelFunc(k, c)
    /\ UNCHANGED <<handlerVars, crlVars, closeVars>>

\* A killer calls the session's CancelFunc, which is the context's cancel.
KillerCancels(k, c) ==
    /\ CancelFunc(k, c)
    /\ Canceled(c)
    /\ UNCHANGED <<pc, result, listed, crlVars, closeVars>>

-----------------------------------------------------------------------------
(***************************************************************************)
(* The control plane revokes; the CRL goroutine polls.                     *)
(***************************************************************************)
Revoke(n) ==
    /\ n \in Revocable \ cpRevoked
    /\ cpRevoked' = cpRevoked \cup {n}
    /\ UNCHANGED <<managerVars, handlerVars, revoked, refresh, fetched, newly, closeVars>>

\* A download that succeeds; one that fails leaves everything as it was.  Once
\* the process context is cancelled the request fails.
Fetch ==
    /\ refresh = "idle"
    /\ gw = "running"
    /\ fetched' = cpRevoked
    /\ refresh' = "fetched"
    /\ UNCHANGED <<managerVars, handlerVars, cpRevoked, revoked, newly, closeVars>>

\* Mutant: the set is replaced before it is compared.
Install_ReplacesFirst ==
    /\ refresh = "fetched"
    /\ newly' = {}
    /\ revoked' = fetched
    /\ fetched' = {}
    /\ refresh' = "killing"
    /\ UNCHANGED <<managerVars, handlerVars, cpRevoked, closeVars>>

\* Compare with the set in memory, then Replace it.  Only this goroutine writes
\* the set, so nothing can come between the two.
Install ==
    /\ refresh = "fetched"
    /\ newly' = fetched \ revoked
    /\ revoked' = fetched
    /\ fetched' = {}
    /\ refresh' = "killing"
    /\ UNCHANGED <<managerVars, handlerVars, cpRevoked, closeVars>>

\* The callback: KillBySerial for each newly revoked serial, in turn.
KillRevoked(n) ==
    /\ refresh = "killing"
    /\ n \in newly
    /\ KillBySerial(n)
    /\ newly' = newly \ {n}
    /\ UNCHANGED <<handlerVars, cpRevoked, revoked, refresh, fetched, closeVars>>

RefreshDone ==
    /\ refresh = "killing"
    /\ newly = {} /\ pending["crl"] = {}
    /\ refresh' = "idle"
    /\ UNCHANGED <<managerVars, handlerVars, cpRevoked, revoked, fetched, newly, closeVars>>

-----------------------------------------------------------------------------
(***************************************************************************)
(* Shutdown.  The signal cancels the context of the background goroutines; *)
(* main then calls App.Close with a deadline and exits when it returns.    *)
(***************************************************************************)
Signal ==
    /\ now < StopBefore
    /\ gw = "running"
    /\ gw' = "stopping"
    /\ UNCHANGED <<managerVars, handlerVars, crlVars, listening, deadline, counted, toKill>>

\* The goroutine in Listen that waits for the context closes the listener too.
ListenerStops ==
    /\ gw \notin {"running", "exited"}
    /\ listening
    /\ listening' = FALSE
    /\ UNCHANGED <<managerVars, handlerVars, crlVars, gw, deadline, counted, toKill>>

\* Close counts the active sessions before it closes the listener.
CountActive ==
    /\ gw = "stopping"
    /\ counted' = sessions
    /\ gw' = "counted"
    /\ UNCHANGED <<managerVars, handlerVars, crlVars, listening, deadline, toKill>>

\* No drain if nothing was active at the count.
CloseListener ==
    /\ gw = "counted"
    /\ listening' = FALSE
    /\ gw' = IF counted = {} THEN "drained" ELSE "draining"
    /\ UNCHANGED <<managerVars, handlerVars, crlVars, deadline, counted, toKill>>

\* Mutant: the drain ends when any session has ended.
Drained_TooEarly ==
    /\ gw = "draining"
    /\ ~ counted \subseteq sessions
    /\ gw' = "drained"
    /\ UNCHANGED <<managerVars, handlerVars, crlVars, listening, deadline, counted, toKill>>

\* Mutant: a break without the label leaves the select, not the drain loop.
DrainDeadline_BreaksSelect ==
    /\ gw = "draining"
    /\ deadline' = TRUE
    /\ UNCHANGED <<managerVars, handlerVars, crlVars, gw, listening, counted, toKill>>

\* A tick of the drain loop that finds the map empty, or the deadline.
Drained ==
    /\ gw = "draining"
    /\ sessions = {}
    /\ gw' = "drained"
    /\ UNCHANGED <<managerVars, handlerVars, crlVars, listening, deadline, counted, toKill>>

DrainDeadline ==
    /\ gw = "draining"
    /\ deadline' = TRUE
    /\ gw' = "drained"
    /\ UNCHANGED <<managerVars, handlerVars, crlVars, listening, counted, toKill>>

ListActive ==
    /\ gw = "drained"
    /\ toKill' = sessions
    /\ gw' = "killing"
    /\ UNCHANGED <<managerVars, handlerVars, crlVars, listening, deadline, counted>>

\* KillSession on each listed session; one that is gone only gives an error.
KillListed(c) ==
    /\ gw = "killing"
    /\ c \in toKill
    /\ \/ KillSession(c)
       \/ c \notin sessions /\ pending["admin"] = {} /\ UNCHANGED managerVars
    /\ toKill' = toKill \ {c}
    /\ UNCHANGED <<handlerVars, crlVars, gw, listening, deadline, counted>>

\* Close returns and main exits without waiting for the handlers.
Exit ==
    /\ gw = "killing"
    /\ toKill = {} /\ pending["admin"] = {}
    /\ gw' = "exited"
    /\ UNCHANGED <<managerVars, handlerVars, crlVars, listening, deadline, counted, toKill>>

-----------------------------------------------------------------------------
\* The collector's loop ends with the signal; a tick that is ready together with
\* it may still be served.
Collect ==
    /\ ReapSnapshot \/ \E c \in Sessions : ReapOne(c)
    /\ UNCHANGED <<handlerVars, crlVars, closeVars>>

\* Bound: the clock stands still once a shutdown has begun.
Clock == Tick /\ gw = "running" /\ UNCHANGED <<handlerVars, crlVars, closeVars>>

Handler(c) ==
    \/ CheckRevoked(c) \/ Refuse(c) \/ \E t \in TTLs : Admit(c, t)
    \/ AllowSent(c) \/ AllowFailed(c) \/ DialOK(c) \/ DialFails(c)
    \/ EndStats(c) \/ Leave(c)

Refresher == Fetch \/ Install \/ RefreshDone \/ \E n \in Serials : KillRevoked(n)

Closer ==
    \/ CountActive \/ CloseListener \/ Drained \/ DrainDeadline \/ ListActive \/ Exit
    \/ \E c \in Sessions : KillListed(c)

\* The process is gone: nothing more happens.
Exited == gw = "exited" /\ UNCHANGED gatewayVars

GatewayNext ==
    \/ /\ gw # "exited"
       /\ \/ \E c \in Sessions : Accept(c) \/ Handler(c) \/ RelayEnds(c) \/ DeadlineExceeded(c)
          \/ \E c \in Sessions, k \in Killers : KillerCancels(k, c)
          \/ \E n \in Serials : Revoke(n)
          \/ Refresher \/ Collect \/ Clock
          \/ Signal \/ ListenerStops \/ Closer
    \/ Exited

GatewaySpec == GatewayInit /\ [][GatewayNext]_gatewayVars

\* What a handler does without waiting for a peer: its dial, which has a timeout,
\* and its way out once Proxy has returned.
Proceed(c) == DialOK(c) \/ DialFails(c) \/ EndStats(c) \/ Leave(c)

\* Two things are scheduled while the process lives: the goroutine of App.Close, which
\* also calls the CancelFuncs of the sessions it kills, and the handlers where
\* they do not wait for a peer.  Nothing is assumed of the peers, of the other
\* goroutines, of the clock, or of a shutdown coming.
GatewayFairness ==
    /\ WF_gatewayVars(gw # "exited" /\ (Closer \/ \E c \in Sessions : KillerCancels("admin", c)))
    /\ WF_gatewayVars(gw # "exited" /\ \E c \in Sessions : Proceed(c))

FairGatewaySpec == GatewaySpec /\ GatewayFairness

-----------------------------------------------------------------------------
(***************************************************************************)
(* Properties                                                              *)
(***************************************************************************)

\* Whatever the handlers, the collector, the refresher and the shutdown do
\* together, the manager sees only calls it was written for.
ImplementsManager == ManagerSpec

\* A handler between Register and its return has its session in the map unless
\* a killer took it out, and then its context is cancelled or about to be; a
\* handler that is not in a session has none in the map (handler.go:307-356:
\* every return path unregisters).
MapMatchesHandlers ==
    /\ \A c \in Sessions :
          pc[c] \in InSession => c \in sessions \cup Held \cup cancelled
    /\ \A c \in sessions : pc[c] \in InSession

\* A session whose CancelFunc was called while its target was still being dialed
\* is never relayed, whatever becomes of the dial (manager.go:226-229 against
\* tcp.go:61: the context that is cancelled must be the one that is dialed with).
NoRelayAfterCancel ==
    [][\A c \in cancelled : pc'[c] = "relaying" => pc[c] = "relaying"]_gatewayVars

\* A session cut or out of time while its target is being dialed is over: its
\* handler returns, unless the process exits before, and does not wait for a
\* peer.  Of a session cut later nothing of the kind is true (tcp.go:105).
CutEndsDial ==
    \A c \in Sessions :
        (pc[c] = "dialing" /\ (c \in cancelled \/ ctxErr[c] = "deadline"))
            ~> (pc[c] = "done" \/ gw = "exited")

\* When the refresher has done its round, every session of a certificate its
\* CRL lists was registered after the CRL listed it: each one that existed when
\* the revocation arrived has been removed (crl.go:179-202, app.go:101-111).
RevocationEndsSessions ==
    refresh = "idle" =>
        \A c \in sessions : SerialOf[c] \in revoked => c \in listed

\* A session that was active when the shutdown began is killed by it only past
\* the drain deadline (app.go:170-213).
DrainBeforeKill == \A c \in pending["admin"] \cap counted : deadline

\* A shutdown ends, even with relays that never do: the process does not stay
\* between running and exited.
ShutdownEnds == <>[](gw \in {"running", "exited"})

-----------------------------------------------------------------------------
(***************************************************************************)
(* What the sources say of the gateway and the code does not do.           *)
(***************************************************************************)

\* bootstrap/app.go:99: when the CRL brings a newly revoked serial, the sessions
\* concerned are closed at once - so none is left when the refresher is done.
NoSessionOnRevokedCert ==
    refresh = "idle" => \A c \in sessions : SerialOf[c] \notin revoked
=============================================================================
