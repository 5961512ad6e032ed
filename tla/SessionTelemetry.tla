---------------------------- MODULE SessionTelemetry ----------------------------
(***************************************************************************)
(* The record the control plane keeps of each gateway session, and the     *)
(* fire-and-forget calls that write it: the gateway's handler starts one   *)
(* goroutine that posts sessions/start and later one that posts            *)
(* sessions/end (infra/telemetry/client.go), both under the session's own  *)
(* context; the control plane inserts and completes the record             *)
(* (api/handlers/pep_sessions.go, service/session, store/sqlite).          *)
(***************************************************************************)
EXTENDS Naturals

CONSTANT Sessions   \* session ids

VARIABLES
    pc,         \* the handler: before, during, after its relay, returned
    ctxErr,     \* ctx.Err() of the session's context
    reported,   \* SessionEndRequest.EndReason
    post,       \* per kind and session, where its goroutine is
    wire,       \* the requests on their way to the control plane
    record,     \* the row of the table sessions
    recorded,   \* its end_reason
    up          \* the gateway runs

gatewaySide == <<pc, ctxErr, reported, up>>
recordSide == <<record, recorded>>
telemetryVars == <<gatewaySide, post, wire, recordSide>>

Kinds == {"start", "end"}
Reasons == {"peer_end", "target_unreachable", "admin_kill", "ttl_expired"}

TelemetryInit ==
    /\ pc = [s \in Sessions |-> "new"]
    /\ ctxErr = [s \in Sessions |-> "none"]
    /\ reported = [s \in Sessions |-> ""]
    /\ post = [k \in Kinds |-> [s \in Sessions |-> "none"]]
    /\ wire = {}
    /\ record = [s \in Sessions |-> "absent"]
    /\ recorded = [s \in Sessions |-> ""]
    /\ up = TRUE

-----------------------------------------------------------------------------
(***************************************************************************)
(* The gateway's handler, as far as telemetry sees it.                     *)
(***************************************************************************)
Spawn(k, s) == post' = [post EXCEPT ![k][s] = "spawned"]

Cancel(s) == ctxErr' = [ctxErr EXCEPT ![s] = IF @ = "none" THEN "canceled" ELSE @]

\* After Register: NotifyStart, then the allow answer and the relay.
Open(s) ==
    /\ pc[s] = "new"
    /\ pc' = [pc EXCEPT ![s] = "open"]
    /\ Spawn("start", s)
    /\ UNCHANGED <<ctxErr, reported, up, wire, recordSide>>

\* A killer (collector, CRL callback, shutdown) that took the session out of the
\* map calls its CancelFunc, perhaps after the relay has ended by itself.
Killed(s) ==
    /\ pc[s] \in {"open", "closing"} /\ ctxErr[s] = "none"
    /\ Cancel(s)
    /\ UNCHANGED <<pc, reported, up, post, wire, recordSide>>

TimerFires(s) ==
    /\ pc[s] \in {"open", "closing"} /\ ctxErr[s] = "none"
    /\ ctxErr' = [ctxErr EXCEPT ![s] = "deadline"]
    /\ UNCHANGED <<pc, reported, up, post, wire, recordSide>>

\* The allow answer cannot be written: the handler returns and notifies nothing.
AllowFails(s) ==
    /\ pc[s] = "open"
    /\ pc' = [pc EXCEPT ![s] = "returned"]
    /\ Cancel(s)
    /\ UNCHANGED <<reported, up, post, wire, recordSide>>

\* What Proxy reports of a relay, from the state of the context alone (peer_end
\* stands for normal, client_close and target_close).
RelayReason == [none |-> "peer_end", canceled |-> "admin_kill", deadline |-> "ttl_expired"]

\* Proxy has returned, from its relay or because the target cannot be dialled:
\* the session is unregistered and NotifyEnd starts.
End(s) ==
    /\ pc[s] = "open"
    /\ pc' = [pc EXCEPT ![s] = "closing"]
    /\ \E why \in {RelayReason[ctxErr[s]], "target_unreachable"} :
          reported' = [reported EXCEPT ![s] = why]
    /\ Spawn("end", s)
    /\ UNCHANGED <<ctxErr, up, wire, recordSide>>

\* The handler returns through its deferred cancel.
Return(s) ==
    /\ pc[s] = "closing"
    /\ pc' = [pc EXCEPT ![s] = "returned"]
    /\ Cancel(s)
    /\ UNCHANGED <<reported, up, post, wire, recordSide>>

-----------------------------------------------------------------------------
(***************************************************************************)
(* The goroutine of a notification: postJSON.                              *)
(***************************************************************************)

\* Do hands the request to the network only while the context is not done.
Send(k, s) ==
    /\ up /\ post[k][s] = "spawned"
    /\ ctxErr[s] = "none"
    /\ post' = [post EXCEPT ![k][s] = "sent"]
    /\ wire' = wire \cup {<<k, s>>}
    /\ UNCHANGED <<gatewaySide, recordSide>>

\* The context is done: Do returns its error, without sending the request if it
\* has not yet.  What has been sent may still reach the control plane.
GiveUp(k, s) ==
    /\ up /\ post[k][s] \in {"spawned", "sent"}
    /\ ctxErr[s] # "none"
    /\ post' = [post EXCEPT ![k][s] = IF @ = "spawned" THEN "unsent" ELSE "failed"]
    /\ UNCHANGED <<gatewaySide, wire, recordSide>>

\* The network fails the request, or its five seconds are over.
Fail(k, s) ==
    /\ up /\ post[k][s] \in {"spawned", "sent"}
    /\ post' = [post EXCEPT ![k][s] = "failed"]
    /\ UNCHANGED <<gatewaySide, wire, recordSide>>

\* A request is lost, or the control plane gives up on it (its context is done,
\* the database refuses).
Lose(k, s) ==
    /\ <<k, s>> \in wire
    /\ wire' = wire \ {<<k, s>>}
    /\ UNCHANGED <<gatewaySide, post, recordSide>>

\* main exits: the goroutines are gone, what was sent is on its way.
Stop ==
    /\ up /\ up' = FALSE
    /\ UNCHANGED <<pc, ctxErr, reported, post, wire, recordSide>>

-----------------------------------------------------------------------------
(***************************************************************************)
(* The control plane: one SQL statement per request.                       *)
(***************************************************************************)
\* The answer settles the call, unless its goroutine has already given up.
Answer(k, s, outcome) ==
    /\ wire' = wire \ {<<k, s>>}
    /\ post' = [post EXCEPT ![k][s] = IF @ = "sent" THEN outcome ELSE @]

\* CreateSession inserts the row, with no end.
HandleStart(s) ==
    /\ <<"start", s>> \in wire
    /\ Answer("start", s, "answered")
    /\ record' = [record EXCEPT ![s] = IF @ = "absent" THEN "active" ELSE @]
    /\ UNCHANGED <<gatewaySide, recorded>>

\* CompleteSession updates no row: an error, answered as one.
RefuseEnd(s) ==
    /\ <<"end", s>> \in wire /\ record[s] = "absent"
    /\ Answer("end", s, "failed")
    /\ UNCHANGED <<gatewaySide, recordSide>>

\* CompleteSession updates the row.
HandleEnd(s) ==
    /\ <<"end", s>> \in wire /\ record[s] # "absent"
    /\ Answer("end", s, "answered")
    /\ record' = [record EXCEPT ![s] = "ended"]
    /\ recorded' = [recorded EXCEPT ![s] = reported[s]]
    /\ UNCHANGED gatewaySide

-----------------------------------------------------------------------------
Handler(s) ==
    up /\ (Open(s) \/ AllowFails(s) \/ End(s) \/ Return(s) \/ TimerFires(s)
             \/ Killed(s))

TelemetryNext ==
    \/ \E s \in Sessions :
          \/ Handler(s)
          \/ HandleStart(s)
          \/ HandleEnd(s)
          \/ RefuseEnd(s)
    \/ \E s \in Sessions, k \in Kinds :
          Send(k, s) \/ GiveUp(k, s) \/ Fail(k, s) \/ Lose(k, s)
    \/ Stop

TelemetrySpec == TelemetryInit /\ [][TelemetryNext]_telemetryVars

-----------------------------------------------------------------------------
(***************************************************************************)
(* Properties                                                              *)
(***************************************************************************)

\* What the gateway was told is recorded stays recorded, in whatever order the
\* two calls of a session arrive: an end that overtakes its start is refused,
\* and a late start does not open an ended record again
\* (pep_sessions.go:24-64, sessions.go:13-62).
AcknowledgedIsRecorded ==
    \A s \in Sessions :
        /\ post["start"][s] = "answered" => record[s] # "absent"
        /\ post["end"][s] = "answered" => record[s] = "ended"

-----------------------------------------------------------------------------
(***************************************************************************)
(* What the sources say of the record and the code does not do.            *)
(***************************************************************************)

\* Proxy has returned and so has the handler, and neither the start nor the end met
\* a failure of the network or of the control plane.
ClosedWithoutFault(s) ==
    /\ pc[s] = "returned" /\ reported[s] # ""
    /\ post["start"][s] = "answered"
    /\ post["end"][s] \in {"unsent", "answered"}

\* 004_sessions.sql:3-4: the row of a session is created as it opens and completed as
\* it closes, end_reason (line 20) telling how, "revoked" among the reasons.
CompletedAtClose == \A s \in Sessions : ClosedWithoutFault(s) => record[s] = "ended"
=============================================================================
