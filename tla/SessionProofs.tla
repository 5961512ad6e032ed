----------------------------- MODULE SessionProofs -----------------------------
(***************************************************************************)
(* Theorems about a session of the gateway: the record the control plane   *)
(* keeps of it, however the calls that write it are lost, late or out of   *)
(* order, and the bytes relayed in it, for any number of chunks and size   *)
(* of the buffers.                                                         *)
(***************************************************************************)
EXTENDS SessionTelemetry, Relay, SequenceTheorems, TLAPS

(***************************************************************************)
(* The session's record.  Beside the two properties the invariant says why *)
(* no cut is told: the end of a session is told once, when its handler is  *)
(* past its relay, and under a context that is not done.                   *)
(***************************************************************************)
\* Where the goroutine of a notification is.
PostStates == {"none", "spawned", "sent", "unsent", "failed", "answered"}

TelemetryTypeOK ==
    /\ pc \in [Sessions -> {"new", "open", "closing", "returned"}]
    /\ ctxErr \in [Sessions -> {"none", "canceled", "deadline"}]
    /\ reported \in [Sessions -> Reasons \cup {""}]
    /\ post \in [Kinds -> [Sessions -> PostStates]]
    /\ wire \subseteq Kinds \X Sessions
    /\ record \in [Sessions -> {"absent", "active", "ended"}]
    /\ recorded \in [Sessions -> Reasons \cup {""}]
    /\ up \in BOOLEAN

\* The reasons of a session that was cut.
Cut == {"admin_kill", "ttl_expired"}

\* A session that was cut has a context that is done, and what is on the wire of
\* its end says nothing of it: the end of a session is told once, when its handler
\* is past its relay.
CutStaysHere ==
    \A s \in Sessions :
        /\ reported[s] \in Cut => ctxErr[s] # "none"
        /\ <<"end", s>> \in wire => reported[s] \notin Cut
        /\ post["end"][s] = "none" => <<"end", s>> \notin wire
        /\ pc[s] \in {"new", "open"} => post["end"][s] = "none"

\* No record ever says that its session was killed or ran out of time.
CutIsNeverRecorded == \A s \in Sessions : recorded[s] \notin Cut

\* The inductive invariant.
TelemetryInv ==
    TelemetryTypeOK /\ CutStaysHere /\ AcknowledgedIsRecorded /\ CutIsNeverRecorded

\* Nothing is on the wire yet.
LEMMA TelemetryInitInv == TelemetryInit => TelemetryInv
<1> SUFFICES ASSUME TelemetryInit PROVE TelemetryInv
    OBVIOUS
<1>1. TelemetryTypeOK
    BY DEF TelemetryInit, TelemetryTypeOK, PostStates
<1>2. \A s \in Sessions : post["start"][s] = "none" /\ post["end"][s] = "none"
    BY DEF TelemetryInit, Kinds
<1> QED
    BY <1>1, <1>2 DEF TelemetryInit, TelemetryInv, CutStaysHere, AcknowledgedIsRecorded,
                      CutIsNeverRecorded, Cut

\* One notification's goroutine goes to v, the others stay where they are.
Moves(k, s, v) ==
    /\ post' \in [Kinds -> [Sessions -> PostStates]]
    /\ post'[k][s] = v
    /\ \A j \in Kinds, t \in Sessions : j # k \/ t # s => post'[j][t] = post[j][t]

\* The handler tells of a cut only under a context that is done.
LEMMA HandlerInv ==
    ASSUME TelemetryInv, NEW s \in Sessions, Handler(s)
    PROVE  TelemetryInv'
<1>0. /\ wire' = wire /\ record' = record /\ recorded' = recorded /\ up' = up
      /\ "end" \in Kinds /\ "start" \in Kinds /\ TelemetryTypeOK /\ CutStaysHere
      /\ "spawned" \in PostStates
    BY DEF Handler, Open, AllowFails, End, Return, TimerFires, Killed, recordSide, Kinds,
           TelemetryInv, PostStates
<1>1. /\ pc' \in [Sessions -> {"new", "open", "closing", "returned"}]
      /\ \A t \in Sessions : pc'[t] \in {"new", "open"} => pc[t] \in {"new", "open"}
    BY <1>0 DEF Handler, Open, AllowFails, End, Return, TimerFires, Killed, TelemetryTypeOK
<1>2. /\ ctxErr' \in [Sessions -> {"none", "canceled", "deadline"}]
      /\ \A t \in Sessions : ctxErr[t] # "none" => ctxErr'[t] # "none"
    BY <1>0 DEF Handler, Open, AllowFails, End, Return, TimerFires, Killed, Cancel, TelemetryTypeOK
<1>3. /\ reported' \in [Sessions -> Reasons \cup {""}]
      /\ \A t \in Sessions : reported'[t] \in Cut => ctxErr'[t] # "none"
      /\ \A t \in Sessions : reported'[t] # reported[t] => pc[t] = "open"
    <2>1. CASE End(s)
        <3>1. PICK why \in {RelayReason[ctxErr[s]], "target_unreachable"} :
                 reported' = [reported EXCEPT ![s] = why]
            BY <2>1 DEF End
        <3>2. ctxErr[s] \in {"none", "canceled", "deadline"}
            BY <1>0 DEF TelemetryTypeOK
        <3>3. why \in Reasons /\ (why \in Cut => ctxErr[s] # "none")
            BY <3>2 DEF RelayReason, Reasons, Cut
        <3>4. ctxErr' = ctxErr /\ pc[s] = "open"
            BY <2>1 DEF End
        <3> QED
            BY <1>0, <3>1, <3>3, <3>4 DEF TelemetryTypeOK, CutStaysHere
    <2>2. CASE ~End(s)
        <3>1. reported' = reported
            BY <2>2 DEF Handler, Open, AllowFails, Return, TimerFires, Killed
        <3> QED
            BY <1>0, <1>2, <3>1 DEF TelemetryTypeOK, CutStaysHere
    <2> QED
        BY <2>1, <2>2
<1>4. /\ post' \in [Kinds -> [Sessions -> PostStates]]
      /\ \A k \in Kinds, t \in Sessions : post'[k][t] \in {post[k][t], "spawned"}
      /\ \A t \in Sessions : pc'[t] \in {"new", "open"} => post'["end"][t] = post["end"][t]
    <2>1. CASE Open(s)
        <3>1. post' = [post EXCEPT !["start"][s] = "spawned"]
            BY <2>1 DEF Open, Spawn
        <3>2. Moves("start", s, "spawned")
            BY <1>0, <3>1 DEF TelemetryTypeOK, Moves
        <3>3. \A j \in Kinds, t \in Sessions : post'[j][t] \in {post[j][t], "spawned"}
            BY <3>2 DEF Moves
        <3> QED
            BY <1>0, <3>2, <3>3 DEF Moves
    <2>2. CASE End(s)
        <3>0. post' = [post EXCEPT !["end"][s] = "spawned"]
            BY <2>2 DEF End, Spawn
        <3>1. pc'[s] = "closing"
            BY <1>0, <2>2 DEF End, TelemetryTypeOK
        <3>2. Moves("end", s, "spawned")
            BY <1>0, <3>0 DEF TelemetryTypeOK, Moves
        <3>3. \A j \in Kinds, t \in Sessions : post'[j][t] \in {post[j][t], "spawned"}
            BY <3>2 DEF Moves
        <3>4. ASSUME NEW t \in Sessions, pc'[t] \in {"new", "open"}
              PROVE  post'["end"][t] = post["end"][t]
            <4>1. t # s
                BY <3>1, <3>4
            <4> QED
                BY <1>0, <3>2, <4>1 DEF Moves
        <3> QED
            BY <3>2, <3>3, <3>4 DEF Moves
    <2>3. CASE ~Open(s) /\ ~End(s)
        <3>1. post' = post
            BY <2>3 DEF Handler, AllowFails, Return, TimerFires, Killed
        <3> QED
            BY <1>0, <3>1 DEF TelemetryTypeOK
    <2> QED
        BY <2>1, <2>2, <2>3
<1>5. TelemetryTypeOK'
    BY <1>0, <1>1, <1>2, <1>3, <1>4 DEF TelemetryTypeOK
<1>6. CutStaysHere'
    <2> SUFFICES ASSUME NEW t \in Sessions
                 PROVE  /\ <<"end", t>> \in wire' => reported'[t] \notin Cut
                        /\ post'["end"][t] = "none" => <<"end", t>> \notin wire'
                        /\ pc'[t] \in {"new", "open"} => post'["end"][t] = "none"
        BY <1>3 DEF CutStaysHere
    <2>1. post'["end"][t] = "none" => post["end"][t] = "none"
        BY <1>0, <1>4
    <2> QED
        BY <1>0, <1>1, <1>3, <1>4, <2>1 DEF CutStaysHere
<1>7. AcknowledgedIsRecorded'
    <2> SUFFICES ASSUME NEW t \in Sessions, NEW k \in Kinds
                 PROVE  post'[k][t] = "answered" => post[k][t] = "answered"
        BY <1>0 DEF TelemetryInv, AcknowledgedIsRecorded
    <2> QED
        BY <1>4
<1>8. CutIsNeverRecorded'
    BY <1>0 DEF TelemetryInv, CutIsNeverRecorded
<1> QED
    BY <1>5, <1>6, <1>7, <1>8 DEF TelemetryInv

\* A notification is sent only while the context is not done.
LEMMA PostInv ==
    ASSUME TelemetryInv, NEW s \in Sessions, NEW k \in Kinds,
           Send(k, s) \/ GiveUp(k, s) \/ Fail(k, s) \/ Lose(k, s)
    PROVE  TelemetryInv'
<1>0. /\ UNCHANGED <<pc, ctxErr, reported, up, record, recorded>>
      /\ TelemetryTypeOK /\ "end" \in Kinds /\ "start" \in Kinds
    BY DEF Send, GiveUp, Fail, Lose, gatewaySide, recordSide, TelemetryInv, Kinds
<1>1. /\ post' \in [Kinds -> [Sessions -> PostStates]]
      /\ \A j \in Kinds, t \in Sessions :
            /\ post'[j][t] = "answered" => post[j][t] = "answered"
            /\ (post'[j][t] = "none") <=> (post[j][t] = "none")
    <2>1. CASE Send(k, s)
        <3>1. post' = [post EXCEPT ![k][s] = "sent"] /\ post[k][s] = "spawned"
            BY <2>1 DEF Send
        <3>2. Moves(k, s, "sent")
            BY <1>0, <3>1 DEF TelemetryTypeOK, PostStates, Moves
        <3> QED
            BY <3>1, <3>2 DEF Moves
    <2>2. CASE GiveUp(k, s) \/ Fail(k, s)
        <3>1. PICK v \in {"unsent", "failed"} :
                  post' = [post EXCEPT ![k][s] = v] /\ post[k][s] # "none"
            BY <2>2 DEF GiveUp, Fail
        <3>2. Moves(k, s, v)
            BY <1>0, <3>1 DEF TelemetryTypeOK, PostStates, Moves
        <3> QED
            BY <3>1, <3>2 DEF Moves
    <2>3. CASE Lose(k, s)
        BY <1>0, <2>3 DEF Lose, TelemetryTypeOK
    <2> QED
        BY <2>1, <2>2, <2>3
<1>2. /\ wire' \subseteq Kinds \X Sessions
      /\ \A t \in Sessions : <<"end", t>> \in wire' =>
            <<"end", t>> \in wire \/ (ctxErr[t] = "none" /\ post["end"][t] # "none")
    <2>1. CASE Send(k, s)
        <3>1. wire' = wire \cup {<<k, s>>} /\ ctxErr[s] = "none" /\ post[k][s] # "none"
            BY <2>1 DEF Send
        <3>2. wire' \subseteq Kinds \X Sessions
            <4>1. <<k, s>> \in Kinds \X Sessions /\ wire \subseteq Kinds \X Sessions
                BY <1>0 DEF TelemetryTypeOK
            <4> QED
                BY <3>1, <4>1, Zenon
        <3>3. ASSUME NEW t \in Sessions, <<"end", t>> \in wire', <<"end", t>> \notin wire
              PROVE  k = "end" /\ s = t
            BY <3>1, <3>3
        <3>4. \A t \in Sessions : <<"end", t>> \in wire' =>
                <<"end", t>> \in wire \/ (ctxErr[t] = "none" /\ post["end"][t] # "none")
            BY <3>1, <3>3
        <3> QED
            BY <3>2, <3>4
    <2>2. CASE ~Send(k, s)
        <3>1. wire' \subseteq wire
            BY <2>2 DEF GiveUp, Fail, Lose
        <3> QED
            BY <1>0, <3>1 DEF TelemetryTypeOK
    <2> QED
        BY <2>1, <2>2
<1>3. TelemetryTypeOK'
    BY <1>0, <1>1, <1>2 DEF TelemetryTypeOK
<1>4. CutStaysHere'
    BY <1>0, <1>1, <1>2 DEF TelemetryInv, CutStaysHere
<1>5. AcknowledgedIsRecorded' /\ CutIsNeverRecorded'
    BY <1>0, <1>1 DEF TelemetryInv, AcknowledgedIsRecorded, CutIsNeverRecorded
<1> QED
    BY <1>3, <1>4, <1>5 DEF TelemetryInv

\* What an answer does to its notification.
LEMMA AnswerEffect ==
    ASSUME TelemetryTypeOK, NEW k \in Kinds, NEW s \in Sessions,
           NEW outcome \in {"answered", "failed"}, Answer(k, s, outcome)
    PROVE  /\ post' \in [Kinds -> [Sessions -> PostStates]] /\ wire' \subseteq wire
           /\ \A j \in Kinds, t \in Sessions :
                 /\ (post'[j][t] = "none") <=> (post[j][t] = "none")
                 /\ j # k \/ t # s \/ outcome = "failed"
                      => (post'[j][t] = "answered" => post[j][t] = "answered")
<1> DEFINE v == IF post[k][s] = "sent" THEN outcome ELSE post[k][s]
<1>1. post' = [post EXCEPT ![k][s] = v] /\ wire' \subseteq wire
    BY DEF Answer
<1>2. v \in PostStates
    BY DEF TelemetryTypeOK, PostStates
<1>3. /\ (v = "none") <=> (post[k][s] = "none")
      /\ outcome = "failed" => (v = "answered" => post[k][s] = "answered")
    OBVIOUS
<1> HIDE DEF v
<1>4. Moves(k, s, v)
    BY <1>1, <1>2 DEF TelemetryTypeOK, Moves
<1> QED
    BY <1>1, <1>3, <1>4 DEF Moves

\* The control plane answers with success only what it has recorded.
LEMMA HandleInv ==
    ASSUME TelemetryInv, NEW s \in Sessions, HandleStart(s) \/ HandleEnd(s) \/ RefuseEnd(s)
    PROVE  TelemetryInv'
<1>0. /\ UNCHANGED <<pc, ctxErr, reported, up>>
      /\ TelemetryTypeOK /\ CutStaysHere /\ "end" \in Kinds /\ "start" \in Kinds
    BY DEF HandleStart, HandleEnd, RefuseEnd, gatewaySide, TelemetryInv, Kinds
<1>1. /\ record' \in [Sessions -> {"absent", "active", "ended"}]
      /\ \A t \in Sessions : record[t] # "absent" => record'[t] # "absent"
      /\ \A t \in Sessions : record[t] = "ended" => record'[t] = "ended"
      /\ HandleStart(s) => record'[s] # "absent"
      /\ HandleEnd(s) => record'[s] = "ended"
    <2>1. CASE HandleStart(s) /\ ~HandleEnd(s)
        <3>1. record' = [record EXCEPT ![s] = IF record[s] = "absent" THEN "active" ELSE record[s]]
            BY <2>1 DEF HandleStart
        <3> QED
            BY <1>0, <2>1, <3>1 DEF TelemetryTypeOK
    <2>2. CASE HandleEnd(s)
        <3>1. record' = [record EXCEPT ![s] = "ended"]
            BY <2>2 DEF HandleEnd
        <3> QED
            BY <1>0, <3>1 DEF TelemetryTypeOK
    <2>3. CASE ~HandleStart(s) /\ ~HandleEnd(s)
        <3>1. record' = record
            BY <2>3 DEF RefuseEnd, recordSide
        <3> QED
            BY <1>0, <2>3, <3>1 DEF TelemetryTypeOK
    <2> QED
        BY <2>1, <2>2, <2>3
<1>2. /\ recorded' \in [Sessions -> Reasons \cup {""}]
      /\ \A t \in Sessions : recorded'[t] \notin Cut
    <2>1. CASE HandleEnd(s)
        <3>1. /\ recorded' = [recorded EXCEPT ![s] = reported[s]]
              /\ reported[s] \in Reasons \cup {""} /\ reported[s] \notin Cut
            BY <1>0, <2>1 DEF HandleEnd, TelemetryTypeOK, CutStaysHere
        <3> QED
            BY <1>0, <3>1 DEF TelemetryTypeOK, TelemetryInv, CutIsNeverRecorded, Cut
    <2>2. CASE ~HandleEnd(s)
        <3>1. recorded' = recorded
            BY <2>2 DEF HandleStart, RefuseEnd, recordSide
        <3> QED
            BY <1>0, <3>1 DEF TelemetryTypeOK, TelemetryInv, CutIsNeverRecorded, Cut
    <2> QED
        BY <2>1, <2>2
<1>3. /\ post' \in [Kinds -> [Sessions -> PostStates]] /\ wire' \subseteq wire
      /\ \A t \in Sessions : post'["end"][t] = "none" => post["end"][t] = "none"
      /\ \A t \in Sessions : post["end"][t] = "none" => post'["end"][t] = "none"
      /\ \A t \in Sessions : post'["start"][t] = "answered" =>
            post["start"][t] = "answered" \/ (t = s /\ HandleStart(s))
      /\ \A t \in Sessions : post'["end"][t] = "answered" =>
            post["end"][t] = "answered" \/ (t = s /\ HandleEnd(s))
    <2>1. CASE HandleStart(s)
        <3>1. Answer("start", s, "answered")
            BY <2>1 DEF HandleStart
        <3> QED
            BY <1>0, <2>1, <3>1, AnswerEffect
    <2>2. CASE HandleEnd(s)
        <3>1. Answer("end", s, "answered")
            BY <2>2 DEF HandleEnd
        <3> QED
            BY <1>0, <2>2, <3>1, AnswerEffect
    <2>3. CASE RefuseEnd(s)
        <3>1. Answer("end", s, "failed")
            BY <2>3 DEF RefuseEnd
        <3> QED
            BY <1>0, <2>3, <3>1, AnswerEffect
    <2> QED
        BY <2>1, <2>2, <2>3
<1>4. TelemetryTypeOK'
    BY <1>0, <1>1, <1>2, <1>3 DEF TelemetryTypeOK
<1>5. CutStaysHere'
    BY <1>0, <1>3 DEF CutStaysHere
<1>6. AcknowledgedIsRecorded'
    BY <1>1, <1>3 DEF TelemetryInv, AcknowledgedIsRecorded
<1>7. CutIsNeverRecorded'
    BY <1>2 DEF CutIsNeverRecorded, Cut
<1> QED
    BY <1>4, <1>5, <1>6, <1>7 DEF TelemetryInv

\* Every step keeps the invariant.
LEMMA TelemetryInvStep == TelemetryInv /\ [TelemetryNext]_telemetryVars => TelemetryInv'
<1> SUFFICES ASSUME TelemetryInv, [TelemetryNext]_telemetryVars PROVE TelemetryInv'
    OBVIOUS
<1>1. CASE Stop \/ UNCHANGED telemetryVars
    BY <1>1 DEF Stop, telemetryVars, gatewaySide, recordSide, TelemetryInv, TelemetryTypeOK,
                CutStaysHere, AcknowledgedIsRecorded, CutIsNeverRecorded
<1> QED
    BY <1>1, HandlerInv, PostInv, HandleInv DEF TelemetryNext

\* And so it holds of every behaviour.
LEMMA TelemetryInvHolds == TelemetrySpec => []TelemetryInv
<1> QED
    BY TelemetryInitInv, TelemetryInvStep, PTL DEF TelemetrySpec

\* What the gateway was told is recorded stays recorded, in whatever order the calls of
\* a session arrive and whichever are lost (pep_sessions.go:24-64, sessions.go:13-62).
THEOREM AcknowledgedIsRecordedHolds == TelemetrySpec => []AcknowledgedIsRecorded
<1> QED
    BY TelemetryInvHolds, PTL DEF TelemetryInv

\* That the record of a session is not completed as it closes (CompletedAtClose is
\* violated) is no matter of timing when the session was cut: no interleaving records
\* its end, for nothing is sent under a context that is done (handler.go:359,
\* client.go:104,118).
THEOREM CutIsNeverRecordedHolds == TelemetrySpec => []CutIsNeverRecorded
<1> QED
    BY TelemetryInvHolds, PTL DEF TelemetryInv

-----------------------------------------------------------------------------
(***************************************************************************)
(* The relay.  A chunk is a number.  The invariant follows the chunks of a *)
(* direction from the receiver back to the sender: what is received, the   *)
(* queue before it, the copy that fills that queue, the tunnel, the copy   *)
(* that fills the tunnel, the queue the sender writes to.  Each of them    *)
(* goes on where the one ahead of it ends, but only as long as every copy  *)
(* ahead still passes on what it reads: chunks may be lost behind one that *)
(* does not, and nothing that is behind it ever arrives.                   *)
(***************************************************************************)
\* What the variables hold.
RelayTypeOK ==
    /\ queue \in [Links -> [Dirs -> Seq(Nat)]]
    /\ socket \in [Ends -> {"open", "half", "closed"}]
    /\ hand \in [Copies -> Nat]
    /\ client \in {"asking", "waiting", "relaying", "over"}
    /\ proxy \in {"request", "dialing", "running", "closing", "returned"}
    /\ sent \in [Dirs -> Nat]
    /\ got \in [Dirs -> Seq(Nat)]

\* The copy of a direction that reads from the sender, and the one that writes to
\* the receiver; the links at the two ends.
First(d) == IF d = "up" THEN "client_up" ELSE "gateway_down"
Last(d) == IF d = "up" THEN "gateway_up" ELSE "client_down"
In(d) == queue[Src(First(d))][d]
Out(d) == queue[Dst(Last(d))][d]

\* The chunks on the tunnel: what is there without the messages of the exchange.
Under(d) ==
    IF d = "up"
    THEN IF proxy = "request" THEN << >> ELSE queue["tunnel"]["up"]
    ELSE IF client \in {"asking", "waiting"} /\ queue["tunnel"]["down"] # << >>
         THEN Tail(queue["tunnel"]["down"]) ELSE queue["tunnel"]["down"]

\* The target's connection does not exist yet.
Undialled == proxy \in {"request", "dialing"}

\* What the copy reads may still come through it: it has not returned, nor its
\* process, and the end it writes to reads.
Passes(c) ==
    /\ c \notin ended
    /\ IF c \in {"client_up", "client_down"} THEN client # "over" ELSE proxy # "returned"
    /\ socket[Reader(Dst(c), Dir(c))] # "closed" \/ (c = "gateway_up" /\ Undialled)

\* What the sender writes is read.
Taken(d) == socket[Reader(Src(First(d)), d)] # "closed" \/ (d = "down" /\ Undialled)

\* The chunks of s are those that follow chunk n.
Follows(s, n) == \A i \in 1..Len(s) : s[i] = n + i

Held(c) == IF hand[c] = 0 THEN 0 ELSE 1

\* The number of the last chunk that is in Out, Under or In, if none is missing.
OutTo(d) == Len(got[d]) + Len(Out(d))
UnderTo(d) == OutTo(d) + Held(Last(d)) + Len(Under(d))
InTo(d) == UnderTo(d) + Held(First(d)) + Len(In(d))

\* The chunks of a direction on their way, from the receiver to the sender: each
\* place continues what is ahead of it, as long as every copy ahead still passes
\* on what it reads.
FlowOut(d) == Follows(got[d], 0) /\ Follows(Out(d), Len(got[d])) /\ OutTo(d) <= sent[d]
FlowUnder(d) ==
    /\ hand[Last(d)] \in {0, OutTo(d) + 1}
    /\ Follows(Under(d), OutTo(d) + Held(Last(d)))
    /\ UnderTo(d) <= sent[d]
FlowIn(d) ==
    /\ hand[First(d)] \in {0, UnderTo(d) + 1}
    /\ Follows(In(d), UnderTo(d) + Held(First(d)))
    /\ InTo(d) <= sent[d]
    /\ Taken(d) => InTo(d) = sent[d]
Flow(d) ==
    /\ FlowOut(d)
    /\ Passes(Last(d)) => FlowUnder(d)
    /\ Passes(Last(d)) /\ Passes(First(d)) => FlowIn(d)

\* Where the CONNECT exchange is, and what it keeps off the tunnel.
Exchange ==
    /\ proxy = "request" => /\ queue["tunnel"]["down"] = << >>
                            /\ Len(queue["tunnel"]["up"]) <= 1
                            /\ client # "relaying"
    /\ client = "asking" => proxy \in {"request", "returned"} /\ queue["tunnel"]["up"] = << >>
    /\ client \in {"asking", "waiting"} /\ proxy \in {"dialing", "running", "closing"}
          => queue["tunnel"]["down"] # << >>
    /\ Undialled => socket[Target] = "closed" /\ socket[<<"backend", "near">>] = "closed"

\* The inductive invariant.
RelayInv == RelayTypeOK /\ Exchange /\ \A d \in Dirs : Flow(d)

-----------------------------------------------------------------------------
\* The chunk after the last one continues a run of chunks,
LEMMA FollowsAppend ==
    ASSUME NEW s \in Seq(Nat), NEW n \in Nat, Follows(s, n)
    PROVE  Follows(Append(s, n + Len(s) + 1), n)
BY DEF Follows

\* and what is left of one without its first is a run that starts one later.
LEMMA FollowsTail ==
    ASSUME NEW s \in Seq(Nat), NEW n \in Nat, Follows(s, n), s # << >>
    PROVE  /\ Head(s) = n + 1 /\ Follows(Tail(s), n + 1)
           /\ Tail(s) \in Seq(Nat) /\ Len(Tail(s)) = Len(s) - 1 /\ Len(s) > 0
BY DEF Follows

\* What is appended is behind the first.
LEMMA TailOfAppend ==
    ASSUME NEW s \in Seq(Nat), NEW x \in Nat, s # << >>
    PROVE  Append(s, x) # << >> /\ Tail(Append(s, x)) = Append(Tail(s), x)
BY HeadTailAppend, AppendProperties

\* No chunk is on its way at first.
LEMMA RelayInitInv == RelayInit => RelayInv
<1> SUFFICES ASSUME RelayInit PROVE RelayInv
    OBVIOUS
<1>1. RelayTypeOK
    BY DEF RelayInit, RelayTypeOK
<1>2. Exchange
    BY DEF RelayInit, Exchange, Undialled, Target, Links, Dirs, Ends
<1>3. ASSUME NEW d \in Dirs PROVE Flow(d)
    <2>1. got[d] = << >> /\ In(d) = << >> /\ Out(d) = << >> /\ Under(d) = << >> /\ sent[d] = 0
        BY DEF RelayInit, In, Out, Under, First, Last, Src, Dst, Links, Dirs
    <2>2. hand[First(d)] = 0 /\ hand[Last(d)] = 0
        BY DEF RelayInit, First, Last, Copies
    <2> QED
        BY <2>1, <2>2 DEF Flow, FlowOut, FlowUnder, FlowIn, InTo, UnderTo, OutTo, Held, Follows
<1> QED
    BY <1>1, <1>2, <1>3 DEF RelayInv

\* The parts of a direction have their types.
LEMMA FlowTypes ==
    ASSUME RelayTypeOK, NEW d \in Dirs
    PROVE  /\ got[d] \in Seq(Nat) /\ In(d) \in Seq(Nat) /\ Out(d) \in Seq(Nat) /\ Under(d) \in Seq(Nat)
           /\ hand[First(d)] \in Nat /\ hand[Last(d)] \in Nat /\ sent[d] \in Nat
           /\ Held(First(d)) \in {0, 1} /\ Held(Last(d)) \in {0, 1}
           /\ OutTo(d) \in Nat /\ UnderTo(d) \in Nat /\ InTo(d) \in Nat
<1>1. First(d) \in Copies /\ Last(d) \in Copies /\ Src(First(d)) \in Links /\ Dst(Last(d)) \in Links
    BY DEF First, Last, Copies, Src, Dst, Links
<1>2. got[d] \in Seq(Nat) /\ In(d) \in Seq(Nat) /\ Out(d) \in Seq(Nat) /\ sent[d] \in Nat
    BY <1>1 DEF RelayTypeOK, In, Out
<1>3. Under(d) \in Seq(Nat)
    BY DEF RelayTypeOK, Under, Links, Dirs
<1>4. hand[First(d)] \in Nat /\ hand[Last(d)] \in Nat
    BY <1>1 DEF RelayTypeOK
<1>5. Held(First(d)) \in {0, 1} /\ Held(Last(d)) \in {0, 1}
    BY DEF Held
<1>6. Len(got[d]) \in Nat /\ Len(In(d)) \in Nat /\ Len(Out(d)) \in Nat /\ Len(Under(d)) \in Nat
    BY <1>2, <1>3, LenProperties
<1>7. OutTo(d) \in Nat
    BY <1>6 DEF OutTo
<1>8. UnderTo(d) \in Nat
    BY <1>5, <1>6, <1>7 DEF UnderTo
<1>9. InTo(d) \in Nat
    BY <1>5, <1>6, <1>8 DEF InTo
<1> QED
    BY <1>2, <1>3, <1>4, <1>5, <1>7, <1>8, <1>9

\* A direction is kept by a step that leaves the places of its chunks as they are, those
\* behind a copy that does not pass on what it reads excepted.
LEMMA FlowKept ==
    ASSUME NEW d \in Dirs, Flow(d), got'[d] = got[d], sent'[d] = sent[d], Out(d)' = Out(d),
           Passes(Last(d))' =>
               Passes(Last(d)) /\ hand'[Last(d)] = hand[Last(d)] /\ Under(d)' = Under(d),
           Passes(First(d))' =>
               /\ Passes(First(d)) /\ hand'[First(d)] = hand[First(d)]
               /\ In(d)' = In(d) /\ (Taken(d)' => Taken(d))
    PROVE  Flow(d)'
<1>1. FlowOut(d)'
    BY DEF Flow, FlowOut, OutTo
<1>2. ASSUME Passes(Last(d))' PROVE FlowUnder(d)' /\ UnderTo(d)' = UnderTo(d)
    BY <1>2 DEF Flow, FlowUnder, UnderTo, OutTo, Held
<1>3. ASSUME Passes(Last(d))', Passes(First(d))' PROVE FlowIn(d)'
    <2>1. UnderTo(d)' = UnderTo(d)
        BY <1>2, <1>3
    <2>2. FlowIn(d)
        BY <1>3 DEF Flow
    <2> QED
        BY <2>1, <2>2, <1>3 DEF FlowIn, InTo, Held
<1> QED
    BY <1>1, <1>2, <1>3 DEF Flow

\* Sockets and processes only go on: nothing that was closed, has returned or is
\* over comes back, but the target's connection, which is dialled once.
Onward ==
    /\ \A e \in Ends : socket[e] = "closed" =>
          socket'[e] = "closed" \/ (e[1] = "backend" /\ Undialled)
    /\ ended \subseteq ended'
    /\ client = "over" => client' = "over"
    /\ proxy = "returned" => proxy' = "returned"
    /\ Undialled' => Undialled

\* What is closed stays closed.
LEMMA ClosedTypes ==
    ASSUME RelayTypeOK, NEW ends \in SUBSET Ends, Closed(ends)
    PROVE  /\ socket' \in [Ends -> {"open", "half", "closed"}]
           /\ \A e \in Ends : socket[e] = "closed" => socket'[e] = "closed"
           /\ \A e \in Ends : socket'[e] # "closed" => socket'[e] = socket[e]
BY DEF RelayTypeOK, Closed

\* What a write does to the queues.
LEMMA WrittenEffect ==
    ASSUME RelayTypeOK, NEW l \in Links, NEW d \in Dirs, NEW x \in Nat,
           queue' = Written(queue, l, d, x)
    PROVE  /\ queue' \in [Links -> [Dirs -> Seq(Nat)]]
           /\ queue'[l][d] = IF socket[Reader(l, d)] = "closed" THEN queue[l][d]
                                                              ELSE Append(queue[l][d], x)
           /\ \A m \in Links, e \in Dirs : m # l \/ e # d => queue'[m][e] = queue[m][e]
<1>1. CASE socket[Reader(l, d)] = "closed"
    BY <1>1 DEF RelayTypeOK, Written
<1>2. CASE socket[Reader(l, d)] # "closed"
    <2>1. queue' = [queue EXCEPT ![l][d] = Append(@, x)]
        BY <1>2 DEF Written
    <2>2. Append(queue[l][d], x) \in Seq(Nat)
        BY DEF RelayTypeOK
    <2> QED
        BY <1>2, <2>1, <2>2 DEF RelayTypeOK
<1> QED
    BY <1>1, <1>2

\* What a read does to them.
LEMMA ReadEffect ==
    ASSUME RelayTypeOK, NEW l \in Links, NEW d \in Dirs, queue[l][d] # << >>,
           queue' = [queue EXCEPT ![l][d] = Tail(@)]
    PROVE  /\ queue' \in [Links -> [Dirs -> Seq(Nat)]]
           /\ queue'[l][d] = Tail(queue[l][d]) /\ Head(queue[l][d]) \in Nat
           /\ \A m \in Links, e \in Dirs : m # l \/ e # d => queue'[m][e] = queue[m][e]
<1>1. Tail(queue[l][d]) \in Seq(Nat) /\ Head(queue[l][d]) \in Nat
    BY DEF RelayTypeOK
<1> QED
    BY <1>1 DEF RelayTypeOK

\* The copies at the two ends of each direction.
LEMMA PlacesOf ==
    /\ First("up") = "client_up" /\ First("down") = "gateway_down"
    /\ Last("up") = "gateway_up" /\ Last("down") = "client_down"
    /\ \A c \in Copies : Src(c) \in Links /\ Dst(c) \in Links /\ Dir(c) \in Dirs
    /\ \A c \in Copies : c \in {First(Dir(c)), Last(Dir(c))}
    /\ \A d \in Dirs : First(d) \in Copies /\ Last(d) \in Copies /\ First(d) # Last(d)
                      /\ Dir(First(d)) = d /\ Dir(Last(d)) = d
                      /\ Dst(First(d)) = "tunnel" /\ Src(Last(d)) = "tunnel"
    /\ Src("client_up") = "local" /\ Src("gateway_down") = "backend"
    /\ Dst("client_down") = "local" /\ Dst("gateway_up") = "backend"
    /\ Src("gateway_up") = "tunnel" /\ Src("client_down") = "tunnel"
    /\ Dst("client_up") = "tunnel" /\ Dst("gateway_down") = "tunnel"
    /\ \A l \in Links, d \in Dirs : Reader(l, d) \in Ends /\ Writer(l, d) \in Ends
BY DEF First, Last, Src, Dst, Dir, Copies, Links, Dirs, Reader, Writer, Ends

\* Every step keeps the types and only goes onward: nothing is opened again.
LEMMA RelayTypesStep ==
    ASSUME RelayTypeOK, RelayNext
    PROVE  RelayTypeOK' /\ Onward
<1> USE RelayConstants DEF Onward, Undialled
<1>a. ClientEnds \subseteq Ends /\ GatewayEnds \subseteq Ends /\ App \in Ends /\ Target \in Ends
    BY DEF ClientEnds, GatewayEnds, App, Target, Ends, Links
<1>b. Request \in Nat /\ Allow \in Nat /\ Deny \in Nat /\ "tunnel" \in Links /\ "up" \in Dirs /\ "down" \in Dirs
    BY DEF Request, Allow, Deny, Links, Dirs
<1>1. CASE ClientAsks
    BY <1>1, <1>b, WrittenEffect DEF ClientAsks, RelayTypeOK
<1>2. CASE ClientAllowed
    BY <1>2, <1>b, ReadEffect DEF ClientAllowed, CanRead, RelayTypeOK
<1>3. CASE ClientRefused
    BY <1>3, <1>a, ClosedTypes DEF ClientRefused, RelayTypeOK
<1>4. CASE GatewayAnswers
    <2> USE <1>4 DEF GatewayAnswers
    <2>1. PICK answer \in {Allow, Deny} :
            /\ queue' = [queue EXCEPT !["tunnel"]["up"] = Tail(@),
                                      !["tunnel"]["down"] = Append(@, answer)]
            /\ IF answer = Allow
               THEN proxy' = "dialing" /\ UNCHANGED <<socket, reset>>
               ELSE proxy' = "returned" /\ Closed(GatewayEnds)
        OBVIOUS
    <2>2. Tail(queue["tunnel"]["up"]) \in Seq(Nat) /\ Append(queue["tunnel"]["down"], answer) \in Seq(Nat)
        BY <1>b, <2>1 DEF RelayTypeOK, CanRead
    <2>3. queue' \in [Links -> [Dirs -> Seq(Nat)]]
        BY <2>1, <2>2 DEF RelayTypeOK, Dirs
    <2> QED
        BY <2>1, <2>3, <1>a, ClosedTypes DEF RelayTypeOK
<1>5. CASE Dialled
    BY <1>5 DEF Dialled, RelayTypeOK
<1>6. CASE GatewayGivesUp
    BY <1>6, <1>a, ClosedTypes DEF GatewayGivesUp, RelayTypeOK
<1>7. CASE GatewayCloses
    BY <1>7, <1>a, ClosedTypes DEF GatewayCloses, RelayTypeOK
<1>8. CASE ProxyReturns
    BY <1>8 DEF ProxyReturns, RelayTypeOK
<1>9. CASE ClientCloses
    BY <1>9, <1>a, ClosedTypes DEF ClientCloses, RelayTypeOK
<1>10. CASE ClientExits
    BY <1>10, <1>a, ClosedTypes DEF ClientExits, RelayTypeOK, Copies
<1>11. ASSUME NEW c \in Copies, CopyReads(c) PROVE RelayTypeOK' /\ Onward
    BY <1>11, PlacesOf, ReadEffect DEF CopyReads, CanRead, RelayTypeOK
<1>12. ASSUME NEW c \in Copies, CopyWrites(c) PROVE RelayTypeOK' /\ Onward
    <2>1. hand[c] \in Nat
        BY DEF RelayTypeOK
    <2> QED
        BY <1>12, <2>1, PlacesOf, WrittenEffect DEF CopyWrites, RelayTypeOK
<1>13. ASSUME NEW c \in Copies, CopyEnds(c) PROVE RelayTypeOK' /\ Onward
    BY <1>13 DEF CopyEnds, RelayTypeOK
<1>14. ASSUME NEW e \in {App, Target}, NEW d \in Dirs, NEW b \in Dirs, Peer(e, d, b)
       PROVE  RelayTypeOK' /\ Onward
    <2>0. e \in Ends /\ e[1] \in Links
        BY DEF App, Target, Ends, Links
    <2>1. CASE Sends(e, d)
        <3>1. sent[d] + 1 \in Nat
            BY DEF RelayTypeOK
        <3> QED
            BY <2>0, <2>1, <3>1, WrittenEffect DEF Sends, RelayTypeOK
    <2>2. CASE Receives(e, b)
        <3>1. /\ queue' \in [Links -> [Dirs -> Seq(Nat)]]
              /\ Head(queue[e[1]][b]) \in Nat
            BY <2>0, <2>2, ReadEffect DEF Receives, CanRead
        <3>2. Append(got[b], Head(queue[e[1]][b])) \in Seq(Nat)
            BY <3>1 DEF RelayTypeOK
        <3> QED
            BY <2>2, <3>1, <3>2 DEF Receives, RelayTypeOK
    <2>3. CASE ShutsWriting(e)
        BY <2>0, <2>3 DEF ShutsWriting, RelayTypeOK
    <2>4. CASE Closes(e)
        BY <2>0, <2>4, ClosedTypes DEF Closes, RelayTypeOK
    <2> QED
        BY <1>14, <2>1, <2>2, <2>3, <2>4 DEF Peer
<1> QED
    BY <1>1, <1>2, <1>3, <1>4, <1>5, <1>6, <1>7, <1>8, <1>9, <1>10, <1>11, <1>12, <1>13, <1>14
       DEF RelayNext, Connect, Gateway, Copy, Dirs

\* So a copy that has ceased to pass on does not begin again.
LEMMA PassesKept ==
    ASSUME RelayTypeOK, Onward
    PROVE  /\ \A c \in Copies : Passes(c)' => Passes(c)
           /\ \A d \in Dirs : Taken(d)' => Taken(d)
<1>1. ASSUME NEW c \in Copies, Passes(c)' PROVE Passes(c)
    BY <1>1 DEF Passes, Onward, Copies, Undialled, Reader, Dst, Dir, Ends, Links
<1>2. ASSUME NEW d \in Dirs, Taken(d)' PROVE Taken(d)
    BY <1>2 DEF Taken, Onward, Dirs, Undialled, Reader, Src, First, Ends, Links
<1> QED
    BY <1>1, <1>2

\* The exchange goes on as it must.
LEMMA ExchangeStep ==
    ASSUME RelayTypeOK, Exchange, RelayNext
    PROVE  Exchange'
<1> USE RelayConstants DEF Exchange, Undialled
<1>0. RelayTypeOK' /\ Onward
    BY RelayTypesStep
<1>a. /\ ClientEnds \cap {Target, <<"backend", "near">>} = {}
      /\ Target \in Ends /\ <<"backend", "near">> \in Ends /\ Target[1] = "backend"
      /\ <<"backend", "near">> \in GatewayEnds
    BY DEF ClientEnds, GatewayEnds, Target, Ends, Links
<1>b. "tunnel" \in Links /\ "up" \in Dirs /\ "down" \in Dirs /\ Request \in Nat
    BY DEF Links, Dirs, Request
<1>c. ASSUME NEW ends \in SUBSET Ends, Closed(ends), Undialled
      PROVE  socket'[Target] = "closed" /\ socket'[<<"backend", "near">>] = "closed"
    BY <1>a, <1>c, ClosedTypes
<1>d. ClientEnds \subseteq Ends /\ GatewayEnds \subseteq Ends /\ App \in Ends
    BY DEF ClientEnds, GatewayEnds, App, Ends, Links
<1>1. CASE ClientAsks
    <2>1. /\ queue'["tunnel"]["down"] = queue["tunnel"]["down"]
          /\ queue'["tunnel"]["up"] \in {queue["tunnel"]["up"], Append(queue["tunnel"]["up"], Request)}
        <3>1. queue' = Written(queue, "tunnel", "up", Request)
            BY <1>1 DEF ClientAsks
        <3>2. /\ queue'["tunnel"]["up"] = IF socket[Reader("tunnel", "up")] = "closed"
                                          THEN queue["tunnel"]["up"]
                                          ELSE Append(queue["tunnel"]["up"], Request)
              /\ \A m \in Links, e \in Dirs : m # "tunnel" \/ e # "up" => queue'[m][e] = queue[m][e]
            BY <1>b, <3>1, WrittenEffect
        <3> QED
            BY <1>b, <3>2
    <2>2. proxy = "request" => queue["tunnel"]["up"] = << >>
        BY <1>1 DEF ClientAsks
    <2>3. proxy = "request" => Len(queue'["tunnel"]["up"]) <= 1
        BY <2>1, <2>2, <1>b DEF RelayTypeOK
    <2> QED
        BY <1>1, <2>1, <2>3 DEF ClientAsks
<1>2. CASE ClientAllowed
    BY <1>2, <1>b, ReadEffect DEF ClientAllowed, CanRead
<1>3. CASE ClientRefused
    BY <1>3, <1>c, <1>d DEF ClientRefused
<1>4. CASE GatewayAnswers
    <2>1. /\ queue'["tunnel"]["up"] = Tail(queue["tunnel"]["up"])
          /\ queue'["tunnel"]["down"] # << >>
        BY <1>4 DEF GatewayAnswers, RelayTypeOK, Links, Dirs
    <2>2. queue["tunnel"]["up"] # << >> /\ Len(queue["tunnel"]["up"]) <= 1
        BY <1>4 DEF GatewayAnswers, CanRead
    <2>3. queue'["tunnel"]["up"] = << >>
        BY <2>1, <2>2, <1>b DEF RelayTypeOK
    <2>4. client' = client /\ client # "asking" /\ proxy' \in {"dialing", "returned"}
        BY <1>4, <2>2 DEF GatewayAnswers
    <2>5. proxy' = "dialing" => socket' = socket
        BY <1>4 DEF GatewayAnswers
    <2> QED
        BY <2>1, <2>3, <2>4, <2>5, <1>4 DEF GatewayAnswers
<1>5. CASE Dialled
    BY <1>5 DEF Dialled
<1>6. CASE GatewayGivesUp
    BY <1>6 DEF GatewayGivesUp
<1>7. CASE GatewayCloses
    BY <1>7 DEF GatewayCloses
<1>8. CASE ProxyReturns
    BY <1>8 DEF ProxyReturns
<1>9. CASE ClientCloses
    BY <1>9, <1>c, <1>d DEF ClientCloses
<1>10. CASE ClientExits
    BY <1>10, <1>c, <1>d DEF ClientExits
<1>11. ASSUME NEW c \in Copies, CopyReads(c) PROVE Exchange'
    <2>1. \A m \in Links, e \in Dirs : m # Src(c) \/ e # Dir(c) => queue'[m][e] = queue[m][e]
        <3>1. Src(c) \in Links /\ Dir(c) \in Dirs
            BY PlacesOf
        <3> QED
            BY <1>11, <3>1, ReadEffect DEF CopyReads, CanRead
    <2>2. IF c \in {"client_up", "client_down"} THEN client = "relaying" ELSE proxy \in {"running", "closing"}
        BY <1>11 DEF CopyReads, Running, Started
    <2>3. /\ c # "gateway_up" => queue'["tunnel"]["up"] = queue["tunnel"]["up"]
          /\ c # "client_down" => queue'["tunnel"]["down"] = queue["tunnel"]["down"]
        BY <1>b, <2>1 DEF Copies, Src, Dir
    <2>4. client = "asking" => proxy # "running" /\ proxy # "closing"
        OBVIOUS
    <2> QED
        BY <1>11, <2>2, <2>3, <2>4 DEF CopyReads
<1>12. ASSUME NEW c \in Copies, CopyWrites(c) PROVE Exchange'
    <2>0. hand[c] \in Nat
        BY DEF RelayTypeOK
    <2>1. /\ queue'[Dst(c)][Dir(c)] \in {queue[Dst(c)][Dir(c)], Append(queue[Dst(c)][Dir(c)], hand[c])}
          /\ \A m \in Links, e \in Dirs : m # Dst(c) \/ e # Dir(c) => queue'[m][e] = queue[m][e]
        BY <1>12, <2>0, PlacesOf, WrittenEffect DEF CopyWrites
    <2>2. IF c \in {"client_up", "client_down"} THEN client = "relaying" ELSE proxy \in {"running", "closing"}
        BY <1>12 DEF CopyWrites, Running, Started
    <2>3. /\ c # "client_up" => queue'["tunnel"]["up"] = queue["tunnel"]["up"]
          /\ c # "gateway_down" => queue'["tunnel"]["down"] = queue["tunnel"]["down"]
        BY <1>b, <2>1 DEF Copies, Dst, Dir
    <2>4. c = "gateway_down" => queue'["tunnel"]["down"] \in
             {queue["tunnel"]["down"], Append(queue["tunnel"]["down"], hand[c])}
        BY <2>1 DEF Dst, Dir
    <2>5. queue["tunnel"]["down"] # << >> => queue'["tunnel"]["down"] # << >>
        BY <1>b, <2>0, <2>3, <2>4 DEF RelayTypeOK
    <2> QED
        BY <1>12, <2>2, <2>3, <2>5 DEF CopyWrites
<1>13. ASSUME NEW c \in Copies, CopyEnds(c) PROVE Exchange'
    BY <1>13, <1>0 DEF CopyEnds, Running, Started, Onward, Writer, Target
<1>14. ASSUME NEW e \in {App, Target}, NEW d \in Dirs, NEW b \in Dirs, Peer(e, d, b),
              queue'["tunnel"] = queue["tunnel"], client' = client, proxy' = proxy
       PROVE  Exchange'
    <2>1. Undialled => socket'[Target] = "closed" /\ socket'[<<"backend", "near">>] = "closed"
        <3>1. CASE Closes(e)
            BY <1>c, <1>a, <1>d, <3>1 DEF Closes
        <3>2. CASE ShutsWriting(e)
            BY <1>a, <3>2 DEF ShutsWriting, App, Target
        <3>3. CASE Sends(e, d) \/ Receives(e, b)
            BY <3>3 DEF Sends, Receives
        <3> QED
            BY <1>14, <3>1, <3>2, <3>3 DEF Peer
    <2> QED
        BY <2>1, <1>14
<1>15. ASSUME NEW e \in {App, Target}, NEW d \in Dirs, NEW b \in Dirs, Peer(e, d, b)
       PROVE  queue'["tunnel"] = queue["tunnel"] /\ client' = client /\ proxy' = proxy
    <2>1. e[1] \in Links /\ e[1] # "tunnel"
        BY DEF App, Target, Links
    <2>2. client' = client /\ proxy' = proxy
        BY <1>15 DEF Peer, Sends, Receives, ShutsWriting, Closes
    <2>3. CASE Sends(e, d)
        BY <2>1, <2>3 DEF Sends, Written, RelayTypeOK
    <2>4. CASE Receives(e, b)
        BY <2>1, <2>4 DEF Receives, RelayTypeOK
    <2>5. CASE ShutsWriting(e) \/ Closes(e)
        BY <2>5 DEF ShutsWriting, Closes
    <2> QED
        BY <1>15, <2>2, <2>3, <2>4, <2>5 DEF Peer
<1> QED
    BY <1>1, <1>2, <1>3, <1>4, <1>5, <1>6, <1>7, <1>8, <1>9, <1>10, <1>11, <1>12, <1>13, <1>14, <1>15
       DEF RelayNext, Connect, Gateway, Copy, Dirs

-----------------------------------------------------------------------------
(***************************************************************************)
(* The six ways in which the chunks of a direction move.                   *)
(***************************************************************************)
\* The sender writes the next chunk.
LEMMA FlowSend ==
    ASSUME RelayInv, NEW d \in Dirs, Sends(IF d = "up" THEN App ELSE Target, d)
    PROVE  Flow(d)'
<1> DEFINE lost == socket[Reader(Src(First(d)), d)] = "closed"
<1>0. RelayTypeOK /\ Flow(d)
    BY DEF RelayInv
<1>1. /\ sent'[d] = sent[d] + 1 /\ got' = got /\ hand' = hand /\ ended' = ended
      /\ socket' = socket /\ client' = client /\ proxy' = proxy
    BY <1>0 DEF Sends, RelayTypeOK
<1>2. /\ In(d)' = IF lost THEN In(d) ELSE Append(In(d), sent[d] + 1)
      /\ Out(d)' = Out(d) /\ Under(d)' = Under(d)
    <2>1. /\ (IF d = "up" THEN App ELSE Target)[1] = Src(First(d)) /\ Src(First(d)) \in Links
          /\ sent[d] + 1 \in Nat
        BY <1>0, PlacesOf DEF App, Target, Dirs, RelayTypeOK
    <2>2. /\ queue'[Src(First(d))][d] = IF lost THEN queue[Src(First(d))][d]
                                                ELSE Append(queue[Src(First(d))][d], sent[d] + 1)
          /\ \A m \in Links, e \in Dirs : m # Src(First(d)) \/ e # d => queue'[m][e] = queue[m][e]
        BY <1>0, <2>1, WrittenEffect DEF Sends
    <2> QED
        BY <1>1, <2>2, PlacesOf DEF In, Out, Under, Dirs, Links
<1>3. ~lost => Taken(d)
    BY DEF Taken
<1>4. Taken(d)' => Taken(d) /\ ~lost
    <2>1. d = "down" => ~Undialled
        BY DEF Sends, RelayInv, Exchange, Target
    <2> QED
        BY <1>1, <2>1 DEF Taken, Undialled
<1>5. /\ \A c \in Copies : Passes(c)' = Passes(c)
      /\ Held(First(d))' = Held(First(d)) /\ Held(Last(d))' = Held(Last(d))
    BY <1>1 DEF Passes, Undialled, Held
<1>6. FlowOut(d)' /\ OutTo(d)' = OutTo(d) /\ UnderTo(d)' = UnderTo(d)
    BY <1>0, <1>1, <1>2, <1>5, FlowTypes DEF Flow, FlowOut, OutTo, UnderTo
<1>7. ASSUME FlowUnder(d) PROVE FlowUnder(d)'
    BY <1>0, <1>1, <1>2, <1>5, <1>6, <1>7, FlowTypes DEF FlowUnder
<1>8. ASSUME FlowIn(d) PROVE FlowIn(d)'
    <2>1. CASE lost
        <3>1. In(d)' = In(d) /\ InTo(d)' = InTo(d) /\ ~Taken(d)'
            BY <1>2, <1>4, <1>5, <1>6, <2>1 DEF InTo
        <3> QED
            BY <1>0, <1>1, <1>5, <1>6, <1>8, <3>1, FlowTypes DEF FlowIn
    <2>2. CASE ~lost
        <3>1. sent[d] = UnderTo(d) + Held(First(d)) + Len(In(d))
            BY <1>3, <1>8, <2>2 DEF FlowIn, InTo
        <3>2. In(d)' = Append(In(d), (UnderTo(d) + Held(First(d))) + Len(In(d)) + 1)
            BY <1>2, <2>2, <3>1
        <3>3. UnderTo(d) + Held(First(d)) \in Nat /\ In(d) \in Seq(Nat)
            BY <1>0, FlowTypes
        <3>4. Follows(In(d)', UnderTo(d) + Held(First(d)))
            BY <1>8, <3>2, <3>3, FollowsAppend DEF FlowIn
        <3>5. InTo(d)' = sent'[d]
            BY <1>0, <1>1, <1>5, <1>6, <3>1, <3>2, <3>3, FlowTypes DEF InTo
        <3> QED
            BY <1>0, <1>1, <1>5, <1>6, <1>8, <3>4, <3>5, FlowTypes DEF FlowIn
    <2> QED
        BY <2>1, <2>2
<1> QED
    BY <1>0, <1>5, <1>6, <1>7, <1>8, PlacesOf DEF Flow

\* The receiver takes the chunk at the head.
LEMMA FlowReceive ==
    ASSUME RelayInv, NEW d \in Dirs, Receives(IF d = "up" THEN Target ELSE App, d)
    PROVE  Flow(d)'
<1>0. RelayTypeOK /\ Flow(d)
    BY DEF RelayInv
<1>1. /\ sent' = sent /\ hand' = hand /\ ended' = ended
      /\ socket' = socket /\ client' = client /\ proxy' = proxy
    BY DEF Receives
<1>2. /\ Out(d) # << >> /\ Out(d)' = Tail(Out(d)) /\ got'[d] = Append(got[d], Head(Out(d)))
      /\ In(d)' = In(d) /\ Under(d)' = Under(d)
    <2>1. (IF d = "up" THEN Target ELSE App)[1] = Dst(Last(d)) /\ Dst(Last(d)) \in Links
        BY PlacesOf DEF App, Target, Dirs
    <2>2. /\ queue[Dst(Last(d))][d] # << >>
          /\ got'[d] = Append(got[d], Head(queue[Dst(Last(d))][d]))
          /\ queue' = [queue EXCEPT ![Dst(Last(d))][d] = Tail(@)]
        BY <1>0, <2>1 DEF Receives, CanRead, RelayTypeOK
    <2>3. /\ queue'[Dst(Last(d))][d] = Tail(queue[Dst(Last(d))][d])
          /\ \A m \in Links, e \in Dirs : m # Dst(Last(d)) \/ e # d => queue'[m][e] = queue[m][e]
        BY <1>0, <2>1, <2>2, ReadEffect
    <2> QED
        BY <1>1, <2>2, <2>3, PlacesOf DEF In, Out, Under, Dirs, Links
<1>3. /\ \A c \in Copies : Passes(c)' = Passes(c)
      /\ Held(First(d))' = Held(First(d)) /\ Held(Last(d))' = Held(Last(d))
      /\ Taken(d)' = Taken(d)
    BY <1>1 DEF Passes, Undialled, Held, Taken
<1>4. FlowOut(d)' /\ OutTo(d)' = OutTo(d)
    <2>1. /\ Head(Out(d)) = Len(got[d]) + 1 /\ Follows(Tail(Out(d)), Len(got[d]) + 1)
          /\ Len(Tail(Out(d))) = Len(Out(d)) - 1 /\ Len(got[d]) \in Nat /\ Len(Out(d)) \in Nat
        BY <1>0, <1>2, FollowsTail, FlowTypes, LenProperties DEF Flow, FlowOut
    <2>2. got[d] \in Seq(Nat) /\ Follows(got[d], 0)
        BY <1>0, FlowTypes DEF Flow, FlowOut
    <2>3. Follows(got'[d], 0) /\ Len(got'[d]) = Len(got[d]) + 1
        BY <1>2, <2>1, <2>2, FollowsAppend
    <2> QED
        BY <1>0, <1>1, <1>2, <2>1, <2>3 DEF Flow, FlowOut, OutTo
<1>5. UnderTo(d)' = UnderTo(d)
    BY <1>2, <1>3, <1>4 DEF UnderTo
<1>6. ASSUME FlowUnder(d) PROVE FlowUnder(d)'
    BY <1>1, <1>2, <1>3, <1>4, <1>5, <1>6 DEF FlowUnder
<1>7. ASSUME FlowIn(d) PROVE FlowIn(d)'
    BY <1>1, <1>2, <1>3, <1>5, <1>7 DEF FlowIn, InTo
<1> QED
    BY <1>0, <1>3, <1>4, <1>6, <1>7, PlacesOf DEF Flow

\* The copy next to the receiver takes a chunk off the tunnel.
LEMMA FlowReadLast ==
    ASSUME RelayInv, NEW d \in Dirs, CopyReads(Last(d))
    PROVE  Flow(d)'
<1>0. RelayTypeOK /\ Flow(d) /\ hand[Last(d)] = 0
    BY DEF RelayInv, CopyReads
<1>1. /\ sent' = sent /\ got' = got /\ ended' = ended
      /\ socket' = socket /\ client' = client /\ proxy' = proxy
    BY DEF CopyReads
<1>2. Under(d) = queue["tunnel"][d] /\ Under(d)' = queue'["tunnel"][d]
    BY <1>1 DEF CopyReads, Running, Started, Last, Under, Dirs
<1>3. /\ Under(d) # << >> /\ Under(d)' = Tail(Under(d))
      /\ In(d)' = In(d) /\ Out(d)' = Out(d)
      /\ hand'[Last(d)] = Head(Under(d)) /\ hand'[First(d)] = hand[First(d)]
    <2>1. /\ queue["tunnel"][d] # << >> /\ "tunnel" \in Links
          /\ queue' = [queue EXCEPT !["tunnel"][d] = Tail(@)]
          /\ hand' = [hand EXCEPT ![Last(d)] = Head(queue["tunnel"][d])]
        BY PlacesOf DEF CopyReads, CanRead, Links
    <2>2. /\ queue'["tunnel"][d] = Tail(queue["tunnel"][d])
          /\ \A m \in Links, e \in Dirs : m # "tunnel" \/ e # d => queue'[m][e] = queue[m][e]
        BY <1>0, <2>1, ReadEffect
    <2> QED
        BY <1>0, <1>2, <2>1, <2>2, PlacesOf DEF In, Out, Dirs, Links, RelayTypeOK
<1>4. /\ \A c \in Copies : Passes(c)' = Passes(c)
      /\ Held(First(d))' = Held(First(d)) /\ Held(Last(d)) = 0
      /\ Taken(d)' = Taken(d)
    BY <1>0, <1>1, <1>3 DEF Passes, Undialled, Held, Taken
<1>5. FlowOut(d)' /\ OutTo(d)' = OutTo(d)
    BY <1>0, <1>1, <1>3 DEF Flow, FlowOut, OutTo
<1>6. ASSUME FlowUnder(d) PROVE FlowUnder(d)' /\ UnderTo(d)' = UnderTo(d)
    <2>1. /\ Head(Under(d)) = OutTo(d) + 1 /\ Follows(Tail(Under(d)), OutTo(d) + 1)
          /\ Len(Tail(Under(d))) = Len(Under(d)) - 1 /\ Len(Under(d)) \in Nat /\ OutTo(d) \in Nat
        BY <1>0, <1>3, <1>4, <1>6, FollowsTail, FlowTypes, LenProperties DEF FlowUnder
    <2>2. Held(Last(d))' = 1
        BY <1>3, <2>1 DEF Held
    <2>3. UnderTo(d)' = UnderTo(d)
        BY <1>3, <1>4, <1>5, <2>1, <2>2 DEF UnderTo
    <2> QED
        BY <1>1, <1>3, <1>5, <1>6, <2>1, <2>2, <2>3 DEF FlowUnder
<1>7. ASSUME FlowIn(d), FlowUnder(d) PROVE FlowIn(d)'
    BY <1>1, <1>3, <1>4, <1>6, <1>7 DEF FlowIn, InTo
<1> QED
    BY <1>0, <1>4, <1>5, <1>6, <1>7, PlacesOf DEF Flow

\* It writes the chunk to the receiver, or loses it to an end that has closed.
LEMMA FlowWriteLast ==
    ASSUME RelayInv, NEW d \in Dirs, CopyWrites(Last(d))
    PROVE  Flow(d)'
<1> DEFINE lost == socket[Reader(Dst(Last(d)), d)] = "closed"
<1>0. RelayTypeOK /\ Flow(d) /\ hand[Last(d)] # 0 /\ hand[Last(d)] \in Nat
    BY PlacesOf DEF RelayInv, CopyWrites, RelayTypeOK
<1>1. /\ sent' = sent /\ got' = got /\ ended' = ended
      /\ socket' = socket /\ client' = client /\ proxy' = proxy
    BY DEF CopyWrites
<1>2. /\ Out(d)' = IF lost THEN Out(d) ELSE Append(Out(d), hand[Last(d)])
      /\ In(d)' = In(d) /\ Under(d)' = Under(d)
      /\ hand'[Last(d)] = 0 /\ hand'[First(d)] = hand[First(d)]
    <2>1. /\ queue' = Written(queue, Dst(Last(d)), d, hand[Last(d)])
          /\ hand' = [hand EXCEPT ![Last(d)] = 0] /\ Dst(Last(d)) \in Links
        BY PlacesOf DEF CopyWrites
    <2>2. /\ queue'[Dst(Last(d))][d] = IF lost THEN queue[Dst(Last(d))][d]
                                               ELSE Append(queue[Dst(Last(d))][d], hand[Last(d)])
          /\ \A m \in Links, e \in Dirs : m # Dst(Last(d)) \/ e # d => queue'[m][e] = queue[m][e]
        BY <1>0, <2>1, WrittenEffect
    <2> QED
        BY <1>0, <1>1, <2>1, <2>2, PlacesOf DEF In, Out, Under, Dirs, Links, RelayTypeOK
<1>3. /\ \A c \in Copies : Passes(c)' = Passes(c)
      /\ Held(First(d))' = Held(First(d)) /\ Held(Last(d)) = 1 /\ Held(Last(d))' = 0
      /\ Taken(d)' = Taken(d)
    BY <1>0, <1>1, <1>2 DEF Passes, Undialled, Held, Taken
<1>4. Passes(Last(d)) <=> ~lost
    BY PlacesOf DEF CopyWrites, Running, Started, Passes, Undialled, Last, Dirs
<1>5. CASE lost
    <2>1. FlowOut(d)'
        BY <1>0, <1>1, <1>2, <1>5 DEF Flow, FlowOut, OutTo
    <2> QED
        BY <1>3, <1>4, <1>5, <2>1, PlacesOf DEF Flow
<1>6. CASE ~lost
    <2>1. hand[Last(d)] = OutTo(d) + 1 /\ Follows(Under(d), OutTo(d) + 1) /\ UnderTo(d) <= sent[d]
        BY <1>0, <1>3, <1>4, <1>6 DEF Flow, FlowUnder
    <2>2. /\ Out(d) \in Seq(Nat) /\ Len(got[d]) \in Nat /\ Len(Out(d)) \in Nat
          /\ Len(Under(d)) \in Nat /\ sent[d] \in Nat /\ OutTo(d) = Len(got[d]) + Len(Out(d))
        BY <1>0, FlowTypes, LenProperties DEF OutTo
    <2>3. Follows(Out(d)', Len(got[d])) /\ Len(Out(d)') = Len(Out(d)) + 1
        BY <1>0, <1>2, <1>6, <2>1, <2>2, FollowsAppend DEF Flow, FlowOut
    <2>4. OutTo(d)' = OutTo(d) + 1
        <3>1. PICK n \in Nat : n = Len(got[d])
            BY <2>2
        <3>2. OutTo(d) = n + Len(Out(d)) /\ OutTo(d)' = n + Len(Out(d)')
            BY <1>1, <3>1 DEF OutTo
        <3>3. Len(Out(d)') = Len(Out(d)) + 1 /\ Len(Out(d)) \in Nat
            BY <2>2, <2>3
        <3> QED
            BY <3>2, <3>3
    <2>5. UnderTo(d)' = UnderTo(d) /\ OutTo(d)' <= UnderTo(d)
        BY <1>2, <1>3, <2>2, <2>4 DEF UnderTo
    <2>6. FlowOut(d)'
        BY <1>0, <1>1, <2>1, <2>2, <2>3, <2>4, <2>5, FlowTypes DEF Flow, FlowOut
    <2>7. FlowUnder(d)'
        BY <1>1, <1>2, <1>3, <2>1, <2>2, <2>4, <2>5 DEF FlowUnder
    <2>8. ASSUME FlowIn(d) PROVE FlowIn(d)'
        BY <1>1, <1>2, <1>3, <2>5, <2>8 DEF FlowIn, InTo
    <2> QED
        BY <1>0, <1>3, <2>6, <2>7, <2>8, PlacesOf DEF Flow
<1> QED
    BY <1>5, <1>6

\* The copy next to the sender takes a chunk.
LEMMA FlowReadFirst ==
    ASSUME RelayInv, NEW d \in Dirs, CopyReads(First(d))
    PROVE  Flow(d)'
<1>0. RelayTypeOK /\ Flow(d) /\ hand[First(d)] = 0
    BY DEF RelayInv, CopyReads
<1>1. /\ sent' = sent /\ got' = got /\ ended' = ended
      /\ socket' = socket /\ client' = client /\ proxy' = proxy
    BY DEF CopyReads
<1>2. /\ In(d) # << >> /\ In(d)' = Tail(In(d))
      /\ Under(d)' = Under(d) /\ Out(d)' = Out(d)
      /\ hand'[First(d)] = Head(In(d)) /\ hand'[Last(d)] = hand[Last(d)]
    <2>1. /\ queue[Src(First(d))][d] # << >> /\ Src(First(d)) \in Links
          /\ queue' = [queue EXCEPT ![Src(First(d))][d] = Tail(@)]
          /\ hand' = [hand EXCEPT ![First(d)] = Head(queue[Src(First(d))][d])]
        BY PlacesOf DEF CopyReads, CanRead
    <2>2. /\ queue'[Src(First(d))][d] = Tail(queue[Src(First(d))][d])
          /\ \A m \in Links, e \in Dirs : m # Src(First(d)) \/ e # d => queue'[m][e] = queue[m][e]
        BY <1>0, <2>1, ReadEffect
    <2> QED
        BY <1>0, <1>1, <2>1, <2>2, PlacesOf DEF In, Out, Under, Dirs, Links, RelayTypeOK
<1>3. /\ \A c \in Copies : Passes(c)' = Passes(c)
      /\ Held(Last(d))' = Held(Last(d)) /\ Held(First(d)) = 0
      /\ Taken(d)' = Taken(d)
    BY <1>0, <1>1, <1>2 DEF Passes, Undialled, Held, Taken
<1>4. FlowOut(d)' /\ UnderTo(d)' = UnderTo(d) /\ OutTo(d)' = OutTo(d)
    BY <1>0, <1>1, <1>2, <1>3 DEF Flow, FlowOut, OutTo, UnderTo
<1>5. ASSUME FlowUnder(d) PROVE FlowUnder(d)'
    BY <1>1, <1>2, <1>3, <1>4, <1>5 DEF FlowUnder
<1>6. ASSUME FlowIn(d) PROVE FlowIn(d)'
    <2>1. /\ Head(In(d)) = UnderTo(d) + 1 /\ Follows(Tail(In(d)), UnderTo(d) + 1)
          /\ Len(Tail(In(d))) = Len(In(d)) - 1 /\ Len(In(d)) \in Nat /\ UnderTo(d) \in Nat
        BY <1>0, <1>2, <1>3, <1>6, FollowsTail, FlowTypes, LenProperties DEF FlowIn
    <2>2. Held(First(d))' = 1
        BY <1>2, <2>1 DEF Held
    <2>3. InTo(d)' = InTo(d)
        BY <1>2, <1>3, <1>4, <2>1, <2>2 DEF InTo
    <2> QED
        BY <1>1, <1>2, <1>3, <1>4, <1>6, <2>1, <2>2, <2>3 DEF FlowIn
<1> QED
    BY <1>0, <1>3, <1>4, <1>5, <1>6, PlacesOf DEF Flow

\* It writes the chunk to the tunnel, behind what is still there of the exchange.
LEMMA FlowWriteFirst ==
    ASSUME RelayInv, NEW d \in Dirs, CopyWrites(First(d))
    PROVE  Flow(d)'
<1> DEFINE lost == socket[Reader("tunnel", d)] = "closed"
<1>0. RelayTypeOK /\ Exchange /\ Flow(d) /\ hand[First(d)] # 0 /\ hand[First(d)] \in Nat
    BY PlacesOf DEF RelayInv, CopyWrites, RelayTypeOK
<1>1. /\ sent' = sent /\ got' = got /\ ended' = ended
      /\ socket' = socket /\ client' = client /\ proxy' = proxy
    BY DEF CopyWrites
<1>2. /\ Under(d)' = IF lost THEN Under(d) ELSE Append(Under(d), hand[First(d)])
      /\ In(d)' = In(d) /\ Out(d)' = Out(d)
      /\ hand'[First(d)] = 0 /\ hand'[Last(d)] = hand[Last(d)]
    <2>1. /\ queue' = Written(queue, "tunnel", d, hand[First(d)]) /\ "tunnel" \in Links
          /\ hand' = [hand EXCEPT ![First(d)] = 0]
        BY PlacesOf DEF CopyWrites, Links
    <2>2. /\ queue'["tunnel"][d] = IF lost THEN queue["tunnel"][d]
                                           ELSE Append(queue["tunnel"][d], hand[First(d)])
          /\ \A m \in Links, e \in Dirs : m # "tunnel" \/ e # d => queue'[m][e] = queue[m][e]
        BY <1>0, <2>1, WrittenEffect
    <2>3. queue["tunnel"][d] \in Seq(Nat)
        BY <2>1 DEF RelayTypeOK, RelayInv
    <2>4. ASSUME d = "up" PROVE Under(d)' = IF lost THEN Under(d) ELSE Append(Under(d), hand[First(d)])
        <3>1. proxy # "request"
            BY <2>4, <1>0 DEF CopyWrites, Running, Started, First, Exchange
        <3>2. Under(d) = queue["tunnel"][d] /\ Under(d)' = queue'["tunnel"][d]
            BY <1>1, <2>4, <3>1 DEF Under
        <3> QED
            BY <2>2, <3>2
    <2>5. ASSUME d = "down" PROVE Under(d)' = IF lost THEN Under(d) ELSE Append(Under(d), hand[First(d)])
        <3>1. client \in {"asking", "waiting"} => queue["tunnel"]["down"] # << >>
            BY <2>5, <1>0 DEF CopyWrites, Running, Started, First, Exchange
        <3>2. queue["tunnel"]["down"] # << >> =>
                  /\ Append(queue["tunnel"]["down"], hand[First(d)]) # << >>
                  /\ Tail(Append(queue["tunnel"]["down"], hand[First(d)]))
                        = Append(Tail(queue["tunnel"]["down"]), hand[First(d)])
            <4>1. queue["tunnel"]["down"] \in Seq(Nat) /\ hand[First(d)] \in Nat
                BY <1>0, <2>3, <2>5
            <4> QED
                BY <4>1, TailOfAppend
        <3>3. CASE client \in {"asking", "waiting"}
            BY <1>1, <2>2, <2>5, <3>1, <3>2, <3>3 DEF Under
        <3>4. CASE client \notin {"asking", "waiting"}
            <4>1. Under(d) = queue["tunnel"][d] /\ Under(d)' = queue'["tunnel"][d]
                BY <1>1, <2>5, <3>4 DEF Under
            <4> QED
                BY <2>2, <4>1
        <3> QED
            BY <3>3, <3>4
    <2>6. In(d)' = In(d) /\ Out(d)' = Out(d)
        BY <2>2, PlacesOf DEF In, Out, Dirs, Links
    <2>7. hand'[First(d)] = 0 /\ hand'[Last(d)] = hand[Last(d)]
        BY <1>0, <2>1, PlacesOf DEF RelayTypeOK
    <2> QED
        BY <2>4, <2>5, <2>6, <2>7 DEF Dirs
<1>3. /\ \A c \in Copies : Passes(c)' = Passes(c)
      /\ Held(Last(d))' = Held(Last(d)) /\ Held(First(d)) = 1 /\ Held(First(d))' = 0
      /\ Taken(d)' = Taken(d)
    BY <1>0, <1>1, <1>2 DEF Passes, Undialled, Held, Taken
<1>4. Passes(First(d)) <=> ~lost
    BY PlacesOf DEF CopyWrites, Running, Started, Passes, First, Dirs
<1>5. FlowOut(d)' /\ OutTo(d)' = OutTo(d)
    BY <1>0, <1>1, <1>2 DEF Flow, FlowOut, OutTo
<1>6. CASE lost
    <2>1. ASSUME FlowUnder(d) PROVE FlowUnder(d)'
        BY <1>1, <1>2, <1>3, <1>5, <1>6, <2>1 DEF FlowUnder, UnderTo
    <2> QED
        BY <1>0, <1>3, <1>4, <1>5, <1>6, <2>1, PlacesOf DEF Flow
<1>7. CASE ~lost
    <2>1. ASSUME FlowUnder(d), FlowIn(d) PROVE FlowUnder(d)' /\ FlowIn(d)'
        <3>1. hand[First(d)] = UnderTo(d) + 1 /\ Follows(In(d), UnderTo(d) + 1) /\ InTo(d) <= sent[d]
            BY <1>0, <1>3, <2>1 DEF FlowIn
        <3>2. /\ Under(d) \in Seq(Nat) /\ Len(Under(d)) \in Nat /\ Len(In(d)) \in Nat
              /\ OutTo(d) \in Nat /\ Held(Last(d)) \in {0, 1} /\ sent[d] \in Nat
              /\ UnderTo(d) = OutTo(d) + Held(Last(d)) + Len(Under(d))
            BY <1>0, FlowTypes, LenProperties DEF UnderTo
        <3>3. /\ Follows(Under(d)', OutTo(d) + Held(Last(d)))
              /\ Len(Under(d)') = Len(Under(d)) + 1
            BY <1>2, <1>7, <2>1, <3>1, <3>2, FollowsAppend DEF FlowUnder
        <3>4. UnderTo(d)' = UnderTo(d) + 1
            BY <1>3, <1>5, <3>2, <3>3 DEF UnderTo
        <3>5. InTo(d)' = InTo(d) /\ UnderTo(d)' <= InTo(d)
            BY <1>2, <1>3, <3>2, <3>4 DEF InTo
        <3>6. FlowUnder(d)'
            BY <1>1, <1>2, <1>3, <1>5, <2>1, <3>1, <3>2, <3>3, <3>4, <3>5 DEF FlowUnder, InTo
        <3>7. FlowIn(d)'
            BY <1>1, <1>2, <1>3, <2>1, <3>1, <3>2, <3>4, <3>5 DEF FlowIn
        <3> QED
            BY <3>6, <3>7
    <2> QED
        BY <1>0, <1>3, <1>4, <1>5, <1>7, <2>1, PlacesOf DEF Flow
<1> QED
    BY <1>6, <1>7

-----------------------------------------------------------------------------
\* A copy that moves a chunk of one direction leaves the other alone.
LEMMA FlowOther ==
    ASSUME RelayInv, RelayNext, NEW c \in Copies, CopyReads(c) \/ CopyWrites(c),
           NEW d \in Dirs, d # Dir(c)
    PROVE  Flow(d)'
<1>0. RelayTypeOK /\ Flow(d) /\ Onward
    BY RelayTypesStep DEF RelayInv
<1>1. sent' = sent /\ got' = got /\ client' = client /\ proxy' = proxy
    BY DEF CopyReads, CopyWrites
<1>2. hand'[First(d)] = hand[First(d)] /\ hand'[Last(d)] = hand[Last(d)]
    BY <1>0, PlacesOf DEF CopyReads, CopyWrites, RelayTypeOK
<1>3. \A m \in Links : queue'[m][d] = queue[m][d]
    <2>1. Src(c) \in Links /\ Dst(c) \in Links /\ Dir(c) \in Dirs /\ hand[c] \in Nat
        BY <1>0, PlacesOf DEF RelayTypeOK
    <2>2. CASE CopyReads(c)
        BY <1>0, <2>1, <2>2, ReadEffect DEF CopyReads, CanRead
    <2>3. CASE CopyWrites(c)
        BY <1>0, <2>1, <2>3, WrittenEffect DEF CopyWrites
    <2> QED
        BY <2>2, <2>3
<1>4. In(d)' = In(d) /\ Out(d)' = Out(d) /\ Under(d)' = Under(d)
    BY <1>1, <1>3, PlacesOf DEF In, Out, Under, Dirs, Links
<1> QED
    BY <1>0, <1>1, <1>2, <1>4, FlowKept, PassesKept, PlacesOf

\* Every step keeps both directions whole.
LEMMA FlowStep ==
    ASSUME RelayInv, RelayNext, NEW d \in Dirs
    PROVE  Flow(d)'
<1>0. RelayTypeOK /\ Exchange /\ Flow(d) /\ Onward
    BY RelayTypesStep DEF RelayInv
<1>a. /\ \A c \in Copies : Passes(c)' => Passes(c)
      /\ Taken(d)' => Taken(d)
    BY <1>0, PassesKept
<1>b. First(d) \in Copies /\ Last(d) \in Copies
    BY PlacesOf
<1>c. ASSUME UNCHANGED <<queue, hand, client, sent, got>>,
             proxy' = proxy \/ proxy' = "returned" \/ (proxy # "request" /\ proxy' # "request")
      PROVE  Flow(d)'
    <2>1. In(d)' = In(d) /\ Out(d)' = Out(d)
        BY <1>c DEF In, Out
    <2>2. Passes(Last(d))' => Under(d)' = Under(d)
        BY <1>c, <1>0 DEF Under, Passes, Last, Dirs
    <2> QED
        BY <1>c, <1>0, <1>a, <1>b, <2>1, <2>2, FlowKept
<1>d. ASSUME UNCHANGED <<queue, sent, got>>, client' = "over", proxy' = proxy,
             \A c \in {"gateway_up", "gateway_down"} : hand'[c] = hand[c]
      PROVE  Flow(d)'
    <2>1. In(d)' = In(d) /\ Out(d)' = Out(d)
        BY <1>d DEF In, Out
    <2>2. /\ Passes(Last(d))' => Under(d)' = Under(d) /\ hand'[Last(d)] = hand[Last(d)]
          /\ Passes(First(d))' => hand'[First(d)] = hand[First(d)]
        BY <1>d DEF Under, Passes, First, Last, Dirs
    <2> QED
        BY <1>d, <1>0, <1>a, <1>b, <2>1, <2>2, FlowKept
<1>1. CASE ClientAsks
    <2>1. /\ sent' = sent /\ got' = got /\ hand' = hand /\ proxy' = proxy
          /\ client = "asking" /\ client' = "waiting"
        BY <1>1 DEF ClientAsks
    <2>2. \A m \in Links, e \in Dirs : m # "tunnel" \/ e # "up" => queue'[m][e] = queue[m][e]
        <3>1. "tunnel" \in Links /\ "up" \in Dirs /\ Request \in Nat
            BY RelayConstants DEF Links, Dirs, Request
        <3>2. queue' = Written(queue, "tunnel", "up", Request)
            BY <1>1 DEF ClientAsks
        <3> QED
            BY <1>0, <3>1, <3>2, WrittenEffect
    <2>3. In(d)' = In(d) /\ Out(d)' = Out(d)
        BY <2>2, PlacesOf DEF In, Out, Dirs, Links
    <2>4. Passes(Last(d))' => Under(d)' = Under(d)
        BY <1>0, <2>1, <2>2 DEF Under, Passes, Last, Dirs, Links, Exchange
    <2> QED
        BY <1>0, <1>a, <1>b, <2>1, <2>3, <2>4, FlowKept
<1>2. CASE ClientAllowed
    <2>1. /\ sent' = sent /\ got' = got /\ hand' = hand /\ proxy' = proxy
          /\ client = "waiting" /\ client' = "relaying"
          /\ "tunnel" \in Links /\ "down" \in Dirs /\ queue["tunnel"]["down"] # << >>
        BY <1>2 DEF ClientAllowed, CanRead, Links, Dirs
    <2>2. /\ queue'["tunnel"]["down"] = Tail(queue["tunnel"]["down"])
          /\ \A m \in Links, e \in Dirs : m # "tunnel" \/ e # "down" => queue'[m][e] = queue[m][e]
        <3>1. queue' = [queue EXCEPT !["tunnel"]["down"] = Tail(@)]
            BY <1>2 DEF ClientAllowed
        <3>2. queue \in [Links -> [Dirs -> Seq(Nat)]]
            BY <1>0 DEF RelayTypeOK
        <3> QED
            BY <2>1, <3>1, <3>2
    <2>3. In(d)' = In(d) /\ Out(d)' = Out(d)
        BY <2>2, PlacesOf DEF In, Out, Dirs, Links
    <2>4. Under(d)' = Under(d)
        BY <2>1, <2>2 DEF Under, Dirs, Links
    <2> QED
        BY <1>0, <1>a, <1>b, <2>1, <2>3, <2>4, FlowKept
<1>3. CASE ClientRefused
    BY <1>3, <1>d DEF ClientRefused
<1>4. CASE GatewayAnswers
    <2>1. /\ sent' = sent /\ got' = got /\ hand' = hand /\ client' = client /\ client # "relaying"
          /\ proxy = "request" /\ proxy' # "request"
        BY <1>4, <1>0 DEF GatewayAnswers, Exchange
    <2>2. PICK answer \in {Allow, Deny} :
             queue' = [queue EXCEPT !["tunnel"]["up"] = Tail(@),
                                    !["tunnel"]["down"] = Append(@, answer)]
        BY <1>4 DEF GatewayAnswers
    <2>3. /\ queue'["tunnel"]["up"] = Tail(queue["tunnel"]["up"])
          /\ queue'["tunnel"]["down"] = Append(<< >>, answer)
          /\ \A m \in Links, e \in Dirs : m # "tunnel" => queue'[m][e] = queue[m][e]
        BY <1>0, <2>1, <2>2 DEF RelayTypeOK, Links, Dirs, Exchange
    <2>4. queue'["tunnel"]["up"] = << >>
        <3>1. /\ queue["tunnel"]["up"] \in Seq(Nat) /\ queue["tunnel"]["up"] # << >>
              /\ Len(queue["tunnel"]["up"]) <= 1
            BY <1>0, <1>4 DEF GatewayAnswers, CanRead, Exchange, RelayTypeOK, Links, Dirs
        <3> QED
            BY <2>3, <3>1
    <2>5. In(d)' = In(d) /\ Out(d)' = Out(d)
        BY <2>3, PlacesOf DEF In, Out, Dirs, Links
    <2>6. answer \in Nat /\ Append(<< >>, answer) # << >> /\ Tail(Append(<< >>, answer)) = << >>
        BY RelayConstants, HeadTailAppend, AppendProperties, EmptySeq DEF Allow, Deny
    <2>7. queue["tunnel"]["down"] = << >>
        BY <1>0, <2>1 DEF Exchange
    <2>8. ASSUME Passes(Last(d))' PROVE Under(d)' = Under(d)
        <3>1. CASE d = "up"
            BY <2>1, <2>4, <3>1 DEF Under
        <3>2. CASE d = "down"
            <4>1. client \in {"asking", "waiting"}
                BY <1>0, <2>1, <2>8, <3>2 DEF RelayTypeOK, Passes, Last
            <4> QED
                BY <2>1, <2>3, <2>6, <2>7, <3>2, <4>1 DEF Under
        <3> QED
            BY <3>1, <3>2 DEF Dirs
    <2> QED
        BY <1>0, <1>a, <1>b, <2>1, <2>5, <2>8, FlowKept
<1>5. CASE Dialled
    BY <1>5, <1>c DEF Dialled
<1>6. CASE GatewayGivesUp
    BY <1>6, <1>c DEF GatewayGivesUp
<1>7. CASE GatewayCloses
    BY <1>7, <1>c DEF GatewayCloses
<1>8. CASE ProxyReturns
    BY <1>8, <1>c DEF ProxyReturns
<1>9. CASE ClientCloses
    BY <1>9, <1>d DEF ClientCloses
<1>10. CASE ClientExits
    BY <1>10, <1>0, <1>d DEF ClientExits, RelayTypeOK, Copies
<1>11. ASSUME NEW c \in Copies, CopyReads(c) PROVE Flow(d)'
    <2>1. CASE d = Dir(c)
        BY <1>11, <2>1, FlowReadFirst, FlowReadLast, PlacesOf
    <2>2. CASE d # Dir(c)
        BY <1>11, <2>2, FlowOther
    <2> QED
        BY <2>1, <2>2
<1>12. ASSUME NEW c \in Copies, CopyWrites(c) PROVE Flow(d)'
    <2>1. CASE d = Dir(c)
        BY <1>12, <2>1, FlowWriteFirst, FlowWriteLast, PlacesOf
    <2>2. CASE d # Dir(c)
        BY <1>12, <2>2, FlowOther
    <2> QED
        BY <2>1, <2>2
<1>13. ASSUME NEW c \in Copies, CopyEnds(c) PROVE Flow(d)'
    <2>1. /\ UNCHANGED <<queue, client, proxy, sent, got>> /\ c \in ended'
          /\ \A x \in Copies : x # c => hand'[x] = hand[x]
        BY <1>0, <1>13 DEF CopyEnds, RelayTypeOK
    <2>2. In(d)' = In(d) /\ Out(d)' = Out(d) /\ Under(d)' = Under(d)
        BY <2>1 DEF In, Out, Under
    <2>3. \A x \in Copies : Passes(x)' => hand'[x] = hand[x]
        BY <2>1 DEF Passes
    <2> QED
        BY <1>0, <1>a, <1>b, <2>1, <2>2, <2>3, FlowKept
<1>14. ASSUME NEW e \in {App, Target}, NEW s \in Dirs, NEW b \in Dirs,
              s # b, s = "up" <=> e = App, Sends(e, s) \/ Receives(e, b)
       PROVE  Flow(d)'
    <2>1. App # Target
        BY DEF App, Target
    <2>2. CASE Sends(e, s) /\ d = s
        BY <1>14, <2>1, <2>2, FlowSend DEF Dirs
    <2>3. CASE Receives(e, b) /\ d = b
        BY <1>14, <2>1, <2>3, FlowReceive DEF Dirs
    <2>4. ASSUME NEW m \in Dirs, Sends(e, m) \/ Receives(e, m), d # m PROVE Flow(d)'
        <3>1. e[1] \in Links /\ sent[m] + 1 \in Nat
            <4>1. e[1] \in Links
                BY DEF App, Target, Links
            <4>2. sent[m] + 1 \in Nat
                BY <1>0 DEF RelayTypeOK
            <4> QED
                BY <4>1, <4>2
        <3>2. /\ hand' = hand /\ client' = client /\ proxy' = proxy
              /\ sent'[d] = sent[d] /\ got'[d] = got[d]
            BY <1>0, <2>4 DEF Sends, Receives, RelayTypeOK
        <3>3. CASE Sends(e, m)
            <4>1. \A l \in Links : queue'[l][d] = queue[l][d]
                BY <1>0, <2>4, <3>1, <3>3, WrittenEffect DEF Sends
            <4>2. In(d)' = In(d) /\ Out(d)' = Out(d) /\ Under(d)' = Under(d)
                BY <3>2, <4>1, PlacesOf DEF In, Out, Under, Dirs, Links
            <4> QED
                BY <1>0, <1>a, <1>b, <3>2, <4>2, FlowKept
        <3>4. CASE Receives(e, m)
            <4>1. \A l \in Links : queue'[l][d] = queue[l][d]
                BY <1>0, <2>4, <3>1, <3>4, ReadEffect DEF Receives, CanRead
            <4>2. In(d)' = In(d) /\ Out(d)' = Out(d) /\ Under(d)' = Under(d)
                BY <3>2, <4>1, PlacesOf DEF In, Out, Under, Dirs, Links
            <4> QED
                BY <1>0, <1>a, <1>b, <3>2, <4>2, FlowKept
        <3> QED
            BY <2>4, <3>3, <3>4
    <2> QED
        BY <1>14, <2>2, <2>3, <2>4
<1>15. ASSUME NEW e \in {App, Target}, ShutsWriting(e) \/ Closes(e) PROVE Flow(d)'
    BY <1>15, <1>c DEF ShutsWriting, Closes
<1>16. "up" \in Dirs /\ "down" \in Dirs /\ App # Target
    BY DEF Dirs, App, Target
<1>17. CASE Peer(App, "up", "down")
    BY <1>14, <1>15, <1>16, <1>17 DEF Peer
<1>18. CASE Peer(Target, "down", "up")
    BY <1>14, <1>15, <1>16, <1>18 DEF Peer
<1>19. CASE Connect \/ Gateway \/ ClientCloses \/ ClientExits
    BY <1>1, <1>2, <1>3, <1>4, <1>5, <1>6, <1>7, <1>8, <1>9, <1>10, <1>19 DEF Connect, Gateway
<1>20. ASSUME NEW c \in Copies, Copy(c) PROVE Flow(d)'
    BY <1>11, <1>12, <1>13, <1>20 DEF Copy
<1> QED
    BY <1>17, <1>18, <1>19, <1>20 DEF RelayNext

\* Every step keeps the invariant.
LEMMA RelayInvStep == RelayInv /\ [RelayNext]_relayVars => RelayInv'
<1>1. ASSUME RelayInv, RelayNext PROVE RelayInv'
    BY <1>1, RelayTypesStep, ExchangeStep, FlowStep DEF RelayInv
<1>2. ASSUME RelayInv, UNCHANGED relayVars PROVE RelayInv'
    <2>1. RelayTypeOK' /\ Exchange'
        BY <1>2 DEF relayVars, RelayInv, RelayTypeOK, Exchange, Undialled
    <2>2. ASSUME NEW d \in Dirs PROVE Flow(d)'
        <3>1. Flow(d) /\ got' = got /\ sent' = sent /\ hand' = hand
            BY <1>2 DEF relayVars, RelayInv
        <3>2. In(d)' = In(d) /\ Out(d)' = Out(d) /\ Under(d)' = Under(d)
            BY <1>2 DEF relayVars, In, Out, Under
        <3>3. (Taken(d)' => Taken(d)) /\ \A c \in Copies : Passes(c)' => Passes(c)
            BY <1>2 DEF relayVars, Taken, Passes, Undialled
        <3> QED
            BY <3>1, <3>2, <3>3, FlowKept, PlacesOf
    <2> QED
        BY <2>1, <2>2 DEF RelayInv
<1> QED
    BY <1>1, <1>2

\* And so it holds of every behaviour.
LEMMA RelayInvHolds == RelaySpec => []RelayInv
<1> QED
    BY RelayInitInv, RelayInvStep, PTL DEF RelaySpec

\* However much is sent, however large the buffers and wherever the relay is cut, each
\* side has received the first chunks of what the other has sent, in their order
\* (access/service.go:70-96, proxy/tcp.go:78-150).
THEOREM ReceivedIsPrefixHolds == RelaySpec => []ReceivedIsPrefix
<1>1. RelayInv => ReceivedIsPrefix
    <2> SUFFICES ASSUME RelayInv, NEW d \in Dirs
                 PROVE  got[d] = [i \in 1..Len(got[d]) |-> i] /\ Len(got[d]) <= sent[d]
        BY DEF ReceivedIsPrefix
    <2>1. got[d] \in Seq(Nat) /\ Out(d) \in Seq(Nat) /\ sent[d] \in Nat
        BY FlowTypes DEF RelayInv
    <2>2. Follows(got[d], 0) /\ OutTo(d) <= sent[d]
        BY DEF RelayInv, Flow, FlowOut
    <2>3. Len(got[d]) \in Nat /\ Len(Out(d)) \in Nat /\ DOMAIN got[d] = 1..Len(got[d])
        BY <2>1, LenProperties
    <2>4. got[d] = [i \in 1..Len(got[d]) |-> i]
        <3>1. got[d] \in [1..Len(got[d]) -> Nat]
            BY <2>1, LenProperties
        <3>2. \A i \in 1..Len(got[d]) : got[d][i] = i
            BY <2>2, <2>3 DEF Follows
        <3> QED
            BY <3>1, <3>2
    <2>5. Len(got[d]) <= sent[d]
        BY <2>1, <2>2, <2>3 DEF OutTo
    <2> QED
        BY <2>4, <2>5
<1> QED
    BY <1>1, RelayInvHolds, PTL
=============================================================================
