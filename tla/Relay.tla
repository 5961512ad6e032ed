--------------------------------- MODULE Relay ---------------------------------
(***************************************************************************)
(* One session from end to end: the user's application, the client process *)
(* (usecase/access, infra/tunnel), the gateway (infra/proxy) and the target *)
(* are in a row, joined by the links local, tunnel and backend.  The       *)
(* CONNECT exchange comes first on the tunnel.  Then client and gateway run *)
(* an io.Copy per direction: the client waits for both of its copies before *)
(* it closes anything, the gateway closes everything at the first's end.   *)
(***************************************************************************)
EXTENDS Naturals, Sequences, FiniteSets

CONSTANTS
    Chunks,    \* bound: chunks each side sends
    Buffer     \* chunks a link holds per direction before its writer blocks

ASSUME RelayConstants == Chunks \in Nat /\ Buffer \in Nat \ {0}

Dirs == {"up", "down"}
Links == {"local", "tunnel", "backend"}
Copies == {"client_up", "client_down", "gateway_up", "gateway_down"}

VARIABLES
    queue,    \* per link and direction, the chunks under way
    socket,   \* each end of each link: open, half (its writing side is shut) or closed
    reset,    \* the links that were reset
    hand,     \* the chunk a copy has read and not yet written, 0 for none
    ended,    \* the copies that have returned
    client,   \* the client: asking, waiting for the answer, relaying, over
    proxy,    \* the gateway: at the request, dialing, running, closing, returned
    exited,   \* whether the client process was ended
    sent,     \* chunks each side has sent
    got       \* chunks each side has received

relayVars == <<queue, socket, reset, hand, ended, client, proxy, exited, sent, got>>

\* The end that writes to a link in a direction, and the one that reads from it.
Writer(l, d) == <<l, IF d = "up" THEN "near" ELSE "far">>
Reader(l, d) == <<l, IF d = "up" THEN "far" ELSE "near">>
Ends == Links \X {"near", "far"}

\* The messages of the CONNECT exchange, on the tunnel with the chunks.
Request == Chunks + 1
Allow == Chunks + 2
Deny == Chunks + 3

App == <<"local", "near">>
Target == <<"backend", "far">>
ClientEnds == {<<"local", "far">>, <<"tunnel", "near">>}
GatewayEnds == {<<"tunnel", "far">>, <<"backend", "near">>}

Dir(c) == IF c \in {"client_up", "gateway_up"} THEN "up" ELSE "down"

\* io.Copy(dst, src)
Src(c) == CASE c = "client_up" -> "local" [] c = "gateway_down" -> "backend" [] OTHER -> "tunnel"
Dst(c) == CASE c = "client_down" -> "local" [] c = "gateway_up" -> "backend" [] OTHER -> "tunnel"

RelayInit ==
    /\ queue = [l \in Links |-> [d \in Dirs |-> << >>]]
    /\ socket = [e \in Ends |-> IF e[1] = "backend" THEN "closed" ELSE "open"]
    /\ reset = {}
    /\ hand = [c \in Copies |-> 0] /\ ended = {}
    /\ client = "asking" /\ proxy = "request" /\ exited = FALSE
    /\ sent = [d \in Dirs |-> 0] /\ got = [d \in Dirs |-> << >>]

-----------------------------------------------------------------------------
(***************************************************************************)
(* Sockets                                                                 *)
(***************************************************************************)
CanRead(l, d) == socket[Reader(l, d)] # "closed" /\ queue[l][d] # << >>

AtEOF(l, d) == queue[l][d] = << >> /\ socket[Writer(l, d)] # "open"

ReadFails(l, d) == l \in reset \/ socket[Reader(l, d)] = "closed"

CanWrite(l, d) ==
    /\ socket[Writer(l, d)] = "open" /\ l \notin reset
    /\ Len(queue[l][d]) < Buffer

WriteFails(l, d) == l \in reset \/ socket[Writer(l, d)] # "open"

\* The queues and resets after x was written: a peer that has closed resets the link.
Written(q, l, d, x) ==
    IF socket[Reader(l, d)] = "closed" THEN q ELSE [q EXCEPT ![l][d] = Append(@, x)]
ResetBy(l, d) == IF socket[Reader(l, d)] = "closed" THEN {l} ELSE {}

\* Closing an end with unread chunks resets its link.
Unread(e) == \E d \in Dirs : Reader(e[1], d) = e /\ queue[e[1]][d] # << >>
Closed(ends) ==
    /\ socket' = [e \in Ends |-> IF e \in ends THEN "closed" ELSE socket[e]]
    /\ reset' = reset \cup {e[1] : e \in {x \in ends : socket[x] # "closed" /\ Unread(x)}}

-----------------------------------------------------------------------------
(***************************************************************************)
(* The CONNECT exchange                                                    *)
(***************************************************************************)
ClientAsks ==
    /\ client = "asking"
    /\ CanWrite("tunnel", "up")
    /\ queue' = Written(queue, "tunnel", "up", Request)
    /\ client' = "waiting"
    /\ UNCHANGED <<socket, reset, hand, ended, proxy, exited, sent, got>>

\* ReadMessage reads the answer and nothing after it.
ClientAllowed ==
    /\ client = "waiting" /\ CanRead("tunnel", "down") /\ Head(queue["tunnel"]["down"]) = Allow
    /\ queue' = [queue EXCEPT !["tunnel"]["down"] = Tail(@)]
    /\ client' = "relaying"
    /\ UNCHANGED <<socket, reset, hand, ended, proxy, exited, sent, got>>

\* Denied, or the tunnel cannot be dialled, written or read: both connections close.
ClientRefused ==
    /\ \/ client = "asking"
       \/ /\ client = "waiting"
          /\ \/ CanRead("tunnel", "down") /\ Head(queue["tunnel"]["down"]) = Deny
             \/ AtEOF("tunnel", "down") \/ ReadFails("tunnel", "down")
    /\ Closed(ClientEnds) /\ client' = "over"
    /\ UNCHANGED <<queue, hand, ended, proxy, exited, sent, got>>

\* The handler reads the request and answers it; a denial closes the tunnel.
GatewayAnswers ==
    /\ proxy = "request" /\ CanRead("tunnel", "up") /\ CanWrite("tunnel", "down")
    /\ \E answer \in {Allow, Deny} :
          /\ queue' = [queue EXCEPT !["tunnel"]["up"] = Tail(@),
                                    !["tunnel"]["down"] = Append(@, answer)]
          /\ IF answer = Allow
             THEN proxy' = "dialing" /\ UNCHANGED <<socket, reset>>
             ELSE proxy' = "returned" /\ Closed(GatewayEnds)
    /\ UNCHANGED <<hand, ended, client, exited, sent, got>>

Dialled ==
    /\ proxy = "dialing"
    /\ proxy' = "running"
    /\ socket' = [e \in Ends |-> IF e[1] = "backend" THEN "open" ELSE socket[e]]
    /\ UNCHANGED <<queue, reset, hand, ended, client, exited, sent, got>>

\* The request cannot be read, or the target not be reached.
GatewayGivesUp ==
    /\ \/ proxy = "dialing"
       \/ proxy = "request" /\ (AtEOF("tunnel", "up") \/ ReadFails("tunnel", "up"))
    /\ proxy' = "returned"
    /\ Closed(GatewayEnds)
    /\ UNCHANGED <<queue, hand, ended, client, exited, sent, got>>

-----------------------------------------------------------------------------
(***************************************************************************)
(* The four copies                                                         *)
(***************************************************************************)
\* Mutant: the client does not wait for the gateway's answer.
Started_BeforeAnswer(c) ==
    IF c \in {"client_up", "client_down"} THEN client \in {"waiting", "relaying"}
                                         ELSE proxy \in {"running", "closing"}

Started(c) ==
    IF c \in {"client_up", "client_down"} THEN client = "relaying" ELSE proxy \in {"running", "closing"}

Running(c) == Started(c) /\ c \notin ended

CopyReads(c) ==
    /\ Running(c) /\ hand[c] = 0 /\ CanRead(Src(c), Dir(c))
    /\ hand' = [hand EXCEPT ![c] = Head(queue[Src(c)][Dir(c)])]
    /\ queue' = [queue EXCEPT ![Src(c)][Dir(c)] = Tail(@)]
    /\ UNCHANGED <<socket, reset, ended, client, proxy, exited, sent, got>>

CopyWrites(c) ==
    /\ Running(c) /\ hand[c] # 0 /\ CanWrite(Dst(c), Dir(c))
    /\ queue' = Written(queue, Dst(c), Dir(c), hand[c])
    /\ reset' = reset \cup ResetBy(Dst(c), Dir(c))
    /\ hand' = [hand EXCEPT ![c] = 0]
    /\ UNCHANGED <<socket, ended, client, proxy, exited, sent, got>>

\* The copy is at the end of its source, or cannot read or write any more.
Returns(c) ==
    IF hand[c] = 0 THEN AtEOF(Src(c), Dir(c)) \/ ReadFails(Src(c), Dir(c))
                   ELSE WriteFails(Dst(c), Dir(c))

\* The gateway shuts the writing side of the target's connection; that of the
\* client's it does not, for a tls.Conn is no net.TCPConn.
CopyEnds(c) ==
    /\ Running(c) /\ Returns(c)
    /\ ended' = ended \cup {c}
    /\ hand' = [hand EXCEPT ![c] = 0]
    /\ LET e == Writer("backend", "up") IN
       socket' = IF c = "gateway_up" /\ socket[e] = "open" THEN [socket EXCEPT ![e] = "half"] ELSE socket
    /\ UNCHANGED <<queue, reset, client, proxy, exited, sent, got>>

-----------------------------------------------------------------------------
(***************************************************************************)
(* Client and gateway                                                      *)
(***************************************************************************)

\* Mutant: the client closes when one of its copies has returned, as RelayTraffic
\* of infra/tunnel does.
ClientIsDone_AtFirst == {"client_up", "client_down"} \cap ended # {}

\* relay waits for both copies.
ClientIsDone == {"client_up", "client_down"} \subseteq ended

\* relay has returned; the deferred closes run.
ClientCloses ==
    /\ client = "relaying" /\ ClientIsDone
    /\ Closed(ClientEnds) /\ client' = "over"
    /\ UNCHANGED <<queue, hand, ended, proxy, exited, sent, got>>

\* Mutant: the gateway waits for both of its copies before it closes.
GatewayIsDone_AtBoth == {"gateway_up", "gateway_down"} \subseteq ended

\* Proxy waits for the first result.
GatewayIsDone == {"gateway_up", "gateway_down"} \cap ended # {}

GatewayCloses ==
    /\ proxy = "running" /\ GatewayIsDone
    /\ Closed(GatewayEnds)
    /\ proxy' = "closing"
    /\ UNCHANGED <<queue, hand, ended, client, exited, sent, got>>

\* wg.Wait returns, and Proxy after it.
ProxyReturns ==
    /\ proxy = "closing" /\ {"gateway_up", "gateway_down"} \subseteq ended
    /\ proxy' = "returned"
    /\ UNCHANGED <<queue, socket, reset, hand, ended, client, exited, sent, got>>

\* The user interrupts the client: Run returns and the process is gone with its
\* sockets and copies.
ClientExits ==
    /\ ~exited /\ exited' = TRUE
    /\ Closed(ClientEnds) /\ client' = "over"
    /\ ended' = ended \cup {"client_up", "client_down"}
    /\ hand' = [hand EXCEPT !["client_up"] = 0, !["client_down"] = 0]
    /\ UNCHANGED <<queue, proxy, sent, got>>

-----------------------------------------------------------------------------
(***************************************************************************)
(* The application and the target: e is the side's end, d the direction it *)
(* sends in, b the one it reads from.                                      *)
(***************************************************************************)
Sends(e, d) ==
    /\ socket[e] = "open" /\ sent[d] < Chunks /\ CanWrite(e[1], d)
    /\ sent' = [sent EXCEPT ![d] = @ + 1]
    /\ queue' = Written(queue, e[1], d, sent[d] + 1)
    /\ reset' = reset \cup ResetBy(e[1], d)
    /\ UNCHANGED <<socket, hand, ended, client, proxy, exited, got>>

Receives(e, b) ==
    /\ CanRead(e[1], b)
    /\ got' = [got EXCEPT ![b] = Append(@, Head(queue[e[1]][b]))]
    /\ queue' = [queue EXCEPT ![e[1]][b] = Tail(@)]
    /\ UNCHANGED <<socket, reset, hand, ended, client, proxy, exited, sent>>

ShutsWriting(e) ==
    /\ socket[e] = "open"
    /\ socket' = [socket EXCEPT ![e] = "half"]
    /\ UNCHANGED <<queue, reset, hand, ended, client, proxy, exited, sent, got>>

Closes(e) ==
    /\ socket[e] # "closed"
    /\ Closed({e})
    /\ UNCHANGED <<queue, hand, ended, client, proxy, exited, sent, got>>

Peer(e, d, b) == Sends(e, d) \/ Receives(e, b) \/ ShutsWriting(e) \/ Closes(e)

-----------------------------------------------------------------------------
Copy(c) == CopyReads(c) \/ CopyWrites(c) \/ CopyEnds(c)
Connect == ClientAsks \/ ClientAllowed \/ ClientRefused
Gateway == GatewayAnswers \/ Dialled \/ GatewayGivesUp \/ GatewayCloses \/ ProxyReturns

RelayNext ==
    \/ Connect \/ Gateway \/ ClientCloses \/ ClientExits
    \/ \E c \in Copies : Copy(c)
    \/ Peer(App, "up", "down") \/ Peer(Target, "down", "up")

RelaySpec == RelayInit /\ [][RelayNext]_relayVars

\* The goroutines run.  The application and the target owe nothing: they need not
\* send, nor read, nor close.
FairRelaySpec ==
    /\ RelaySpec
    /\ \A c \in Copies : WF_relayVars(Copy(c))
    /\ WF_relayVars(Connect) /\ WF_relayVars(Gateway) /\ WF_relayVars(ClientCloses)

-----------------------------------------------------------------------------
(***************************************************************************)
(* Properties                                                              *)
(***************************************************************************)

\* Whatever closes or is reset on the way, each side receives a prefix of what the
\* other sent, and nothing of the CONNECT exchange: a copy that loses a chunk sends
\* nothing after it (tcp.go:80-102, service.go:85-96, tunnel.go:118-140).
ReceivedIsPrefix ==
    \A d \in Dirs : got[d] = [i \in 1..Len(got[d]) |-> i] /\ Len(got[d]) <= sent[d]

\* A copy of the gateway is in a Write that neither goes on nor fails: the peer it
\* writes to is there and does not read.
Stalled ==
    \E c \in {"gateway_up", "gateway_down"} \ ended :
        hand[c] # 0 /\ ~CanWrite(Dst(c), Dir(c)) /\ ~WriteFails(Dst(c), Dir(c))

\* The gateway is rid of a session one of whose peers has closed, although the other
\* copy may wait for a peer that says nothing; only a peer that never again reads
\* what the gateway has for it keeps the session (tcp.go:80-111: the copies have
\* no deadline).
PeerEndsProxy ==
    (proxy = "running" /\ socket[Target] # "open") \/ client = "over"
        ~> proxy = "returned" \/ []Stalled

\* An application that stays and reads receives all that a target sent before it
\* closed, also when the application had shut its own side: the client's relay
\* outlives its first copy (service.go:86-96).
DownloadArrives ==
    socket[Target] = "closed" /\ Len(got["up"]) = sent["up"]
        ~> \/ Len(got["down"]) = sent["down"]
           \/ Len(got["up"]) # sent["up"] \/ socket[App] = "closed" \/ exited
           \/ [](queue["local"]["down"] # << >>)
=============================================================================
