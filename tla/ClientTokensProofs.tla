-------------------------- MODULE ClientTokensProofs --------------------------
(***************************************************************************)
(* Theorems about the client's tokens, for any number of commands at once, *)
(* any lifetimes, timeouts and intervals, and every provider.              *)
(***************************************************************************)
EXTENDS ClientTokens, TLAPS

(***************************************************************************)
(* The inductive invariant: by how much the client's clock for a token may *)
(* lag, who holds a refresh token that is on its way to the file, and who  *)
(* writes the file.                                                        *)
(***************************************************************************)
\* Where a command can be.
PCs == {"idle", "device", "loop", "sleeping", "poll", "password", "issued",
        "saving", "writing", "returned", "expired", "refresh"}

\* What the variables hold.
TokenTypeOK ==
    /\ provider \in Providers
    /\ live \subseteq RefreshIds
    /\ file \in {"missing", "empty", "torn", "tokens"}
    /\ stored \in TokenSets
    /\ pc \in [Procs -> PCs]
    /\ mem \in [Procs -> TokenSets]
    /\ wait \in [Procs -> Nat] /\ code \in [Procs -> Nat] /\ interval \in [Procs -> Nat]
    /\ disturbed \in BOOLEAN

\* The client's clock for a token is behind the provider's by one exchange at most.
Lag(t) == t.left <= t.real + Timeout

\* So it is for every token set, and of an answer that is under way the time it has
\* been under way is accounted for by the time its exchange has left.
LagIsBounded ==
    /\ Lag(stored)
    /\ \A p \in Procs :
          /\ Lag(mem[p])
          /\ pc[p] \in Requesting => wait[p] <= Timeout
          /\ pc[p] = "issued" => Lifetime + wait[p] <= mem[p].real + Timeout

\* Where refresh tokens are rotated, one that is on its way to the file is nowhere else.
SoleHolder ==
    provider = "rotating" =>
        \A p \in Procs : pc[p] \in InFlight =>
            /\ mem[p].refresh \in RefreshIds /\ mem[p].refresh # stored.refresh
            /\ \A q \in Procs : q # p => mem[q].refresh # mem[p].refresh

\* And it is one the provider accepts.
InFlightIsLive ==
    ~disturbed /\ provider # "no_refresh" =>
        \A p \in Procs : pc[p] \in InFlight => mem[p].refresh \in live

\* One process writes at a time, into the file it has emptied.
OneWriter ==
    ~disturbed =>
        /\ \A p, q \in Procs : pc[p] = "writing" /\ pc[q] = "writing" => p = q
        /\ \A p \in Procs : pc[p] = "writing" => file = "empty"
        /\ (\A p \in Procs : pc[p] # "writing") => file \in {"missing", "tokens"}

\* The inductive invariant.
TokenInv ==
    TokenTypeOK /\ LagIsBounded /\ SoleHolder /\ InFlightIsLive /\ OneWriter /\ StaysLoggedIn

-----------------------------------------------------------------------------
\* No tokens are a token set.
LEMMA NoTokensType == NoTokens \in TokenSets /\ Lag(NoTokens)
BY TokenConstants DEF NoTokens, TokenSets, Lag

\* A unit of time later a token set still is one, and its lag has not grown.
LEMMA AgedTokens ==
    ASSUME NEW t \in TokenSets
    PROVE  /\ Aged(t) \in TokenSets /\ Aged(t).refresh = t.refresh
           /\ Aged(t).left <= t.left /\ t.real <= Aged(t).real + 1
           /\ Lag(t) => Lag(Aged(t))
<1>1. /\ t = [refresh |-> t.refresh, left |-> t.left, real |-> t.real]
      /\ t.refresh \in RefreshIds \cup {NoRefresh}
      /\ t.left \in 0..Lifetime /\ t.real \in 0..Lifetime
    BY DEF TokenSets
<1>2. Aged(t) = [refresh |-> t.refresh, left |-> Less(t.left), real |-> Less(t.real)]
    BY <1>1 DEF Aged
<1>3. /\ Less(t.left) \in 0..Lifetime /\ Less(t.real) \in 0..Lifetime
      /\ Less(t.left) <= t.left /\ t.real <= Less(t.real) + 1
      /\ t.left <= t.real + Timeout => Less(t.left) <= Less(t.real) + Timeout
    BY <1>1, TokenConstants DEF Less
<1> QED
    BY <1>1, <1>2, <1>3 DEF TokenSets, Lag

\* Nobody is logged in at first.
LEMMA TokenInitInv == TokenInit => TokenInv
<1> SUFFICES ASSUME TokenInit PROVE TokenInv
    OBVIOUS
<1>1. TokenTypeOK
    BY NoTokensType DEF TokenInit, TokenTypeOK, PCs
<1> QED
    BY <1>1, NoTokensType, TokenConstants
    DEF TokenInit, TokenInv, LagIsBounded, SoleHolder, InFlightIsLive, OneWriter,
        StaysLoggedIn, InFlight, Requesting, Providers

-----------------------------------------------------------------------------
(***************************************************************************)
(* Steps that neither begin nor end the flight of a token set.             *)
(***************************************************************************)
\* Nothing but p changes.
Alone(p) ==
    /\ pc' \in [Procs -> PCs] /\ mem' \in [Procs -> TokenSets] /\ wait' \in [Procs -> Nat]
    /\ \A q \in Procs : q # p => pc'[q] = pc[q] /\ mem'[q] = mem[q] /\ wait'[q] = wait[q]

\* A step of p that touches neither file nor provider, out of flight.
Quiet(p) ==
    /\ UNCHANGED <<provider, live, file, stored>> /\ disturbed' = disturbed
    /\ pc[p] \notin InFlight /\ pc'[p] \notin InFlight
    /\ mem'[p] \in {mem[p], stored, NoTokens}
    /\ pc'[p] \in Requesting => wait'[p] <= Timeout

\* Such a step keeps every part of the invariant.
LEMMA QuietInv ==
    ASSUME TokenInv, NEW p \in Procs, Alone(p), Quiet(p)
    PROVE  LagIsBounded' /\ SoleHolder' /\ InFlightIsLive' /\ OneWriter' /\ StaysLoggedIn'
<1>1. LagIsBounded'
    <2>1. Lag(stored') /\ Lag(mem'[p]) /\ pc'[p] # "issued"
        BY NoTokensType DEF TokenInv, LagIsBounded, Quiet, InFlight
    <2>2. \A q \in Procs : q # p => pc'[q] = pc[q] /\ mem'[q] = mem[q] /\ wait'[q] = wait[q]
        BY DEF Alone
    <2> QED
        BY <2>1, <2>2 DEF TokenInv, LagIsBounded, Quiet, Lag
<1>2. SoleHolder'
    BY TokenConstants DEF TokenInv, SoleHolder, Quiet, Alone, NoTokens
<1>3. InFlightIsLive'
    BY DEF TokenInv, InFlightIsLive, Quiet, Alone
<1>4. OneWriter'
    BY DEF TokenInv, OneWriter, Quiet, Alone, InFlight
<1>5. StaysLoggedIn'
    BY DEF TokenInv, StaysLoggedIn, Quiet, Alone, Readable
<1> QED
    BY <1>1, <1>2, <1>3, <1>4, <1>5

\* What the end of a command does.
LEMMA EndEffect ==
    ASSUME TokenTypeOK, NEW p \in Procs, End(p)
    PROVE  /\ Alone(p) /\ pc'[p] = "idle" /\ mem'[p] = NoTokens
           /\ code' \in [Procs -> Nat] /\ interval' \in [Procs -> Nat]
BY NoTokensType DEF End, Goto, Alone, TokenTypeOK, PCs

\* What it does to send a request.
LEMMA RequestEffect ==
    ASSUME TokenTypeOK, NEW p \in Procs, NEW kind \in PCs, Request(p, kind)
    PROVE  /\ pc' \in [Procs -> PCs] /\ pc'[p] = kind
           /\ wait' \in [Procs -> Nat] /\ wait'[p] <= Timeout
           /\ \A q \in Procs : q # p => pc'[q] = pc[q] /\ wait'[q] = wait[q]
BY TokenConstants DEF Request, Goto, TokenTypeOK

\* What it does that one is answered.
LEMMA AnsweredEffect ==
    ASSUME TokenTypeOK, NEW p \in Procs, NEW where \in PCs, Answered(p, where)
    PROVE  /\ pc' \in [Procs -> PCs] /\ pc'[p] = where
           /\ wait' \in [Procs -> Nat] /\ wait'[p] <= Timeout
           /\ \A q \in Procs : q # p => pc'[q] = pc[q] /\ wait'[q] = wait[q]
BY TokenConstants DEF Answered, Goto, TokenTypeOK

\* The steps that are quiet.
QuietStep(p) ==
    \/ Login(p) \/ DeviceCode(p) \/ LoopHead(p) \/ Poll(p) \/ PollAgain(p) \/ Cancelled(p)
    \/ GetValidAccessToken(p) \/ RefreshAccessToken(p) \/ Used(p)
    \/ pc[p] # "issued" /\ RequestFails(p)
    \/ pc[p] \notin InFlight /\ Crash(p)

\* And indeed they are.
LEMMA QuietStepIsQuiet ==
    ASSUME TokenTypeOK, NEW p \in Procs, QuietStep(p)
    PROVE  /\ Alone(p) /\ Quiet(p)
           /\ code' \in [Procs -> Nat] /\ interval' \in [Procs -> Nat]
<1> USE DEF InFlight, Requesting, PCs
<1>1. CASE Login(p)
    <2>1. PICK kind \in {"device", "password"} : Begins(p, kind)
        BY <1>1 DEF Login, DeviceFlowLogin, LoginPasswordGrantLAB
    <2>2. Request(p, kind) /\ mem' = mem /\ pc[p] = "idle"
        BY <2>1 DEF Begins
    <2> QED
        BY <2>1, <2>2, RequestEffect DEF Begins, Alone, Quiet, TokenTypeOK
<1>2. CASE DeviceCode(p)
    <2>1. Answered(p, "loop") /\ mem' = mem /\ pc[p] = "device"
        BY <1>2 DEF DeviceCode
    <2>2. code' \in [Procs -> Nat] /\ interval' \in [Procs -> Nat]
        BY <1>2, TokenConstants DEF DeviceCode, TokenTypeOK
    <2> QED
        BY <1>2, <2>1, <2>2, AnsweredEffect DEF DeviceCode, Alone, Quiet, TokenTypeOK
<1>3. CASE LoopHead(p)
    <2>1. CASE code[p] = 0
        <3>1. End(p) /\ pc[p] = "loop"
            BY <1>3, <2>1 DEF LoopHead
        <3> QED
            BY <1>3, <3>1, EndEffect DEF LoopHead, Quiet
    <2>2. CASE code[p] # 0
        BY <1>3, <2>2 DEF LoopHead, Goto, Alone, Quiet, TokenTypeOK
    <2> QED
        BY <2>1, <2>2
<1>4. CASE Poll(p)
    <2>1. Request(p, "poll") /\ mem' = mem /\ pc[p] = "sleeping"
        BY <1>4 DEF Poll
    <2> QED
        BY <1>4, <2>1, RequestEffect DEF Poll, Alone, Quiet, TokenTypeOK
<1>5. CASE PollAgain(p)
    <2>1. Answered(p, "loop") /\ mem' = mem /\ pc[p] = "poll"
        BY <1>5 DEF PollAgain
    <2>2. interval' \in [Procs -> Nat]
        BY <1>5, TokenConstants DEF PollAgain, TokenTypeOK
    <2> QED
        BY <1>5, <2>1, <2>2, AnsweredEffect DEF PollAgain, Alone, Quiet, TokenTypeOK
<1>6. CASE Cancelled(p)
    <2>1. End(p) /\ pc[p] = "sleeping"
        BY <1>6 DEF Cancelled
    <2> QED
        BY <1>6, <2>1, EndEffect DEF Cancelled, Quiet
<1>7. CASE GetValidAccessToken(p)
    <2>1. /\ mem' = [mem EXCEPT ![p] = stored] /\ pc[p] = "idle" /\ wait' = wait
          /\ pc' = [pc EXCEPT ![p] = IF Fresh(stored) THEN "returned" ELSE "expired"]
        BY <1>7 DEF GetValidAccessToken, Goto
    <2> QED
        BY <1>7, <2>1 DEF GetValidAccessToken, Alone, Quiet, TokenTypeOK
<1>8. CASE RefreshAccessToken(p)
    <2>1. CASE Readable /\ stored.refresh # NoRefresh
        <3>1. Request(p, "refresh") /\ mem' = [mem EXCEPT ![p] = stored] /\ pc[p] = "expired"
            BY <1>8, <2>1 DEF RefreshAccessToken
        <3> QED
            BY <1>8, <2>1, <3>1, RequestEffect DEF RefreshAccessToken, Alone, Quiet, TokenTypeOK
    <2>2. CASE ~(Readable /\ stored.refresh # NoRefresh)
        <3>1. End(p) /\ pc[p] = "expired"
            BY <1>8, <2>2 DEF RefreshAccessToken
        <3> QED
            BY <1>8, <3>1, EndEffect DEF RefreshAccessToken, Quiet
    <2> QED
        BY <2>1, <2>2
<1>9. CASE Used(p)
    <2>1. End(p) /\ pc[p] = "returned"
        BY <1>9 DEF Used
    <2> QED
        BY <1>9, <2>1, EndEffect DEF Used, Quiet
<1>10. CASE pc[p] # "issued" /\ RequestFails(p)
    <2>1. End(p) /\ pc[p] \in Requesting /\ disturbed' = disturbed
        BY <1>10 DEF RequestFails, TokenTypeOK
    <2> QED
        BY <1>10, <2>1, EndEffect DEF RequestFails, Quiet
<1>11. CASE pc[p] \notin InFlight /\ Crash(p)
    <2>1. End(p) /\ disturbed' = disturbed
        BY <1>11 DEF Crash, TokenTypeOK
    <2> QED
        BY <1>11, <2>1, EndEffect DEF Crash, Quiet
<1> QED
    BY <1>1, <1>2, <1>3, <1>4, <1>5, <1>6, <1>7, <1>8, <1>9, <1>10, <1>11 DEF QuietStep

\* So they keep the invariant.
LEMMA QuietStepInv == ASSUME TokenInv, NEW p \in Procs, QuietStep(p) PROVE TokenInv'
<1>1. /\ Alone(p) /\ Quiet(p)
      /\ code' \in [Procs -> Nat] /\ interval' \in [Procs -> Nat]
    BY QuietStepIsQuiet DEF TokenInv
<1>2. TokenTypeOK'
    BY <1>1 DEF TokenInv, TokenTypeOK, Alone, Quiet
<1> QED
    BY <1>1, <1>2, QuietInv DEF TokenInv

-----------------------------------------------------------------------------
(***************************************************************************)
(* The flight of a token set: issued, received, saved.                     *)
(***************************************************************************)
\* An issued refresh token that is a new one is nobody's.
LEMMA NewRefreshIsUnused ==
    ASSUME provider \in Providers, NEW r \in NewRefresh
    PROVE  IF provider = "no_refresh" THEN r = NoRefresh ELSE r \in RefreshIds /\ Unused(r)
<1>1. CASE provider = "no_refresh"
    BY <1>1 DEF NewRefresh
<1>2. CASE provider # "no_refresh"
    <2>1. PICK x \in RefreshIds : Unused(x)
        BY <1>2 DEF NewRefresh
    <2>2. r = CHOOSE y \in RefreshIds : Unused(y)
        BY <1>2, <2>1 DEF NewRefresh
    <2> QED
        BY <1>2, <2>1, <2>2
<1> QED
    BY <1>1, <1>2

\* Whatever is issued, to a login or for a refresh token: the set p gets is a new one
\* where tokens rotate, accepted where there are refresh tokens at all, and no other
\* token in use is taken back but the one p showed.
Issued(p) ==
    /\ pc[p] \in {"password", "poll", "refresh"} /\ pc' = [pc EXCEPT ![p] = "issued"]
    /\ UNCHANGED <<provider, file, stored, wait, code, interval, disturbed>>
    /\ mem' \in [Procs -> TokenSets] /\ live' \subseteq RefreshIds
    /\ mem'[p].left = 0 /\ mem'[p].real = Lifetime
    /\ \A q \in Procs : q # p => mem'[q] = mem[q]
    /\ provider # "no_refresh" => mem'[p].refresh \in live'
    /\ provider = "rotating" => mem'[p].refresh \in RefreshIds /\ Unused(mem'[p].refresh)
    /\ \A x \in Held : x \in live /\ x \notin live' => provider = "rotating" /\ x = mem[p].refresh

\* A login is issued a token set,
LEMMA IssueIsIssued ==
    ASSUME TokenTypeOK, NEW p \in Procs, Issue(p)
    PROVE  Issued(p)
<1>1. PICK r \in NewRefresh :
         /\ live' = (live \cap Held) \cup ({r} \ {NoRefresh})
         /\ mem' = [mem EXCEPT ![p] = [refresh |-> r, left |-> 0, real |-> Lifetime]]
    BY DEF Issue
<1>2. IF provider = "no_refresh" THEN r = NoRefresh ELSE r \in RefreshIds /\ Unused(r)
    BY NewRefreshIsUnused DEF TokenTypeOK
<1>3. [refresh |-> r, left |-> 0, real |-> Lifetime] \in TokenSets
    BY <1>2, TokenConstants DEF TokenSets
<1>4. /\ mem' \in [Procs -> TokenSets] /\ mem'[p].refresh = r
      /\ mem'[p].left = 0 /\ mem'[p].real = Lifetime
      /\ \A q \in Procs : q # p => mem'[q] = mem[q]
    BY <1>1, <1>3 DEF TokenTypeOK
<1>5. live' \subseteq RefreshIds /\ \A x \in Held : x \in live => x \in live'
    BY <1>1, <1>2 DEF TokenTypeOK
<1>6. provider # "no_refresh" => r \in live'
    BY <1>1, <1>2, TokenConstants
<1> QED
    BY <1>2, <1>4, <1>5, <1>6 DEF Issue, Goto, Issued

\* and so is a refresh.
LEMMA RefreshIssueIsIssued ==
    ASSUME TokenTypeOK, NEW p \in Procs, RefreshIssue(p)
    PROVE  Issued(p)
<1>1. PICK r \in IF provider = "rotating" THEN NewRefresh ELSE {NoRefresh} :
         /\ live' = IF r = NoRefresh THEN live ELSE ((live \cap Held) \ {mem[p].refresh}) \cup {r}
         /\ mem' = [mem EXCEPT ![p] =
                      [refresh |-> Kept(mem[p].refresh, r), left |-> 0, real |-> Lifetime]]
    BY DEF RefreshIssue
<1>2. mem[p].refresh \in live /\ live \subseteq RefreshIds
    BY DEF RefreshIssue, TokenTypeOK
<1>3. IF provider = "rotating" THEN r \in RefreshIds /\ Unused(r) ELSE r = NoRefresh
    BY <1>1, NewRefreshIsUnused DEF TokenTypeOK
<1>4. /\ Kept(mem[p].refresh, r) \in RefreshIds
      /\ Kept(mem[p].refresh, r) = IF provider = "rotating" THEN r ELSE mem[p].refresh
    BY <1>2, <1>3, TokenConstants DEF Kept
<1>5. [refresh |-> Kept(mem[p].refresh, r), left |-> 0, real |-> Lifetime] \in TokenSets
    BY <1>4, TokenConstants DEF TokenSets
<1>6. /\ mem' \in [Procs -> TokenSets] /\ mem'[p].refresh = Kept(mem[p].refresh, r)
      /\ mem'[p].left = 0 /\ mem'[p].real = Lifetime
      /\ \A q \in Procs : q # p => mem'[q] = mem[q]
    BY <1>1, <1>5 DEF TokenTypeOK
<1>7. live' \subseteq RefreshIds /\ mem'[p].refresh \in live'
    BY <1>1, <1>2, <1>3, <1>4, <1>6, TokenConstants
<1>8. \A x \in Held : x \in live /\ x \notin live' => provider = "rotating" /\ x = mem[p].refresh
    BY <1>1, <1>3
<1> QED
    BY <1>3, <1>4, <1>6, <1>7, <1>8 DEF RefreshIssue, Goto, Issued

\* What is issued is on its way to the file with nobody else to hold it.
LEMMA IssuedInv == ASSUME TokenInv, NEW p \in Procs, Issued(p) PROVE TokenInv'
<1>0. /\ TokenTypeOK /\ pc' \in [Procs -> PCs] /\ pc'[p] = "issued" /\ pc[p] \notin InFlight
      /\ \A q \in Procs : q # p => pc'[q] = pc[q]
      /\ UNCHANGED <<provider, file, stored, wait, code, interval, disturbed>>
      /\ mem'[p] \in TokenSets /\ mem[p] \in TokenSets
    BY DEF Issued, TokenInv, TokenTypeOK, PCs, InFlight
<1>1. TokenTypeOK'
    BY <1>0 DEF Issued, TokenTypeOK
<1>2. LagIsBounded'
    <2>1. wait[p] \in Nat /\ wait[p] <= Timeout
        BY <1>0 DEF Issued, TokenInv, LagIsBounded, TokenTypeOK, Requesting
    <2>2. Lag(mem'[p]) /\ Lifetime + wait[p] <= mem'[p].real + Timeout
        BY <2>1, TokenConstants DEF Issued, Lag
    <2> QED
        BY <1>0, <2>1, <2>2 DEF Issued, TokenInv, LagIsBounded, Lag
<1>3. SoleHolder'
    <2> SUFFICES ASSUME provider = "rotating", NEW q \in Procs, pc'[q] \in InFlight
                 PROVE  /\ mem'[q].refresh \in RefreshIds /\ mem'[q].refresh # stored.refresh
                        /\ \A t \in Procs : t # q => mem'[t].refresh # mem'[q].refresh
        BY <1>0 DEF SoleHolder
    <2>1. /\ mem'[p].refresh \in RefreshIds /\ mem'[p].refresh # stored.refresh
          /\ \A t \in Procs : mem[t].refresh # mem'[p].refresh
        BY DEF Issued, Unused, Held
    <2>2. \A t \in Procs : t # p => mem'[t] = mem[t]
        BY DEF Issued
    <2>3. CASE q = p
        BY <2>1, <2>2, <2>3
    <2>4. CASE q # p
        <3>1. /\ mem[q].refresh \in RefreshIds /\ mem[q].refresh # stored.refresh
              /\ \A t \in Procs : t # q => mem[t].refresh # mem[q].refresh
            BY <1>0, <2>4 DEF TokenInv, SoleHolder
        <3> QED
            BY <2>1, <2>2, <2>4, <3>1
    <2> QED
        BY <2>3, <2>4
<1>4. InFlightIsLive'
    <2> SUFFICES ASSUME ~disturbed, provider # "no_refresh", NEW q \in Procs, pc'[q] \in InFlight
                 PROVE  mem'[q].refresh \in live'
        BY <1>0 DEF InFlightIsLive
    <2>1. CASE q = p
        BY <2>1 DEF Issued
    <2>2. CASE q # p
        <3>1. mem'[q] = mem[q] /\ mem[q].refresh \in live /\ pc[q] \in InFlight
            BY <1>0, <2>2 DEF Issued, TokenInv, InFlightIsLive
        <3>2. mem[q].refresh \in Held
            BY DEF Held
        <3>3. provider = "rotating" => mem[q].refresh # mem[p].refresh
            BY <2>2, <3>1 DEF TokenInv, SoleHolder
        <3> QED
            BY <3>1, <3>2, <3>3 DEF Issued
    <2> QED
        BY <2>1, <2>2
<1>5. OneWriter'
    BY <1>0 DEF TokenInv, OneWriter, InFlight
<1>6. StaysLoggedIn'
    BY <1>0 DEF Issued, StaysLoggedIn, InFlight
<1> QED
    BY <1>1, <1>2, <1>3, <1>4, <1>5, <1>6 DEF TokenInv

\* ExpiresAt counts from the arrival of the answer.
LEMMA ReceiveInv == ASSUME TokenInv, NEW p \in Procs, Receive(p) PROVE TokenInv'
<1>0. /\ TokenTypeOK /\ pc[p] = "issued"
      /\ UNCHANGED <<provider, live, file, stored, code, interval, disturbed>>
      /\ mem' = [mem EXCEPT ![p].left = Lifetime]
      /\ mem[p] \in TokenSets
    BY DEF Receive, TokenInv, TokenTypeOK
<1>1. /\ pc' \in [Procs -> PCs] /\ pc'[p] = "saving"
      /\ wait' \in [Procs -> Nat] /\ wait'[p] <= Timeout
      /\ \A q \in Procs : q # p => pc'[q] = pc[q] /\ wait'[q] = wait[q]
    BY <1>0, AnsweredEffect DEF Receive, PCs
<1>2. /\ mem'[p] \in TokenSets /\ mem'[p].left = Lifetime
      /\ mem'[p].refresh = mem[p].refresh /\ mem'[p].real = mem[p].real
    BY <1>0, TokenConstants DEF TokenTypeOK, TokenSets
<1>3. mem' \in [Procs -> TokenSets] /\ \A q \in Procs : q # p => mem'[q] = mem[q]
    BY <1>0, <1>2 DEF TokenTypeOK
<1>4. TokenTypeOK'
    BY <1>0, <1>1, <1>3 DEF TokenTypeOK
<1>5. LagIsBounded'
    <2>1. wait[p] \in Nat /\ mem[p].real \in Nat /\ Lifetime + wait[p] <= mem[p].real + Timeout
        BY <1>0 DEF TokenInv, TokenTypeOK, LagIsBounded, TokenSets
    <2>2. Lag(mem'[p])
        BY <1>2, <2>1, TokenConstants DEF Lag
    <2> QED
        BY <1>0, <1>1, <1>3, <2>2 DEF TokenInv, LagIsBounded, Lag
<1>6. /\ \A q \in Procs : mem'[q].refresh = mem[q].refresh
      /\ \A q \in Procs : pc'[q] \in InFlight <=> pc[q] \in InFlight
      /\ \A q \in Procs : pc'[q] = "writing" <=> pc[q] = "writing"
    BY <1>0, <1>1, <1>2, <1>3 DEF InFlight
<1>7. SoleHolder'
    BY <1>0, <1>6 DEF TokenInv, SoleHolder
<1>8. InFlightIsLive'
    BY <1>0, <1>6 DEF TokenInv, InFlightIsLive
<1>9. OneWriter'
    BY <1>0, <1>6 DEF TokenInv, OneWriter
<1>10. StaysLoggedIn'
    BY <1>0, <1>6 DEF TokenInv, StaysLoggedIn, Readable
<1> QED
    BY <1>4, <1>5, <1>7, <1>8, <1>9, <1>10 DEF TokenInv

\* Saving: the file is emptied by a process that holds an accepted token.
LEMMA TruncateInv == ASSUME TokenInv, NEW p \in Procs, Truncate(p) PROVE TokenInv'
<1>0. /\ TokenTypeOK /\ pc[p] = "saving" /\ pc' = [pc EXCEPT ![p] = "writing"]
      /\ UNCHANGED <<provider, live, mem, wait, code, interval>>
      /\ file' = "empty" /\ stored' = NoTokens
      /\ disturbed' = (disturbed \/ \E q \in Procs : pc[q] = "writing")
    BY DEF Truncate, Goto, TokenInv
<1>1. /\ pc' \in [Procs -> PCs] /\ pc'[p] = "writing"
      /\ \A q \in Procs : q # p => pc'[q] = pc[q]
      /\ \A q \in Procs : (pc'[q] \in InFlight) <=> (pc[q] \in InFlight)
    BY <1>0 DEF TokenTypeOK, PCs, InFlight
<1>2. TokenTypeOK'
    BY <1>0, <1>1, NoTokensType DEF TokenTypeOK
<1>3. LagIsBounded'
    BY <1>0, <1>1, NoTokensType DEF TokenInv, LagIsBounded, Requesting, Lag
<1>4. SoleHolder'
    BY <1>0, <1>1, TokenConstants DEF TokenInv, SoleHolder, NoTokens
<1>5. InFlightIsLive'
    BY <1>0, <1>1 DEF TokenInv, InFlightIsLive
<1>6. OneWriter'
    BY <1>0, <1>1 DEF TokenInv, OneWriter
<1>7. StaysLoggedIn'
    <2>1. pc[p] \in InFlight /\ pc'[p] \in InFlight
        BY <1>0, <1>1 DEF InFlight
    <2> QED
        BY <1>0, <2>1 DEF TokenInv, InFlightIsLive, StaysLoggedIn
<1> QED
    BY <1>2, <1>3, <1>4, <1>5, <1>6, <1>7 DEF TokenInv

\* And written by the process that has emptied it.
LEMMA WriteFileInv == ASSUME TokenInv, NEW p \in Procs, WriteFile(p) PROVE TokenInv'
<1>0. /\ TokenTypeOK /\ pc[p] = "writing" /\ Alone(p) /\ pc'[p] = "idle" /\ mem'[p] = NoTokens
      /\ UNCHANGED <<provider, live>> /\ disturbed' = disturbed
      /\ file' \in IF file = "empty" THEN {"tokens"} ELSE {"tokens", "torn"}
      /\ stored' = IF file' = "tokens" THEN mem[p] ELSE NoTokens
      /\ code' \in [Procs -> Nat] /\ interval' \in [Procs -> Nat]
    BY EndEffect DEF WriteFile, TokenInv
<1>1. stored' \in TokenSets /\ Lag(stored')
    BY <1>0, NoTokensType DEF TokenInv, TokenTypeOK, LagIsBounded
<1>2. TokenTypeOK'
    BY <1>0, <1>1 DEF TokenTypeOK, Alone
<1>3. LagIsBounded'
    BY <1>0, <1>1, NoTokensType DEF TokenInv, LagIsBounded, Alone, Requesting
<1>4. SoleHolder'
    <2> SUFFICES ASSUME provider = "rotating", NEW q \in Procs, pc'[q] \in InFlight
                 PROVE  /\ mem'[q].refresh \in RefreshIds /\ mem'[q].refresh # stored'.refresh
                        /\ \A t \in Procs : t # q => mem'[t].refresh # mem'[q].refresh
        BY <1>0 DEF SoleHolder
    <2>1. q # p /\ pc[q] \in InFlight /\ mem'[q] = mem[q]
        BY <1>0 DEF InFlight, Alone
    <2>2. /\ mem[q].refresh \in RefreshIds
          /\ \A t \in Procs : t # q => mem[t].refresh # mem[q].refresh
        BY <2>1 DEF TokenInv, SoleHolder
    <2>3. NoTokens.refresh # mem[q].refresh
        BY <2>2, TokenConstants DEF NoTokens
    <2> QED
        BY <1>0, <2>1, <2>2, <2>3 DEF Alone
<1>5. InFlightIsLive'
    BY <1>0 DEF TokenInv, InFlightIsLive, Alone, InFlight
<1>6. OneWriter'
    <2> SUFFICES ASSUME ~disturbed
                 PROVE  /\ \A q \in Procs : pc'[q] # "writing"
                        /\ file' = "tokens"
        BY <1>0 DEF OneWriter
    <2>1. file = "empty" /\ \A q \in Procs : q # p => pc[q] # "writing"
        BY <1>0 DEF TokenInv, OneWriter
    <2> QED
        BY <1>0, <2>1 DEF Alone
<1>7. StaysLoggedIn'
    <2> SUFFICES ASSUME ~disturbed, provider # "no_refresh"
                 PROVE  file' = "tokens" /\ stored'.refresh \in live
        BY <1>0 DEF StaysLoggedIn, Readable
    <2>1. file = "empty" /\ mem[p].refresh \in live
        BY <1>0 DEF TokenInv, OneWriter, InFlightIsLive, InFlight
    <2> QED
        BY <1>0, <2>1
<1> QED
    BY <1>2, <1>3, <1>4, <1>5, <1>6, <1>7 DEF TokenInv

-----------------------------------------------------------------------------
(***************************************************************************)
(* Faults, and time                                                        *)
(***************************************************************************)
\* A command that ends in the middle of an exchange or of a save.
FaultyEnd(p) ==
    /\ End(p) /\ disturbed' = TRUE /\ UNCHANGED <<provider, live>>
    /\ file' \in {file, "torn"} /\ stored' \in {stored, NoTokens}

\* It may lose what the invariant promises without such a fault, and no more.
LEMMA FaultyEndInv == ASSUME TokenInv, NEW p \in Procs, FaultyEnd(p) PROVE TokenInv'
<1>0. /\ TokenTypeOK /\ Alone(p) /\ pc'[p] = "idle" /\ mem'[p] = NoTokens
      /\ code' \in [Procs -> Nat] /\ interval' \in [Procs -> Nat]
      /\ disturbed' = TRUE /\ UNCHANGED <<provider, live>>
      /\ file' \in {file, "torn"} /\ stored' \in {stored, NoTokens}
    BY EndEffect DEF FaultyEnd, TokenInv
<1>1. TokenTypeOK'
    BY <1>0, NoTokensType DEF TokenTypeOK, Alone
<1>2. LagIsBounded'
    BY <1>0, NoTokensType DEF TokenInv, LagIsBounded, Alone, Requesting
<1>3. SoleHolder'
    BY <1>0, TokenConstants DEF TokenInv, SoleHolder, Alone, InFlight, NoTokens
<1> QED
    BY <1>0, <1>1, <1>2, <1>3 DEF TokenInv, InFlightIsLive, OneWriter, StaysLoggedIn

\* The provider may end what it has issued.
LEMMA SessionEndsInv == ASSUME TokenInv, SessionEnds PROVE TokenInv'
BY DEF SessionEnds, TokenInv, TokenTypeOK, LagIsBounded, Lag, SoleHolder, InFlightIsLive, OneWriter,
       StaysLoggedIn

\* No exchange outlasts its timeout, so that the lag is bounded by it.
LEMMA TickInv == ASSUME TokenInv, Tick PROVE TokenInv'
<1>0. /\ TokenTypeOK /\ UNCHANGED <<provider, live, file, pc, interval, disturbed>>
      /\ stored' = Aged(stored) /\ stored \in TokenSets
      /\ \A p \in Procs : mem'[p] = Aged(mem[p]) /\ mem[p] \in TokenSets
      /\ \A p \in Procs : wait'[p] = Less(wait[p]) /\ wait[p] \in Nat
    BY DEF Tick, TokenInv, TokenTypeOK
<1>1. \A n \in Nat : Less(n) \in Nat /\ Less(n) <= n /\ (n > 0 => Less(n) = n - 1)
    BY DEF Less
<1>2. /\ stored' \in TokenSets /\ stored'.refresh = stored.refresh
      /\ mem' \in [Procs -> TokenSets] /\ \A p \in Procs : mem'[p].refresh = mem[p].refresh
    BY <1>0, AgedTokens DEF Tick
<1>3. TokenTypeOK'
    BY <1>0, <1>1, <1>2 DEF Tick, TokenTypeOK
<1>4. LagIsBounded'
    <2>1. Lag(stored')
        BY <1>0, AgedTokens DEF TokenInv, LagIsBounded
    <2> SUFFICES ASSUME NEW p \in Procs
                 PROVE  /\ Lag(mem'[p])
                        /\ pc'[p] \in Requesting => wait'[p] <= Timeout
                        /\ pc'[p] = "issued" => Lifetime + wait'[p] <= mem'[p].real + Timeout
        BY <2>1 DEF LagIsBounded, Lag
    <2>2. Lag(mem'[p])
        BY <1>0, AgedTokens DEF TokenInv, LagIsBounded
    <2>3. pc'[p] \in Requesting => wait'[p] <= Timeout
        BY <1>0, <1>1, TokenConstants DEF TokenInv, LagIsBounded
    <2>4. ASSUME pc'[p] = "issued" PROVE Lifetime + wait'[p] <= mem'[p].real + Timeout
        <3>1. wait[p] > 0 /\ Lifetime + wait[p] <= mem[p].real + Timeout
            BY <1>0, <2>4 DEF Tick, TokenInv, LagIsBounded, Requesting
        <3>2. /\ mem[p].real <= mem'[p].real + 1
              /\ mem[p].real \in Nat /\ mem'[p].real \in Nat
            BY <1>0, <1>2, AgedTokens DEF TokenSets
        <3> QED
            BY <1>0, <1>1, <3>1, <3>2, TokenConstants
    <2> QED
        BY <2>2, <2>3, <2>4
<1>5. SoleHolder'
    BY <1>0, <1>2 DEF TokenInv, SoleHolder
<1>6. InFlightIsLive' /\ OneWriter'
    BY <1>0, <1>2 DEF TokenInv, InFlightIsLive, OneWriter
<1>7. StaysLoggedIn'
    BY <1>0, <1>2 DEF TokenInv, StaysLoggedIn, Readable
<1> QED
    BY <1>3, <1>4, <1>5, <1>6, <1>7 DEF TokenInv

\* Every step keeps the invariant.
LEMMA TokenInvStep == TokenInv /\ [TokenNext]_tokenVars => TokenInv'
<1> SUFFICES ASSUME TokenInv, [TokenNext]_tokenVars PROVE TokenInv'
    OBVIOUS
<1>1. ASSUME NEW p \in Procs,
             Step(p) \/ Login(p) \/ GetValidAccessToken(p) \/ Cancelled(p) \/ Crash(p)
      PROVE  TokenInv'
    <2>1. CASE QuietStep(p)
        BY <2>1, QuietStepInv
    <2>2. CASE Issue(p) \/ RefreshIssue(p)
        BY <2>2, IssueIsIssued, RefreshIssueIsIssued, IssuedInv DEF TokenInv
    <2>3. CASE Receive(p)
        BY <2>3, ReceiveInv
    <2>4. CASE pc[p] = "issued" /\ RequestFails(p)
        BY <2>4, FaultyEndInv DEF RequestFails, FaultyEnd
    <2>5. CASE Truncate(p)
        BY <2>5, TruncateInv
    <2>6. CASE WriteFile(p)
        BY <2>6, WriteFileInv
    <2>7. CASE SaveFails(p)
        BY <2>7, FaultyEndInv DEF SaveFails, FaultyEnd
    <2>8. CASE pc[p] \in InFlight /\ Crash(p)
        BY <2>8, FaultyEndInv DEF Crash, FaultyEnd
    <2> QED
        BY <1>1, <2>1, <2>2, <2>3, <2>4, <2>5, <2>6, <2>7, <2>8 DEF Step, QuietStep
<1>2. CASE UNCHANGED tokenVars
    BY <1>2 DEF tokenVars, TokenInv, TokenTypeOK, LagIsBounded, Lag, SoleHolder, InFlightIsLive,
                OneWriter, StaysLoggedIn, Readable
<1> QED
    BY <1>1, <1>2, SessionEndsInv, TickInv DEF TokenNext

\* And so it holds of every behaviour.
LEMMA TokenInvHolds == TokenSpec => []TokenInv
<1> QED
    BY TokenInitInv, TokenInvStep, PTL DEF TokenSpec

\* However many commands run at once, the user stays logged in unless a fault hits an
\* exchange or a save, two saves meet, or the provider ends it (oidc.go:282-356,
\* token_store.go:49-71).
THEOREM StaysLoggedInHolds == TokenSpec => []StaysLoggedIn
<1> QED
    BY TokenInvHolds, PTL DEF TokenInv

\* A token is handed out by GetValidAccessToken alone.
LEMMA HandedOutByGet ==
    ASSUME TokenTypeOK, [TokenNext]_tokenVars, NEW p \in Procs, pc[p] = "idle", pc'[p] = "returned"
    PROVE  GetValidAccessToken(p)
<1>1. PICK q \in Procs :
         Step(q) \/ Login(q) \/ GetValidAccessToken(q) \/ Cancelled(q) \/ Crash(q)
    BY DEF TokenNext, tokenVars, Tick, SessionEnds
<1>2. \E where : pc' = [pc EXCEPT ![q] = where]
    <2>1. CASE Step(q)
        BY <2>1 DEF Step, DeviceCode, LoopHead, Poll, PollAgain, Issue, RefreshIssue, Receive,
                    RequestFails, Truncate, WriteFile, SaveFails, RefreshAccessToken, Used,
                    End, Request, Answered, Goto
    <2>2. CASE ~Step(q)
        BY <1>1, <2>2 DEF Login, DeviceFlowLogin, LoginPasswordGrantLAB, Begins,
                    GetValidAccessToken, Cancelled, Crash, End, Request, Goto
    <2> QED
        BY <2>1, <2>2
<1>3. q = p
    BY <1>2 DEF TokenTypeOK
<1>4. ~Step(p) /\ ~Cancelled(p) /\ ~Crash(p)
    BY DEF Step, DeviceCode, LoopHead, Poll, PollAgain, Issue, RefreshIssue, Receive,
           RequestFails, Truncate, WriteFile, SaveFails, RefreshAccessToken, Used,
           Cancelled, Crash, Requesting
<1>5. ~Login(p)
    BY DEF Login, DeviceFlowLogin, LoginPasswordGrantLAB, Begins, Request, Goto, TokenTypeOK
<1> QED
    BY <1>1, <1>3, <1>4, <1>5

\* It outlives the margin, which is no less than what the client's clock is behind.
LEMMA HandsOutValid ==
    ASSUME TokenInv, [TokenNext]_tokenVars
    PROVE  \A p \in Procs : pc[p] = "idle" /\ pc'[p] = "returned" => mem'[p].real > 0
<1> SUFFICES ASSUME NEW p \in Procs, pc[p] = "idle", pc'[p] = "returned"
             PROVE  mem'[p].real > 0
    OBVIOUS
<1>1. GetValidAccessToken(p)
    BY HandedOutByGet DEF TokenInv
<1>2. Fresh(stored) /\ mem'[p] = stored
    BY <1>1 DEF GetValidAccessToken, Goto, TokenInv, TokenTypeOK
<1>3. /\ stored.left \in Nat /\ stored.real \in Nat
      /\ stored.left <= stored.real + Timeout
    BY DEF TokenInv, TokenTypeOK, TokenSets, LagIsBounded, Lag
<1> QED
    BY <1>2, <1>3, TokenConstants DEF Fresh

\* A stored access token that is handed out is one the provider still accepts, for every
\* margin that is no less than the timeout (oidc.go:122, 341, 371-374).
THEOREM HandedOutIsValidHolds == TokenSpec => HandedOutIsValid
<1> QED
    BY TokenInvHolds, HandsOutValid, PTL DEF TokenSpec, HandedOutIsValid
=============================================================================
