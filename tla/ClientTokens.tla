------------------------------ MODULE ClientTokens ------------------------------
(***************************************************************************)
(* The client's tokens (client/internal/infra/oidc): logging in by         *)
(* password or through the device flow, the file that keeps the token set, *)
(* and the commands that take an access token from it, refreshing it when  *)
(* it is about to expire.  Every command is a process of its own; nothing  *)
(* locks the file.  A time is kept as the time that is left until it, so   *)
(* that the clock needs no bound.                                          *)
(***************************************************************************)
EXTENDS Naturals, FiniteSets

CONSTANTS
    Procs,       \* client commands that run at the same time
    LoginProcs,  \* those of them that may be logins
    RefreshIds,  \* bound: refresh tokens in existence at once
    Lifetime,    \* expires_in of the access tokens
    Margin,      \* tokenExpiryMargin, 30 s in the code
    Timeout,     \* of the HTTP client, 20 s in the code
    Intervals,   \* polling intervals the provider may ask for
    SlowDown,    \* what slow_down adds to the interval, 2 s in the code
    CodeTTL      \* expires_in of the device codes

NoRefresh == "none"
Providers == {"no_refresh", "fixed", "rotating"}

ASSUME TokenConstants ==
    /\ SlowDown \in Nat /\ Lifetime \in Nat /\ CodeTTL \in Nat /\ Timeout \in Nat /\ Margin \in Nat
    /\ Timeout <= Margin
    /\ LoginProcs \subseteq Procs
    /\ Intervals \subseteq Nat \ {0}
    /\ NoRefresh \notin RefreshIds

VARIABLES
    provider,  \* whether refreshes are possible and answered with a new refresh token
    live,      \* the refresh tokens the provider accepts
    file,      \* tokens.json: "missing", "empty", "torn" or "tokens"
    stored,    \* the token set in it
    pc,        \* where each process is
    mem,       \* the token set it holds
    wait,      \* time left of its time.After or of its HTTP exchange
    code,      \* one more than the time left of its device code
    interval,  \* pollInterval
    disturbed  \* history: a fault the client does not defend against has happened

tokenVars == <<provider, live, file, stored, pc, mem, wait, code, interval, disturbed>>

\* A token set: the refresh token, the time until ExpiresAt, and the time the
\* provider itself will still accept the access token.
TokenSets == [refresh : RefreshIds \cup {NoRefresh}, left : 0..Lifetime, real : 0..Lifetime]
NoTokens == [refresh |-> NoRefresh, left |-> 0, real |-> 0]

Requesting == {"device", "password", "poll", "refresh", "issued"}
InFlight == {"issued", "saving", "writing"}

TokenInit ==
    /\ provider \in Providers
    /\ live = {} /\ file = "missing" /\ stored = NoTokens /\ disturbed = FALSE
    /\ pc = [p \in Procs |-> "idle"]
    /\ mem = [p \in Procs |-> NoTokens]
    /\ wait = [p \in Procs |-> 0]
    /\ code = [p \in Procs |-> 0]
    /\ interval = [p \in Procs |-> 0]

Goto(p, where) == pc' = [pc EXCEPT ![p] = where]

\* Http.Client.Do: an exchange that ends within the client's timeout.
Request(p, kind) == Goto(p, kind) /\ wait' = [wait EXCEPT ![p] = Timeout]
Answered(p, where) == Goto(p, where) /\ wait' = [wait EXCEPT ![p] = 0]

Readable == file = "tokens"

\* The command is over, with an error or without; its process is gone.
End(p) ==
    /\ Goto(p, "idle")
    /\ mem' = [mem EXCEPT ![p] = NoTokens]
    /\ wait' = [wait EXCEPT ![p] = 0] /\ code' = [code EXCEPT ![p] = 0]
    /\ interval' = [interval EXCEPT ![p] = 0]

-----------------------------------------------------------------------------
(***************************************************************************)
(* Logging in                                                              *)
(***************************************************************************)
Begins(p, kind) ==
    /\ pc[p] = "idle" /\ p \in LoginProcs
    /\ Request(p, kind)
    /\ UNCHANGED <<provider, live, file, stored, mem, code, interval, disturbed>>

DeviceFlowLogin(p) == Begins(p, "device")
LoginPasswordGrantLAB(p) == Begins(p, "password")

Login(p) == DeviceFlowLogin(p) \/ LoginPasswordGrantLAB(p)

\* The device code, with the code's defaults where the provider gives none.
DeviceCode(p) ==
    /\ pc[p] = "device"
    /\ \E i \in Intervals : interval' = [interval EXCEPT ![p] = i]
    /\ code' = [code EXCEPT ![p] = CodeTTL + 1]
    /\ Answered(p, "loop")
    /\ UNCHANGED <<provider, live, file, stored, mem, disturbed>>

\* The head of the polling loop.
LoopHead(p) ==
    /\ pc[p] = "loop"
    /\ IF code[p] = 0
       THEN End(p)
       ELSE /\ Goto(p, "sleeping") /\ wait' = [wait EXCEPT ![p] = interval[p]]
            /\ UNCHANGED <<mem, code, interval>>
    /\ UNCHANGED <<provider, live, file, stored, disturbed>>

Poll(p) ==
    /\ pc[p] = "sleeping" /\ wait[p] = 0
    /\ Request(p, "poll")
    /\ UNCHANGED <<provider, live, file, stored, mem, code, interval, disturbed>>

\* Mutant: to slow down is to start the wait for the user over.
PollAgain_RestartsCode(p) ==
    /\ pc[p] = "poll"
    /\ \E restart \in BOOLEAN : code' = [code EXCEPT ![p] = IF restart THEN CodeTTL + 1 ELSE @]
    /\ Answered(p, "loop")
    /\ UNCHANGED <<provider, live, file, stored, mem, interval, disturbed>>

\* authorization_pending or slow_down.
PollAgain(p) ==
    /\ pc[p] = "poll"
    /\ \E more \in {0, SlowDown} : interval' = [interval EXCEPT ![p] = @ + more]
    /\ Answered(p, "loop")
    /\ UNCHANGED <<provider, live, file, stored, mem, code, disturbed>>

\* The context is done: the command is interrupted while it sleeps.
Cancelled(p) ==
    /\ pc[p] = "sleeping"
    /\ End(p)
    /\ UNCHANGED <<provider, live, file, stored, disturbed>>

-----------------------------------------------------------------------------
(***************************************************************************)
(* The provider, and the answers                                           *)
(***************************************************************************)
\* A token nobody holds can never be presented: its name may stand for a new one.
Held == {stored.refresh} \cup {mem[p].refresh : p \in Procs}
Unused(r) == r \notin Held

\* The refresh token of an answer: a new one, whichever, or none.
NewRefresh ==
    IF provider = "no_refresh" THEN {NoRefresh}
    ELSE IF \E r \in RefreshIds : Unused(r) THEN {CHOOSE r \in RefreshIds : Unused(r)} ELSE {}

\* It issues a token set to a user who logged in.
Issue(p) ==
    /\ pc[p] \in {"password", "poll"}
    /\ \E r \in NewRefresh :
          /\ live' = (live \cap Held) \cup ({r} \ {NoRefresh})
          /\ mem' = [mem EXCEPT ![p] = [refresh |-> r, left |-> 0, real |-> Lifetime]]
    /\ Goto(p, "issued")
    /\ UNCHANGED <<provider, file, stored, wait, code, interval, disturbed>>

\* Mutant: the refresh token is whatever the answer has.
Kept_OnlyNew(old, new) == new

\* Rotation: without a new refresh token the client keeps the old one.
Kept(old, new) == IF new = NoRefresh THEN old ELSE new

\* It issues a token set for a refresh token it accepts, which it replaces or not.
RefreshIssue(p) ==
    /\ pc[p] = "refresh" /\ mem[p].refresh \in live
    /\ \E r \in IF provider = "rotating" THEN NewRefresh ELSE {NoRefresh} :
          /\ live' = IF r = NoRefresh THEN live ELSE ((live \cap Held) \ {mem[p].refresh}) \cup {r}
          /\ mem' = [mem EXCEPT ![p] =
                       [refresh |-> Kept(mem[p].refresh, r), left |-> 0, real |-> Lifetime]]
    /\ Goto(p, "issued")
    /\ UNCHANGED <<provider, file, stored, wait, code, interval, disturbed>>

\* The answer arrives; ExpiresAt counts from here.
Receive(p) ==
    /\ pc[p] = "issued"
    /\ mem' = [mem EXCEPT ![p].left = Lifetime]
    /\ Answered(p, "saving")
    /\ UNCHANGED <<provider, live, file, stored, code, interval, disturbed>>

\* No answer, a refusal, or one that cannot be used.  A token set that was
\* issued is lost with it.
RequestFails(p) ==
    /\ pc[p] \in Requesting
    /\ disturbed' = (disturbed \/ pc[p] = "issued")
    /\ End(p)
    /\ UNCHANGED <<provider, live, file, stored>>

-----------------------------------------------------------------------------
(***************************************************************************)
(* TokenStore.Save: os.WriteFile truncates the file, then writes it.  Two  *)
(* processes that write at once leave one set over a part of the other.    *)
(***************************************************************************)
Truncate(p) ==
    /\ pc[p] = "saving"
    /\ file' = "empty" /\ stored' = NoTokens
    /\ disturbed' = (disturbed \/ \E q \in Procs : pc[q] = "writing")
    /\ Goto(p, "writing")
    /\ UNCHANGED <<provider, live, mem, wait, code, interval>>

WriteFile(p) ==
    /\ pc[p] = "writing"
    /\ file' \in IF file = "empty" THEN {"tokens"} ELSE {"tokens", "torn"}
    /\ stored' = IF file' = "tokens" THEN mem[p] ELSE NoTokens
    /\ End(p)
    /\ UNCHANGED <<provider, live, disturbed>>

\* The directory or the file cannot be made, or the disk is full.
SaveFails(p) ==
    /\ pc[p] \in {"saving", "writing"}
    /\ file' = IF pc[p] = "writing" THEN "torn" ELSE file
    /\ stored' = IF pc[p] = "writing" THEN NoTokens ELSE stored
    /\ disturbed' = TRUE
    /\ End(p)
    /\ UNCHANGED <<provider, live>>

-----------------------------------------------------------------------------
(***************************************************************************)
(* GetValidAccessToken and RefreshAccessToken                              *)
(***************************************************************************)

\* Mutant: the margin is not looked at.
Fresh_NoMargin(tokens) == tokens.left > 0

\* A token without an expiry counts as fresh too, but no file has one: every answer
\* that is saved has got its expiry from expires_in first.
Fresh(tokens) == tokens.left > Margin

\* The stored token, if it is not about to expire; else it must be refreshed.
\* Without a file or a refresh token the command ends here: nothing changes.
GetValidAccessToken(p) ==
    /\ pc[p] = "idle" /\ Readable
    /\ Fresh(stored) \/ stored.refresh # NoRefresh
    /\ mem' = [mem EXCEPT ![p] = stored]
    /\ Goto(p, IF Fresh(stored) THEN "returned" ELSE "expired")
    /\ UNCHANGED <<provider, live, file, stored, wait, code, interval, disturbed>>

\* RefreshAccessToken loads the file again.
RefreshAccessToken(p) ==
    /\ pc[p] = "expired"
    /\ IF Readable /\ stored.refresh # NoRefresh
       THEN /\ Request(p, "refresh") /\ mem' = [mem EXCEPT ![p] = stored]
            /\ UNCHANGED <<code, interval>>
       ELSE End(p)
    /\ UNCHANGED <<provider, live, file, stored, disturbed>>

-----------------------------------------------------------------------------
(***************************************************************************)
(* The use of a token, crashes, the provider, and time                     *)
(***************************************************************************)
\* The caller has used the token it was handed.
Used(p) ==
    /\ pc[p] = "returned"
    /\ End(p)
    /\ UNCHANGED <<provider, live, file, stored, disturbed>>

Crash(p) ==
    /\ pc[p] # "idle"
    /\ disturbed' = (disturbed \/ pc[p] \in InFlight)
    /\ End(p)
    /\ UNCHANGED <<provider, live, file, stored>>

\* The provider ends a user's session.
SessionEnds ==
    /\ \E r \in live \cap Held : live' = live \ {r}
    /\ disturbed' = TRUE
    /\ UNCHANGED <<provider, file, stored, pc, mem, wait, code, interval>>

Less(n) == IF n = 0 THEN 0 ELSE n - 1
Aged(tokens) ==
    [refresh |-> tokens.refresh, left |-> Less(tokens.left), real |-> Less(tokens.real)]

\* An exchange has ended before its timeout is exceeded.
Tick ==
    /\ \A p \in Procs : pc[p] \in Requesting => wait[p] > 0
    /\ stored' = Aged(stored)
    /\ mem' = [p \in Procs |-> Aged(mem[p])]
    /\ wait' = [p \in Procs |-> Less(wait[p])]
    /\ code' = [p \in Procs |-> Less(code[p])]
    /\ UNCHANGED <<provider, live, file, pc, interval, disturbed>>

-----------------------------------------------------------------------------
Step(p) ==
    \/ DeviceCode(p) \/ LoopHead(p) \/ Poll(p) \/ PollAgain(p)
    \/ Issue(p) \/ RefreshIssue(p) \/ Receive(p) \/ RequestFails(p)
    \/ Truncate(p) \/ WriteFile(p) \/ SaveFails(p)
    \/ RefreshAccessToken(p) \/ Used(p)

TokenNext ==
    \/ Tick \/ SessionEnds
    \/ \E p \in Procs :
          Step(p) \/ Login(p) \/ GetValidAccessToken(p) \/ Cancelled(p) \/ Crash(p)

TokenSpec == TokenInit /\ [][TokenNext]_tokenVars

\* Time passes, and the scheduler runs a process that can go on; that a user
\* starts a command, interrupts it or ends it is nobody's duty.
FairTokenSpec == TokenSpec /\ WF_tokenVars(Tick) /\ \A p \in Procs : WF_tokenVars(Step(p))

-----------------------------------------------------------------------------
(***************************************************************************)
(* Properties                                                              *)
(***************************************************************************)

\* Whatever a process that may log in has begun comes to its end, whatever the
\* provider answers and however often it asks to slow down (oidc.go:203-279).
LoginEnds == \A p \in LoginProcs : []<>(pc[p] = "idle")

\* Whatever commands run at once, the user stays logged in: the file holds a refresh
\* token the provider accepts, or a process that is about to write one does.  Only
\* a fault in the middle of an exchange or of a save, two saves at once, or the
\* provider may end that (oidc.go:282-356, token_store.go:49-71).
StaysLoggedIn ==
    ~disturbed /\ provider # "no_refresh" /\ file # "missing" =>
        \/ Readable /\ stored.refresh \in live
        \/ \E p \in Procs : pc[p] \in InFlight /\ mem[p].refresh \in live

\* A stored access token that is handed out is one the provider still accepts,
\* although ExpiresAt counts from the arrival of the answer (oidc.go:122, 341, 371-374).
HandedOutIsValid ==
    [][\A p \in Procs : pc[p] = "idle" /\ pc'[p] = "returned" => mem'[p].real > 0]_tokenVars
=============================================================================
