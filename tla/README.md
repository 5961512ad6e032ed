# Verification of the ZTNA project

This directory is a TLA+ development of the ZTNA system in `src/`: the gateway
(the policy enforcement point), the control plane (policy decision point,
registry and PKI) and the client.  TLC checks the modules on small instances;
TLAPS proves the theorems for every value of the constants.

## Inventory

| Part | State it keeps | Operations | What is hard |
|---|---|---|---|
| **Gateway: session manager** (`gateway/internal/infra/session/manager.go`) | the map of active sessions, their TTL and end reason | Register, Unregister, SetEndStats, KillSession, KillBySerial, reapExpired | four kinds of goroutines remove sessions; the cancel follows outside the lock; the collector works from a snapshot |
| **Gateway: connection handlers** (`usecase/connect/handler.go`, `infra/mtls/listener.go`, `infra/proxy/tcp.go`) | one goroutine per connection, the context of its session | handshake, CRL check, decision, registration, relay, end | checks made before and used after remote calls; every return path must unregister; the relay ends only with its peers |
| **Gateway: CRL store** (`infra/revocation/crl.go`, callback in `bootstrap/app.go`) | the set of revoked serials | periodic download, compare, replace, kill | races the handlers between their check and their registration |
| **Gateway: shutdown** (`cmd/ztna-gateway/main.go`, `bootstrap/app.go`) | drain deadline | count, close the listener, drain, kill, exit | registrations that arrive during it; relays that never end |
| **Gateway: decision cache** (`infra/cache/cache.go`, `handler.go` resolveDecision) | decisions by request, with expiry | Get (two critical sections), Put (evicts), Clear | expiry races a fresh Put; a cached allow outlives a policy change |
| **Gateway: telemetry and heartbeat** (`infra/telemetry`, `infra/heartbeat`) | none | start/end notifications, beat | fire-and-forget calls race each other and the session's cancel |
| **Control plane: decisions** (`domain/policy`, `service/decision`, `api/handlers/pep_authorize.go`) | none | evaluate a request against the active policy | rule order, time windows, trust levels |
| **Control plane: policies** (`service/policy`, `store/sqlite/repo.go`) | policy versions, the active one | create, activate (a transaction), read the active one (two queries), seed | concurrent activations and reads |
| **Control plane: sessions** (`service/session`, `store/sqlite/sessions.go`) | one record per session | create, complete | an end before its start, twice, or never |
| **Control plane: gateways** (`service/gateway`, `store/sqlite/gateways.go`) | registered gateways | register, heartbeat, deactivate | a gateway never calls `/pep/register` and nothing calls `SetGatewayActive`, so nothing meets |
| **Control plane: device certificates and CRL** (`service/credentials`, `store/sqlite/device_certs.go`, `crypto/deviceca`) | certificates, revocations, the CA files | issue, revoke, publish the CRL | revocation against issue; the CA files written in two steps |
| **Published resources** (`service/resource`, `store/sqlite/resources.go`, `pep_resources.go`, the gateway's `infra/resource/client.go` and `handler.go`) | the table; the gateway's cache of answers | create, update, delete, list, seed, resolve | gateways cache them, and decide on what the cache held; concurrent misses store in the order of their answers |
| **Control plane: user authentication** (`security/oidc/validator.go`, middleware) | JWKS cache | validate, refresh | concurrent refreshes, key rotation |
| **Control plane: rate limiter** (`api/middleware/ratelimit.go`) | token buckets | allow, cleanup | clock arithmetic, cleanup against use |
| **Control plane: SSH certificates** (`service/credentials/service.go`, `crypto/sshca`) | the CA's key file | load or create, sign | choice of principals and lifetime, a duration that wraps around, a key written in place |
| **Control plane: process and database** (`main.go`, `api/httpserver`, `app`, `store/sqlite/sqlite.go`) | schema versions | migrate, seed, serve, drain, close | order of starting, one transaction per migration, a stop at every step, requests that outlast the shutdown |
| **Client: credentials** (`client/internal/infra/credentials`, `storage`) | certificate and key files | issue, save, load, connect | two files saved and read in two steps by several processes |
| **Client: tokens** (`client/internal/infra/oidc`) | token file | login, device flow, refresh | polling deadlines, rotated refresh tokens, an unlocked file |
| **Relay of a session** (the client's `usecase/access`, `infra/tunnel`; the gateway's `infra/proxy/tcp.go`) | the connections and copies of both relays | connect, relay, close | an end that must travel through two relays that end differently |

The parts meet through calls (gateway to control plane: authorize, sessions
start/end, heartbeat, resources, CRL download), the shared maps of the gateway
(sessions, decision cache, CRL set), and callbacks (the CRL store's update
callback, a session's CancelFunc).

What makes a component correct, in one line each:

* session manager: the limit of a subject is never passed, a session is ended by
  one hand and its reason is final, every session past its TTL is taken out and
  cancelled;
* handlers: every way out of a handler gives its slot back, a session cut during
  its dial is not relayed and its handler returns, a revocation takes out the
  sessions it finds;
* shutdown: it ends, and cuts no counted session before the drain deadline;
* decision cache: bounded, serves a decision to its own requests only, and no
  decision of a replaced policy longer than its TTL;
* policies: one active version, read with all its rules, never none once seeded;
* evaluation: the first rule that applies decides;
* certificates: one CA for ever, nothing issued that cannot be revoked, a
  revocation arrives;
* rate limiter: no window passes more than burst and rate, and deleting idle
  keys changes nothing;
* user authentication: a withdrawn key dies out, a published one is found;
* published resources: what is dialled is what was decided on, no staler than the
  cache's lifetime;
* the control plane's process: a start that was cut short is made up for, what was
  certified stays verifiable, a stop ends;
* tokens: a login ends, only a fault logs a user out, a token is good when it is
  handed out;
* session records: what the gateway saw acknowledged is in the table (proved); that a
  row is completed when its session closes does not hold (`end_unrecorded`);
* relay: nothing is reordered or invented, a peer that is gone ends the gateway's side
  unless the other stays and does not read, what a target sent arrives at an
  application that reads.

## Modules

`X` is the component, `MCX` its small instance for TLC, `XProofs` its theorems, but that
`GatewayProofs` has those of `SessionManager` and `Gateway`, `PolicyProofs` those of
`PolicyStore`, `ControlPlane` and `PolicyEvaluation`, `SessionProofs` those of
`SessionTelemetry` and `Relay`, and `DecisionCacheProofs` those of `PublishedResources`
too.

| Module | Code | State | Actions |
|---|---|---|---|
| `SessionRegistry` | the promise of `session/manager.go` | active, overdue, left, doomed and stopped sessions | open, lapse, leave, force out, stop; promised: what is overdue ends, what is doomed is stopped |
| `SessionManager` | `infra/session/manager.go` | the map, TTLs, reasons, the collector's snapshot, the sessions each killer holds between its unlock and its cancels | one action per critical section; `CancelFunc` is what a killer does after it unlocked |
| `Gateway` (extends `SessionManager`) | `usecase/connect/handler.go`, `infra/mtls/listener.go`, `infra/proxy/tcp.go`, `infra/revocation/crl.go`, `bootstrap/app.go`, `cmd/ztna-gateway/main.go` | a program counter and a context per connection, the two CRLs, the refresh goroutine, the shutdown | the handler from accept to return, the relay's end, the CRL goroutine and its callback, `App.Close` |
| `SessionTelemetry` | `infra/telemetry/client.go`, `api/handlers/pep_sessions.go`, `store/sqlite/sessions.go` | handler, context, two posts per session, the requests under way, the rows | spawn, send, give up, fail, lose, the two SQL statements |
| `DecisionCache` | `infra/cache/cache.go`, `resolveDecision` in `handler.go` | items with their expiry, one lookup per handler, the active version | the two halves of `Get`, `Put` with its eviction, `Clear`, the question and the answer |
| `PublishedResources` (extends `DecisionCache`) | `infra/resource/client.go`, `handler.go` from the request to the decision, `api/handlers/resources.go`, `pep_resources.go`, `service/resource`, `store/sqlite/resources.go` | the table, the gateway's cache of answers, per handler the name, what a decision is asked for and what is dialled | create, update, delete; hit, miss, the control plane's answer, store; the legacy route; the decision |
| `PolicyCatalog` | the promise of the policy store | published versions, the one in force | publish, choose |
| `PolicyStore` | `store/sqlite/repo.go`, `service/policy`, `api/handlers/admin_policies.go` | the table, the open transaction's copy of it, administrators and decisions | one action per SQL statement, commit, failure, crash, the seeding at start |
| `ControlPlane` (extends `PolicyStore`) | `main.go`, `app/app.go`, `httpserver/server.go`, `store/sqlite/sqlite.go`, `crypto/sshca`, the start's part of `crypto/deviceca`, `service/credentials/service.go`, the resource seed | how far the process is, the schema on disk and in the open transaction, the SSH CA's file and the key in memory, the device CA's certificate file, the last certificate | each step of the start, requests of `PolicyStore` gated by the process, issuing a certificate, shutdown, its deadline, exit, death |
| `PolicyEvaluation` | `domain/policy/evaluation.go`, `domain/model/resource.go` | a policy, a request, the clock, the rule being looked at | skip a rule, take it, default deny, a minute passing |
| `DeviceCertificates` | `crypto/deviceca`, `service/credentials/device_cert.go`, `store/sqlite/device_certs.go`, the client's `mtls_cert.go` and `cert_files.go`, `crl.go` | the CA's two files, a request per run of the client, the rows, the client's two files, the gateway's CRL | one action per file opened or written, sign, record, answer, revoke, refresh, stops of every process |
| `TokenBucket` | the promise of the limiter | one bucket per key, for ever | pour, pass, reject |
| `RateLimiter` | `api/middleware/ratelimit.go` | the map of lazily filled buckets | allow, deny, the cleanup, the clock |
| `JwksValidator` | `security/oidc/validator.go`, `api/middleware/user_auth.go` | the key cache, one request per goroutine, the provider's keys | lookup, download, replace, second lookup, rotation |
| `ClientTokens` | `client/internal/infra/oidc` | the token file, the provider's live refresh tokens, per command its place, its tokens and its timers | both logins, the polling loop, issue and receive, the two steps of a save, take or refresh a token, faults, time |
| `Relay` | the client's `usecase/access/service.go`, `infra/tunnel/tunnel.go`; the gateway's `infra/proxy/tcp.go` | three links with their queues, sockets and resets; four copies and what each holds; client and gateway | the CONNECT exchange, read, write and end of a copy, the closings, the peers' sends, shuts and closes |

Composition and refinement:

* `Gateway` EXTENDS `SessionManager`: a handler's `Register`, `Unregister` and
  `SetEndStats`, the callback's `KillBySerial` and the shutdown's `KillSession`
  are the manager's own actions conjoined with what the caller does.
  `ImplementsManager` says that the composition drives the manager only as its
  specification allows.
* `PublishedResources` EXTENDS `DecisionCache`: the key that `resolveDecision` asks
  for is the backend the name was resolved to.  `PepImplementsCache` proves that the
  composition is a cache as specified, so that the run of the composition is the
  run of the cache too.
* `ControlPlane` EXTENDS `PolicyStore`: each transaction's steps are enabled only in
  the stages in which the process executes them; its crash is the store's crash.
  `ProcessImplementsStore` proves it.
* `SessionManager` implements `SessionRegistry`, `PolicyStore` implements
  `PolicyCatalog` and `RateLimiter` implements `TokenBucket`, each by an
  `INSTANCE ... WITH` refinement mapping in the detailed module.

Conventions.  An action stands for one critical section, SQL statement, file
operation or message; what the code does between two of them is part of the
first.  Names of actions are those of the functions.  An operator whose name has
a suffix (`Install_ReplacesFirst`) is a plausible bug of the definition it is
named after; no specification uses it, it stands beside the definition to show
that the property that is about it would notice.

Abstractions.  Identities, serials, keys and versions are members of small sets.
Byte counters, texts and the content of certificates and tokens beyond what
decides are left out.  Clocks count ticks; in `ClientTokens` a time is kept as
what is left until it, so that its clock has no bound.  In `Gateway` everything
between a handler's CRL check and its decision that can only refuse (a bad
request, an unknown resource, a deny) is the one action `Refuse`, and the
decision is any that the control plane may give.  In `PolicyStore` a version is
the number of its rules, in `PolicyEvaluation` a pattern is a sequence of name
parts, with the host and its port as one.  In `PublishedResources` a resource is
its backend and the requests are one user's, so that a decision's key is a host and
its port.  In `ControlPlane` the migrations are a number of files whose statements
fail when executed twice, which is what `ALTER TABLE` does.  In `Relay` TLS is part
of a link, a link holds `Buffer` chunks per direction, and closing an end that has
unread chunks resets it, as TCP does.

## Runs

| Run | What it asks | Instance |
|---|---|---|
| `manager` | limit, reaping only past a TTL, final ends; the registry with its promises: every session past its TTL is taken out and everything taken out by force is cancelled, once | three sessions, two of one subject whose limit is one, two on one certificate, TTL none or one tick, two ticks |
| `gateway` | map and handlers agree, a session cut during its dial is never relayed and its handler returns, a revocation takes out what it finds, drain before kill, the manager is called as specified; the shutdown ends | two connections on one certificate, a TTL of one tick, two ticks, one revocable certificate, a shutdown that may come before the first tick |
| `revoked_race` | violated: `bootstrap/app.go:98-99` | the same without a clock and without a shutdown |
| `end_unrecorded` | violated: `migrations/004_sessions.sql:3-4` and `docs/SECURITY_FEATURES.md:126` | two sessions; posts lost, given up, failed, reordered; the gateway may exit |
| `pep` | what is dialled is what was decided on; how stale a backend and a decision may be | two interchangeable handlers, one of which may serve a second connection, one name with two backends, routes between these, room for one decision, one change of the policy or of the name, two ticks |
| `control_plane` | one active version, whole snapshots, never none, the catalog; certificates within their rights and verifiable; a start cut short is made up for but for two files, a stop ends | two administrators, one decision, two versions of two rules, two migrations, two resources, one stop or death, a failure at every statement |
| `evaluation` | the walk gives the policy's meaning, also with a moving clock; windows over midnight | all policies of no or two rules of a pool of 17, a day of four minutes, one minute passing |
| `device_certs` | one CA, nothing held that is not recorded, pairs of files, revocations arrive and stay | two runs of the client, one revocable, one stop of the control plane or the gateway |
| `rate_limiter` | equality with eternal buckets | two keys, one token a tick, burst and idle time two, six ticks |
| `user_auth` | how old a key may be; when a published key is unknown | two interchangeable requests, two keys, lifetime and timeout one, four ticks |
| `tokens` | a login ends, only a fault logs a user out, a token is good at its hand-out | two commands, one of which may be a login, three refresh tokens at once, tokens of two units, margin and timeout one, a device code of one unit polled every unit; all three kinds of provider |
| `relay` | what arrives is a prefix of what was sent, a peer that is gone ends the gateway's side unless the other stays and does not read, what a target sent arrives at an application that reads | two chunks each way, links that hold one |

Why the bounds are enough.  The races of the gateway are between one handler and
each of the collector, the refresher and the shutdown, so two connections
(a second to fill the subject's limit and to be killed in the same callback) show
every pair; the manager has three sessions because a second subject on the same
certificate is what `KillBySerial` and the limit can confuse.  The
shutdown may start before the first tick only (`StopBefore`), and the clock stands
still from then on, the drain's deadline being an action of its own: sessions that
expire and sessions that are drained are two histories of the one run, and a session
expiring during a drain is not in it; it would be one more killer beside those
already racing the drain (revocation, end by itself), each of which only takes from the map
what the drain waits for.  Both have a TTL of one tick there, `manager` has sessions
with and without one.  In `pep` one handler may hold
an answer or a decision while the other resolves the same name anew, and a second
connection of the first finds what the caches have become; the two lifetimes
differ, so that each cache outlives the other's entries.  `MaxChanges` lets either the
policy or the name change: the two caches know nothing of each other, and the
theorems are about any number of both.  Two administrators are two
writers of one SQLite file; with the seed's version and one of their own each can
activate what the other replaces;
a second migration and a second resource are what "the next one" needs.
`MaxCrashes` is one in `control_plane`: a death or a stop may come at every step, and
the start after it begins from the disk alone, which is all that a second one could
find changed.  Its durations have five bits and seconds of four units,
so that four seconds wrap around.  Policies of two rules contain the only interaction
rules have: one before the other.  One crash suffices in `device_certs` for the same
reason, and `OneCA` is proved for any number.  The limiter's six ticks are three
times its idle time.  In `tokens` two commands are two holders of one refresh token
and two writers of one file, and a third name for a refresh token is enough for the
one stored and one in each command's hand.  A device code that lives for one interval is
polled, sleeps and runs out; `slow_down` makes the interval longer than what is left.
In `relay` a chunk in a buffer, one in a
copy's hand and one unsent are three different losses, which two chunks and buffers
of one can tell apart.  Symmetry is used only where the initial states and all
actions treat the members alike, and only in runs without liveness properties.

`CHECK_DEADLOCK FALSE` stands in the configurations of components that really
come to rest: sessions that are over, handlers that have resolved at the end of the
clock, runs of the client that are done, commands that nobody starts, relays that
are closed.

## Fairness

* `SessionManager`: weak fairness of the collector, whose goroutine ticks as long
  as the process lives (`StartGarbageCollector`, manager.go), and of each killer's
  remaining `CancelFunc` calls, which follow its unlock without waiting.  The abstract
  registry promises both: an overdue session ends, a doomed one is stopped.  A collector
  that never ticks, or takes the wrong sessions, breaks the first.
* `Gateway`: weak fairness of `App.Close`'s own steps and of its cancels, whose drain
  has a deadline, and of what a handler does without a peer, its dial and its way out
  once the relay is over (`Proceed`): the dial has a timeout (`tcp.go:58-64`) and no
  other of these steps waits for anybody.  Nothing is assumed of the peers of a relay,
  of the clock or of a shutdown coming.  So `ShutdownEnds` says that the process does not stay
  between running and exited, and `CutEndsDial` that a session cut while it is dialed is
  over without any help of its peers.
* `ControlPlane`: weak fairness of the start's steps, which wait for nobody, and of the
  end (the deadline's timer, closing the store, returning).  Nothing is assumed of the
  requests, so that they may hang.
* `DeviceCertificates`: the control plane is started again after a stop, the
  refresh ticks on, and a CRL asked for again and again is installed in the end
  (strong fairness: single downloads may fail, not all of them for ever).
  `RevocationReaches` asks that a serial that is revoked is in the gateway's set from
  some time on, for good.
* `ClientTokens`: time passes, and a process that can go on does.  An exchange ends
  because of the client's timeout, which `Tick` respects.  `LoginEnds` asks that a
  command that may log in is done again and again.
* `Relay`: goroutines that can go on do, and the dial has a timeout.  Application and
  target owe nothing: they need not send, shut, close or read.  So `PeerEndsProxy`
  allows a gateway held for ever in a write to a peer that does not read (`Stalled`),
  and `DownloadArrives` an application that leaves what has arrived unread; each
  formula fails without its exception.

## Findings

Two statements of the sources that the code does not keep, each with a run whose
counterexample shows it:

* `revoked_race`: `gateway/internal/bootstrap/app.go:98-99` says that sessions of a
  newly revoked certificate are closed at once.  A handler past its CRL check, which
  registers after the callback has run, keeps its session on the revoked
  certificate until it ends by itself: later downloads no longer see the serial as
  new.  What does hold is `RevocationEndsSessions`: those that existed are gone from
  the map.
* `end_unrecorded`: `migrations/004_sessions.sql:3-4` says that the row of a session is
  completed when it closes, with a reason of which line 20 names `revoked` as one, and
  `docs/SECURITY_FEATURES.md:126` that the gateway posts the end with it.  The end is
  posted by a goroutine under the session's own context (`handler.go:359`,
  `telemetry/client.go:104`).  A session that was killed, revoked or out of time has
  one that is done already, and nothing is sent; of one that ended by itself the
  handler's deferred cancel (`handler.go:291`) may come first.  `CompletedAtClose`
  asks it only of a session at which neither the network, nor the control plane, nor
  the process failed.  `CutIsNeverRecordedHolds` shows that for a session that was cut
  this is no race: no interleaving records such an end.

Observations met while modelling, without a run of their own.

The gateway:

* `session/manager.go:183` says a kill forces the connection to close.  `TCPProxy`
  reads the context only when one copy has returned by itself (`proxy/tcp.go:105`),
  so the relay of a killed or expired session goes on until a peer closes, and no
  longer counts against its user's limit meanwhile.  `RevocationEndsSessions` is
  about the map; the row of `docs/CP_GW_FEATURES_TEST_MATRIX.md:34` that expects the
  active session to be cut does not come true for a relay that is under way.
* `proxy/tcp.go:9` speaks of strict timeouts against zombie connections.  The dial has
  one, the copies have no deadline: a client that is gone leaves the gateway's session
  behind when one copy waits in a write to a target that stays and does not read, and
  the other in a read from it (`Stalled`).
* A decision served from the cache has no TTL (`handler.go:388-393`), so its session
  has no limit, against `gateway/README.md:53`, and carries the decision id
  `cached`, which refers to no audit event.
* A session registered between the count of active sessions and the closing of the
  listener is not drained for when the count was zero (`bootstrap/app.go:175`).
* A gateway starts with an empty CRL; `strict_revocation` (`control-plane/README.md:148`)
  is read from the configuration and used nowhere.
* The handshake runs in the accept loop without a deadline (`mtls/listener.go:137`):
  one slow client keeps all others waiting.
* A resource with a backend that cannot be used is cached before it is refused, and is
  refused from the cache for a minute after it was corrected.

The control plane:

* The resource types `web` and `db` have no canonical name (`model/resource.go:53`),
  so the rules for them in `policies.yaml:22,32,37` match nothing; the types the table
  of resources allows are not those the rules know.
* `group_match` of a published resource filters the list shown to a user, and is not
  read when a gateway resolves it.  Migration 007 says that a resource that is not in
  the table does not exist in the system; a gateway's answer is up to 60 s old
  (`PublishedWithinTTL`), and its configured routes go round the table.
* A crash between creating and activating the policy seed makes the next start create
  it again (`service/policy/seed.go:49`); the catalog only gains a version.  A
  crash within the resource seed leaves a part of it for ever, since the table
  is no longer empty; a table from which everything was deleted is seeded again.
* A torn CA certificate file (`deviceca.go:112`) or SSH CA key file (`sshca.go:36`)
  blocks every later start (`Blocked`).  `ServesAgain` excepts these two states, and
  shows that no other state in which a start may be cut short blocks the next one.
* `main` returns with status 0 when a listener has failed, and the unit that
  `scripts/deploy-control-plane.sh:118` writes restarts on failure only: `StartByHand`.
* A huge `ttl_seconds` wraps around to any duration; the bounds are checked on the
  product, so the certificate stays within them (`CertWithinRights`).
* The clock is read once per rule (`evaluation.go:131`), so a walk over a boundary
  may skip two rules of which one always applied.  `DecidedWithinTheWalk` is what
  remains true.
* `RegisterGateway`'s comment says that a conflict does nothing; its statement updates
  the row and sets it active again (`store/sqlite/gateways.go:13-24`).  Nobody
  deactivates a gateway: `SetGatewayActive` has no caller.

The client:

* That a token is good when it is handed out (`HandedOutIsValid`) rests on the margin of
  30 s being at least the HTTP timeout of 20 s, by which the client's clock for it may
  lag.  It says nothing of the exchange the token is used in, which may take another
  20 s, while at worst 10 s of the token are left.  A store built without a client falls
  back to `http.DefaultClient`, which has no timeout (`oidc.go:50-54`).
* Two saves of the token file at once, or a crash within one, leave a torn or empty
  file; a refresh token that was rotated is lost when the answer or the save is.  The
  user must log in again.  `StaysLoggedIn` says that nothing else logs a user out.
* Two runs of `ztna cert` at once may leave a certificate beside another's key; the
  next connection then fails.
* The client's relay waits for both of its copies and shuts nothing in between
  (`access/service.go:86`).  So "when the application has closed, the session ends"
  and "when the application shuts its side, the target sees the end of its input" do
  not hold: a session whose target waits for the end of its input stays open at the
  gateway until the target closes.  `PeerEndsProxy` and `DownloadArrives` say what holds.
* `ztna resources` decodes an array where the control plane answers an object with
  the member `resources`.

## Theorems

For every value of the constants, under the named assumptions of each module
(`ManagerConstants`, `GatewayConstants`, `CacheConstants`, `ResourceConstants`,
`PolicyConstants`, `ControlPlaneConstants`, `EvaluationConstants`, `DeviceConstants`,
`LimiterConstants`, `JwksConstants`, `TokenConstants`, `RelayConstants`; TLC evaluates
them in every run).  Apart from types and finiteness they ask: that the gateway's
proxy reasons are reasons of the manager; that the cache has room for one entry, its
keys are finitely many and a control plane's decision has a positive TTL (others are
not put in the cache); that routes lead from keys to keys and the resource cache's
lifetime is positive; that policies are sequences whose effects are allow or deny and
whose windows lie within a day (`parseHHMM`); that a duration has a bit and the SSH
lifetimes are ordered; that runs are positive numbers; that a link holds a chunk; that
the client's margin is at least its HTTP timeout (30 s and 20 s); and, for the
limiter, `Burst <= Rate * Idle`, which `app.go` satisfies with room to spare (two
seconds to fill a bucket, five minutes to be deleted).

* `GatewayProofs`, of the manager.  `ManagerInv` strengthens the invariants by what
  ties the killers together: a session a killer holds has that killer's reason, is out
  of the map, is held by no other and has not been cancelled.  It is inductive because
  every removal tests the map under the lock.  From it: the limit, one killer, final
  reasons, reaping past the TTL only, revoked sessions cancelled, and
  `ImplementsRegistry`, where each removal maps to a leave or a forced leave and each
  `CancelFunc` to a stop.
* `GatewayProofs`, of the gateway.  `GatewayImplementsManager` is by cases on the
  actions, so every theorem of the manager holds of the gateway.  `RevocationInv`
  carries `RevocationEndsSessions` through the refresher's round: a session on a
  listed serial was registered after the listing, or its serial is still to be killed.
  `DrainInv` says what the shutdown's phase implies for the counted sessions.
  `ContextInv` ties a handler's position, the map, the killers' hands and the context: a
  session out of the map is cancelled or about to be, and one that is cancelled has a
  context that is done, so that the dial it stands in cannot succeed
  (`NoRelayAfterCancelHolds`).
* `DecisionCacheProofs`.  `CacheInv`: every item was put by a handler that asked for
  its key, its decision was active when asked or later, and its expiry is its put plus
  the TTL; the same for the answers handlers hold.  `PepImplementsCache` carries it
  over to `PublishedResources`, where `PepInv` adds the same for the cache of answers
  (each entry was published when asked or withdrawn since) and ties the key a handler
  has asked a decision for to what it resolved, and what it dials to both.
  `AuthorizedIsDialled` needs the cache's part too: a served item is of its key.
* `PolicyProofs`, of the store and the process.  `PolicyInv`: only the writer that
  holds the transaction is inside one, its draft differs from the table by its own
  statements alone, and a published version is whole.  From it one active version,
  whole snapshots, never none once seeded, and that the store implements the catalog:
  a commit maps to a publication or a choice, everything else, failures and crashes
  included, to a stutter.  `ProcessImplementsStore` carries all of it over to
  `ControlPlane` (`StoreWithinProcess`), where `KeyInv` says that the key in memory is
  the one on disk at every stage that may sign.  `CertWithinRights` is inductive by
  itself: it rests on what the choice of principals returns (`GrantIsAllowed`) and on
  the bounds being checked on the product that may have wrapped around
  (`TtlIsBounded`).
* `PolicyProofs`, of the evaluation.  `WalkInv`: each rule passed over failed to match
  at some minute of the walk.  `HoursMeanWindow`: the comparison of a minute with both
  ends is the same as counting on from the start, whatever the length of the day; it
  needs the remainder of a number below two days (`ModDay`) only, because `parseHHMM`
  lets no window reach beyond a day.
* `SessionProofs`, of the telemetry.  `TelemetryInv` adds to the two statements
  `CutStaysHere`: a session that was cut has a context that is done, and nothing on
  the wire tells of its end.  No post is sent under such a context, so none tells
  later.
* `SessionProofs`, of the relay.  `RelayInv` is `Exchange`, which says where the
  CONNECT exchange is and what it keeps off the tunnel, and `Flow` for each direction:
  from the receiver back to the sender (what was received, the queue next to the
  receiver, the hand of a copy, the tunnel, the hand of the other copy, the queue next
  to the sender) each place continues the numbering of the one ahead of it, as long as
  all copies ahead still pass on what they read.  Behind a copy that has given up
  anything may lie: that is the hypothesis the proof rests on, and that a copy which
  has ceased to pass on does not begin again (`PassesKept`) keeps it.
* `ClientTokensProofs`.  `TokenInv`: the client's clock for a token set is behind the
  provider's by the time of one exchange at most (`LagIsBounded`, from which
  `HandedOutIsValid` follows with `Timeout <= Margin`); where tokens rotate, a refresh
  token on its way to the file is in one hand only and accepted (`SoleHolder`,
  `InFlightIsLive`); one process writes at a time, into the file it emptied
  (`OneWriter`).  That it is accepted and that one process writes hold until a fault
  hits an exchange or a save, or two saves meet.
* `DeviceCertificatesProofs`.  `CAInv` (of `FilesInv`, `SignedInv` and `AskedInv`):
  once the certificate file exists whole, the key beside it is of the same generation,
  and nobody signs before that.  `HeldInv`: what a run holds is recorded.  `LoneInv`:
  what a lone save has written so far.  `ListInv`: revoked sets only grow, and what is
  on its way to the gateway is no older than what it has.
* `RateLimiterProofs`.  `WindowInv`: what a key has passed in the window and the level
  of its bucket together are within burst and rate, a key that was deleted counting as
  full.  `BucketImplemented` is the refinement.
* `JwksValidatorProofs`.  `StaleInv` bounds the age of every key in the cache or on
  its way to it by the time its download began; `DueInv` follows a request whose key
  was published all along.

Some theorems state what no run asks separately.  `OneKillerHolds`,
`ForcedReasonHolds` and `RevokedIsCancelledHolds` are parts of what
`ImplementsFairRegistry` and `EndIsFinal` ask, `ServedForItsKeyHolds` of
`AuthorizedIsDialled`, `WithinRateHolds` of `ImplementsBucket`.  The type theorems,
`CacheBoundedHolds` and the two of the session records (`AcknowledgedIsRecordedHolds`,
`CutIsNeverRecordedHolds`) are proved only.

Every invariant and every action property of the passing runs is proved.  Only
model-checked: everything temporal under fairness (`ShutdownEnds`, `CutEndsDial`,
`RevocationReaches`, `ServesAgain`, `StopsInTime`, `LoginEnds`, `PeerEndsProxy`,
`DownloadArrives` and the fair half of `ImplementsFairRegistry`), which is beyond the
prover.

## Not modelled, and why

* Configuration, framing, logging, identity parsing, routes and TLS settings keep no
  state; where they fail, the modules have the error path.
* The registry of gateways and the heartbeat: single statements, but for a read of
  the status before an update.  A gateway never registers and nothing deactivates one, so no two
  steps meet, and `last_seen` is read by nobody to decide.
* Audit events and the rows of users are appended or upserted and not read back.
* The authentication of gateways and administrators is a check of a request against
  the configuration.
* The client's catalog of resources, its calls to the control plane, its connect use
  case and its configuration are a file read at each use, one call each, and wiring.
* The legacy client's flow has been taken over by `client/`, which is modelled instead.
* Scripts, lab and infrastructure are deployment.

## Plan

Built, in this order: `SessionRegistry`, `SessionManager`, `Gateway`,
`SessionTelemetry`, `DecisionCache`, `PolicyCatalog`, `PolicyStore`,
`PolicyEvaluation`, `DeviceCertificates`, `TokenBucket`, `RateLimiter`,
`JwksValidator`, `PublishedResources`, `ControlPlane`, `ClientTokens`, `Relay`.
What is left:

1. `Authorization`: `PublishedResources` over `PolicyStore` and `PolicyEvaluation`, with an
   abstract specification of access itself: no session on a decision that no
   policy in force during the request, or within one TTL before it, would give.
2. `ClientTokens` joined with `DeviceCertificates`' runs, which begin with such a token.
