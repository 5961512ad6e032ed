-------------------------- MODULE DeviceCertificates --------------------------
(***************************************************************************)
(* The life of device certificates: the control plane makes its CA at the  *)
(* first start (crypto/deviceca), signs and records certificates, revokes  *)
(* them and publishes the CRL (service/credentials, store/sqlite/          *)
(* device_certs.go); runs of the client's `ztna cert` ask for one and save *)
(* it with its key in two files (infra/credentials, infra/storage); a      *)
(* client connects with what the files hold; the gateway trusts one CA     *)
(* and refreshes its CRL (infra/revocation/crl.go).  Every process may     *)
(* stop at any step.  A run's key and certificate go by the run's number.  *)
(***************************************************************************)
EXTENDS Integers

CONSTANTS
    Runs,        \* runs of `ztna cert` on one machine, each with its key
    Revocable,   \* bound: the certificates an administrator may revoke
    MaxCrashes   \* bound: stops of the control plane and of the gateway

ASSUME DeviceConstants ==
    Runs \subseteq Nat \ {0} /\ Revocable \subseteq Runs /\ MaxCrashes \in Nat

VARIABLES
    disk,      \* the control plane's CA files: key and certificate
    cp,        \* where the control plane is in LoadOrCreate, "up" once it serves
    ca,        \* the CA in its memory: the generations of key and certificate
    gens,      \* CAs generated so far
    req,       \* the request of each run in the control plane
    issuer,    \* the generation of the CA key that signed the run's certificate
    rows,      \* device_certs: the recorded certificates
    revoked,   \* the rows with revoked = 1
    expired,   \* certificates past their NotAfter
    run,       \* where each run is
    files,     \* the client's files: client.crt and client.key
    alone,     \* history: runs during whose save no other run wrote
    conn,      \* a connecting client, and what it read of the files
    trust,     \* generation of the CA certificate in the gateway's client_ca_file
    gwRevoked, \* the gateway's set of revoked serials
    fetch,     \* where its refresh is
    crl,       \* the CRL under way to it
    crashes    \* bound: stops so far

caVars == <<disk, cp, ca, gens>>
issueVars == <<req, issuer, rows>>
clientVars == <<run, files, alone, conn>>
gatewayVars == <<trust, gwRevoked, fetch, crl>>
deviceVars == <<caVars, issueVars, revoked, expired, clientVars, gatewayVars, crashes>>

File == [is : {"absent", "torn", "whole"}, of : Nat]
Absent == [is |-> "absent", of |-> 0]
Torn == [is |-> "torn", of |-> 0]
Whole(x) == [is |-> "whole", of |-> x]

NoCA == [key |-> 0, cert |-> 0]
NoConn == [pc |-> "off", cert |-> Absent, key |-> Absent]

\* Files a run has begun to write and not finished.
Saving == {"certOpen", "certWritten", "keyOpen"}

DeviceInit ==
    /\ disk = [key |-> Absent, cert |-> Absent]
    /\ cp = "down" /\ ca = NoCA /\ gens = 0
    /\ req = [p \in Runs |-> "none"] /\ issuer = [p \in Runs |-> 0]
    /\ rows = {} /\ revoked = {} /\ expired = {}
    /\ run = [p \in Runs |-> "idle"]
    /\ files = [cert |-> Absent, key |-> Absent] /\ alone = {}
    /\ conn = NoConn
    /\ trust = 0 /\ gwRevoked = {} /\ fetch = "idle" /\ crl = {}
    /\ crashes = 0

-----------------------------------------------------------------------------
(***************************************************************************)
(* The CA of the control plane                                             *)
(***************************************************************************)
Missing == disk.key.is = "absent" \/ disk.cert.is = "absent"

\* Both files parse; with a torn one the start fails, and so does the next.
LoadCA ==
    /\ cp = "down" /\ disk.key.is = "whole" /\ disk.cert.is = "whole"
    /\ cp' = "up"
    /\ ca' = [key |-> disk.key.of, cert |-> disk.cert.of]
    /\ UNCHANGED <<disk, gens, issueVars, revoked, expired, clientVars, gatewayVars, crashes>>

\* Mutant: a new CA at every start.
GenerateCA_Always ==
    /\ cp = "down"
    /\ gens' = gens + 1
    /\ disk' = [disk EXCEPT !.key = Torn]
    /\ cp' = "keyOpen"
    /\ UNCHANGED <<ca, issueVars, revoked, expired, clientVars, gatewayVars, crashes>>

\* A file is missing: a fresh key, and its file is created or truncated.
GenerateCA ==
    /\ cp = "down" /\ Missing
    /\ gens' = gens + 1
    /\ disk' = [disk EXCEPT !.key = Torn]
    /\ cp' = "keyOpen"
    /\ UNCHANGED <<ca, issueVars, revoked, expired, clientVars, gatewayVars, crashes>>

WriteCAKey ==
    /\ cp = "keyOpen"
    /\ disk' = [disk EXCEPT !.key = Whole(gens)]
    /\ cp' = "keyWritten"
    /\ UNCHANGED <<ca, gens, issueVars, revoked, expired, clientVars, gatewayVars, crashes>>

OpenCACert ==
    /\ cp = "keyWritten"
    /\ disk' = [disk EXCEPT !.cert = Torn]
    /\ cp' = "certOpen"
    /\ UNCHANGED <<ca, gens, issueVars, revoked, expired, clientVars, gatewayVars, crashes>>

WriteCACert ==
    /\ cp = "certOpen"
    /\ disk' = [disk EXCEPT !.cert = Whole(gens)]
    /\ cp' = "up"
    /\ ca' = [key |-> gens, cert |-> gens]
    /\ UNCHANGED <<gens, issueVars, revoked, expired, clientVars, gatewayVars, crashes>>

\* The process ends, or a write failed and New returned the error.
StopCP ==
    /\ cp # "down" /\ crashes < MaxCrashes
    /\ crashes' = crashes + 1
    /\ cp' = "down" /\ ca' = NoCA
    /\ req' = [p \in Runs |-> IF req[p] \in {"received", "signed", "stored"}
                              THEN "failed" ELSE req[p]]
    /\ UNCHANGED <<disk, gens, issuer, rows, revoked, expired, clientVars, gatewayVars>>

-----------------------------------------------------------------------------
(***************************************************************************)
(* Issue and revocation                                                    *)
(***************************************************************************)
\* RequestMTLSCertFromCP: a key, a CSR, the call.
RequestCert(p) ==
    /\ run[p] = "idle" /\ cp = "up"
    /\ run' = [run EXCEPT ![p] = "waiting"]
    /\ req' = [req EXCEPT ![p] = "received"]
    /\ UNCHANGED <<caVars, issuer, rows, revoked, expired, files, alone, conn, gatewayVars, crashes>>

SignCSR(p) ==
    /\ req[p] = "received" /\ cp = "up"
    /\ issuer' = [issuer EXCEPT ![p] = ca.key]
    /\ req' = [req EXCEPT ![p] = "signed"]
    /\ UNCHANGED <<caVars, rows, revoked, expired, clientVars, gatewayVars, crashes>>

StoreDeviceCert(p) ==
    /\ req[p] = "signed"
    /\ rows' = rows \cup {p}
    /\ req' = [req EXCEPT ![p] = "stored"]
    /\ UNCHANGED <<caVars, issuer, revoked, expired, clientVars, gatewayVars, crashes>>

\* Invalid input, a TTL below the minimum, or an error of the signature or the store.
Refuse(p) ==
    /\ req[p] \in {"received", "signed"}
    /\ req' = [req EXCEPT ![p] = "failed"]
    /\ UNCHANGED <<caVars, issuer, rows, revoked, expired, clientVars, gatewayVars, crashes>>

\* Mutant: the answer leaves before the certificate is recorded.
Answer_Unrecorded(p) ==
    /\ req[p] \in {"signed", "stored"} /\ run[p] = "waiting"
    /\ run' = [run EXCEPT ![p] = "answered"]
    /\ UNCHANGED <<caVars, issueVars, revoked, expired, files, alone, conn, gatewayVars, crashes>>

\* The certificate reaches the run, which finds that it fits its key.
Answer(p) ==
    /\ req[p] = "stored" /\ run[p] = "waiting"
    /\ run' = [run EXCEPT ![p] = "answered"]
    /\ UNCHANGED <<caVars, issueVars, revoked, expired, files, alone, conn, gatewayVars, crashes>>

\* DELETE /admin/device-certs/{serial}: a row that is not revoked yet.
RevokeDeviceCert(p) ==
    /\ cp = "up" /\ p \in (rows \cap Revocable) \ revoked
    /\ revoked' = revoked \cup {p}
    /\ UNCHANGED <<caVars, issueVars, expired, clientVars, gatewayVars, crashes>>

Expire(p) ==
    /\ p \in rows \ expired
    /\ expired' = expired \cup {p}
    /\ UNCHANGED <<caVars, issueVars, revoked, clientVars, gatewayVars, crashes>>

-----------------------------------------------------------------------------
(***************************************************************************)
(* The client's files                                                      *)
(***************************************************************************)
\* A step of run p's SaveCertAndKey: p writes f and goes to phase next.
Save(p, phase, f, content, next) ==
    /\ run[p] = phase
    /\ files' = [files EXCEPT ![f] = content]
    /\ alone' = IF phase = "answered" THEN {p} ELSE alone \cap {p}
    /\ run' = [run EXCEPT ![p] = next]
    /\ UNCHANGED <<caVars, issueVars, revoked, expired, conn, gatewayVars, crashes>>

OpenCertFile(p) == Save(p, "answered", "cert", Torn, "certOpen")
WriteCertFile(p) == Save(p, "certOpen", "cert", Whole(p), "certWritten")
\* Mutant: a key file that is there already is kept.
OpenKeyFile_Keeps(p) ==
    Save(p, "certWritten", "key", files.key, IF files.key = Absent THEN "keyOpen" ELSE "done")
OpenKeyFile(p) == Save(p, "certWritten", "key", Torn, "keyOpen")
WriteKeyFile(p) == Save(p, "keyOpen", "key", Whole(p), "done")

\* The call fails or times out, a write fails, or the process is killed.
EndRun(p) ==
    /\ run[p] \in {"waiting", "answered"} \cup Saving
    /\ run' = [run EXCEPT ![p] = "failed"]
    /\ UNCHANGED <<caVars, issueVars, revoked, expired, files, alone, conn, gatewayVars, crashes>>

-----------------------------------------------------------------------------
(***************************************************************************)
(* A client that connects                                                  *)
(***************************************************************************)
ReadCertFile ==
    /\ conn.pc = "off" /\ files.cert.is # "absent"
    /\ conn' = [conn EXCEPT !.pc = "half", !.cert = files.cert]
    /\ UNCHANGED <<caVars, issueVars, revoked, expired, run, files, alone, gatewayVars, crashes>>

Usable(cert) == ~(cert.is = "whole" /\ cert.of \in expired)

\* LoadCertAndKey: the key file, then the expiry of a certificate that parses.
ReadKeyFile ==
    /\ conn.pc = "half"
    /\ conn' = IF files.key.is # "absent" /\ Usable(conn.cert)
               THEN [conn EXCEPT !.pc = "loaded", !.key = files.key]
               ELSE NoConn
    /\ UNCHANGED <<caVars, issueVars, revoked, expired, run, files, alone, gatewayVars, crashes>>

\* X509KeyPair in the client; the chain, the dates and the CRL in the gateway.
FitsKey == conn.cert.is = "whole" /\ conn.key = conn.cert
GatewayAccepts(p) == trust # 0 /\ issuer[p] = trust /\ p \notin expired \cup gwRevoked

\* Connect; `ztna access` comes back with the same pair for its next connection.
Dial ==
    /\ conn.pc = "loaded"
    /\ \/ /\ FitsKey /\ GatewayAccepts(conn.cert.of)
          /\ conn' = [conn EXCEPT !.pc = "admitted"]
       \/ conn' = NoConn
    /\ UNCHANGED <<caVars, issueVars, revoked, expired, run, files, alone, gatewayVars, crashes>>

Hangup ==
    /\ conn.pc = "admitted"
    /\ conn' \in {[conn EXCEPT !.pc = "loaded"], NoConn}
    /\ UNCHANGED <<caVars, issueVars, revoked, expired, run, files, alone, gatewayVars, crashes>>

-----------------------------------------------------------------------------
(***************************************************************************)
(* The gateway                                                             *)
(***************************************************************************)
\* The operator installs what GET /pki/device-ca/cert answers.
InstallTrust ==
    /\ trust = 0 /\ cp = "up"
    /\ trust' = ca.cert
    /\ UNCHANGED <<caVars, issueVars, revoked, expired, clientVars, gwRevoked, fetch, crl, crashes>>

\* Mutant: certificates past their end are left out of the CRL.
ServeCRL_Unexpired ==
    /\ fetch = "idle" /\ cp = "up"
    /\ fetch' = "answered" /\ crl' = revoked \ expired
    /\ UNCHANGED <<caVars, issueVars, revoked, expired, clientVars, trust, gwRevoked, crashes>>

\* A tick of StartAutoRefresh, and the CRL of the rows revoked by now.
ServeCRL ==
    /\ fetch = "idle" /\ cp = "up"
    /\ fetch' = "answered" /\ crl' = revoked
    /\ UNCHANGED <<caVars, issueVars, revoked, expired, clientVars, trust, gwRevoked, crashes>>

InstallCRL ==
    /\ fetch = "answered"
    /\ gwRevoked' = crl
    /\ fetch' = "idle" /\ crl' = {}
    /\ UNCHANGED <<caVars, issueVars, revoked, expired, clientVars, trust, crashes>>

\* Mutant: the first failure ends the refresh loop.
FetchFails_EndsLoop ==
    /\ fetch = "answered"
    /\ fetch' = "stopped"
    /\ UNCHANGED <<caVars, issueVars, revoked, expired, clientVars, trust, gwRevoked, crl, crashes>>

\* A timeout, a status, a body that does not parse: only logged.
FetchFails ==
    /\ fetch = "answered"
    /\ fetch' = "idle" /\ crl' = {}
    /\ UNCHANGED <<caVars, issueVars, revoked, expired, clientVars, trust, gwRevoked, crashes>>

\* The gateway starts again, with an empty set, and drops its connections.
RestartGateway ==
    /\ crashes < MaxCrashes
    /\ crashes' = crashes + 1
    /\ gwRevoked' = {} /\ fetch' = "idle" /\ crl' = {}
    /\ conn' = IF conn.pc = "admitted" THEN NoConn ELSE conn
    /\ UNCHANGED <<caVars, issueVars, revoked, expired, run, files, alone, trust>>

-----------------------------------------------------------------------------
StartCP == LoadCA \/ GenerateCA \/ WriteCAKey \/ OpenCACert \/ WriteCACert
Issue(p) == SignCSR(p) \/ StoreDeviceCert(p) \/ Refuse(p) \/ Answer(p)
SaveCertAndKey(p) == OpenCertFile(p) \/ WriteCertFile(p) \/ OpenKeyFile(p) \/ WriteKeyFile(p)
Connect == ReadCertFile \/ ReadKeyFile \/ Dial \/ Hangup
Refresh == ServeCRL \/ InstallCRL \/ FetchFails

DeviceNext ==
    \/ StartCP \/ StopCP
    \/ \E p \in Runs : RequestCert(p) \/ Issue(p) \/ RevokeDeviceCert(p) \/ Expire(p)
    \/ \E p \in Runs : SaveCertAndKey(p) \/ EndRun(p)
    \/ Connect
    \/ InstallTrust \/ Refresh \/ RestartGateway

DeviceSpec == DeviceInit /\ [][DeviceNext]_deviceVars

\* The control plane is started again, the refresh goroutine ticks on and a
\* CRL that is asked for again and again arrives.
FairDeviceSpec ==
    /\ DeviceSpec
    /\ WF_deviceVars(StartCP) /\ WF_deviceVars(ServeCRL) /\ SF_deviceVars(InstallCRL)

-----------------------------------------------------------------------------
RunPhases == {"idle", "waiting", "answered", "done", "failed"} \cup Saving
\* A run that holds its certificate.
Holding == {"answered", "done"} \cup Saving
ReqPhases == {"none", "received", "signed", "stored", "failed"}
CPPhases == {"down", "keyOpen", "keyWritten", "certOpen", "up"}

\* The variables stay in their types.
DeviceTypeOK ==
    /\ disk \in [key : File, cert : File] /\ cp \in CPPhases
    /\ ca \in [key : Nat, cert : Nat] /\ gens \in Nat
    /\ req \in [Runs -> ReqPhases] /\ issuer \in [Runs -> Nat]
    /\ rows \subseteq Runs /\ revoked \subseteq Runs /\ expired \subseteq Runs
    /\ run \in [Runs -> RunPhases] /\ files \in [cert : File, key : File]
    /\ alone \subseteq Runs
    /\ conn \in [pc : {"off", "half", "loaded", "admitted"}, cert : File, key : File]
    /\ trust \in Nat /\ gwRevoked \subseteq Runs
    /\ fetch \in {"idle", "answered"} /\ crl \subseteq Runs /\ crashes \in Nat

\* Whatever crashes come in LoadOrCreate's two writes, every certificate ever
\* recorded is signed by one and the same CA, the one a gateway trusts.
OneCA ==
    /\ \A p, q \in rows : issuer[p] = issuer[q]
    /\ trust # 0 => \A p \in rows : issuer[p] = trust

\* A certificate that a client holds or is admitted with has a row in
\* device_certs: an administrator can revoke it.
HeldIsRecorded ==
    /\ \A p \in Runs : run[p] \in Holding => p \in rows
    /\ conn.pc = "admitted" => conn.cert.of \in rows

\* A save that no other run wrote into leaves a certificate with its key,
\* whatever earlier runs left behind.
LoneSaveMatches ==
    \A p \in Runs : run[p] = "done" /\ p \in alone => files = [cert |-> Whole(p), key |-> Whole(p)]

\* Serials leave the gateway's set only when the gateway starts again.
ListedStaysListed == [][gwRevoked \subseteq gwRevoked' \/ RestartGateway]_deviceVars

\* A revoked certificate ends up in the gateway's set for good, however many
\* downloads fail and whatever starts again.
RevocationReaches == \A p \in Revocable : <>[](p \in revoked => p \in gwRevoked)
=============================================================================
