----------------------- MODULE DeviceCertificatesProofs -----------------------
(***************************************************************************)
(* Proofs about DeviceCertificates: one CA through every crash, no         *)
(* certificate out of the administrators' reach, and saves that match.     *)
(***************************************************************************)
EXTENDS DeviceCertificates, TLAPS

\* Every variable keeps its type, for any set of runs and number of crashes.
THEOREM DeviceTypeCorrect == DeviceSpec => []DeviceTypeOK
<1> USE DEF File, Absent, Torn, Whole, NoCA, NoConn
<1>1. DeviceInit => DeviceTypeOK
  BY DEF DeviceInit, DeviceTypeOK, ReqPhases, RunPhases, CPPhases
<1>2. DeviceTypeOK /\ [DeviceNext]_deviceVars => DeviceTypeOK'
  <2> SUFFICES ASSUME DeviceTypeOK, [DeviceNext]_deviceVars PROVE DeviceTypeOK'
    OBVIOUS
  <2> USE DEF DeviceTypeOK, caVars, issueVars, clientVars, gatewayVars
  <2>1. CASE StartCP
    BY <2>1 DEF StartCP, LoadCA, GenerateCA, WriteCAKey, OpenCACert, WriteCACert, CPPhases
  <2>2. CASE StopCP
    BY <2>2 DEF StopCP, CPPhases, ReqPhases
  <2>3. ASSUME NEW p \in Runs, RequestCert(p) PROVE DeviceTypeOK'
    BY <2>3 DEF RequestCert, ReqPhases, RunPhases
  <2>4. ASSUME NEW p \in Runs, Issue(p) PROVE DeviceTypeOK'
    BY <2>4 DEF Issue, SignCSR, StoreDeviceCert, Refuse, Answer, ReqPhases, RunPhases
  <2>5. ASSUME NEW p \in Runs, RevokeDeviceCert(p) \/ Expire(p) PROVE DeviceTypeOK'
    BY <2>5 DEF RevokeDeviceCert, Expire
  <2>6. ASSUME NEW p \in Runs, SaveCertAndKey(p) PROVE DeviceTypeOK'
    <3>1. Torn \in File /\ Whole(p) \in File
      BY DeviceConstants
    <3>2. ASSUME NEW phase, NEW f \in {"cert", "key"}, NEW content \in File,
                 NEW next \in RunPhases, Save(p, phase, f, content, next)
          PROVE  DeviceTypeOK'
      <4>1. files' \in [cert : File, key : File]
        <5>1. CASE f = "cert"
          BY <3>2, <5>1 DEF Save
        <5>2. CASE f = "key"
          BY <3>2, <5>2 DEF Save
        <5> QED
          BY <5>1, <5>2
      <4>2. run' \in [Runs -> RunPhases] /\ alone' \subseteq Runs
        BY <3>2 DEF Save
      <4> QED
        BY <3>2, <4>1, <4>2 DEF Save
    <3> HIDE DEF File, Torn, Whole, DeviceTypeOK
    <3>3. {"certOpen", "certWritten", "keyOpen", "done"} \subseteq RunPhases
      BY DEF RunPhases, Saving
    <3>4. CASE OpenCertFile(p)
      BY <3>4, <3>1, <3>2, <3>3 DEF OpenCertFile
    <3>5. CASE WriteCertFile(p)
      BY <3>5, <3>1, <3>2, <3>3 DEF WriteCertFile
    <3>6. CASE OpenKeyFile(p)
      BY <3>6, <3>1, <3>2, <3>3 DEF OpenKeyFile
    <3>7. CASE WriteKeyFile(p)
      BY <3>7, <3>1, <3>2, <3>3 DEF WriteKeyFile
    <3> QED
      BY <2>6, <3>4, <3>5, <3>6, <3>7 DEF SaveCertAndKey
  <2>7. ASSUME NEW p \in Runs, EndRun(p) PROVE DeviceTypeOK'
    BY <2>7 DEF EndRun, RunPhases
  <2>8. CASE Connect
    <3>1. CASE ReadCertFile
      BY <3>1 DEF ReadCertFile
    <3>2. CASE ReadKeyFile
      <4>1. CASE conn' = [conn EXCEPT !.pc = "loaded", !.key = files.key]
        BY <3>2, <4>1 DEF ReadKeyFile
      <4>2. CASE conn' = NoConn
        BY <3>2, <4>2 DEF ReadKeyFile
      <4> QED
        BY <3>2, <4>1, <4>2 DEF ReadKeyFile
    <3>3. CASE Dial
      <4>1. CASE conn' = [conn EXCEPT !.pc = "admitted"]
        BY <3>3, <4>1 DEF Dial
      <4>2. CASE conn' = NoConn
        BY <3>3, <4>2 DEF Dial
      <4> QED
        BY <3>3, <4>1, <4>2 DEF Dial
    <3>4. CASE Hangup
      <4>1. CASE conn' = [conn EXCEPT !.pc = "loaded"]
        BY <3>4, <4>1 DEF Hangup
      <4>2. CASE conn' = NoConn
        BY <3>4, <4>2 DEF Hangup
      <4> QED
        BY <3>4, <4>1, <4>2 DEF Hangup
    <3> QED
      BY <2>8, <3>1, <3>2, <3>3, <3>4 DEF Connect
  <2>9. CASE InstallTrust
    BY <2>9 DEF InstallTrust
  <2>10. CASE Refresh
    BY <2>10 DEF Refresh, ServeCRL, InstallCRL, FetchFails
  <2>11. CASE RestartGateway
    BY <2>11 DEF RestartGateway
  <2>12. CASE UNCHANGED deviceVars
    BY <2>12 DEF deviceVars
  <2> QED
    BY <2>1, <2>2, <2>3, <2>4, <2>5, <2>6, <2>7, <2>8, <2>9, <2>10, <2>11, <2>12 DEF DeviceNext
<1> QED
  BY <1>1, <1>2, PTL DEF DeviceSpec
-----------------------------------------------------------------------------
(***************************************************************************)
(* One CA                                                                  *)
(***************************************************************************)
\* What the files hold at each phase of LoadOrCreate.
FilesInv ==
    /\ disk.cert.is # "absent" => disk.key.is = "whole" /\ disk.key.of # 0
    /\ disk.cert.is = "whole" => disk.cert.of = disk.key.of
    /\ cp \in {"keyOpen", "keyWritten"} => disk.cert.is = "absent"
    /\ cp = "certOpen" => disk.cert.is = "torn"
    /\ cp \in {"keyWritten", "certOpen"} => disk.key = Whole(gens)
    /\ cp \in {"keyOpen", "keyWritten", "certOpen"} => gens # 0
    /\ cp = "up" => /\ disk.cert.is = "whole"
                    /\ ca = [key |-> disk.key.of, cert |-> disk.cert.of]

\* Whatever was signed was signed by the key the files hold.
SignedInv ==
    /\ \A p \in Runs : req[p] \in {"received", "signed", "stored"} => cp = "up"
    /\ \A p \in Runs : req[p] \in {"signed", "stored"} \/ p \in rows =>
         disk.cert.is = "whole" /\ issuer[p] = disk.key.of
    /\ trust # 0 => disk.cert.is = "whole" /\ trust = disk.cert.of

\* A run asks once: nothing recorded is signed again.
AskedInv ==
    \A p \in Runs : /\ run[p] = "idle" => req[p] = "none"
                    /\ p \in rows => req[p] \notin {"none", "received"}

CAInv == FilesInv /\ SignedInv /\ AskedInv
LEMMA CAInvStep == DeviceTypeOK /\ CAInv /\ [DeviceNext]_deviceVars => CAInv'
<1> SUFFICES ASSUME DeviceTypeOK, CAInv, [DeviceNext]_deviceVars PROVE CAInv'
  OBVIOUS
<1> USE DEF CAInv, FilesInv, SignedInv, AskedInv, DeviceTypeOK, caVars, issueVars, clientVars, gatewayVars
<1>1. CASE StartCP
  <2> USE DEF File, Absent, Torn, Whole
  <2>1. CASE LoadCA
    BY <2>1 DEF LoadCA
  <2>2. CASE GenerateCA
    BY <2>2 DEF GenerateCA, Missing
  <2>3. CASE WriteCAKey
    BY <2>3 DEF WriteCAKey
  <2>4. CASE OpenCACert
    BY <2>4 DEF OpenCACert
  <2>5. CASE WriteCACert
    BY <2>5 DEF WriteCACert
  <2> QED
    BY <1>1, <2>1, <2>2, <2>3, <2>4, <2>5 DEF StartCP
<1>2. CASE StopCP
  BY <1>2 DEF StopCP
<1>3. ASSUME NEW p \in Runs, RequestCert(p) PROVE CAInv'
  BY <1>3 DEF RequestCert
<1>4. ASSUME NEW p \in Runs, Issue(p) PROVE CAInv'
  <2>1. CASE SignCSR(p)
    BY <2>1 DEF SignCSR
  <2>2. CASE StoreDeviceCert(p)
    BY <2>2 DEF StoreDeviceCert
  <2>3. CASE Refuse(p)
    BY <2>3 DEF Refuse
  <2>4. CASE Answer(p)
    BY <2>4 DEF Answer
  <2> QED
    BY <1>4, <2>1, <2>2, <2>3, <2>4 DEF Issue
<1>5. ASSUME NEW p \in Runs, RevokeDeviceCert(p) \/ Expire(p) PROVE CAInv'
  BY <1>5 DEF RevokeDeviceCert, Expire
<1>6. ASSUME NEW p \in Runs, SaveCertAndKey(p) PROVE CAInv'
  BY <1>6 DEF SaveCertAndKey, OpenCertFile, WriteCertFile, OpenKeyFile, WriteKeyFile, Save
<1>7. ASSUME NEW p \in Runs, EndRun(p) PROVE CAInv'
  BY <1>7 DEF EndRun, Saving
<1>8. CASE Connect
  BY <1>8 DEF Connect, ReadCertFile, ReadKeyFile, Dial, Hangup
<1>9. CASE InstallTrust
  BY <1>9 DEF InstallTrust
<1>10. CASE Refresh
  BY <1>10 DEF Refresh, ServeCRL, InstallCRL, FetchFails
<1>11. CASE RestartGateway
  BY <1>11 DEF RestartGateway
<1>12. CASE UNCHANGED deviceVars
  BY <1>12 DEF deviceVars
<1> QED
  BY <1>1, <1>2, <1>3, <1>4, <1>5, <1>6, <1>7, <1>8, <1>9, <1>10, <1>11, <1>12 DEF DeviceNext

\* Wherever LoadOrCreate is cut short, every recorded certificate is signed by
\* the one CA the gateways trust.
THEOREM OneCAHolds == DeviceSpec => []OneCA
<1>1. DeviceInit => CAInv
  BY DEF DeviceInit, CAInv, FilesInv, SignedInv, AskedInv, Absent
<1>2. DeviceTypeOK /\ CAInv => OneCA
  <2> SUFFICES ASSUME DeviceTypeOK, CAInv PROVE OneCA
    OBVIOUS
  <2>1. \A p \in rows : disk.cert.is = "whole" /\ issuer[p] = disk.key.of
    BY DEF CAInv, SignedInv, DeviceTypeOK
  <2> QED
    BY <2>1 DEF OneCA, CAInv, FilesInv, SignedInv
<1> QED
  BY <1>1, <1>2, CAInvStep, DeviceTypeCorrect, PTL DEF DeviceSpec
-----------------------------------------------------------------------------
(***************************************************************************)
(* What clients hold                                                       *)
(***************************************************************************)
\* Certificates reach a run, its files and a connecting client from rows only.
HeldInv ==
    /\ \A p \in Runs : req[p] = "stored" \/ run[p] \in Holding => p \in rows
    /\ files.cert.is = "whole" => files.cert.of \in rows
    /\ conn.cert.is = "whole" => conn.cert.of \in rows
    /\ conn.pc = "admitted" => conn.cert.is = "whole"

LEMMA HeldInvStep == DeviceTypeOK /\ HeldInv /\ [DeviceNext]_deviceVars => HeldInv'
<1> SUFFICES ASSUME DeviceTypeOK, HeldInv, [DeviceNext]_deviceVars PROVE HeldInv'
  OBVIOUS
<1> USE DEF HeldInv, DeviceTypeOK, Holding, Saving, caVars, issueVars, clientVars, gatewayVars
<1>1. CASE StartCP
  BY <1>1 DEF StartCP, LoadCA, GenerateCA, WriteCAKey, OpenCACert, WriteCACert
<1>2. CASE StopCP
  BY <1>2 DEF StopCP
<1>3. ASSUME NEW p \in Runs, RequestCert(p) PROVE HeldInv'
  BY <1>3 DEF RequestCert
<1>4. ASSUME NEW p \in Runs, Issue(p) PROVE HeldInv'
  BY <1>4 DEF Issue, SignCSR, StoreDeviceCert, Refuse, Answer
<1>5. ASSUME NEW p \in Runs, RevokeDeviceCert(p) \/ Expire(p) PROVE HeldInv'
  BY <1>5 DEF RevokeDeviceCert, Expire
<1>6. ASSUME NEW p \in Runs, SaveCertAndKey(p) PROVE HeldInv'
  <2> USE DEF File, Torn, Whole
  <2>1. CASE OpenCertFile(p)
    BY <2>1 DEF OpenCertFile, Save
  <2>2. CASE WriteCertFile(p)
    BY <2>2 DEF WriteCertFile, Save
  <2>3. CASE OpenKeyFile(p)
    BY <2>3 DEF OpenKeyFile, Save
  <2>4. CASE WriteKeyFile(p)
    BY <2>4 DEF WriteKeyFile, Save
  <2> QED
    BY <1>6, <2>1, <2>2, <2>3, <2>4 DEF SaveCertAndKey
<1>7. ASSUME NEW p \in Runs, EndRun(p) PROVE HeldInv'
  BY <1>7 DEF EndRun
<1>8. CASE Connect
  <2> USE DEF NoConn, Absent, File
  <2>1. CASE ReadCertFile
    BY <2>1 DEF ReadCertFile
  <2>2. CASE ReadKeyFile
    BY <2>2 DEF ReadKeyFile
  <2>3. CASE Dial
    BY <2>3 DEF Dial, FitsKey
  <2>4. CASE Hangup
    BY <2>4 DEF Hangup
  <2> QED
    BY <1>8, <2>1, <2>2, <2>3, <2>4 DEF Connect
<1>9. CASE InstallTrust
  BY <1>9 DEF InstallTrust
<1>10. CASE Refresh
  BY <1>10 DEF Refresh, ServeCRL, InstallCRL, FetchFails
<1>11. CASE RestartGateway
  BY <1>11 DEF RestartGateway, NoConn, Absent
<1>12. CASE UNCHANGED deviceVars
  BY <1>12 DEF deviceVars
<1> QED
  BY <1>1, <1>2, <1>3, <1>4, <1>5, <1>6, <1>7, <1>8, <1>9, <1>10, <1>11, <1>12 DEF DeviceNext

\* No client holds, or is admitted with, a certificate without a row.
THEOREM HeldIsRecordedHolds == DeviceSpec => []HeldIsRecorded
<1>1. DeviceInit => HeldInv
  BY DEF DeviceInit, HeldInv, Holding, Saving, NoConn, Absent
<1>2. HeldInv => HeldIsRecorded
  BY DEF HeldInv, HeldIsRecorded
<1> QED
  BY <1>1, <1>2, HeldInvStep, DeviceTypeCorrect, PTL DEF DeviceSpec

\* A save nobody has written into has left what it wrote so far.
LoneInv ==
    \A p \in alone :
      /\ run[p] \in {"certWritten", "keyOpen", "done"} => files.cert = Whole(p)
      /\ run[p] = "done" => files.key = Whole(p)
      /\ alone = {p} /\ run[p] \notin {"idle", "waiting", "answered"}

LEMMA LoneInvStep == DeviceTypeOK /\ LoneInv /\ [DeviceNext]_deviceVars => LoneInv'
<1> SUFFICES ASSUME DeviceTypeOK, LoneInv, [DeviceNext]_deviceVars PROVE LoneInv'
  OBVIOUS
<1> USE DEF LoneInv, DeviceTypeOK, caVars, issueVars, clientVars, gatewayVars
<1>1. CASE StartCP
  BY <1>1 DEF StartCP, LoadCA, GenerateCA, WriteCAKey, OpenCACert, WriteCACert
<1>2. CASE StopCP
  BY <1>2 DEF StopCP
<1>3. ASSUME NEW p \in Runs, RequestCert(p) PROVE LoneInv'
  BY <1>3 DEF RequestCert
<1>4. ASSUME NEW p \in Runs, Issue(p) PROVE LoneInv'
  BY <1>4 DEF Issue, SignCSR, StoreDeviceCert, Refuse, Answer
<1>5. ASSUME NEW p \in Runs, RevokeDeviceCert(p) \/ Expire(p) PROVE LoneInv'
  BY <1>5 DEF RevokeDeviceCert, Expire
<1>6. ASSUME NEW p \in Runs, SaveCertAndKey(p) PROVE LoneInv'
  <2>1. CASE OpenCertFile(p)
    BY <2>1 DEF OpenCertFile, Save
  <2>2. CASE WriteCertFile(p)
    BY <2>2 DEF WriteCertFile, Save
  <2>3. CASE OpenKeyFile(p)
    BY <2>3 DEF OpenKeyFile, Save
  <2>4. CASE WriteKeyFile(p)
    BY <2>4 DEF WriteKeyFile, Save
  <2> QED
    BY <1>6, <2>1, <2>2, <2>3, <2>4 DEF SaveCertAndKey
<1>7. ASSUME NEW p \in Runs, EndRun(p) PROVE LoneInv'
  BY <1>7 DEF EndRun
<1>8. CASE Connect
  BY <1>8 DEF Connect, ReadCertFile, ReadKeyFile, Dial, Hangup
<1>9. CASE InstallTrust
  BY <1>9 DEF InstallTrust
<1>10. CASE Refresh
  BY <1>10 DEF Refresh, ServeCRL, InstallCRL, FetchFails
<1>11. CASE RestartGateway
  BY <1>11 DEF RestartGateway
<1>12. CASE UNCHANGED deviceVars
  BY <1>12 DEF deviceVars
<1> QED
  BY <1>1, <1>2, <1>3, <1>4, <1>5, <1>6, <1>7, <1>8, <1>9, <1>10, <1>11, <1>12 DEF DeviceNext

\* A save that was alone leaves a certificate with its key, however many runs
\* saved, failed or were killed before it.
THEOREM LoneSaveMatchesHolds == DeviceSpec => []LoneSaveMatches
<1>1. DeviceInit => LoneInv
  BY DEF DeviceInit, LoneInv
<1>2. DeviceTypeOK /\ LoneInv => LoneSaveMatches
  BY DEF DeviceTypeOK, LoneInv, LoneSaveMatches
<1> QED
  BY <1>1, <1>2, LoneInvStep, DeviceTypeCorrect, PTL DEF DeviceSpec
-----------------------------------------------------------------------------
(***************************************************************************)
(* The gateway's set                                                       *)
(***************************************************************************)
\* A CRL under way lists all the gateway knows: rows stay revoked.
ListInv ==
    /\ gwRevoked \subseteq revoked
    /\ fetch = "answered" => gwRevoked \subseteq crl /\ crl \subseteq revoked

LEMMA ListInvStep == ListInv /\ [DeviceNext]_deviceVars => ListInv'
<1> USE DEF ListInv, caVars, issueVars, clientVars, gatewayVars
<1> SUFFICES ASSUME ListInv, [DeviceNext]_deviceVars PROVE ListInv'
  OBVIOUS
<1>1. CASE UNCHANGED <<gwRevoked, revoked, fetch, crl>>
  BY <1>1
<1>2. ASSUME NEW p \in Runs, RevokeDeviceCert(p) PROVE ListInv'
  BY <1>2 DEF RevokeDeviceCert
<1>3. CASE Refresh
  BY <1>3 DEF Refresh, ServeCRL, InstallCRL, FetchFails
<1>4. CASE RestartGateway
  BY <1>4 DEF RestartGateway
<1> QED
  BY <1>1, <1>2, <1>3, <1>4 DEF DeviceNext, deviceVars, StartCP, LoadCA, GenerateCA, WriteCAKey,
     OpenCACert, WriteCACert, StopCP, RequestCert, Issue, SignCSR, StoreDeviceCert, Refuse,
     Answer, Expire, SaveCertAndKey, OpenCertFile, WriteCertFile, OpenKeyFile, WriteKeyFile,
     Save, EndRun, Connect, ReadCertFile, ReadKeyFile, Dial, Hangup, InstallTrust

LEMMA ListStep ==
    ListInv /\ [DeviceNext]_deviceVars => [gwRevoked \subseteq gwRevoked' \/ RestartGateway]_deviceVars
<1> USE DEF ListInv, caVars, issueVars, clientVars, gatewayVars
<1> SUFFICES ASSUME ListInv, DeviceNext PROVE gwRevoked \subseteq gwRevoked' \/ RestartGateway
  OBVIOUS
<1>1. CASE UNCHANGED gwRevoked
  BY <1>1
<1>2. CASE Refresh
  BY <1>2 DEF Refresh, ServeCRL, InstallCRL, FetchFails
<1> QED
  BY <1>1, <1>2 DEF DeviceNext, StartCP, LoadCA, GenerateCA, WriteCAKey,
     OpenCACert, WriteCACert, StopCP, RequestCert, Issue, SignCSR, StoreDeviceCert, Refuse,
     Answer, RevokeDeviceCert, Expire, SaveCertAndKey, OpenCertFile, WriteCertFile, OpenKeyFile,
     WriteKeyFile, Save, EndRun, Connect, ReadCertFile, ReadKeyFile, Dial, Hangup, InstallTrust

\* What the gateway once listed as revoked it lists until it starts again.
THEOREM ListedStaysListedHolds == DeviceSpec => ListedStaysListed
<1>1. DeviceInit => ListInv
  BY DEF DeviceInit, ListInv
<1> QED
  BY <1>1, ListInvStep, ListStep, PTL DEF DeviceSpec, ListedStaysListed
=============================================================================
