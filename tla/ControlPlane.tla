------------------------------ MODULE ControlPlane ------------------------------
(***************************************************************************)
(* The control plane's process from its start to its exit (main.go,        *)
(* app/app.go, httpserver/server.go, sqlite.go, sshca.go, deviceca.go):    *)
(* the database is migrated, the key of the SSH CA and the files of the    *)
(* device CA are loaded or created, policy and resources seeded, requests  *)
(* are served, and a signal or a failed listener drains the servers and    *)
(* closes the store.  The process may die at any step and is started       *)
(* again.  The policy's transactions are those of PolicyStore; the other   *)
(* request followed to its end is the one for an SSH certificate           *)
(* (service/credentials), signed with the key the process holds.           *)
(***************************************************************************)
EXTENDS PolicyStore, Integers, Sequences

CONSTANTS
    NMigrations,   \* files in migrations/
    NResources,    \* entries of the resource seed
    Templates,     \* sshca.allowed_principals, in order
    Requests,      \* requests for a certificate: user, principals, seconds (0: not given)
    Second, Width, \* a duration is an integer of Width bits, Second units to a second
    DefaultTTL, MinTTL, MaxTTL

UserName == "${username}"
Absent == 0
Torn == -1
Whole == 1

\* A duration is an integer of Width bits, from -Half to Half - 1.
Half == 2^(Width - 1)

NoCert == [by |-> Absent, user |-> "", principals |-> {}, ttl |-> 0]

ASSUME ControlPlaneConstants ==
    /\ NMigrations \in Nat /\ NResources \in Nat
    /\ Second \in Nat \ {0} /\ Width \in Nat \ {0} /\ Half \in Nat \ {0}
    /\ {DefaultTTL, MinTTL, MaxTTL} \subseteq Nat \ {0}
    /\ MinTTL <= DefaultTTL /\ MinTTL <= MaxTTL
    /\ Templates \in Seq(STRING)
    /\ \A q \in Requests :
          q.user \in STRING /\ q.principals \subseteq STRING /\ q.seconds \in Nat

VARIABLES
    stage,      \* how far the process is
    db,         \* on disk: migrations executed, and recorded in schema_migrations
    work,       \* the same as the migration's open transaction sees it
    keyFile,    \* on disk: the SSH CA's file, absent, torn, or the key, numbered by the start that made it
    deviceCA,   \* on disk: the device CA's certificate, absent, torn or whole
    signer,     \* in memory: the SSH CA's key
    cert,       \* the last certificate issued
    resources   \* on disk: resources seeded

bootVars == <<db, work, keyFile, deviceCA, signer, cert, resources>>
cpVars == <<policyVars, stage, bootVars>>

Starting == {"over", "migrate", "record", "commit", "sshca", "writekey",
             "deviceca", "writecert", "policy", "resources", "seeding"}
Running == {"serving", "draining", "late", "closed"}

CPInit ==
    /\ PolicyInit
    /\ stage = "over"
    /\ db = [executed |-> 0, recorded |-> 0] /\ work = db
    /\ keyFile = Absent /\ deviceCA = Absent /\ signer = Absent /\ cert = NoCert
    /\ resources = 0

-----------------------------------------------------------------------------
(***************************************************************************)
(* The start: main, app.New                                                *)
(***************************************************************************)
\* The unit is restarted after a failure; after an exit with status 0, by hand.
Start ==
    /\ stage = "over"
    /\ stage' = "migrate"
    /\ UNCHANGED <<policyVars, bootVars>>

StartByHand ==
    /\ stage = "ended"
    /\ stage' = "migrate"
    /\ UNCHANGED <<policyVars, bootVars>>

\* Mutant: the statements are executed outside the transaction that records them.
ExecMigration_Outside ==
    /\ stage = "migrate"
    /\ db.recorded < NMigrations /\ db.executed = db.recorded
    /\ work' = [db EXCEPT !.executed = @ + 1] /\ db' = work'
    /\ stage' = "record"
    /\ UNCHANGED <<policyVars, keyFile, deviceCA, signer, cert, resources>>

\* The next version that is not recorded; ALTER TABLE fails when run twice.
ExecMigration ==
    /\ stage = "migrate"
    /\ db.recorded < NMigrations /\ db.executed = db.recorded
    /\ work' = [db EXCEPT !.executed = @ + 1]
    /\ stage' = "record"
    /\ UNCHANGED <<policyVars, db, keyFile, deviceCA, signer, cert, resources>>

RecordMigration ==
    /\ stage = "record"
    /\ work' = [work EXCEPT !.recorded = @ + 1]
    /\ stage' = "commit"
    /\ UNCHANGED <<policyVars, db, keyFile, deviceCA, signer, cert, resources>>

CommitMigration ==
    /\ stage = "commit"
    /\ db' = work
    /\ stage' = "migrate"
    /\ UNCHANGED <<policyVars, work, keyFile, deviceCA, signer, cert, resources>>

Migrated ==
    /\ stage = "migrate" /\ db.recorded = NMigrations
    /\ stage' = "sshca"
    /\ UNCHANGED <<policyVars, bootVars>>

LoadKey ==
    /\ stage = "sshca" /\ keyFile \notin {Absent, Torn}
    /\ signer' = keyFile
    /\ stage' = "deviceca"
    /\ UNCHANGED <<policyVars, db, work, keyFile, deviceCA, cert, resources>>

\* The file is created empty and then written, in place.
GenerateKey ==
    /\ stage = "sshca" /\ keyFile = Absent
    /\ signer' = crashes + 1
    /\ keyFile' = Torn
    /\ stage' = "writekey"
    /\ UNCHANGED <<policyVars, db, work, deviceCA, cert, resources>>

\* Mutant: that the key could not be written is ignored.
KeyWritten_Unchecked ==
    /\ stage = "writekey"
    /\ keyFile' \in {signer, Torn}
    /\ stage' = "deviceca"
    /\ UNCHANGED <<policyVars, db, work, deviceCA, signer, cert, resources>>

KeyWritten ==
    /\ stage = "writekey"
    /\ keyFile' = signer
    /\ stage' = "deviceca"
    /\ UNCHANGED <<policyVars, db, work, deviceCA, signer, cert, resources>>

LoadDeviceCA ==
    /\ stage = "deviceca" /\ deviceCA = Whole
    /\ stage' = "policy"
    /\ UNCHANGED <<policyVars, bootVars>>

\* With the certificate missing a new pair is made, whatever is in the key's file:
\* the key is written first, then the certificate is created empty and written.
CreateDeviceCA ==
    /\ stage = "deviceca" /\ deviceCA = Absent
    /\ deviceCA' = Torn
    /\ stage' = "writecert"
    /\ UNCHANGED <<policyVars, db, work, keyFile, signer, cert, resources>>

DeviceCAWritten ==
    /\ stage = "writecert"
    /\ deviceCA' = Whole
    /\ stage' = "policy"
    /\ UNCHANGED <<policyVars, db, work, keyFile, signer, cert, resources>>

\* A migration executed but not recorded, a file that is no key and one that is no
\* certificate are errors, and so they are at every start that follows.
Blocked ==
    \/ stage = "migrate" /\ db.recorded < NMigrations /\ db.executed # db.recorded
    \/ stage = "sshca" /\ keyFile = Torn
    \/ stage = "deviceca" /\ deviceCA = Torn

Refused ==
    /\ Blocked
    /\ stage' = "over"
    /\ UNCHANGED <<policyVars, bootVars>>

\* policySvc.SeedIfEmpty; a statement of it that fails ends the process (Crash).
SeedPolicy ==
    /\ stage = "policy"
    /\ \/ SeedIfEmpty
       \/ InsertVersion(Boot) \/ InsertRule(Boot) \/ CommitCreate(Boot)
       \/ Deactivate(Boot) \/ SetActive(Boot) \/ CommitActivate(Boot)
    /\ stage' = IF pc'[Boot] = "serving" THEN "resources" ELSE stage
    /\ UNCHANGED bootVars

\* resourceSvc.SeedIfEmpty: a table that is not empty is left as it is.
SeedResources ==
    /\ stage = "resources"
    /\ stage' = IF resources > 0 \/ NResources = 0 THEN "serving" ELSE "seeding"
    /\ UNCHANGED <<policyVars, bootVars>>

\* One statement per resource, and the servers are started after the last.
SeedResource ==
    /\ stage = "seeding"
    /\ resources' = resources + 1
    /\ stage' = IF resources' = NResources THEN "serving" ELSE stage
    /\ UNCHANGED <<policyVars, db, work, keyFile, deviceCA, signer, cert>>

-----------------------------------------------------------------------------
(***************************************************************************)
(* Requests                                                                *)
(***************************************************************************)
\* A request is accepted by the servers and starts.
Accept ==
    /\ stage = "serving"
    /\ \/ \E w \in Admins : AskCreate(w) \/ AskActivate(w)
       \/ \E r \in Readers : ReadVersion(r)
    /\ UNCHANGED <<stage, bootVars>>

\* With the store closed nothing is begun; a transaction that is open may go on.
Begin ==
    /\ stage \in Running \ {"closed"}
    /\ \/ \E w \in Admins : InsertVersion(w) \/ Deactivate(w)
       \/ \E r \in Readers : ReadRules(r)
    /\ UNCHANGED <<stage, bootVars>>

Proceed ==
    /\ stage \in Running
    /\ \/ \E w \in Admins :
             \/ InsertRule(w) \/ CommitCreate(w)
             \/ SetActive(w) \/ NoSuchVersion(w) \/ CommitActivate(w)
             \/ Fail(w)
       \/ \E r \in Readers : ReadDone(r)
    /\ UNCHANGED <<stage, bootVars>>

\* resolvePrincipals: the principals a user may have; an empty one is dropped.
Principal(i, user) == IF Templates[i] = UserName THEN user ELSE Templates[i]
Allowed(user) == {Principal(i, user) : i \in DOMAIN Templates} \ {""}

\* allowed[0]: the set of the first of them.
FirstAllowed(user) ==
    {Principal(i, user) : i \in {k \in DOMAIN Templates :
        Principal(k, user) # "" /\ \A j \in 1..(k - 1) : Principal(j, user) = ""}}

\* Without a wish, the user's name if it is allowed.
DefaultPrincipal(user) == IF user \in Allowed(user) THEN {user} ELSE FirstAllowed(user)

\* Mutant: principals that are not allowed are not dropped.
ResolveRequested_Kept(asked, user) ==
    IF asked = {} THEN DefaultPrincipal(user)
    ELSE IF user \in Allowed(user) \ asked THEN {} ELSE asked

\* resolveRequestedPrincipals; the empty set stands for its error.
ResolveRequested(asked, user) ==
    LET kept == asked \cap Allowed(user)
    IN  IF asked = {} THEN DefaultPrincipal(user)
        ELSE IF user \in Allowed(user) \ kept THEN {} ELSE kept

\* Seconds as a duration: the product wraps around.
Duration(seconds) == ((seconds * Second + Half) % (2 * Half)) - Half

Ttl(q) ==
    LET asked == IF q.seconds = 0 THEN DefaultTTL ELSE Duration(q.seconds)
    IN  IF asked > MaxTTL THEN MaxTTL ELSE asked

IssueSSHCert(q) ==
    LET principals == ResolveRequested(q.principals, q.user) IN
    /\ stage = "serving"
    /\ Ttl(q) >= MinTTL
    /\ Allowed(q.user) # {} /\ principals # {}
    /\ cert' = [by |-> signer, user |-> q.user, principals |-> principals, ttl |-> Ttl(q)]
    /\ UNCHANGED <<policyVars, stage, db, work, keyFile, deviceCA, signer, resources>>

-----------------------------------------------------------------------------
(***************************************************************************)
(* The end                                                                 *)
(***************************************************************************)
\* A signal, or a listener that failed: the servers accept nothing more.
Shutdown ==
    /\ stage = "serving" /\ crashes < MaxCrashes
    /\ stage' = "draining"
    /\ UNCHANGED <<policyVars, bootVars>>

\* Shutdown's ten seconds are over.
Deadline ==
    /\ stage = "draining"
    /\ stage' = "late"
    /\ UNCHANGED <<policyVars, bootVars>>

Idle == (\A w \in Admins : pc[w] = "off") /\ (\A r \in Readers : rpc[r] = "idle")

\* Mutant: Close waits without a deadline.
CloseStore_Patient ==
    /\ stage \in {"draining", "late"} /\ Idle
    /\ stage' = "closed"
    /\ UNCHANGED <<policyVars, bootVars>>

\* Shutdown returns when nothing is in progress, or at its deadline; then the store
\* is closed.
CloseStore ==
    /\ stage = "late" \/ (stage = "draining" /\ Idle)
    /\ stage' = "closed"
    /\ UNCHANGED <<policyVars, bootVars>>

\* The memory is gone, and with it what no transaction has committed.
Gone ==
    /\ Crash
    /\ work' = db
    /\ signer' = Absent
    /\ UNCHANGED <<db, keyFile, deviceCA, cert, resources>>

\* main returns, with status 0 whatever has ended it.
Exit ==
    /\ stage = "closed"
    /\ Gone
    /\ stage' = "ended"

\* The process dies, or a step of its start fails and it exits with status 1.
Die ==
    /\ stage \notin {"over", "ended"}
    /\ Gone
    /\ stage' = "over"

-----------------------------------------------------------------------------
BootNext ==
    \/ Start
    \/ ExecMigration \/ RecordMigration \/ CommitMigration \/ Migrated
    \/ LoadKey \/ GenerateKey \/ KeyWritten
    \/ LoadDeviceCA \/ CreateDeviceCA \/ DeviceCAWritten \/ Refused
    \/ SeedPolicy \/ SeedResources \/ SeedResource

CPNext ==
    \/ BootNext \/ StartByHand
    \/ Accept \/ Begin \/ Proceed \/ \E q \in Requests : IssueSSHCert(q)
    \/ Shutdown \/ Deadline \/ CloseStore \/ Exit \/ Die

CPSpec == CPInit /\ [][CPNext]_cpVars

\* The start and the timer of the shutdown are the process's own.
FairCPSpec == CPSpec /\ WF_cpVars(BootNext) /\ WF_cpVars(Deadline \/ CloseStore \/ Exit)

-----------------------------------------------------------------------------
(***************************************************************************)
(* Properties                                                              *)
(***************************************************************************)

\* Wherever a start was cut short, a later one gets through and serves, but for the
\* two files that a start may leave half written for good, the SSH CA's key and the
\* device CA's certificate (sqlite.go:115-142, sshca.go:36-46, deviceca.go:51-59).
ServesAgain ==
    stage \in Starting ~> stage = "serving" \/ keyFile = Torn \/ deviceCA = Torn

\* A stop that was asked for comes to its end, whatever requests hang (main.go:51-53).
StopsInTime == stage = "draining" ~> stage \in {"ended", "over"}

\* What was certified verifies under the key on disk, after any crash (sshca.go:19-46).
KeyOutlivesCerts == cert # NoCert => cert.by = keyFile

\* A certificate names only principals its user may have, the user among them when
\* allowed, and lives between the bounds whatever was asked (service.go:42-168).
CertWithinRights ==
    cert # NoCert =>
        /\ cert.principals # {} /\ cert.principals \subseteq Allowed(cert.user)
        /\ cert.user \in Allowed(cert.user) => cert.user \in cert.principals
        /\ cert.ttl \in MinTTL..MaxTTL
=============================================================================
