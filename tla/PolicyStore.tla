------------------------------ MODULE PolicyStore ------------------------------
(***************************************************************************)
(* The policy versions of the control plane (store/sqlite/repo.go,         *)
(* service/policy): administrators create and activate versions, each in   *)
(* a transaction of several statements; decisions read the active version  *)
(* with two queries outside any transaction; at every start an unseeded    *)
(* database is given the seed policy.  The process may crash at any step.  *)
(***************************************************************************)
EXTENDS Naturals, FiniteSets

CONSTANTS
    Admins,       \* goroutines serving administrators' requests
    Readers,      \* goroutines serving authorize requests
    NRules,       \* rules of a policy version
    SeedFile,     \* whether a seed file is configured
    MaxVersions,  \* bound: versions created
    MaxCrashes    \* bound: crashes

Boot == "boot"
None == "none"
Writers == Admins \cup {Boot}

ASSUME PolicyConstants ==
    /\ NRules \in Nat \ {0} /\ SeedFile \in BOOLEAN
    /\ MaxVersions \in Nat /\ MaxCrashes \in Nat
    /\ Boot \notin Admins /\ None \notin Admins

VARIABLES
    table,    \* the committed versions: rules inserted and whether active
    tx,       \* the writer whose transaction holds the write lock
    draft,    \* the table as that transaction sees it
    pc,       \* where each writer is
    id,       \* the version it creates or activates
    read,     \* what each reader has read: a version and its rules
    rpc,      \* where each reader is
    crashes   \* bound: crashes so far

policyVars == <<table, tx, draft, pc, id, read, rpc, crashes>>

Ids == 1..MaxVersions
NoRows == [i \in {} |-> [rules |-> 0, active |-> FALSE]]

Active(rows) == {i \in DOMAIN rows : rows[i].active}

PolicyInit ==
    /\ table = NoRows /\ tx = None /\ draft = NoRows
    /\ pc = [w \in Writers |-> IF w = Boot THEN "check" ELSE "off"]
    /\ id = [w \in Writers |-> 0]
    /\ read = [r \in Readers |-> <<0, 0>>]
    /\ rpc = [r \in Readers |-> "idle"]
    /\ crashes = 0

\* The server runs once the seeding is over.
Serving == pc[Boot] = "serving"

Goto(w, where) == pc' = [pc EXCEPT ![w] = where]

-----------------------------------------------------------------------------
(***************************************************************************)
(* Requests of administrators, and the seeding at start                    *)
(***************************************************************************)
AskCreate(w) ==
    /\ Serving /\ w \in Admins /\ pc[w] = "off"
    /\ Goto(w, "insert")
    /\ UNCHANGED <<table, tx, draft, id, read, rpc, crashes>>

\* Any id may be asked for, also one that does not exist.
AskActivate(w) ==
    /\ Serving /\ w \in Admins /\ pc[w] = "off"
    /\ \E i \in Ids : id' = [id EXCEPT ![w] = i]
    /\ Goto(w, "deactivate")
    /\ UNCHANGED <<table, tx, draft, read, rpc, crashes>>

\* Mutant: the seeding is not waited for.
SeedIfEmpty_Skipped ==
    /\ pc[Boot] = "check"
    /\ Goto(Boot, "serving")
    /\ UNCHANGED <<table, tx, draft, id, read, rpc, crashes>>

\* SeedIfEmpty asks for the active version; with one, or no seed file, it is done.
SeedIfEmpty ==
    /\ pc[Boot] = "check"
    /\ Goto(Boot, IF ~SeedFile \/ Active(table) # {} THEN "serving" ELSE "insert")
    /\ UNCHANGED <<table, tx, draft, id, read, rpc, crashes>>

-----------------------------------------------------------------------------
(***************************************************************************)
(* CreatePolicyVersion: one transaction                                    *)
(***************************************************************************)
NewId == Cardinality(DOMAIN table) + 1

\* The first statement takes the write lock.
InsertVersion(w) ==
    /\ pc[w] = "insert" /\ tx = None
    /\ NewId <= MaxVersions
    /\ tx' = w
    /\ id' = [id EXCEPT ![w] = NewId]
    /\ draft' = [i \in DOMAIN table \cup {NewId} |->
                   IF i = NewId THEN [rules |-> 0, active |-> FALSE] ELSE table[i]]
    /\ Goto(w, "rules")
    /\ UNCHANGED <<table, read, rpc, crashes>>

\* Mutant: the rules are inserted one by one outside the transaction.
InsertRule_OutsideTx(w) ==
    /\ pc[w] = "rules" /\ draft[id[w]].rules < NRules
    /\ draft' = [draft EXCEPT ![id[w]].rules = @ + 1]
    /\ table' = draft'
    /\ UNCHANGED <<tx, pc, id, read, rpc, crashes>>

InsertRule(w) ==
    /\ pc[w] = "rules" /\ draft[id[w]].rules < NRules
    /\ draft' = [draft EXCEPT ![id[w]].rules = @ + 1]
    /\ UNCHANGED <<table, tx, pc, id, read, rpc, crashes>>

\* The commit; an administrator's request ends, the seeding goes on to activate.
CommitCreate(w) ==
    /\ pc[w] = "rules" /\ draft[id[w]].rules = NRules
    /\ table' = draft
    /\ tx' = None
    /\ Goto(w, IF w = Boot THEN "deactivate" ELSE "off")
    /\ UNCHANGED <<draft, id, read, rpc, crashes>>

-----------------------------------------------------------------------------
(***************************************************************************)
(* ActivatePolicyVersion: one transaction                                  *)
(***************************************************************************)
\* Mutant: nothing is deactivated.
Deactivate_Skipped(w) ==
    /\ pc[w] = "deactivate" /\ tx = None
    /\ tx' = w
    /\ draft' = table
    /\ Goto(w, "activate")
    /\ UNCHANGED <<table, id, read, rpc, crashes>>

Deactivate(w) ==
    /\ pc[w] = "deactivate" /\ tx = None
    /\ tx' = w
    /\ draft' = [i \in DOMAIN table |-> [table[i] EXCEPT !.active = FALSE]]
    /\ Goto(w, "activate")
    /\ UNCHANGED <<table, id, read, rpc, crashes>>

\* The second update, and the commit when it changed a row.
SetActive(w) ==
    /\ pc[w] = "activate" /\ id[w] \in DOMAIN draft
    /\ draft' = [draft EXCEPT ![id[w]].active = TRUE]
    /\ Goto(w, "commit")
    /\ UNCHANGED <<table, tx, id, read, rpc, crashes>>

\* Mutant: a version that does not exist is not looked at.
NoSuchVersion_Commits(w) ==
    /\ pc[w] = "activate" /\ id[w] \notin DOMAIN draft
    /\ Goto(w, "commit")
    /\ UNCHANGED <<table, tx, draft, id, read, rpc, crashes>>

\* No row was changed: roll back, the version is unknown.
NoSuchVersion(w) ==
    /\ pc[w] = "activate" /\ id[w] \notin DOMAIN draft
    /\ tx' = None
    /\ Goto(w, "off")
    /\ UNCHANGED <<table, draft, id, read, rpc, crashes>>

CommitActivate(w) ==
    /\ pc[w] = "commit"
    /\ table' = draft
    /\ tx' = None
    /\ Goto(w, IF w = Boot THEN "serving" ELSE "off")
    /\ UNCHANGED <<draft, id, read, rpc, crashes>>

\* A statement or the commit fails (the lock is held and the wait times out, the
\* caller is gone, the disk is full): roll back.  At start the program exits.
Fail(w) ==
    /\ pc[w] \in {"insert", "rules", "deactivate", "activate", "commit"}
    /\ tx' = IF tx = w THEN None ELSE tx
    /\ Goto(w, "off")
    /\ UNCHANGED <<table, draft, id, read, rpc, crashes>>

-----------------------------------------------------------------------------
(***************************************************************************)
(* GetActivePolicy: two queries, each of the committed table               *)
(***************************************************************************)
ReadVersion(r) ==
    /\ Serving /\ rpc[r] = "idle"
    /\ \E i \in Active(table) : read' = [read EXCEPT ![r] = <<i, 0>>]
    /\ rpc' = [rpc EXCEPT ![r] = "version"]
    /\ UNCHANGED <<table, tx, draft, pc, id, crashes>>

ReadRules(r) ==
    /\ rpc[r] = "version"
    /\ read' = [read EXCEPT ![r] = <<@[1], table[@[1]].rules>>]
    /\ rpc' = [rpc EXCEPT ![r] = "snapshot"]
    /\ UNCHANGED <<table, tx, draft, pc, id, crashes>>

\* The decision is taken, or the second query fails.
ReadDone(r) ==
    /\ rpc[r] \in {"version", "snapshot"}
    /\ rpc' = [rpc EXCEPT ![r] = "idle"]
    /\ UNCHANGED <<table, tx, draft, pc, id, read, crashes>>

\* The process dies, an open transaction with it, and is started again.
Crash ==
    /\ crashes < MaxCrashes
    /\ crashes' = crashes + 1
    /\ tx' = None
    /\ pc' = [w \in Writers |-> IF w = Boot THEN "check" ELSE "off"]
    /\ rpc' = [r \in Readers |-> "idle"]
    /\ UNCHANGED <<table, draft, id, read>>

\* A start that failed is tried again.
Restart ==
    /\ pc[Boot] = "off"
    /\ Goto(Boot, "check")
    /\ UNCHANGED <<table, tx, draft, id, read, rpc, crashes>>

-----------------------------------------------------------------------------
Write(w) ==
    \/ AskCreate(w) \/ AskActivate(w)
    \/ InsertVersion(w) \/ InsertRule(w) \/ CommitCreate(w)
    \/ Deactivate(w) \/ SetActive(w) \/ NoSuchVersion(w) \/ CommitActivate(w)
    \/ Fail(w)

PolicyNext ==
    \/ SeedIfEmpty \/ Crash \/ Restart
    \/ \E w \in Writers : Write(w)
    \/ \E r \in Readers : ReadVersion(r) \/ ReadRules(r) \/ ReadDone(r)

PolicySpec == PolicyInit /\ [][PolicyNext]_policyVars

-----------------------------------------------------------------------------
(***************************************************************************)
(* Properties                                                              *)
(***************************************************************************)

\* No interleaving of activations, failures and crashes leaves two active versions,
\* of which a decision would take the newer (repo.go:65-93, 98-99).
OneActive == Cardinality(Active(table)) <= 1

\* A decision is taken on all the rules of the version it read, although the two
\* queries share no transaction and creations are under way (repo.go:95-128).
SnapshotComplete == \A r \in Readers : rpc[r] = "snapshot" => read[r][2] = NRules

\* With a seed file the control plane never serves without an active policy
\* (app.go:62-66, seed.go:19-55).
ServesWithPolicy == SeedFile /\ Serving => Active(table) # {}

\* The store implements the catalog of policies.
Catalog == INSTANCE PolicyCatalog WITH
    catalog <- {i \in DOMAIN table : table[i].rules = NRules},
    current <- IF Active(table) = {} THEN 0 ELSE CHOOSE i \in Active(table) : TRUE

ImplementsCatalog == Catalog!CatalogSpec
=============================================================================
