----------------------------- MODULE PolicyProofs -----------------------------
(***************************************************************************)
(* Theorems about the policy: what the evaluation of a request decides,    *)
(* for every policy, request and length of the day; and the policy store   *)
(* with the process around it, for any number of administrators,           *)
(* decisions, versions, rules and crashes.                                 *)
(***************************************************************************)
EXTENDS PolicyEvaluation, ControlPlane, FiniteSetTheorems, TLAPS

(***************************************************************************)
(* The inductive invariant: every rule before the one looked at failed at  *)
(* some minute of the walk - at the only one there was while the clock     *)
(* stood still - and the rule that decided matched at one.                 *)
(***************************************************************************)
WalkTypes ==
    /\ policy \in Policies
    /\ i \in Nat \ {0} /\ i <= Len(policy) + 1
    /\ passed \in Seq(Minutes) /\ Len(passed) >= 1
    /\ minute \in Minutes /\ minute = passed[Len(passed)]

SkippedBefore == \A j \in 1..(i - 1) : \E now \in Passed : ~Matches(policy[j], request, now)

TakenAt ==
    \/ outcome = Undecided
    \/ outcome = [effect |-> "deny", rule |-> 0] /\ i = Len(policy) + 1
    \/ /\ i <= Len(policy) /\ outcome = [effect |-> policy[i].effect, rule |-> i]
       /\ \E now \in Passed : Matches(policy[i], request, now)

WalkInv == WalkTypes /\ SkippedBefore /\ TakenAt

LEMMA MinuteNext == ASSUME NEW m \in Minutes PROVE (m + 1) % Day \in Minutes
BY EvaluationConstants DEF Minutes

LEMMA EvaluationInitially == EvaluationInit => WalkInv
<1> SUFFICES ASSUME EvaluationInit PROVE WalkInv
  OBVIOUS
<1> USE DEF EvaluationInit
<1>1. Len(policy) \in Nat
  BY EvaluationConstants
<1>2. passed \in Seq(Minutes) /\ Len(passed) = 1 /\ passed[1] = minute
  OBVIOUS
<1> QED
  BY <1>1, <1>2 DEF WalkInv, WalkTypes, SkippedBefore, TakenAt

LEMMA WalkInvInductive == WalkInv /\ [EvaluationNext]_evaluationVars => WalkInv'
<1> SUFFICES ASSUME WalkInv, [EvaluationNext]_evaluationVars PROVE WalkInv'
  OBVIOUS
<1> USE DEF WalkInv
<1>0. Len(policy) \in Nat /\ DOMAIN policy = 1..Len(policy)
  BY EvaluationConstants DEF WalkTypes
<1>1. minute \in Passed
  BY DEF WalkTypes, Passed
<1>2. CASE Tick
  <2>1. minute' \in Minutes /\ passed' = Append(passed, minute')
    BY <1>2, MinuteNext DEF Tick, WalkTypes
  <2>2. /\ passed' \in Seq(Minutes) /\ Len(passed') = Len(passed) + 1
        /\ passed'[Len(passed')] = minute'
        /\ \A k \in 1..Len(passed) : passed'[k] = passed[k]
    BY <2>1 DEF WalkTypes
  <2>3. Passed \subseteq Passed'
    BY <2>2 DEF Passed, WalkTypes
  <2>4. WalkTypes'
    BY <1>2, <2>1, <2>2 DEF Tick, WalkTypes
  <2>5. SkippedBefore'
    BY <1>2, <2>3 DEF Tick, SkippedBefore
  <2>6. TakenAt'
    BY <1>2 DEF Tick, Walking, TakenAt
  <2> QED
    BY <2>4, <2>5, <2>6
<1>3. CASE Skip
  <2>1. WalkTypes'
    BY <1>0, <1>3 DEF Skip, WalkTypes
  <2>2. SkippedBefore'
    BY <1>1, <1>3 DEF Skip, SkippedBefore, WalkTypes, Passed
  <2>3. TakenAt'
    BY <1>3 DEF Skip, Walking, TakenAt
  <2> QED
    BY <2>1, <2>2, <2>3
<1>4. CASE Take
  BY <1>1, <1>4 DEF Take, WalkTypes, SkippedBefore, TakenAt, Passed
<1>5. CASE DefaultDeny
  <2>1. i = Len(policy) + 1
    BY <1>0, <1>5 DEF DefaultDeny, WalkTypes
  <2> QED
    BY <1>5, <2>1 DEF DefaultDeny, WalkTypes, SkippedBefore, TakenAt, Passed
<1>6. CASE UNCHANGED evaluationVars
  BY <1>6 DEF evaluationVars, WalkTypes, SkippedBefore, TakenAt, Passed
<1> QED
  BY <1>2, <1>3, <1>4, <1>5, <1>6 DEF EvaluationNext

LEMMA WalkInvHolds == EvaluationSpec => []WalkInv
BY EvaluationInitially, WalkInvInductive, PTL DEF EvaluationSpec

-----------------------------------------------------------------------------
\* While the clock stands still a walk decides what the policy means: the effect of
\* its least rule that matches, else deny (evaluation.go:34-60).
THEOREM DecidesTheMeaningHolds == EvaluationSpec => []DecidesTheMeaning
<1>1. WalkInv => DecidesTheMeaning
  <2> SUFFICES ASSUME WalkInv, Decided, Len(passed) = 1
               PROVE  outcome = Meaning(policy, request, minute)
    BY DEF DecidesTheMeaning
  <2> DEFINE hits == Matching(policy, request, minute)
  <2>1. Passed = {minute}
    BY DEF WalkInv, WalkTypes, Passed
  <2>2. Len(policy) \in Nat /\ DOMAIN policy = 1..Len(policy) /\ i \in Nat
    BY EvaluationConstants DEF WalkInv, WalkTypes
  <2>3. \A j \in 1..(i - 1) : j \notin hits
    BY <2>1 DEF WalkInv, SkippedBefore, Matching
  <2>4. CASE outcome = [effect |-> "deny", rule |-> 0] /\ i = Len(policy) + 1
    <3>1. hits = {}
      <4>1. 1..(i - 1) = DOMAIN policy /\ hits \subseteq DOMAIN policy
        BY <2>2, <2>4 DEF Matching
      <4> QED
        BY <2>3, <4>1
    <3> QED
      BY <2>4, <3>1 DEF Meaning
  <2>5. CASE /\ i <= Len(policy) /\ outcome = [effect |-> policy[i].effect, rule |-> i]
             /\ \E now \in Passed : Matches(policy[i], request, now)
    <3>1. i \in hits /\ hits \subseteq 1..Len(policy)
      <4>1. Matches(policy[i], request, minute)
        BY <2>1, <2>5
      <4>2. i \in DOMAIN policy
        BY <2>2, <2>5 DEF WalkInv, WalkTypes
      <4> QED
        BY <2>2, <4>1, <4>2 DEF Matching
    <3> HIDE DEF hits
    <3>2. \A k \in hits : i <= k
      BY <2>2, <2>3, <3>1
    <3>3. (CHOOSE j \in hits : \A k \in hits : j <= k) = i
      <4>1. ASSUME NEW j \in hits, \A k \in hits : j <= k PROVE j = i
        BY <2>2, <3>1, <3>2, <4>1
      <4> QED
        BY <3>1, <3>2, <4>1
    <3> QED
      BY <2>5, <3>1, <3>3 DEF Meaning, hits
  <2> QED
    BY <2>4, <2>5 DEF WalkInv, TakenAt, Decided, Walking
<1> QED
  BY <1>1, WalkInvHolds, PTL

\* However the clock moves, the deciding rule applied within the walk and each rule
\* before it did not (evaluation.go:34-60, 131).
THEOREM DecidedWithinTheWalkHolds == EvaluationSpec => []DecidedWithinTheWalk
<1>1. WalkInv => DecidedWithinTheWalk
  BY EvaluationConstants
  DEF WalkInv, WalkTypes, SkippedBefore, TakenAt, DecidedWithinTheWalk, Decided, Walking
<1> QED
  BY <1>1, WalkInvHolds, PTL

-----------------------------------------------------------------------------
(***************************************************************************)
(* The hours of a rule.                                                    *)
(***************************************************************************)
\* The remainder of less than two days is reached by one subtraction.
LEMMA ModDay ==
  ASSUME NEW x \in Nat, x < 2 * Day
  PROVE  x % Day = IF x < Day THEN x ELSE x - Day
BY EvaluationConstants

\* A minute is within the hours exactly if it is one of those counted from the start,
\* round midnight, as many as there are up to the end.
LEMMA HoursMeanWindow ==
  ASSUME NEW hours, hours.kind = "window", hours.start \in Minutes, hours.end \in Minutes,
         NEW m \in Minutes
  PROVE  matchAllowedHours(hours, m) <=> m \in Window(hours)
<1> DEFINE s == hours.start
           e == hours.end
           n == (e + Day - s) % Day
           Inside == IF s <= e THEN m >= s /\ m < e ELSE m >= s \/ m < e
<1>0. s \in Nat /\ e \in Nat /\ m \in Nat /\ s < Day /\ e < Day /\ m < Day /\ Day \in Nat
  BY EvaluationConstants DEF Minutes
<1>1. n = IF s <= e THEN e - s ELSE e + Day - s
  BY <1>0, ModDay
<1>2. \A k \in 0..n - 1 : (s + k) % Day = IF s + k < Day THEN s + k ELSE s + k - Day
  BY <1>0, <1>1, ModDay
<1>3. m \in Window(hours) <=> \E k \in 0..n - 1 : m = (s + k) % Day
  BY DEF Window
<1>4. matchAllowedHours(hours, m) <=> Inside
  BY DEF matchAllowedHours
<1> HIDE DEF s, e, n
<1>5. ASSUME NEW k \in 0..n - 1, m = (s + k) % Day PROVE Inside
  BY <1>0, <1>1, <1>2, <1>5
<1>6. ASSUME Inside PROVE \E k \in 0..n - 1 : m = (s + k) % Day
  <2> DEFINE k == IF s <= m THEN m - s ELSE m + Day - s
  <2>1. k \in 0..n - 1
    BY <1>0, <1>1, <1>6
  <2>2. (s + k) % Day = m
    BY <1>0, <1>2, <2>1
  <2> HIDE DEF k
  <2> QED
    BY <2>1, <2>2
<1> QED
  BY <1>3, <1>4, <1>5, <1>6

\* A rule with hours applies exactly in its window, also over midnight, whatever the
\* length of the day (evaluation.go:126-165).
THEOREM HoursAreTheWindowHolds == EvaluationSpec => []HoursAreTheWindow
<1>1. WalkInv => HoursAreTheWindow
  <2> SUFFICES ASSUME WalkInv, NEW j \in DOMAIN policy, policy[j].hours.kind = "window"
               PROVE  matchAllowedHours(policy[j].hours, minute) <=> minute \in Window(policy[j].hours)
    BY DEF HoursAreTheWindow
  <2>1. policy[j].hours.start \in Minutes /\ policy[j].hours.end \in Minutes /\ minute \in Minutes
    BY EvaluationConstants DEF WalkInv, WalkTypes, Minutes
  <2> QED
    BY <2>1, HoursMeanWindow
<1> QED
  BY <1>1, WalkInvHolds, PTL

-----------------------------------------------------------------------------
(***************************************************************************)
(* The inductive invariant: who holds the lock, what the open transaction  *)
(* has done to its draft, and what the committed table is like.            *)
(***************************************************************************)
InTx == {"rules", "activate", "commit"}

PolicyTypes ==
    /\ pc \in [Writers -> {"off", "check", "serving", "insert", "rules", "deactivate",
                           "activate", "commit"}]
    /\ id \in [Writers -> Nat]
    /\ read \in [Readers -> Nat \X Nat]
    /\ rpc \in [Readers -> {"idle", "version", "snapshot"}]

\* A writer in the middle of a transaction holds the write lock.
Locked == \A w \in Writers : pc[w] \in InTx => tx = w

\* Committed versions are numbered in order, complete, and at most one is active.
TableOK ==
    /\ \E n \in 0..MaxVersions : DOMAIN table = 1..n
    /\ table \in [DOMAIN table -> [rules : Nat, active : BOOLEAN]]
    /\ \A k \in DOMAIN table : table[k].rules = NRules
    /\ \A k, j \in Active(table) : k = j

\* The draft of a creation: the table and one more version that is not active.
Creating(w) ==
    /\ id[w] = NewId /\ NewId <= MaxVersions
    /\ draft \in [DOMAIN table \cup {id[w]} -> [rules : Nat, active : BOOLEAN]]
    /\ \A k \in DOMAIN table : draft[k] = table[k]
    /\ ~draft[id[w]].active

\* The drafts of an activation: the table's versions, none or the asked one active.
SameVersions ==
    /\ draft \in [DOMAIN table -> [rules : Nat, active : BOOLEAN]]
    /\ \A k \in DOMAIN table : draft[k].rules = NRules

DraftOK ==
    \A w \in Writers :
        /\ pc[w] = "rules" => Creating(w)
        /\ pc[w] = "activate" => SameVersions /\ Active(draft) = {}
        /\ pc[w] = "commit" => SameVersions /\ id[w] \in DOMAIN table /\ Active(draft) = {id[w]}

\* A reader between its queries holds a committed version, a finished one its rules.
ReadOK ==
    \A r \in Readers :
        /\ rpc[r] = "version" => read[r][1] \in DOMAIN table
        /\ rpc[r] = "snapshot" => read[r][2] = NRules

PolicyInv ==
    /\ PolicyTypes /\ Locked /\ TableOK /\ DraftOK /\ ReadOK /\ ServesWithPolicy

-----------------------------------------------------------------------------
LEMMA NewIdIsNext ==
  ASSUME NEW n \in Nat, DOMAIN table = 1..n
  PROVE  NewId = n + 1 /\ NewId \notin DOMAIN table /\ DOMAIN table \cup {NewId} = 1..NewId
<1>1. Cardinality(1..n) = n
  BY FS_Interval
<1>2. NewId = n + 1
  BY <1>1 DEF NewId
<1> QED
  BY <1>2

LEMMA PolicyInitially == PolicyInit => PolicyInv
<1> SUFFICES ASSUME PolicyInit PROVE PolicyInv
  OBVIOUS
<1> USE DEF PolicyInit
<1>1. PolicyTypes
  BY DEF PolicyTypes
<1>2. Locked /\ DraftOK /\ ReadOK /\ ServesWithPolicy
  BY DEF Locked, InTx, DraftOK, ReadOK, ServesWithPolicy, Serving, Writers
<1>3. DOMAIN table = 1..0
  BY DEF NoRows
<1>4. TableOK
  <2>1. DOMAIN table = {} /\ table \in [DOMAIN table -> [rules : Nat, active : BOOLEAN]]
    BY DEF NoRows
  <2>2. 0 \in 0..MaxVersions
    BY PolicyConstants
  <2> QED
    BY <1>3, <2>1, <2>2 DEF TableOK, Active
<1> QED
  BY <1>1, <1>2, <1>4 DEF PolicyInv

LEMMA NoneIsNoWriter == None \notin Writers
BY PolicyConstants DEF None, Boot, Writers

\* A writer that holds the lock, or takes it, is the only one in a transaction.
LEMMA OnlyWriter ==
  ASSUME Locked, NEW w \in Writers, NEW v \in Writers, v # w, tx = w \/ tx = None
  PROVE  pc[v] \notin InTx
BY NoneIsNoWriter DEF Locked

\* Steps that leave the table and the transaction alone.
LEMMA OutsideKept ==
  ASSUME PolicyInv,
         \/ SeedIfEmpty \/ Restart
         \/ \E w \in Writers : AskCreate(w) \/ AskActivate(w)
  PROVE  PolicyInv'
<1> USE DEF PolicyInv
<1>1. PICK w \in Writers :
        /\ pc[w] \notin InTx /\ pc' = [pc EXCEPT ![w] = pc'[w]]
        /\ pc'[w] \in {"serving", "check", "insert", "deactivate"}
        /\ pc'[w] = "serving" /\ w = Boot => ~SeedFile \/ Active(table) # {}
        /\ id' \in [Writers -> Nat] /\ \A v \in Writers : v # w => id'[v] = id[v]
        /\ UNCHANGED <<table, tx, draft, read, rpc>>
  BY PolicyConstants DEF SeedIfEmpty, Restart, AskCreate, AskActivate, Goto, Writers, InTx, PolicyTypes, Ids
<1>2. \A v \in Writers : pc'[v] \in InTx => v # w /\ pc[v] = pc'[v]
  BY <1>1 DEF PolicyTypes, InTx
<1>3. PolicyTypes'
  BY <1>1 DEF PolicyTypes
<1>4. Locked'
  BY <1>1, <1>2 DEF Locked
<1>5. TableOK' /\ ReadOK'
  BY <1>1 DEF TableOK, ReadOK, Active
<1>6. DraftOK'
  BY <1>1, <1>2 DEF DraftOK, Creating, SameVersions, Active, NewId, InTx
<1>7. ServesWithPolicy'
  <2>1. CASE w = Boot
    BY <1>1, <2>1 DEF ServesWithPolicy, Serving, Active, PolicyTypes, Writers
  <2>2. CASE w # Boot
    BY <1>1, <2>2 DEF ServesWithPolicy, Serving, Active, PolicyTypes, Writers
  <2> QED
    BY <2>1, <2>2
<1> QED
  BY <1>3, <1>4, <1>5, <1>6, <1>7

\* A writer takes the lock, or goes on with its draft.
LEMMA DraftingKept ==
  ASSUME PolicyInv, NEW w \in Writers,
         InsertVersion(w) \/ InsertRule(w) \/ Deactivate(w) \/ SetActive(w)
  PROVE  PolicyInv'
<1> USE DEF PolicyInv
<1>1. /\ UNCHANGED <<table, read, rpc>> /\ tx' = w /\ (tx = w \/ tx = None)
      /\ pc' = [pc EXCEPT ![w] = pc'[w]] /\ pc'[w] \in InTx
      /\ pc[w] \in {"insert", "rules", "deactivate", "activate"}
  BY DEF InsertVersion, InsertRule, Deactivate, SetActive, Goto, InTx, Locked, PolicyTypes
<1>2. \A v \in Writers : v # w => pc[v] \notin InTx /\ pc'[v] = pc[v]
  BY <1>1, OnlyWriter DEF PolicyTypes
<1>3. PICK n \in 0..MaxVersions : DOMAIN table = 1..n
  BY DEF TableOK
<1>4. NewId = n + 1 /\ NewId \notin DOMAIN table /\ NewId \in Nat
  BY <1>3, NewIdIsNext, PolicyConstants
<1>5. PolicyTypes'
  BY <1>1, <1>4 DEF InsertVersion, InsertRule, Deactivate, SetActive, PolicyTypes, InTx
<1>6. Locked'
  BY <1>1, <1>2 DEF Locked
<1>7. TableOK' /\ ReadOK'
  BY <1>1 DEF TableOK, ReadOK, Active
<1>8. ServesWithPolicy'
  BY <1>1 DEF ServesWithPolicy, Serving, Active, PolicyTypes, InTx, Writers
<1>9. /\ pc'[w] = "rules" => Creating(w)'
      /\ pc'[w] = "activate" => SameVersions' /\ Active(draft)' = {}
      /\ pc'[w] = "commit" => SameVersions' /\ id'[w] \in DOMAIN table' /\ Active(draft)' = {id'[w]}
  <2>1. CASE InsertVersion(w)
    <3>1. pc'[w] = "rules" /\ id'[w] = NewId /\ NewId' = NewId
      BY <1>1, <2>1 DEF InsertVersion, Goto, PolicyTypes, NewId
    <3>2. Creating(w)'
      BY <1>1, <1>4, <2>1, <3>1 DEF InsertVersion, Creating, TableOK
    <3> QED
      BY <3>1, <3>2
  <2>2. CASE InsertRule(w)
    <3>1. pc'[w] = "rules" /\ id'[w] = id[w] /\ NewId' = NewId /\ Creating(w)
      BY <1>1, <2>2 DEF InsertRule, NewId, DraftOK
    <3>2. id[w] \notin DOMAIN table
      BY <1>4, <3>1 DEF Creating
    <3>3. Creating(w)'
      BY <1>1, <2>2, <3>1, <3>2 DEF InsertRule, Creating
    <3> QED
      BY <3>1, <3>3
  <2>3. CASE Deactivate(w)
    <3>1. pc'[w] = "activate"
      BY <2>3 DEF Deactivate, Goto, PolicyTypes
    <3>2. SameVersions' /\ Active(draft)' = {}
      BY <1>1, <2>3 DEF Deactivate, SameVersions, Active, TableOK
    <3> QED
      BY <3>1, <3>2
  <2>4. CASE SetActive(w)
    <3>1. pc'[w] = "commit" /\ pc[w] = "activate" /\ id'[w] = id[w]
      BY <2>4 DEF SetActive, Goto, PolicyTypes
    <3>2. SameVersions /\ Active(draft) = {}
      BY <3>1 DEF DraftOK
    <3>3. id[w] \in DOMAIN table /\ SameVersions'
      BY <1>1, <2>4, <3>2 DEF SetActive, SameVersions
    <3>4. Active(draft)' = {id[w]}
      BY <2>4, <3>2 DEF SetActive, SameVersions, Active
    <3> QED
      BY <1>1, <3>1, <3>3, <3>4
  <2> QED
    BY <2>1, <2>2, <2>3, <2>4
<1>10. DraftOK'
  BY <1>2, <1>9 DEF DraftOK, InTx
<1> QED
  BY <1>5, <1>6, <1>7, <1>8, <1>10

\* A commit: the draft becomes the table.
LEMMA CommitKept ==
  ASSUME PolicyInv, NEW w \in Writers, CommitCreate(w) \/ CommitActivate(w)
  PROVE  PolicyInv'
<1> USE DEF PolicyInv
<1>1. /\ table' = draft /\ tx' = None /\ tx = w /\ UNCHANGED <<id, read, rpc>>
      /\ pc' = [pc EXCEPT ![w] = pc'[w]] /\ pc'[w] \in {"off", "deactivate", "serving"}
  BY DEF CommitCreate, CommitActivate, Goto, InTx, Locked, PolicyTypes
<1>2. \A v \in Writers : v # w => pc[v] \notin InTx /\ pc'[v] = pc[v]
  BY <1>1, OnlyWriter DEF PolicyTypes
<1>3. \A v \in Writers : pc'[v] \notin InTx
  BY <1>1, <1>2 DEF PolicyTypes, InTx
<1>4. PICK n \in 0..MaxVersions : DOMAIN table = 1..n
  BY DEF TableOK
<1>5. PolicyTypes'
  BY <1>1 DEF PolicyTypes
<1>6. Locked' /\ DraftOK'
  BY <1>3 DEF Locked, DraftOK, InTx
<1>7. TableOK' /\ DOMAIN table \subseteq DOMAIN table'
      /\ (Serving /\ Active(table) # {} => Active(table') # {})
      /\ (CommitActivate(w) => Active(table') # {})
  <2>1. CASE CommitCreate(w)
    <3>1. Creating(w) /\ draft[id[w]].rules = NRules
      BY <2>1 DEF CommitCreate, DraftOK
    <3>2. DOMAIN draft = 1..(n + 1) /\ n + 1 \in 0..MaxVersions /\ id[w] = n + 1
      <4>1. n \in Nat /\ MaxVersions \in Nat
        BY PolicyConstants
      <4>2. NewId = n + 1 /\ DOMAIN table \cup {NewId} = 1..NewId
        BY <1>4, <4>1, NewIdIsNext
      <4>3. id[w] = NewId /\ NewId <= MaxVersions /\ DOMAIN draft = DOMAIN table \cup {id[w]}
        BY <3>1 DEF Creating
      <4> QED
        BY <4>1, <4>2, <4>3
    <3>3. Active(draft) = Active(table)
      BY <3>1 DEF Creating, Active
    <3>4. ~CommitActivate(w)
      BY <2>1 DEF CommitCreate, CommitActivate
    <3>5. /\ draft \in [DOMAIN draft -> [rules : Nat, active : BOOLEAN]]
          /\ \A k \in DOMAIN draft : draft[k].rules = NRules
      BY <3>1 DEF Creating, TableOK
    <3>6. \A k, j \in Active(draft) : k = j
      BY <3>3 DEF TableOK
    <3>7. TableOK'
      BY <1>1, <3>2, <3>5, <3>6 DEF TableOK, Active
    <3>8. Active(table') = Active(table)
      BY <1>1, <3>3
    <3> QED
      BY <1>1, <1>4, <3>1, <3>4, <3>7, <3>8 DEF Creating
  <2>2. CASE CommitActivate(w)
    <3>1. SameVersions /\ id[w] \in DOMAIN table /\ Active(draft) = {id[w]}
      BY <2>2 DEF CommitActivate, DraftOK
    <3>2. TableOK'
      BY <1>1, <1>4, <3>1 DEF TableOK, SameVersions, Active
    <3>3. Active(table') = {id[w]}
      BY <1>1, <3>1
    <3> QED
      BY <1>1, <3>1, <3>2, <3>3 DEF SameVersions
  <2> QED
    BY <2>1, <2>2
<1>8. ReadOK'
  BY <1>1, <1>7 DEF ReadOK
<1>9. ServesWithPolicy'
  <2>1. CASE Serving
    BY <1>1, <1>7, <2>1 DEF ServesWithPolicy, Active
  <2>2. CASE ~Serving /\ Serving'
    <3>1. CommitActivate(w)
      BY <2>2 DEF Serving, CommitCreate, Goto, PolicyTypes, Writers
    <3> QED
      BY <1>1, <1>7, <3>1 DEF ServesWithPolicy, Active
  <2> QED
    BY <2>1, <2>2 DEF ServesWithPolicy
<1> QED
  BY <1>5, <1>6, <1>7, <1>8, <1>9

\* A transaction ends without a commit: a failure, an unknown version, a crash.
LEMMA RollbackKept ==
  ASSUME PolicyInv, Crash \/ \E w \in Writers : Fail(w) \/ NoSuchVersion(w)
  PROVE  PolicyInv'
<1> USE DEF PolicyInv
<1>1. CASE Crash
  BY <1>1 DEF Crash, PolicyTypes, Locked, TableOK, DraftOK, ReadOK, ServesWithPolicy, Serving,
              Active, InTx, Writers
<1>2. ASSUME NEW w \in Writers, Fail(w) \/ NoSuchVersion(w) PROVE PolicyInv'
  <2>1. /\ UNCHANGED <<table, draft, id, read, rpc>> /\ (tx' = tx \/ tx = w)
        /\ pc' = [pc EXCEPT ![w] = "off"]
    BY <1>2 DEF Fail, NoSuchVersion, Goto, Locked, InTx
  <2>2. \A v \in Writers : pc'[v] \in InTx => v # w /\ pc[v] = pc'[v]
    BY <2>1 DEF PolicyTypes, InTx
  <2>3. PolicyTypes'
    BY <2>1 DEF PolicyTypes
  <2>4. Locked'
    BY <2>1, <2>2 DEF Locked
  <2>5. TableOK' /\ ReadOK'
    BY <2>1 DEF TableOK, ReadOK, Active
  <2>6. DraftOK'
    BY <2>1, <2>2 DEF DraftOK, Creating, SameVersions, Active, NewId, InTx
  <2>7. ServesWithPolicy'
    BY <2>1 DEF ServesWithPolicy, Serving, Active, PolicyTypes, Writers
  <2> QED
    BY <2>3, <2>4, <2>5, <2>6, <2>7
<1> QED
  BY <1>1, <1>2

LEMMA ReadingKept ==
  ASSUME PolicyInv, NEW r \in Readers, ReadVersion(r) \/ ReadRules(r) \/ ReadDone(r)
  PROVE  PolicyInv'
<1> USE DEF PolicyInv
<1>1. UNCHANGED <<table, tx, draft, pc, id>>
  BY DEF ReadVersion, ReadRules, ReadDone
<1>2. Locked' /\ TableOK' /\ DraftOK' /\ ServesWithPolicy'
  <2>1. Locked'
    BY <1>1 DEF Locked
  <2>2. TableOK'
    BY <1>1 DEF TableOK
  <2>3. DraftOK'
    BY <1>1 DEF DraftOK, Creating, SameVersions, Active, NewId
  <2>4. ServesWithPolicy'
    BY <1>1 DEF ServesWithPolicy, Serving, Active
  <2> QED
    BY <2>1, <2>2, <2>3, <2>4
<1>3. \A k \in DOMAIN table : k \in Nat /\ table[k].rules \in Nat /\ table[k].rules = NRules
  BY DEF TableOK
<1>4. CASE ReadVersion(r)
  <2>1. PICK k \in DOMAIN table : read' = [read EXCEPT ![r] = <<k, 0>>]
    BY <1>4 DEF ReadVersion, Active
  <2> QED
    BY <1>1, <1>2, <1>3, <1>4, <2>1 DEF ReadVersion, PolicyTypes, ReadOK
<1>5. CASE ReadRules(r)
  <2>1. read[r][1] \in DOMAIN table
    BY <1>5 DEF ReadRules, ReadOK
  <2> QED
    BY <1>1, <1>2, <1>3, <1>5, <2>1 DEF ReadRules, PolicyTypes, ReadOK
<1>6. CASE ReadDone(r)
  BY <1>1, <1>2, <1>6 DEF ReadDone, PolicyTypes, ReadOK
<1> QED
  BY <1>4, <1>5, <1>6

LEMMA PolicyInvInductive == PolicyInv /\ [PolicyNext]_policyVars => PolicyInv'
<1>1. ASSUME PolicyInv, PolicyNext PROVE PolicyInv'
  <2>1. CASE SeedIfEmpty \/ Restart
    BY <1>1, <2>1, OutsideKept
  <2>2. CASE Crash
    BY <1>1, <2>2, RollbackKept
  <2>3. ASSUME NEW w \in Writers, Write(w) PROVE PolicyInv'
    <3>1. CASE AskCreate(w) \/ AskActivate(w)
      BY <1>1, <3>1, OutsideKept
    <3>2. CASE InsertVersion(w) \/ InsertRule(w) \/ Deactivate(w) \/ SetActive(w)
      BY <1>1, <3>2, DraftingKept
    <3>3. CASE CommitCreate(w) \/ CommitActivate(w)
      BY <1>1, <3>3, CommitKept
    <3>4. CASE Fail(w) \/ NoSuchVersion(w)
      BY <1>1, <3>4, RollbackKept
    <3> QED
      BY <2>3, <3>1, <3>2, <3>3, <3>4 DEF Write
  <2>4. ASSUME NEW r \in Readers, ReadVersion(r) \/ ReadRules(r) \/ ReadDone(r)
        PROVE  PolicyInv'
    BY <1>1, <2>4, ReadingKept
  <2> QED
    BY <1>1, <2>1, <2>2, <2>3, <2>4 DEF PolicyNext
<1>2. ASSUME PolicyInv, UNCHANGED policyVars PROVE PolicyInv'
  <2> USE <1>2 DEF policyVars, PolicyInv
  <2>1. PolicyTypes' /\ Locked'
    BY DEF PolicyTypes, Locked
  <2>2. TableOK'
    BY DEF TableOK, Active
  <2>3. DraftOK'
    BY DEF DraftOK, Creating, SameVersions, Active, NewId
  <2>4. ReadOK' /\ ServesWithPolicy'
    BY DEF ReadOK, ServesWithPolicy, Serving, Active
  <2> QED
    BY <2>1, <2>2, <2>3, <2>4
<1> QED
  BY <1>1, <1>2

LEMMA PolicyInvHolds == PolicySpec => []PolicyInv
BY PolicyInitially, PolicyInvInductive, PTL DEF PolicySpec

-----------------------------------------------------------------------------
\* Activations, failures and crashes never leave two active versions
\* (repo.go:65-93).
THEOREM OneActiveHolds == PolicySpec => []OneActive
<1>1. PolicyInv => OneActive
  <2> SUFFICES ASSUME PolicyInv PROVE OneActive
    OBVIOUS
  <2>1. \A k, j \in Active(table) : k = j
    BY DEF PolicyInv, TableOK
  <2>2. CASE Active(table) = {}
    BY <2>2, FS_EmptySet DEF OneActive
  <2>3. CASE Active(table) # {}
    <3>1. PICK k : Active(table) = {k}
      BY <2>1, <2>3
    <3>2. Cardinality({k}) = 1
      BY FS_Singleton
    <3> QED
      BY <3>1, <3>2 DEF OneActive
  <2> QED
    BY <2>2, <2>3
<1> QED
  BY <1>1, PolicyInvHolds, PTL

\* A decision sees all the rules of the version it read (repo.go:95-128).
THEOREM SnapshotCompleteHolds == PolicySpec => []SnapshotComplete
<1>1. PolicyInv => SnapshotComplete
  BY DEF PolicyInv, ReadOK, SnapshotComplete
<1> QED
  BY <1>1, PolicyInvHolds, PTL

\* Once seeded, the control plane serves under an active policy (app.go:62-66).
THEOREM ServesWithPolicyHolds == PolicySpec => []ServesWithPolicy
<1>1. PolicyInv => ServesWithPolicy
  BY DEF PolicyInv
<1> QED
  BY <1>1, PolicyInvHolds, PTL

-----------------------------------------------------------------------------
(***************************************************************************)
(* The refinement.                                                         *)
(***************************************************************************)
Published == {k \in DOMAIN table : table[k].rules = NRules}
Current == IF Active(table) = {} THEN 0 ELSE CHOOSE k \in Active(table) : TRUE

LEMMA CatalogStart == PolicyInit => Catalog!CatalogInit
BY DEF PolicyInit, NoRows, Active, Catalog!CatalogInit

\* Only a commit changes the table: that of a creation publishes, that of an
\* activation chooses.
LEMMA CatalogStep ==
  ASSUME PolicyInv, [PolicyNext]_policyVars
  PROVE  [Catalog!CatalogNext]_(Catalog!catalogVars)
<1> USE DEF PolicyInv
<1>1. CASE UNCHANGED table
  BY <1>1 DEF Catalog!catalogVars, Active
<1>2. ASSUME NEW w \in Writers, CommitCreate(w) PROVE Catalog!CatalogNext
  <2>1. Creating(w) /\ draft[id[w]].rules = NRules /\ table' = draft
    BY <1>2 DEF CommitCreate, DraftOK
  <2>2. PICK n \in 0..MaxVersions : DOMAIN table = 1..n
    BY DEF TableOK
  <2>3. id[w] \in Ids /\ id[w] \notin DOMAIN table
    BY <2>1, <2>2, NewIdIsNext, PolicyConstants DEF Creating, Ids
  <2>4. Active(table') = Active(table)
    BY <2>1 DEF Creating, Active
  <2>5. Current' = Current
    BY <2>4 DEF Current
  <2>6. Published = DOMAIN table /\ Published' = DOMAIN table \cup {id[w]}
    BY <2>1 DEF Creating, TableOK, Published
  <2>7. ASSUME NEW k \in Ids, k = id[w] PROVE Catalog!Publish(k)
    <3>1. /\ {v \in DOMAIN table' : table'[v].rules = NRules} = Published \cup {id[w]}
          /\ id[w] \notin Published
      BY <2>3, <2>6 DEF Published
    <3> QED
      BY <2>3, <2>5, <2>7, <3>1 DEF Catalog!Publish, Published, Current
  <2> QED
    BY <2>3, <2>7 DEF Catalog!CatalogNext
<1>3. ASSUME NEW w \in Writers, CommitActivate(w) PROVE Catalog!CatalogNext
  <2>1. SameVersions /\ id[w] \in DOMAIN table /\ Active(draft) = {id[w]} /\ table' = draft
    BY <1>3 DEF CommitActivate, DraftOK
  <2>2. Published = DOMAIN table /\ Published' = DOMAIN table
    BY <2>1 DEF SameVersions, TableOK, Published
  <2>3. Current' = id[w]
    BY <2>1 DEF Current, Active
  <2>4. id[w] \in Ids
    BY <2>1, PolicyConstants DEF TableOK, Ids
  <2>5. Catalog!Choose(id[w])
    BY <2>1, <2>2, <2>3 DEF Catalog!Choose, Published, Current
  <2> QED
    BY <2>4, <2>5 DEF Catalog!CatalogNext
<1> QED
  BY <1>1, <1>2, <1>3
  DEF PolicyNext, policyVars, Write, SeedIfEmpty, Restart, Crash, AskCreate, AskActivate,
      InsertVersion, InsertRule, Deactivate, SetActive, NoSuchVersion, Fail, ReadVersion,
      ReadRules, ReadDone

\* The store implements the catalog: whatever is interleaved, fails or crashes,
\* versions are published whole, never change and are never left without one in
\* force once there was one (repo.go:30-93).
THEOREM CatalogImplemented == PolicySpec => ImplementsCatalog
<1>1. PolicyInv /\ [PolicyNext]_policyVars => [Catalog!CatalogNext]_(Catalog!catalogVars)
  BY CatalogStep
<1> QED
  BY <1>1, CatalogStart, PolicyInvHolds, PTL
  DEF PolicySpec, ImplementsCatalog, Catalog!CatalogSpec

-----------------------------------------------------------------------------
(***************************************************************************)
(* The process around the store.                                           *)
(***************************************************************************)
LEMMA ProcessStep ==
  ASSUME [CPNext]_cpVars
  PROVE  [PolicyNext]_policyVars
<1> USE DEF PolicyNext, Write, Writers
<1>1. CASE SeedPolicy
  BY <1>1 DEF SeedPolicy
<1>2. CASE Accept \/ Begin \/ Proceed
  BY <1>2 DEF Accept, Begin, Proceed
<1>3. CASE Exit \/ Die
  BY <1>3 DEF Exit, Die, Gone
<1>4. CASE UNCHANGED policyVars
  BY <1>4
<1> QED
  BY <1>1, <1>2, <1>3, <1>4
  DEF CPNext, cpVars, BootNext, Start, StartByHand, ExecMigration, RecordMigration,
      CommitMigration, Migrated, LoadKey, GenerateKey, KeyWritten, LoadDeviceCA,
      CreateDeviceCA, DeviceCAWritten, Refused, SeedResources,
      SeedResource, IssueSSHCert, Shutdown, Deadline, CloseStore

\* The process, with its starts, drains and deaths, implements the policy store: what
\* is shown of the store holds of the process (app.go:34-135).
THEOREM ProcessImplementsStore == CPSpec => PolicySpec
<1>1. CPInit => PolicyInit
  BY DEF CPInit
<1> QED
  BY <1>1, ProcessStep, PTL DEF CPSpec, PolicySpec

\* However it is started, stopped and killed, the process has one version in force, no
\* decision reads less than a whole version, and once it serves there is one; and all of
\* it looks like the catalog (repo.go:30-128, app.go:34-135).
THEOREM StoreWithinProcess ==
    CPSpec => [](OneActive /\ SnapshotComplete /\ ServesWithPolicy) /\ ImplementsCatalog
  BY ProcessImplementsStore, OneActiveHolds, SnapshotCompleteHolds, ServesWithPolicyHolds,
     CatalogImplemented, PTL

\* A process past its key's loading holds the key that is on disk; one that is writing
\* it has left a torn file; no certificate was issued before there was a key.
Keys == Nat \ {0}

KeyInv ==
    /\ crashes \in Nat
    /\ stage \in Starting \cup Running \cup {"ended"}
    /\ keyFile \in Nat \cup {Torn}
    /\ stage \in {"deviceca", "writecert", "policy", "resources", "seeding"} \cup Running =>
          signer = keyFile /\ keyFile \in Keys
    /\ stage = "writekey" => keyFile = Torn /\ signer \in Keys
    /\ cert # NoCert => cert.by = keyFile /\ keyFile \in Keys

LEMMA CrashesStep ==
  ASSUME crashes \in Nat, [CPNext]_cpVars
  PROVE  crashes' \in Nat
<1>1. CASE Exit \/ Die
  BY <1>1 DEF Exit, Die, Gone, Crash
<1>2. CASE SeedPolicy
  BY <1>2 DEF SeedPolicy, SeedIfEmpty, InsertVersion, InsertRule, CommitCreate, Deactivate,
      SetActive, CommitActivate
<1>3. CASE Accept \/ Begin
  BY <1>3 DEF Accept, Begin, AskCreate, AskActivate, ReadVersion, InsertVersion, Deactivate,
      ReadRules
<1>4. CASE Proceed
  BY <1>4 DEF Proceed, InsertRule, CommitCreate, SetActive, NoSuchVersion, CommitActivate,
      Fail, ReadDone
<1>5. CASE UNCHANGED policyVars
  BY <1>5 DEF policyVars
<1> QED
  BY <1>1, <1>2, <1>3, <1>4, <1>5
  DEF CPNext, cpVars, BootNext, Start, StartByHand, ExecMigration, RecordMigration,
      CommitMigration, Migrated, LoadKey, GenerateKey, KeyWritten, LoadDeviceCA,
      CreateDeviceCA, DeviceCAWritten, Refused, SeedResources,
      SeedResource, IssueSSHCert, Shutdown, Deadline, CloseStore

LEMMA KeyInvInductive == KeyInv /\ [CPNext]_cpVars => KeyInv'
<1> SUFFICES ASSUME KeyInv, [CPNext]_cpVars PROVE KeyInv'
  OBVIOUS
<1>0. crashes' \in Nat
  BY CrashesStep DEF KeyInv
<1> USE <1>0 DEF KeyInv, Starting, Running, Keys, Absent, Torn
<1>1. CASE Start \/ StartByHand \/ Migrated \/ Refused
  BY <1>1 DEF Start, StartByHand, Migrated, Refused, Blocked, bootVars, policyVars
<1>2. CASE ExecMigration \/ RecordMigration \/ CommitMigration
  BY <1>2 DEF ExecMigration, RecordMigration, CommitMigration
<1>3. CASE LoadKey
  BY <1>3 DEF LoadKey
<1>4. CASE GenerateKey
  BY <1>4 DEF GenerateKey
<1>5. CASE KeyWritten \/ LoadDeviceCA \/ CreateDeviceCA \/ DeviceCAWritten
  BY <1>5 DEF KeyWritten, LoadDeviceCA, CreateDeviceCA, DeviceCAWritten, bootVars
<1>6. CASE SeedPolicy \/ SeedResources \/ SeedResource
  BY <1>6 DEF SeedPolicy, SeedResources, SeedResource, bootVars
<1>7. CASE Accept \/ Begin \/ Proceed
  BY <1>7 DEF Accept, Begin, Proceed, bootVars
<1>8. ASSUME NEW q \in Requests, IssueSSHCert(q) PROVE KeyInv'
  BY <1>8 DEF IssueSSHCert
<1>9. CASE Shutdown \/ Deadline \/ CloseStore
  BY <1>9 DEF Shutdown, Deadline, CloseStore, bootVars
<1>10. CASE Exit \/ Die
  BY <1>10 DEF Exit, Die, Gone
<1>11. CASE UNCHANGED cpVars
  BY <1>11 DEF cpVars, bootVars, policyVars
<1> QED
  BY <1>1, <1>2, <1>3, <1>4, <1>5, <1>6, <1>7, <1>8, <1>9, <1>10, <1>11 DEF CPNext, BootNext

\* Whatever crash, every certificate verifies under the key on disk (sshca.go:19-46).
THEOREM KeyOutlivesCertsHolds == CPSpec => []KeyOutlivesCerts
<1>1. CPInit => KeyInv
  BY DEF CPInit, PolicyInit, KeyInv, Starting, Running, Absent, Torn
<1>2. KeyInv => KeyOutlivesCerts
  BY DEF KeyInv, KeyOutlivesCerts
<1> QED
  BY <1>1, <1>2, KeyInvInductive, PTL DEF CPSpec

-----------------------------------------------------------------------------
(***************************************************************************)
(* Certificates                                                            *)
(***************************************************************************)
\* What a request is granted is allowed, and has the user's name if that is allowed.
LEMMA GrantIsAllowed ==
  ASSUME NEW asked, NEW user, ResolveRequested(asked, user) # {}
  PROVE  /\ ResolveRequested(asked, user) \subseteq Allowed(user)
         /\ user \in Allowed(user) => user \in ResolveRequested(asked, user)
<1>1. FirstAllowed(user) \subseteq Allowed(user)
  BY DEF FirstAllowed, Allowed
<1>2. CASE asked = {}
  BY <1>1, <1>2 DEF ResolveRequested, DefaultPrincipal
<1>3. CASE asked # {}
  BY <1>3 DEF ResolveRequested
<1> QED
  BY <1>2, <1>3

LEMMA TtlIsBounded ==
  ASSUME NEW q \in Requests, Ttl(q) >= MinTTL
  PROVE  Ttl(q) \in MinTTL..MaxTTL
<1>1. Duration(q.seconds) \in Int
  BY ControlPlaneConstants DEF Duration
<1> QED
  BY <1>1, ControlPlaneConstants DEF Ttl

LEMMA CertStep == CertWithinRights /\ [CPNext]_cpVars => CertWithinRights'
<1> SUFFICES ASSUME CertWithinRights, [CPNext]_cpVars PROVE CertWithinRights'
  OBVIOUS
<1>1. ASSUME NEW q \in Requests, IssueSSHCert(q) PROVE CertWithinRights'
  <2>1. /\ cert'.principals = ResolveRequested(q.principals, q.user) /\ cert'.user = q.user
        /\ cert'.ttl = Ttl(q) /\ Ttl(q) >= MinTTL
        /\ ResolveRequested(q.principals, q.user) # {}
    BY <1>1 DEF IssueSSHCert
  <2> QED
    BY <2>1, GrantIsAllowed, TtlIsBounded DEF CertWithinRights
<1>2. CASE cert' = cert
  BY <1>2 DEF CertWithinRights
<1> QED
  BY <1>1, <1>2
  DEF CPNext, cpVars, bootVars, BootNext, Start, StartByHand, ExecMigration, RecordMigration,
      CommitMigration, Migrated, LoadKey, GenerateKey, KeyWritten, LoadDeviceCA,
      CreateDeviceCA, DeviceCAWritten, Refused, SeedPolicy, SeedResources,
      SeedResource, Accept, Begin, Proceed, Shutdown, Deadline, CloseStore, Exit, Die, Gone

\* Whatever was asked, with a product that wraps around or not, a certificate stays
\* within its user's rights and the bounds (service.go:42-168).
THEOREM CertWithinRightsHolds == CPSpec => []CertWithinRights
<1>1. CPInit => CertWithinRights
  BY DEF CPInit, CertWithinRights
<1> QED
  BY <1>1, CertStep, PTL DEF CPSpec
=============================================================================
