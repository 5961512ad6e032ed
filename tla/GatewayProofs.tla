----------------------------- MODULE GatewayProofs -----------------------------
(***************************************************************************)
(* Theorems about the gateway.  First the safety of its session manager,   *)
(* for every set of sessions, subjects and certificates, every limit and   *)
(* every clock.  Then the gateway's handlers, refresher, collector and     *)
(* shutdown, composed, drive the manager as it was specified, so that the  *)
(* manager's theorems hold of the gateway; and on top of it revocation,    *)
(* cancellation and the drain are correct in every interleaving.           *)
(***************************************************************************)
EXTENDS Gateway, FiniteSetTheorems, TLAPS

\* A session that is still in the map, or was never registered, does not carry
\* the reason only the CRL callback writes.
NoEarlyRevocation ==
    \A s \in Sessions : (s \in sessions \/ s \notin issued) => endReason[s] # "cert_revoked"

\* The inductive invariant: the safety properties and the fact above.
ManagerInv ==
    /\ ManagerTypeOK
    /\ SubjectLimit
    /\ OneKillerPerSession
    /\ ForcedReasonKept
    /\ ReapOnlyPastTTL
    /\ NoEarlyRevocation
    /\ RevokedIsCancelled

-----------------------------------------------------------------------------
\* Any set of registered sessions is finite, so its cardinality is a number.
LEMMA SubjectFinite ==
    ASSUME ManagerTypeOK, NEW u
    PROVE  IsFiniteSet(OfSubject(u)) /\ Cardinality(OfSubject(u)) \in Nat
<1>1. OfSubject(u) \subseteq sessions
    BY DEF OfSubject
<1>2. IsFiniteSet(sessions)
    BY DEF ManagerTypeOK
<1> QED
    BY <1>1, <1>2, FS_Subset, FS_CardinalityType

\* Removing sessions from the map keeps every subject within the limit.
LEMMA RemovalKeepsLimit ==
    ASSUME ManagerTypeOK, SubjectLimit, sessions' \subseteq sessions
    PROVE  SubjectLimit' /\ IsFiniteSet(sessions')
<1>1. IsFiniteSet(sessions')
    BY FS_Subset DEF ManagerTypeOK
<1>2. ASSUME NEW u \in Subjects
      PROVE  Cardinality(OfSubject(u)') <= Cardinality(OfSubject(u)) /\ Cardinality(OfSubject(u)') \in Nat
    <2>1. OfSubject(u)' \subseteq OfSubject(u)
        BY DEF OfSubject
    <2>2. IsFiniteSet(OfSubject(u)) /\ Cardinality(OfSubject(u)) \in Nat
        BY SubjectFinite
    <2> QED
        BY <2>1, <2>2, FS_Subset, FS_CardinalityType
<1>3. ASSUME NEW u \in Subjects
      PROVE  Cardinality(OfSubject(u)) \in Nat
    BY SubjectFinite
<1> QED
    BY <1>1, <1>2, <1>3, ManagerConstants DEF SubjectLimit

\* Register adds one session to a subject that had room.
LEMMA RegisterKeepsLimit ==
    ASSUME ManagerTypeOK, SubjectLimit, NEW s \in Sessions, NEW t \in TTLs, Register(s, t)
    PROVE  SubjectLimit' /\ IsFiniteSet(sessions')
<1>1. IsFiniteSet(sessions')
    BY FS_AddElement DEF ManagerTypeOK, Register
<1>2. SUFFICES ASSUME MaxPerSubject > 0, NEW u \in Subjects
               PROVE  Cardinality(OfSubject(u)') <= MaxPerSubject
    BY <1>1 DEF SubjectLimit
<1>3. IsFiniteSet(OfSubject(u)) /\ Cardinality(OfSubject(u)) \in Nat
    BY SubjectFinite
<1>4. CASE SubOf[s] = u
    <2>1. OfSubject(u)' = OfSubject(u) \cup {s} /\ s \notin OfSubject(u)
        BY <1>4 DEF OfSubject, Register, ManagerTypeOK
    <2>2. Cardinality(OfSubject(u)') = Cardinality(OfSubject(u)) + 1
        BY <1>3, <2>1, FS_AddElement
    <2>3. Cardinality(OfSubject(u)) < MaxPerSubject
        BY <1>2, <1>4 DEF Register, HasRoom
    <2> QED
        BY <1>3, <2>2, <2>3, ManagerConstants
<1>5. CASE SubOf[s] # u
    <2>1. OfSubject(u)' = OfSubject(u)
        BY <1>5 DEF OfSubject, Register
    <2> QED
        BY <1>2, <2>1 DEF SubjectLimit
<1> QED
    BY <1>4, <1>5

-----------------------------------------------------------------------------
(***************************************************************************)
(* One lemma per action: the action preserves the invariant.               *)
(***************************************************************************)
LEMMA RegisterInv ==
    ASSUME ManagerInv, NEW s \in Sessions, NEW t \in TTLs, Register(s, t)
    PROVE  ManagerInv'
<1> USE DEF ManagerInv
<1>1. SubjectLimit' /\ IsFiniteSet(sessions')
    BY RegisterKeepsLimit
<1>2. ManagerTypeOK'
    BY <1>1, ManagerConstants DEF ManagerTypeOK, Register
<1>3. s \notin sessions \cup cancelled \cup expired /\ \A k \in Killers : s \notin pending[k]
    BY DEF ManagerTypeOK, Register
<1>4. OneKillerPerSession'
    BY <1>3 DEF OneKillerPerSession, Register
<1>5. ForcedReasonKept'
    BY DEF ForcedReasonKept, Register
<1>6. ReapOnlyPastTTL'
    <2>1. "gc" \in Killers
        BY DEF Killers
    <2>2. SUFFICES ASSUME NEW x \in expired \cup pending["gc"]
                   PROVE  PastTTL(x)'
        BY DEF ReapOnlyPastTTL, Register
    <2>3. PastTTL(x) /\ x # s /\ x \in Sessions
        BY <1>3, <2>1 DEF ReapOnlyPastTTL, ManagerTypeOK
    <2> QED
        BY <2>3 DEF PastTTL, Register, ManagerTypeOK
<1>7. NoEarlyRevocation'
    BY DEF NoEarlyRevocation, Register
<1>8. RevokedIsCancelled'
    BY DEF RevokedIsCancelled, Register
<1> QED
    BY <1>1, <1>2, <1>4, <1>5, <1>6, <1>7, <1>8

LEMMA SetEndStatsInv ==
    ASSUME ManagerInv, NEW s \in Sessions, NEW r \in ProxyReasons, SetEndStats(s, r)
    PROVE  ManagerInv'
<1> USE DEF ManagerInv
<1>1. ManagerTypeOK'
    BY DEF ManagerTypeOK, SetEndStats, Reasons
<1>2. SubjectLimit'
    BY DEF SubjectLimit, OfSubject, SetEndStats
<1>3. OneKillerPerSession'
    BY DEF OneKillerPerSession, SetEndStats
<1>4. \A x \in Sessions : x \notin sessions => endReason'[x] = endReason[x]
    BY DEF SetEndStats, ManagerTypeOK
<1>5. ForcedReasonKept'
    <2>1. \A k \in Killers : \A x \in pending[k] : x \in Sessions /\ x \notin sessions
        BY DEF OneKillerPerSession, ManagerTypeOK
    <2>2. \A x \in cancelled : x \in Sessions /\ x \notin sessions
        BY DEF OneKillerPerSession, ManagerTypeOK
    <2>3. pending' = pending /\ cancelled' = cancelled
        BY DEF SetEndStats
    <2> QED
        BY <1>4, <2>1, <2>2, <2>3 DEF ForcedReasonKept
<1>6. ReapOnlyPastTTL'
    BY DEF ReapOnlyPastTTL, PastTTL, SetEndStats
<1>7. NoEarlyRevocation'
    BY ManagerConstants DEF NoEarlyRevocation, SetEndStats, ManagerTypeOK
<1>8. RevokedIsCancelled'
    BY <1>4 DEF RevokedIsCancelled, SetEndStats, ManagerTypeOK
<1> QED
    BY <1>1, <1>2, <1>3, <1>5, <1>6, <1>7, <1>8

LEMMA UnregisterInv ==
    ASSUME ManagerInv, NEW s \in Sessions, Unregister(s)
    PROVE  ManagerInv'
<1> USE DEF ManagerInv
<1>1. sessions' \subseteq sessions
    BY DEF Unregister
<1>2. SubjectLimit' /\ IsFiniteSet(sessions')
    BY <1>1, RemovalKeepsLimit
<1>3. ManagerTypeOK'
    BY <1>2 DEF ManagerTypeOK, Unregister
<1>4. OneKillerPerSession'
    BY DEF OneKillerPerSession, Unregister
<1>5. ForcedReasonKept'
    BY DEF ForcedReasonKept, Unregister
<1>6. ReapOnlyPastTTL'
    BY DEF ReapOnlyPastTTL, PastTTL, Unregister
<1>7. NoEarlyRevocation'
    BY DEF NoEarlyRevocation, Unregister
<1>8. RevokedIsCancelled'
    BY DEF RevokedIsCancelled, NoEarlyRevocation, Unregister, ManagerTypeOK
<1> QED
    BY <1>2, <1>3, <1>4, <1>5, <1>6, <1>7, <1>8

\* The three forced ends share one critical section.
LEMMA ForceOutInv ==
    ASSUME ManagerInv, NEW k \in Killers, NEW S \in SUBSET sessions, ForceOut(k, S),
           UNCHANGED <<now, issued, ttl, expiresAt, cancelled>>,
           expired' \subseteq expired,
           k = "gc" => \A x \in S : PastTTL(x)
    PROVE  ManagerInv'
<1> USE DEF ManagerInv
<1>1. sessions' \subseteq sessions
    BY DEF ForceOut
<1>2. SubjectLimit' /\ IsFiniteSet(sessions')
    BY <1>1, RemovalKeepsLimit
<1>3. \A j \in Killers : pending'[j] = IF j = k THEN pending[j] \cup S ELSE pending[j]
    BY DEF ForceOut, ManagerTypeOK
<1>4. \A x \in Sessions :
        endReason'[x] = IF x \in S THEN ForcedReason[k] ELSE endReason[x]
    BY DEF ForceOut
<1>5. ForcedReason[k] \in Reasons
    <2>1. CASE k = "gc"
        BY <2>1 DEF ForcedReason, Reasons
    <2>2. CASE k = "crl"
        BY <2>2 DEF ForcedReason, Reasons
    <2>3. CASE k = "admin"
        BY <2>3 DEF ForcedReason, Reasons
    <2> QED
        BY <2>1, <2>2, <2>3 DEF Killers
<1>6. ManagerTypeOK'
    BY <1>2, <1>5 DEF ManagerTypeOK, ForceOut
<1>7. OneKillerPerSession'
    BY <1>3 DEF OneKillerPerSession, ForceOut
<1>8. S \cap cancelled = {} /\ \A j \in Killers : S \cap pending[j] = {}
    BY DEF OneKillerPerSession
<1>9. ForcedReasonKept'
    <2>1. ASSUME NEW j \in Killers, NEW x \in pending'[j]
          PROVE  endReason'[x] = ForcedReason[j]
        BY <1>3, <1>4, <1>8 DEF ForcedReasonKept, ManagerTypeOK
    <2>2. ASSUME NEW x \in cancelled
          PROVE  endReason'[x] = endReason[x]
        BY <1>4, <1>8 DEF ManagerTypeOK
    <2> QED
        BY <2>1, <2>2 DEF ForcedReasonKept
<1>10. ReapOnlyPastTTL'
    <2>1. "gc" \in Killers
        BY DEF Killers
    <2>2. \A x \in expired' \cup pending'["gc"] : PastTTL(x)
        BY <1>3, <2>1 DEF ReapOnlyPastTTL
    <2> QED
        BY <2>2 DEF ReapOnlyPastTTL, PastTTL
<1>11. NoEarlyRevocation'
    BY <1>4 DEF NoEarlyRevocation, ForceOut, ManagerTypeOK
<1>12. RevokedIsCancelled'
    <2>1. SUFFICES ASSUME NEW x \in issued \ sessions', endReason'[x] = "cert_revoked"
                   PROVE  x \in pending'["crl"] \cup cancelled
        BY DEF RevokedIsCancelled
    <2>2. CASE x \in S
        BY <1>3, <1>4, <2>1, <2>2 DEF ForcedReason, Killers, ManagerTypeOK
    <2>3. CASE x \notin S
        <3>1. x \in issued \ sessions /\ endReason[x] = "cert_revoked"
            BY <1>4, <2>1, <2>3 DEF ForceOut, ManagerTypeOK
        <3> QED
            BY <1>3, <3>1 DEF RevokedIsCancelled, Killers
    <2> QED
        BY <2>2, <2>3
<1> QED
    BY <1>2, <1>6, <1>7, <1>9, <1>10, <1>11, <1>12

LEMMA KillSessionInv ==
    ASSUME ManagerInv, NEW s \in Sessions, KillSession(s)
    PROVE  ManagerInv'
    BY ForceOutInv DEF KillSession, Killers

LEMMA KillBySerialInv ==
    ASSUME ManagerInv, NEW n \in Serials, KillBySerial(n)
    PROVE  ManagerInv'
<1>1. OfSerial(n) \subseteq sessions
    BY DEF OfSerial
<1> QED
    BY <1>1, ForceOutInv DEF KillBySerial, Killers

LEMMA ReapSnapshotInv ==
    ASSUME ManagerInv, ReapSnapshot
    PROVE  ManagerInv'
<1> USE DEF ManagerInv
<1>1. ManagerTypeOK'
    BY DEF ManagerTypeOK, ReapSnapshot
<1>2. SubjectLimit'
    BY DEF SubjectLimit, OfSubject, ReapSnapshot
<1>3. OneKillerPerSession' /\ ForcedReasonKept'
    BY DEF OneKillerPerSession, ForcedReasonKept, ReapSnapshot
<1>4. ReapOnlyPastTTL'
    BY DEF ReapOnlyPastTTL, PastTTL, ReapSnapshot
<1>5. NoEarlyRevocation' /\ RevokedIsCancelled'
    BY DEF NoEarlyRevocation, RevokedIsCancelled, ReapSnapshot
<1> QED
    BY <1>1, <1>2, <1>3, <1>4, <1>5

LEMMA ReapOneInv ==
    ASSUME ManagerInv, NEW s \in Sessions, ReapOne(s)
    PROVE  ManagerInv'
<1>1. expired' \subseteq expired
    BY DEF ReapOne
<1>2. PastTTL(s)
    BY DEF ReapOne, ReapOnlyPastTTL, ManagerInv
<1> QED
    BY <1>1, <1>2, ForceOutInv DEF ReapOne, Killers

LEMMA CancelFuncInv ==
    ASSUME ManagerInv, NEW k \in Killers, NEW s \in Sessions, CancelFunc(k, s)
    PROVE  ManagerInv'
<1> USE DEF ManagerInv
<1>1. \A j \in Killers : pending'[j] = IF j = k THEN pending[j] \ {s} ELSE pending[j]
    BY DEF CancelFunc, ManagerTypeOK
<1>2. ManagerTypeOK'
    BY DEF ManagerTypeOK, CancelFunc
<1>3. SubjectLimit'
    BY DEF SubjectLimit, OfSubject, CancelFunc
<1>4. OneKillerPerSession'
    BY <1>1 DEF OneKillerPerSession, CancelFunc
<1>5. ForcedReasonKept'
    BY <1>1 DEF ForcedReasonKept, CancelFunc
<1>6. ReapOnlyPastTTL'
    BY <1>1 DEF ReapOnlyPastTTL, PastTTL, CancelFunc, Killers
<1>7. NoEarlyRevocation'
    BY DEF NoEarlyRevocation, CancelFunc
<1>8. RevokedIsCancelled'
    BY <1>1 DEF RevokedIsCancelled, CancelFunc, Killers
<1> QED
    BY <1>2, <1>3, <1>4, <1>5, <1>6, <1>7, <1>8

LEMMA TickInv ==
    ASSUME ManagerInv, Tick
    PROVE  ManagerInv'
<1> USE DEF ManagerInv
<1>1. ManagerTypeOK'
    BY DEF ManagerTypeOK, Tick
<1>2. SubjectLimit'
    BY DEF SubjectLimit, OfSubject, Tick
<1>3. OneKillerPerSession' /\ ForcedReasonKept'
    BY DEF OneKillerPerSession, ForcedReasonKept, Tick
<1>4. ReapOnlyPastTTL'
    <2>1. SUFFICES ASSUME NEW x \in expired \cup pending["gc"]
                   PROVE  ttl[x] > 0 /\ now + 1 > expiresAt[x]
        BY DEF ReapOnlyPastTTL, PastTTL, Tick
    <2>2. x \in Sessions /\ ttl[x] > 0 /\ now > expiresAt[x]
        BY DEF ReapOnlyPastTTL, PastTTL, ManagerTypeOK, Killers
    <2>3. now \in Nat /\ expiresAt[x] \in Nat
        BY <2>2 DEF ManagerTypeOK
    <2> QED
        BY <2>2, <2>3
<1>5. NoEarlyRevocation' /\ RevokedIsCancelled'
    BY DEF NoEarlyRevocation, RevokedIsCancelled, Tick
<1> QED
    BY <1>1, <1>2, <1>3, <1>4, <1>5

-----------------------------------------------------------------------------
LEMMA ManagerInitInv == ManagerInit => ManagerInv
<1> SUFFICES ASSUME ManagerInit PROVE ManagerInv
    OBVIOUS
<1>1. ManagerTypeOK
    BY FS_EmptySet, ManagerConstants DEF ManagerInit, ManagerTypeOK, Reasons
<1>2. SubjectLimit
    <2>1. \A u \in Subjects : OfSubject(u) = {}
        BY DEF ManagerInit, OfSubject
    <2> QED
        BY <2>1, FS_EmptySet, ManagerConstants DEF SubjectLimit
<1>3. OneKillerPerSession /\ ForcedReasonKept /\ ReapOnlyPastTTL
    BY DEF ManagerInit, OneKillerPerSession, ForcedReasonKept, ReapOnlyPastTTL, Killers
<1>4. NoEarlyRevocation /\ RevokedIsCancelled
    BY DEF ManagerInit, NoEarlyRevocation, RevokedIsCancelled
<1> QED
    BY <1>1, <1>2, <1>3, <1>4 DEF ManagerInv

LEMMA ManagerStepInv == ManagerInv /\ [ManagerNext]_managerVars => ManagerInv'
<1> SUFFICES ASSUME ManagerInv, [ManagerNext]_managerVars PROVE ManagerInv'
    OBVIOUS
<1>1. CASE ManagerNext
    BY <1>1, RegisterInv, SetEndStatsInv, UnregisterInv, KillSessionInv, ReapOneInv,
       CancelFuncInv, KillBySerialInv, ReapSnapshotInv, TickInv DEF ManagerNext
<1>2. CASE UNCHANGED managerVars
    BY <1>2 DEF managerVars, ManagerInv, ManagerTypeOK, SubjectLimit, OfSubject,
       OneKillerPerSession, ForcedReasonKept, ReapOnlyPastTTL, PastTTL,
       NoEarlyRevocation, RevokedIsCancelled
<1> QED
    BY <1>1, <1>2

\* The inductive invariant holds in every state of the session manager.
THEOREM ManagerInvariant == ManagerSpec => []ManagerInv
    BY ManagerInitInv, ManagerStepInv, PTL DEF ManagerSpec

\* Every variable always has its type.
THEOREM ManagerTypeCorrect == ManagerSpec => []ManagerTypeOK
<1>1. ManagerInv => ManagerTypeOK
    BY DEF ManagerInv
<1> QED
    BY <1>1, ManagerInvariant, PTL

\* No interleaving of registrations and removals takes a subject past its limit.
THEOREM SubjectLimitHolds == ManagerSpec => []SubjectLimit
<1>1. ManagerInv => SubjectLimit
    BY DEF ManagerInv
<1> QED
    BY <1>1, ManagerInvariant, PTL

\* A session is removed by one killer and its CancelFunc called at most once.
THEOREM OneKillerHolds == ManagerSpec => []OneKillerPerSession
<1>1. ManagerInv => OneKillerPerSession
    BY DEF ManagerInv
<1> QED
    BY <1>1, ManagerInvariant, PTL

\* A forced end keeps the reason of the goroutine that forced it.
THEOREM ForcedReasonHolds == ManagerSpec => []ForcedReasonKept
<1>1. ManagerInv => ForcedReasonKept
    BY DEF ManagerInv
<1> QED
    BY <1>1, ManagerInvariant, PTL

\* The collector only ends sessions that are past a TTL they have.
THEOREM ReapOnlyPastTTLHolds == ManagerSpec => []ReapOnlyPastTTL
<1>1. ManagerInv => ReapOnlyPastTTL
    BY DEF ManagerInv
<1> QED
    BY <1>1, ManagerInvariant, PTL

\* A session taken out by a revocation is cancelled, or held for it.
THEOREM RevokedIsCancelledHolds == ManagerSpec => []RevokedIsCancelled
<1>1. ManagerInv => RevokedIsCancelled
    BY DEF ManagerInv
<1> QED
    BY <1>1, ManagerInvariant, PTL

-----------------------------------------------------------------------------
(***************************************************************************)
(* The action property, and the manager implements SessionRegistry.        *)
(***************************************************************************)
LEMMA EndIsFinalStep ==
    ASSUME ManagerInv, [ManagerNext]_managerVars
    PROVE  [\A s \in issued \ sessions : s \notin sessions' /\ endReason'[s] = endReason[s]]_managerVars
<1> SUFFICES ASSUME ManagerNext, NEW s \in issued \ sessions
             PROVE  s \notin sessions' /\ endReason'[s] = endReason[s]
    BY DEF managerVars
<1>1. s \in Sessions /\ endReason \in [Sessions -> Reasons]
    BY DEF ManagerInv, ManagerTypeOK
<1>2. ASSUME NEW k \in Killers, NEW S \in SUBSET sessions, ForceOut(k, S)
      PROVE  s \notin sessions' /\ endReason'[s] = endReason[s]
    BY <1>1, <1>2 DEF ForceOut
<1>3. ASSUME NEW x \in Sessions, NEW t \in TTLs, Register(x, t)
      PROVE  s \notin sessions' /\ endReason'[s] = endReason[s]
    BY <1>3 DEF Register
<1>4. ASSUME NEW x \in Sessions, NEW r \in ProxyReasons, SetEndStats(x, r)
      PROVE  s \notin sessions' /\ endReason'[s] = endReason[s]
    BY <1>1, <1>4 DEF SetEndStats
<1>5. ASSUME NEW x \in Sessions, Unregister(x)
      PROVE  s \notin sessions' /\ endReason'[s] = endReason[s]
    BY <1>5 DEF Unregister
<1>6. ASSUME NEW x \in Sessions, KillSession(x)
      PROVE  s \notin sessions' /\ endReason'[s] = endReason[s]
    BY <1>2, <1>6 DEF KillSession, Killers
<1>7. ASSUME NEW n \in Serials, KillBySerial(n)
      PROVE  s \notin sessions' /\ endReason'[s] = endReason[s]
    BY <1>2, <1>7 DEF KillBySerial, Killers, OfSerial
<1>8. ASSUME NEW x \in Sessions, ReapOne(x)
      PROVE  s \notin sessions' /\ endReason'[s] = endReason[s]
    BY <1>2, <1>8 DEF ReapOne, Killers
<1>9. CASE ReapSnapshot \/ Tick \/ \E x \in Sessions, k \in Killers : CancelFunc(k, x)
    BY <1>9 DEF ReapSnapshot, Tick, CancelFunc
<1> QED
    BY <1>3, <1>4, <1>5, <1>6, <1>7, <1>8, <1>9 DEF ManagerNext

\* Out of the map for good, with the reason it left with.
THEOREM EndIsFinalHolds == ManagerSpec => EndIsFinal
    BY ManagerInvariant, EndIsFinalStep, PTL DEF ManagerSpec, EndIsFinal

\* The registry's view of a step that removes S and gives it to the killer k.
LEMMA ForceOutRefines ==
    ASSUME ManagerInv, NEW k \in Killers, NEW S \in SUBSET sessions, ForceOut(k, S),
           UNCHANGED <<now, issued, ttl, expiresAt, cancelled>>
    PROVE  [Registry!Next]_(Registry!registryVars)
<1>1. \A j \in Killers : pending'[j] = IF j = k THEN pending[j] \cup S ELSE pending[j]
    BY DEF ForceOut, ManagerInv, ManagerTypeOK
<1>2. Held' = Held \cup S
    BY <1>1 DEF Held, ManagerInv, ManagerTypeOK
<1>3. issued' \ sessions' = (issued \ sessions) \cup S
    BY DEF ForceOut, ManagerInv, ManagerTypeOK
<1>4. Overdue' = Overdue \ S
    BY DEF ForceOut, Overdue, PastTTL
<1>5. CASE S = {}
    BY <1>2, <1>3, <1>4, <1>5 DEF ForceOut, Registry!registryVars
<1>6. CASE S # {}
    <2>1. S \in SUBSET Sessions
        BY DEF ManagerInv, ManagerTypeOK
    <2>2. Registry!ForceLeave(S)
        BY <1>2, <1>3, <1>4, <1>6 DEF ForceOut, Registry!ForceLeave
    <2> QED
        BY <2>1, <2>2 DEF Registry!Next
<1> QED
    BY <1>5, <1>6

\* Every step of the manager is a step of the registry or changes nothing in it.
LEMMA RegistryStep ==
    ASSUME ManagerInv, [ManagerNext]_managerVars
    PROVE  [Registry!Next]_(Registry!registryVars)
<1>1. ASSUME NEW s \in Sessions, NEW t \in TTLs, Register(s, t)
      PROVE  Registry!Open(s)
    <2>1. issued' \ sessions' = issued \ sessions /\ UNCHANGED <<Held, cancelled>>
        BY <1>1 DEF Register, Held, ManagerInv, ManagerTypeOK
    <2>2. s \notin sessions \cup (issued \ sessions)
        BY <1>1 DEF Register, ManagerInv, ManagerTypeOK
    <2>3. ~PastTTL(s)'
        BY <1>1, ManagerConstants DEF Register, PastTTL, ManagerInv, ManagerTypeOK
    <2>4. \A o \in sessions : PastTTL(o)' <=> PastTTL(o)
        BY <1>1, <2>2 DEF Register, PastTTL, ManagerInv, ManagerTypeOK
    <2>5. Overdue' = Overdue
        BY <1>1, <2>3, <2>4 DEF Register, Overdue
    <2> QED
        BY <1>1, <2>1, <2>2, <2>5 DEF Register, HasRoom, OfSubject, Registry!Open,
           Cardinality, Registry!Cardinality, IsFiniteSet, Registry!IsFiniteSet
<1>2. ASSUME NEW s \in Sessions, Unregister(s)
      PROVE  Registry!Leave(s) \/ UNCHANGED Registry!registryVars
    <2>1. UNCHANGED <<Held, cancelled>> /\ Overdue' = Overdue \ {s}
        BY <1>2 DEF Unregister, Held, Overdue, PastTTL
    <2>2. CASE s \in sessions
        BY <1>2, <2>1, <2>2 DEF Unregister, Registry!Leave, ManagerInv, ManagerTypeOK
    <2>3. CASE s \notin sessions
        BY <1>2, <2>1, <2>3 DEF Unregister, Overdue, Registry!registryVars
    <2> QED
        BY <2>2, <2>3
<1>3. ASSUME NEW k \in Killers, NEW s \in Sessions, CancelFunc(k, s)
      PROVE  Registry!Stop(s)
    <2>1. \A j \in Killers : pending'[j] = IF j = k THEN pending[j] \ {s} ELSE pending[j]
        BY <1>3 DEF CancelFunc, ManagerInv, ManagerTypeOK
    <2>2. s \in pending[k] /\ \A j \in Killers : j # k => s \notin pending[j]
        BY <1>3 DEF CancelFunc, ManagerInv, OneKillerPerSession
    <2>3. s \in Held /\ Held' = Held \ {s}
        BY <1>3, <2>1, <2>2 DEF CancelFunc, Held, ManagerInv, ManagerTypeOK
    <2>4. Overdue' = Overdue
        BY <1>3 DEF CancelFunc, Overdue, PastTTL
    <2> QED
        BY <1>3, <2>2, <2>3, <2>4 DEF CancelFunc, Registry!Stop
<1>4. ASSUME NEW s \in Sessions, NEW r \in ProxyReasons, SetEndStats(s, r)
      PROVE  UNCHANGED Registry!registryVars
    BY <1>4 DEF SetEndStats, Held, Overdue, PastTTL, Registry!registryVars
<1>5. ASSUME NEW s \in Sessions, KillSession(s)
      PROVE  [Registry!Next]_(Registry!registryVars)
    BY <1>5, ForceOutRefines DEF KillSession, Killers
<1>6. ASSUME NEW n \in Serials, KillBySerial(n)
      PROVE  [Registry!Next]_(Registry!registryVars)
    BY <1>6, ForceOutRefines DEF KillBySerial, Killers, OfSerial
<1>7. ASSUME NEW s \in Sessions, ReapOne(s)
      PROVE  [Registry!Next]_(Registry!registryVars)
    BY <1>7, ForceOutRefines DEF ReapOne, Killers
<1>8. CASE ReapSnapshot \/ UNCHANGED managerVars
    BY <1>8 DEF ReapSnapshot, managerVars, Held, Overdue, PastTTL, Registry!registryVars
<1>9. CASE Tick
    <2> DEFINE L == Overdue' \ Overdue
    <2>1. UNCHANGED <<sessions, issued, Held, cancelled>>
        BY <1>9 DEF Tick, Held
    <2>2. Overdue \subseteq Overdue'
        BY <1>9 DEF Tick, Overdue, PastTTL, ManagerInv, ManagerTypeOK
    <2>3. L \subseteq sessions \ Overdue /\ L \in SUBSET Sessions
        BY <2>1 DEF Overdue, ManagerInv, ManagerTypeOK
    <2>4. Overdue' = Overdue \cup L
        BY <2>2
    <2>5. CASE L = {}
        BY <2>1, <2>4, <2>5 DEF Registry!registryVars
    <2>6. CASE L # {}
        BY <2>1, <2>3, <2>4, <2>6 DEF Registry!Lapse, Registry!Next
    <2> QED
        BY <2>5, <2>6
<1> QED
    BY <1>1, <1>2, <1>3, <1>4, <1>5, <1>6, <1>7, <1>8, <1>9 DEF ManagerNext, Registry!Next

\* For every value of the constants, the lock-and-snapshot manager implements
\* the registry it promises to be.
THEOREM RegistryImplemented == ManagerSpec => ImplementsRegistry
<1>1. ManagerInit => Registry!Init
    BY DEF ManagerInit, Held, Overdue, Registry!Init
<1>2. ManagerInv /\ [ManagerNext]_managerVars => [Registry!Next]_(Registry!registryVars)
    BY RegistryStep
<1> QED
    BY <1>1, <1>2, ManagerInvariant, PTL DEF ManagerSpec, ImplementsRegistry, Registry!Spec

-----------------------------------------------------------------------------
(***************************************************************************)
(* The gateway around the manager.                                         *)
(***************************************************************************)
\* What the mapping to the manager needs to know of the handlers' state.
HandlersTyped ==
    /\ pc \in [Sessions -> Phases]
    /\ ctxErr \in [Sessions -> {"none", "canceled", "deadline"}]
    /\ result \in [Sessions -> {""} \cup ProxyReasons]

\* Whatever the state of the context, Proxy's reason is one of its own.
LEMMA RelayReasonType ==
    ASSUME NEW e \in {"none", "canceled", "deadline"}
    PROVE  RelayReason[e] \in ProxyReasons
<1>1. RelayReason["none"] = "peer_end" /\ RelayReason["canceled"] = "admin_kill"
        /\ RelayReason["deadline"] = "ttl_expired"
    BY DEF RelayReason
<1>2. "peer_end" \in ProxyReasons /\ "admin_kill" \in ProxyReasons
        /\ "ttl_expired" \in ProxyReasons
    BY GatewayConstants
<1>3. e = "none" \/ e = "canceled" \/ e = "deadline"
    OBVIOUS
<1> QED
    BY <1>1, <1>2, <1>3

LEMMA HandlersTypedInit == GatewayInit => HandlersTyped
    BY DEF GatewayInit, HandlersTyped, Phases

\* Every handler action writes a phase, an error or a reason of its type.
LEMMA HandlersTypedStep ==
    ASSUME HandlersTyped, [GatewayNext]_gatewayVars
    PROVE  HandlersTyped'
<1> USE DEF HandlersTyped
<1>1. ASSUME NEW c \in Sessions, Accept(c) \/ CheckRevoked(c) \/ Refuse(c)
      PROVE  HandlersTyped'
    BY <1>1 DEF Accept, CheckRevoked, Refuse, Goto, Phases
<1>2. ASSUME NEW c \in Sessions, NEW t \in TTLs, Admit(c, t)
      PROVE  HandlersTyped'
    BY <1>2 DEF Admit, Goto, Phases
<1>3. ASSUME NEW c \in Sessions, AllowSent(c) \/ DialOK(c) \/ EndStats(c)
      PROVE  HandlersTyped'
    BY <1>3 DEF AllowSent, DialOK, EndStats, Goto, Phases
<1>4. ASSUME NEW c \in Sessions, AllowFailed(c)
      PROVE  HandlersTyped'
    BY <1>4 DEF AllowFailed, Goto, Canceled, Phases
<1>5. ASSUME NEW c \in Sessions, Leave(c)
      PROVE  HandlersTyped'
    BY <1>5 DEF Leave, Goto, Canceled, Phases
<1>6. ASSUME NEW c \in Sessions, DialFails(c) \/ RelayEnds(c)
      PROVE  HandlersTyped'
    <2>1. CASE DialFails(c)
        BY <2>1, GatewayConstants DEF DialFails, Goto, Phases
    <2>2. CASE RelayEnds(c)
        <3>1. ctxErr[c] \in {"none", "canceled", "deadline"}
            OBVIOUS
        <3>2. RelayReason[ctxErr[c]] \in ProxyReasons
            BY <3>1, RelayReasonType
        <3> QED
            BY <2>2, <3>2 DEF RelayEnds, Goto, Phases
    <2> QED
        BY <1>6, <2>1, <2>2
<1>7. ASSUME NEW c \in Sessions, DeadlineExceeded(c)
      PROVE  HandlersTyped'
    BY <1>7 DEF DeadlineExceeded
<1>8. ASSUME NEW c \in Sessions, NEW k \in Killers, KillerCancels(k, c)
      PROVE  HandlersTyped'
    BY <1>8 DEF KillerCancels, Canceled
<1>9. CASE UNCHANGED handlerVars
    BY <1>9 DEF handlerVars
<1>10. ASSUME NEW n \in Serials, Revoke(n) \/ KillRevoked(n)
       PROVE  UNCHANGED handlerVars
    BY <1>10 DEF Revoke, KillRevoked
<1>11. ASSUME Fetch \/ Install \/ RefreshDone \/ Collect \/ Clock \/ Signal \/ ListenerStops
       PROVE  UNCHANGED handlerVars
    BY <1>11 DEF Fetch, Install, RefreshDone, Collect, Clock, Signal, ListenerStops
<1>12. ASSUME Closer
       PROVE  UNCHANGED handlerVars
    BY <1>12 DEF Closer, CountActive, CloseListener, Drained, DrainDeadline, ListActive,
                 Exit, KillListed
<1>13. CASE UNCHANGED gatewayVars
    BY <1>13, <1>9 DEF gatewayVars, handlerVars
<1>14. CASE Exited
    BY <1>14, <1>13 DEF Exited
<1> QED
    BY <1>1, <1>2, <1>3, <1>4, <1>5, <1>6, <1>7, <1>8, <1>9, <1>10, <1>11, <1>12, <1>13, <1>14
       DEF GatewayNext, Handler, Refresher

LEMMA HandlersTypedHolds == GatewaySpec => []HandlersTyped
    BY HandlersTypedInit, HandlersTypedStep, PTL DEF GatewaySpec

-----------------------------------------------------------------------------
(***************************************************************************)
(* Each action of the gateway is one of the manager's, or leaves it alone. *)
(***************************************************************************)
LEMMA ManagerStep ==
    ASSUME HandlersTyped, [GatewayNext]_gatewayVars
    PROVE  [ManagerNext]_managerVars
<1>1. ASSUME NEW c \in Sessions,
             Accept(c) \/ CheckRevoked(c) \/ Refuse(c) \/ AllowSent(c) \/ DialOK(c)
               \/ DialFails(c) \/ RelayEnds(c) \/ DeadlineExceeded(c)
      PROVE  UNCHANGED managerVars
    BY <1>1 DEF Accept, CheckRevoked, Refuse, AllowSent, DialOK, DialFails, RelayEnds,
                DeadlineExceeded
<1>2. ASSUME NEW c \in Sessions, NEW t \in TTLs, Admit(c, t)
      PROVE  ManagerNext
    BY <1>2 DEF Admit, ManagerNext
<1>3. ASSUME NEW c \in Sessions, AllowFailed(c) \/ Leave(c)
      PROVE  ManagerNext
    BY <1>3 DEF AllowFailed, Leave, ManagerNext
<1>4. ASSUME NEW c \in Sessions, EndStats(c)
      PROVE  ManagerNext \/ UNCHANGED managerVars
    <2>1. CASE result[c] \in ProxyReasons
        BY <1>4, <2>1 DEF EndStats, ManagerNext
    <2>2. CASE result[c] = ""
        BY <1>4, <2>2 DEF EndStats, SetEndStats, managerVars
    <2> QED
        BY <2>1, <2>2 DEF HandlersTyped
<1>5. ASSUME NEW c \in Sessions, NEW k \in Killers, KillerCancels(k, c)
      PROVE  ManagerNext
    BY <1>5 DEF KillerCancels, ManagerNext
<1>6. ASSUME NEW n \in Serials, KillRevoked(n)
      PROVE  ManagerNext
    BY <1>6 DEF KillRevoked, ManagerNext
<1>7. ASSUME NEW c \in Sessions, KillListed(c)
      PROVE  ManagerNext \/ UNCHANGED managerVars
    BY <1>7 DEF KillListed, ManagerNext
<1>8. ASSUME Collect \/ Clock
      PROVE  ManagerNext
    BY <1>8 DEF Collect, Clock, ManagerNext
<1>9. ASSUME (\E n \in Serials : Revoke(n)) \/ Fetch \/ Install \/ RefreshDone \/ Signal
               \/ ListenerStops
      PROVE  UNCHANGED managerVars
    BY <1>9 DEF Revoke, Fetch, Install, RefreshDone, Signal, ListenerStops
<1>10. ASSUME CountActive \/ CloseListener \/ Drained \/ DrainDeadline \/ ListActive \/ Exit
       PROVE  UNCHANGED managerVars
    BY <1>10 DEF CountActive, CloseListener, Drained, DrainDeadline, ListActive, Exit
<1>11. ASSUME Exited \/ UNCHANGED gatewayVars
       PROVE  UNCHANGED managerVars
    BY <1>11 DEF Exited, gatewayVars
<1> QED
    BY <1>1, <1>2, <1>3, <1>4, <1>5, <1>6, <1>7, <1>8, <1>9, <1>10, <1>11
       DEF GatewayNext, Handler, Refresher, Closer

\* The composed gateway drives the manager only as ManagerSpec allows.
THEOREM GatewayImplementsManager == GatewaySpec => ImplementsManager
<1>1. GatewayInit => ManagerInit
    BY DEF GatewayInit
<1>2. HandlersTyped /\ [GatewayNext]_gatewayVars => [ManagerNext]_managerVars
    BY ManagerStep
<1> QED
    BY <1>1, <1>2, HandlersTypedHolds, PTL DEF GatewaySpec, ImplementsManager, ManagerSpec

\* So the manager's inductive invariant holds of the gateway.
LEMMA GatewayManagerInv == GatewaySpec => []ManagerInv
    BY GatewayImplementsManager, ManagerInvariant, PTL DEF ImplementsManager

-----------------------------------------------------------------------------
(***************************************************************************)
(* A revocation ends the sessions it finds.                                *)
(***************************************************************************)

\* The inductive form: between Install and the last KillBySerial, the sessions
\* not yet killed are on a certificate the callback has still to handle.
RevocationInv ==
    \A c \in sessions :
        SerialOf[c] \in revoked => \/ c \in listed
                                   \/ refresh = "killing" /\ SerialOf[c] \in newly

\* A step that only removes sessions, or touches none, keeps it.
LEMMA RevocationInvRemoval ==
    ASSUME RevocationInv, sessions' \subseteq sessions,
           UNCHANGED <<listed, revoked, refresh, newly>>
    PROVE  RevocationInv'
    BY DEF RevocationInv

LEMMA RevocationInvStep ==
    ASSUME RevocationInv, [GatewayNext]_gatewayVars
    PROVE  RevocationInv'
<1>1. ASSUME NEW c \in Sessions,
             Accept(c) \/ CheckRevoked(c) \/ Refuse(c) \/ AllowSent(c) \/ DialOK(c)
               \/ DialFails(c) \/ RelayEnds(c) \/ DeadlineExceeded(c)
      PROVE  RevocationInv'
    BY <1>1, RevocationInvRemoval
       DEF Accept, CheckRevoked, Refuse, AllowSent, DialOK, DialFails, RelayEnds,
           DeadlineExceeded, managerVars, crlVars
<1>2. ASSUME NEW c \in Sessions, NEW t \in TTLs, Admit(c, t)
      PROVE  RevocationInv'
    BY <1>2 DEF Admit, Register, RevocationInv, crlVars
<1>3. ASSUME NEW c \in Sessions, AllowFailed(c) \/ EndStats(c) \/ Leave(c)
      PROVE  RevocationInv'
    BY <1>3, RevocationInvRemoval
       DEF AllowFailed, EndStats, Leave, Unregister, SetEndStats, crlVars
<1>4. ASSUME NEW c \in Sessions, NEW k \in Killers, KillerCancels(k, c)
      PROVE  RevocationInv'
    BY <1>4, RevocationInvRemoval DEF KillerCancels, CancelFunc, crlVars
<1>5. ASSUME NEW n \in Serials, Revoke(n)
      PROVE  RevocationInv'
    BY <1>5, RevocationInvRemoval DEF Revoke, managerVars, handlerVars
<1>6. ASSUME Fetch
      PROVE  RevocationInv'
    BY <1>6 DEF Fetch, RevocationInv, managerVars, handlerVars
<1>7. ASSUME Install
      PROVE  RevocationInv'
    BY <1>7 DEF Install, RevocationInv, managerVars, handlerVars
<1>8. ASSUME NEW n \in Serials, KillRevoked(n)
      PROVE  RevocationInv'
    BY <1>8 DEF KillRevoked, KillBySerial, ForceOut, OfSerial, RevocationInv, handlerVars
<1>9. ASSUME RefreshDone
      PROVE  RevocationInv'
    BY <1>9 DEF RefreshDone, RevocationInv, managerVars, handlerVars
<1>10. ASSUME NEW c \in Sessions, KillListed(c)
       PROVE  RevocationInv'
    BY <1>10, RevocationInvRemoval
       DEF KillListed, KillSession, ForceOut, handlerVars, crlVars, managerVars
<1>11. ASSUME Collect \/ Clock
       PROVE  RevocationInv'
    BY <1>11, RevocationInvRemoval
       DEF Collect, Clock, ReapSnapshot, ReapOne, ForceOut, Tick, handlerVars, crlVars
<1>12. ASSUME Signal \/ ListenerStops \/ CountActive \/ CloseListener \/ Drained
                \/ DrainDeadline \/ ListActive \/ Exit
       PROVE  RevocationInv'
    BY <1>12, RevocationInvRemoval
       DEF Signal, ListenerStops, CountActive, CloseListener, Drained, DrainDeadline,
           ListActive, Exit, managerVars, handlerVars, crlVars
<1>13. ASSUME Exited \/ UNCHANGED gatewayVars
       PROVE  RevocationInv'
    BY <1>13, RevocationInvRemoval DEF Exited, gatewayVars, managerVars, handlerVars, crlVars
<1> QED
    BY <1>1, <1>2, <1>3, <1>4, <1>5, <1>6, <1>7, <1>8, <1>9, <1>10, <1>11, <1>12, <1>13
       DEF GatewayNext, Handler, Refresher, Closer

\* When the refresher is done, every session that existed when its certificate
\* became listed has been removed.
THEOREM RevocationEndsSessionsHolds == GatewaySpec => []RevocationEndsSessions
<1>1. GatewayInit => RevocationInv
    BY DEF GatewayInit, ManagerInit, RevocationInv
<1>2. RevocationInv => RevocationEndsSessions
    BY DEF RevocationInv, RevocationEndsSessions
<1> QED
    BY <1>1, <1>2, RevocationInvStep, PTL DEF GatewaySpec

-----------------------------------------------------------------------------
(***************************************************************************)
(* The drain comes before the kill.                                        *)
(***************************************************************************)

\* The inductive form: until the drain is over nothing is killed, and once it
\* is, either its deadline has passed or what it waited for is out of the map.
DrainInv ==
    /\ gw \in {"running", "stopping", "counted", "draining", "drained", "killing", "exited"}
    /\ counted \subseteq issued
    /\ gw \in {"running", "stopping"} => counted = {}
    /\ gw \in {"running", "stopping", "counted", "draining"} => pending["admin"] = {}
    /\ gw \in {"drained", "killing", "exited"} =>
          deadline \/ counted \cap (sessions \cup pending["admin"]) = {}

\* A step of the manager that neither registers nor adds to KillSession's hands.
LEMMA DrainInvRemoval ==
    ASSUME DrainInv, sessions' \subseteq sessions, pending'["admin"] \subseteq pending["admin"],
           UNCHANGED <<issued, counted, gw, deadline>>
    PROVE  DrainInv'
    BY DEF DrainInv

LEMMA DrainInvStep ==
    ASSUME DrainInv, ManagerTypeOK, [GatewayNext]_gatewayVars
    PROVE  DrainInv'
<1>1. ASSUME NEW c \in Sessions,
             Accept(c) \/ CheckRevoked(c) \/ Refuse(c) \/ AllowSent(c) \/ DialOK(c)
               \/ DialFails(c) \/ RelayEnds(c) \/ DeadlineExceeded(c)
      PROVE  DrainInv'
    BY <1>1, DrainInvRemoval
       DEF Accept, CheckRevoked, Refuse, AllowSent, DialOK, DialFails, RelayEnds,
           DeadlineExceeded, managerVars, closeVars
<1>2. ASSUME NEW c \in Sessions, NEW t \in TTLs, Admit(c, t)
      PROVE  DrainInv'
    BY <1>2 DEF Admit, Register, DrainInv, closeVars
<1>3. ASSUME NEW c \in Sessions, AllowFailed(c) \/ EndStats(c) \/ Leave(c)
      PROVE  DrainInv'
    BY <1>3, DrainInvRemoval
       DEF AllowFailed, EndStats, Leave, Unregister, SetEndStats, closeVars
<1>4. ASSUME NEW c \in Sessions, NEW k \in Killers, KillerCancels(k, c)
      PROVE  DrainInv'
    <2>1. pending'["admin"] \subseteq pending["admin"]
        BY <1>4 DEF KillerCancels, CancelFunc, ManagerTypeOK, Killers
    <2> QED
        BY <1>4, <2>1, DrainInvRemoval DEF KillerCancels, CancelFunc, closeVars
<1>5. ASSUME (\E n \in Serials : Revoke(n)) \/ Fetch \/ Install \/ RefreshDone
      PROVE  DrainInv'
    BY <1>5, DrainInvRemoval
       DEF Revoke, Fetch, Install, RefreshDone, managerVars, closeVars
<1>6. ASSUME NEW n \in Serials, KillRevoked(n)
      PROVE  DrainInv'
    <2>1. pending'["admin"] = pending["admin"]
        BY <1>6 DEF KillRevoked, KillBySerial, ForceOut, ManagerTypeOK, Killers
    <2> QED
        BY <1>6, <2>1, DrainInvRemoval DEF KillRevoked, KillBySerial, ForceOut, closeVars
<1>7. ASSUME NEW c \in Sessions, KillListed(c)
      PROVE  DrainInv'
    <2>1. CASE KillSession(c)
        <3>1. pending'["admin"] = pending["admin"] \cup {c}
            BY <2>1 DEF KillSession, ForceOut, ManagerTypeOK, Killers
        <3> QED
            BY <1>7, <2>1, <3>1 DEF KillListed, KillSession, ForceOut, DrainInv
    <2>2. CASE UNCHANGED managerVars
        BY <1>7, <2>2, DrainInvRemoval DEF KillListed, managerVars
    <2> QED
        BY <1>7, <2>1, <2>2 DEF KillListed
<1>8. ASSUME Collect \/ Clock
      PROVE  DrainInv'
    <2>1. pending'["admin"] = pending["admin"]
        BY <1>8 DEF Collect, Clock, ReapSnapshot, ReapOne, ForceOut, Tick, ManagerTypeOK, Killers
    <2> QED
        BY <1>8, <2>1, DrainInvRemoval
           DEF Collect, Clock, ReapSnapshot, ReapOne, ForceOut, Tick, closeVars
<1>9. ASSUME Signal \/ ListenerStops \/ CountActive \/ CloseListener \/ Drained
               \/ DrainDeadline \/ ListActive \/ Exit
      PROVE  DrainInv'
    BY <1>9 DEF Signal, ListenerStops, CountActive, CloseListener, Drained, DrainDeadline,
                ListActive, Exit, managerVars, DrainInv, ManagerTypeOK
<1>10. ASSUME Exited \/ UNCHANGED gatewayVars
       PROVE  DrainInv'
    BY <1>10, DrainInvRemoval DEF Exited, gatewayVars, managerVars, closeVars
<1> QED
    BY <1>1, <1>2, <1>3, <1>4, <1>5, <1>6, <1>7, <1>8, <1>9, <1>10
       DEF GatewayNext, Handler, Refresher, Closer

\* The shutdown kills a session it had counted only past the drain deadline.
THEOREM DrainBeforeKillHolds == GatewaySpec => []DrainBeforeKill
<1>1. GatewayInit => DrainInv
    BY DEF GatewayInit, ManagerInit, DrainInv, Killers
<1>2. ManagerInv => ManagerTypeOK
    BY DEF ManagerInv
<1>3. DrainInv => DrainBeforeKill
    BY DEF DrainInv, DrainBeforeKill
<1> QED
    BY <1>1, <1>2, <1>3, DrainInvStep, GatewayManagerInv, PTL DEF GatewaySpec

-----------------------------------------------------------------------------
(***************************************************************************)
(* The map, the killers and the contexts agree with the handlers.          *)
(***************************************************************************)

\* A session that has been registered and whose handler has not unregistered it
\* is in the map, held by a killer, or cancelled.
Kept == sessions \cup Held \cup cancelled

\* The CancelFunc a killer calls is that of the context the handler dials with.
CancelledContexts == \A c \in cancelled : ctxErr[c] # "none"

ContextInv == MapMatchesHandlers /\ CancelledContexts

\* A forced removal moves sessions from the map to a killer's hands.
LEMMA ForceOutKeeps ==
    ASSUME ManagerTypeOK, NEW k \in Killers, NEW S \in SUBSET sessions, ForceOut(k, S),
           UNCHANGED <<issued, cancelled>>
    PROVE  Kept \subseteq Kept' /\ sessions' \subseteq sessions
<1>1. \A j \in Killers : pending[j] \subseteq pending'[j]
    BY DEF ForceOut, ManagerTypeOK
<1>2. S \subseteq pending'[k]
    BY DEF ForceOut, ManagerTypeOK
<1> QED
    BY <1>1, <1>2 DEF Kept, Held, ForceOut, ManagerTypeOK

\* A step that leaves the handlers alone and loses no session keeps both.
LEMMA ContextInvKept ==
    ASSUME ContextInv, UNCHANGED handlerVars, UNCHANGED cancelled,
           sessions' \subseteq sessions, Kept \subseteq Kept'
    PROVE  ContextInv'
    BY DEF ContextInv, MapMatchesHandlers, CancelledContexts, Kept, handlerVars

\* A step of the handlers that leaves the manager alone.
LEMMA ContextInvHandlers ==
    ASSUME ContextInv, HandlersTyped, ManagerTypeOK, NEW c \in Sessions, UNCHANGED managerVars,
           \E p \in Phases : (p \in InSession <=> pc[c] \in InSession) /\ Goto(c, p),
           UNCHANGED ctxErr
    PROVE  ContextInv'
<1>1. UNCHANGED <<sessions, Held, cancelled>>
    BY DEF managerVars, Held
<1>2. \A x \in Sessions : pc'[x] \in InSession <=> pc[x] \in InSession
    BY DEF Goto, HandlersTyped
<1> QED
    BY <1>1, <1>2 DEF ContextInv, MapMatchesHandlers, CancelledContexts, ManagerTypeOK

\* The end of a handler: its session leaves the map, its context is cancelled.
LEMMA ContextInvReturn ==
    ASSUME ContextInv, HandlersTyped, ManagerTypeOK, NEW c \in Sessions,
           Unregister(c), Canceled(c), Goto(c, "done")
    PROVE  ContextInv'
<1>1. UNCHANGED <<Held, cancelled>> /\ sessions' = sessions \ {c}
    BY DEF Unregister, Held
<1>2. \A x \in Sessions : pc'[x] = IF x = c THEN "done" ELSE pc[x]
    BY DEF Goto, HandlersTyped
<1>3. \A x \in Sessions : ctxErr[x] # "none" => ctxErr'[x] # "none"
    BY DEF Canceled, HandlersTyped
<1>4. MapMatchesHandlers'
    BY <1>1, <1>2 DEF ContextInv, MapMatchesHandlers, InSession, ManagerTypeOK
<1>5. CancelledContexts'
    BY <1>1, <1>3 DEF ContextInv, CancelledContexts, ManagerTypeOK
<1> QED
    BY <1>4, <1>5 DEF ContextInv

LEMMA ContextInvStep ==
    ASSUME ContextInv, HandlersTyped, ManagerTypeOK, [GatewayNext]_gatewayVars
    PROVE  ContextInv'
<1>1. ASSUME NEW c \in Sessions, Accept(c) \/ CheckRevoked(c) \/ Refuse(c)
      PROVE  ContextInv'
    BY <1>1, ContextInvHandlers DEF Accept, CheckRevoked, Refuse, Phases, InSession
<1>2. ASSUME NEW c \in Sessions, AllowSent(c) \/ DialOK(c) \/ DialFails(c) \/ RelayEnds(c)
      PROVE  ContextInv'
    BY <1>2, ContextInvHandlers DEF AllowSent, DialOK, DialFails, RelayEnds, Phases, InSession
<1>3. ASSUME NEW c \in Sessions, NEW t \in TTLs, Admit(c, t)
      PROVE  ContextInv'
    <2>1. Held \subseteq Held' /\ cancelled' = cancelled /\ sessions' = sessions \cup {c}
        BY <1>3 DEF Admit, Register, Held
    <2>2. \A x \in Sessions : pc'[x] = IF x = c THEN "registered" ELSE pc[x]
        BY <1>3 DEF Admit, Goto, HandlersTyped
    <2>3. MapMatchesHandlers'
        BY <2>1, <2>2 DEF ContextInv, MapMatchesHandlers, InSession, ManagerTypeOK
    <2>4. CancelledContexts'
        BY <1>3, <2>1 DEF Admit, ContextInv, CancelledContexts
    <2> QED
        BY <2>3, <2>4 DEF ContextInv
<1>4. ASSUME NEW c \in Sessions, AllowFailed(c) \/ Leave(c)
      PROVE  ContextInv'
    BY <1>4, ContextInvReturn DEF AllowFailed, Leave
<1>5. ASSUME NEW c \in Sessions, EndStats(c)
      PROVE  ContextInv'
    <2>1. UNCHANGED <<sessions, Held, cancelled, ctxErr>>
        BY <1>5 DEF EndStats, SetEndStats, Held
    <2>2. \A x \in Sessions : pc'[x] \in InSession <=> pc[x] \in InSession
        BY <1>5 DEF EndStats, Goto, HandlersTyped, InSession
    <2> QED
        BY <2>1, <2>2 DEF ContextInv, MapMatchesHandlers, CancelledContexts, ManagerTypeOK
<1>6. ASSUME NEW c \in Sessions, DeadlineExceeded(c)
      PROVE  ContextInv'
    <2>1. UNCHANGED <<sessions, Held, cancelled, pc>>
        BY <1>6 DEF DeadlineExceeded, managerVars, Held
    <2>2. \A x \in Sessions : ctxErr[x] # "none" => ctxErr'[x] # "none"
        BY <1>6 DEF DeadlineExceeded, HandlersTyped
    <2> QED
        BY <2>1, <2>2 DEF ContextInv, MapMatchesHandlers, CancelledContexts, ManagerTypeOK
<1>7. ASSUME NEW c \in Sessions, NEW k \in Killers, KillerCancels(k, c)
      PROVE  ContextInv'
    <2>1. cancelled' = cancelled \cup {c} /\ UNCHANGED <<sessions, issued, pc>>
        BY <1>7 DEF KillerCancels, CancelFunc
    <2>2. \A j \in Killers : pending'[j] = IF j = k THEN pending[j] \ {c} ELSE pending[j]
        BY <1>7 DEF KillerCancels, CancelFunc, ManagerTypeOK
    <2>3. Held \subseteq Held' \cup {c}
        BY <2>1, <2>2 DEF Held
    <2>4. ctxErr'[c] # "none" /\ \A x \in Sessions : ctxErr[x] # "none" => ctxErr'[x] # "none"
        BY <1>7 DEF KillerCancels, Canceled, HandlersTyped
    <2> QED
        BY <2>1, <2>3, <2>4 DEF ContextInv, MapMatchesHandlers, CancelledContexts, ManagerTypeOK
<1>8. ASSUME NEW n \in Serials, KillRevoked(n)
      PROVE  ContextInv'
    <2>1. Kept \subseteq Kept' /\ sessions' \subseteq sessions
        BY <1>8, ForceOutKeeps DEF KillRevoked, KillBySerial, OfSerial, Killers
    <2> QED
        BY <1>8, <2>1, ContextInvKept DEF KillRevoked, KillBySerial
<1>9. ASSUME NEW c \in Sessions, KillSession(c), UNCHANGED handlerVars
      PROVE  ContextInv'
    <2>1. Kept \subseteq Kept' /\ sessions' \subseteq sessions
        BY <1>9, ForceOutKeeps DEF KillSession, Killers
    <2> QED
        BY <1>9, <2>1, ContextInvKept DEF KillSession
<1>10. ASSUME NEW c \in Sessions, ReapOne(c), UNCHANGED handlerVars
       PROVE  ContextInv'
    <2>1. Kept \subseteq Kept' /\ sessions' \subseteq sessions
        BY <1>10, ForceOutKeeps DEF ReapOne, Killers
    <2> QED
        BY <1>10, <2>1, ContextInvKept DEF ReapOne
<1>11. ASSUME UNCHANGED <<sessions, issued, pending, cancelled>>, UNCHANGED handlerVars
       PROVE  ContextInv'
    BY <1>11, ContextInvKept DEF Kept, Held
<1>12. ASSUME (\E n \in Serials : Revoke(n)) \/ Fetch \/ Install \/ RefreshDone \/ Clock
                \/ Signal \/ ListenerStops \/ CountActive \/ CloseListener \/ Drained
                \/ DrainDeadline \/ ListActive \/ Exit
       PROVE  ContextInv'
    BY <1>11, <1>12 DEF Revoke, Fetch, Install, RefreshDone, Clock, Tick, Signal, ListenerStops,
                 CountActive, CloseListener, Drained, DrainDeadline, ListActive, Exit, managerVars
<1>13. ASSUME Collect
       PROVE  ContextInv'
    BY <1>10, <1>11, <1>13 DEF Collect, ReapSnapshot
<1>14. ASSUME NEW c \in Sessions, KillListed(c)
       PROVE  ContextInv'
    BY <1>9, <1>11, <1>14 DEF KillListed, managerVars
<1>15. ASSUME Exited \/ UNCHANGED gatewayVars
       PROVE  ContextInv'
    BY <1>11, <1>15 DEF Exited, gatewayVars, managerVars, handlerVars
<1> QED
    BY <1>1, <1>2, <1>3, <1>4, <1>5, <1>6, <1>7, <1>8, <1>12, <1>13, <1>14, <1>15
       DEF GatewayNext, Handler, Refresher, Closer

LEMMA ContextInvHolds == GatewaySpec => []ContextInv
<1>1. GatewayInit => ContextInv
    BY DEF GatewayInit, ManagerInit, ContextInv, MapMatchesHandlers, CancelledContexts, InSession
<1>2. ManagerInv => ManagerTypeOK
    BY DEF ManagerInv
<1> QED
    BY <1>1, <1>2, ContextInvStep, HandlersTypedHolds, GatewayManagerInv, PTL DEF GatewaySpec

\* Every session a handler runs is in the map, or was taken out by a killer; and
\* no session outlives its handler in the map.
THEOREM MapMatchesHandlersHolds == GatewaySpec => []MapMatchesHandlers
    BY ContextInvHolds, PTL DEF ContextInv

\* Only a dial that ends well starts a relay, and it does not once its context is
\* cancelled.
LEMMA NoRelayAfterCancelStep ==
    ASSUME ContextInv, HandlersTyped, ManagerTypeOK, [GatewayNext]_gatewayVars,
           NEW c \in cancelled, pc[c] # "relaying"
    PROVE  pc'[c] # "relaying"
<1>1. c \in Sessions /\ ctxErr[c] # "none"
    BY DEF ContextInv, CancelledContexts, ManagerTypeOK
<1>2. ASSUME NEW x \in Sessions, NEW p \in Phases, p # "relaying", Goto(x, p)
      PROVE  pc'[c] # "relaying"
    BY <1>1, <1>2 DEF Goto, HandlersTyped
<1>3. ASSUME UNCHANGED pc
      PROVE  pc'[c] # "relaying"
    BY <1>3
<1>4. ASSUME NEW x \in Sessions, DialOK(x)
      PROVE  pc'[c] # "relaying"
    BY <1>1, <1>4 DEF DialOK, Goto, HandlersTyped
<1>5. ASSUME NEW x \in Sessions,
             \/ Accept(x) \/ CheckRevoked(x) \/ Refuse(x) \/ \E t \in TTLs : Admit(x, t)
             \/ AllowSent(x) \/ AllowFailed(x) \/ DialFails(x) \/ RelayEnds(x)
             \/ EndStats(x) \/ Leave(x)
      PROVE  pc'[c] # "relaying"
    BY <1>2, <1>5 DEF Accept, CheckRevoked, Refuse, Admit, AllowSent, AllowFailed, DialFails,
                      RelayEnds, EndStats, Leave, Phases
<1>6. ASSUME (\E x \in Sessions : DeadlineExceeded(x) \/ KillListed(x))
                \/ (\E x \in Sessions, k \in Killers : KillerCancels(k, x))
                \/ (\E n \in Serials : Revoke(n) \/ KillRevoked(n))
                \/ Fetch \/ Install \/ RefreshDone \/ Collect \/ Clock
                \/ Signal \/ ListenerStops \/ CountActive \/ CloseListener \/ Drained
                \/ DrainDeadline \/ ListActive \/ Exit \/ Exited \/ UNCHANGED gatewayVars
      PROVE  pc'[c] # "relaying"
    BY <1>3, <1>6 DEF DeadlineExceeded, KillListed, KillerCancels, Revoke, KillRevoked, Fetch,
                      Install, RefreshDone, Collect, Clock, Signal, ListenerStops, CountActive,
                      CloseListener, Drained, DrainDeadline, ListActive, Exit, Exited,
                      gatewayVars, handlerVars
<1> QED
    BY <1>4, <1>5, <1>6 DEF GatewayNext, Handler, Refresher, Closer

\* A session cancelled while its target was being dialed is never relayed, for
\* every number of sessions and every interleaving.
THEOREM NoRelayAfterCancelHolds == GatewaySpec => NoRelayAfterCancel
<1>1. ASSUME ContextInv, HandlersTyped, ManagerTypeOK, [GatewayNext]_gatewayVars
      PROVE  [\A c \in cancelled : pc'[c] = "relaying" => pc[c] = "relaying"]_gatewayVars
    BY <1>1, NoRelayAfterCancelStep
<1>2. ManagerInv => ManagerTypeOK
    BY DEF ManagerInv
<1> QED
    BY <1>1, <1>2, ContextInvHolds, HandlersTypedHolds, GatewayManagerInv, PTL
       DEF GatewaySpec, NoRelayAfterCancel
=============================================================================
