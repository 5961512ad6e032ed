---------------------------- MODULE SessionRegistry ----------------------------
(***************************************************************************)
(* What the gateway's session manager promises, with no word of locks,     *)
(* snapshots or the goroutine that acts: a session is opened at most once  *)
(* and only within its subject's limit; it leaves either by itself or by   *)
(* force; one that left by force is doomed, and is stopped exactly once.   *)
(* Sessions may have a time of their own: one whose time is over is        *)
(* overdue, and does not stay active for ever.                             *)
(***************************************************************************)
EXTENDS Naturals, FiniteSets

CONSTANTS Sessions, Subjects, SubOf, MaxPerSubject

VARIABLES
    active,     \* sessions that count against their subject's limit
    overdue,    \* active sessions whose time is over
    left,       \* sessions that are no longer active
    doomed,     \* forced out, not yet told to stop
    stopped     \* forced out and told to stop

registryVars == <<active, overdue, left, doomed, stopped>>

Init ==
    /\ active = {}
    /\ overdue = {}
    /\ left = {}
    /\ doomed = {}
    /\ stopped = {}

Open(s) ==
    /\ s \notin active \cup left
    /\ MaxPerSubject > 0 =>
          Cardinality({o \in active : SubOf[o] = SubOf[s]}) < MaxPerSubject
    /\ active' = active \cup {s}
    /\ UNCHANGED <<overdue, left, doomed, stopped>>

\* The time of some active sessions ends, all at the same moment.
Lapse(S) ==
    /\ S # {} /\ S \subseteq active \ overdue
    /\ overdue' = overdue \cup S
    /\ UNCHANGED <<active, left, doomed, stopped>>

Leave(s) ==
    /\ s \in active
    /\ active' = active \ {s}
    /\ overdue' = overdue \ {s}
    /\ left' = left \cup {s}
    /\ UNCHANGED <<doomed, stopped>>

\* One forced end may take out several sessions, all those of a certificate.
ForceLeave(S) ==
    /\ S # {} /\ S \subseteq active
    /\ active' = active \ S
    /\ overdue' = overdue \ S
    /\ left' = left \cup S
    /\ doomed' = doomed \cup S
    /\ UNCHANGED stopped

Stop(s) ==
    /\ s \in doomed
    /\ doomed' = doomed \ {s}
    /\ stopped' = stopped \cup {s}
    /\ UNCHANGED <<active, overdue, left>>

Next ==
    \/ \E s \in Sessions : Open(s) \/ Leave(s) \/ Stop(s)
    \/ \E S \in SUBSET Sessions : ForceLeave(S) \/ Lapse(S)

Spec == Init /\ [][Next]_registryVars

\* An overdue session leaves, by itself or by force.
EndOverdue(s) ==
    /\ s \in overdue
    /\ Leave(s) \/ \E S \in SUBSET Sessions : s \in S /\ ForceLeave(S)

\* The promises: an overdue session ends, and a doomed one is stopped.
FairSpec ==
    /\ Spec
    /\ \A s \in Sessions : WF_registryVars(EndOverdue(s)) /\ WF_registryVars(Stop(s))
=============================================================================
