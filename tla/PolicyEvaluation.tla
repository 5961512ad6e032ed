--------------------------- MODULE PolicyEvaluation ---------------------------
(***************************************************************************)
(* The decision on a request: the control plane walks the rules of the     *)
(* active policy in order and takes the first that matches                 *)
(* (domain/policy/evaluation.go, model/resource.go).  A rule may be        *)
(* limited to hours of the day and to a trust level of the device.  The    *)
(* clock is read anew for every rule, so it may move during the walk.      *)
(***************************************************************************)
EXTENDS Integers, Sequences, SequencesExt

CONSTANTS
    Policies,    \* sequences of rules
    Subjects,    \* records username, sub, groups
    Resources,   \* records type, host
    Actions,     \* actions a request may ask for
    Day,         \* minutes of a day
    MaxMinutes   \* bound: minutes that pass during a walk

\* CreateVersion refuses a rule whose effect is neither (service.go:31-40).
ASSUME EvaluationConstants ==
    /\ Day \in Nat \ {0} /\ MaxMinutes \in Nat
    /\ \A p \in Policies :
          /\ Len(p) \in Nat /\ DOMAIN p = 1..Len(p)
          /\ \A j \in DOMAIN p :
                /\ p[j].effect \in {"allow", "deny"}
                /\ p[j].hours.kind = "window" => {p[j].hours.start, p[j].hours.end} \subseteq 0..(Day - 1)

VARIABLES
    policy,   \* the rules of the snapshot
    request,  \* subject, action, resource and device trust
    minute,   \* the clock, UTC, in minutes of the day
    i,        \* the rule looked at; past the last one the walk is over
    outcome,  \* the effect and the index of the rule that gave it
    passed    \* history: the minutes since the walk began, oldest first

evaluationVars == <<policy, request, minute, i, outcome, passed>>

Minutes == 0..(Day - 1)

\* device_trust of the request's context: absent, or a level.  A level that is
\* not one of the three counts as none.
TrustLevels == [absent |-> 0, unknown |-> 0, low |-> 1, medium |-> 2, high |-> 3]
Trusts == DOMAIN TrustLevels
Undecided == [effect |-> "none", rule |-> 0]

-----------------------------------------------------------------------------
(***************************************************************************)
(* Matching.  A pattern "*" is Star; "user:u", "group:g" and "sub:s" are    *)
(* records; a resource pattern is a sequence of parts, of which a trailing *)
(* "*" makes a prefix.                                                     *)
(***************************************************************************)
Star == "*"

\* Host and port count as one part.
Canonical(res) == IF res.type \in {"ssh", "http"} THEN <<res.type, res.host>> ELSE <<"unknown">>

matchSubject(pattern, subject) ==
    \/ pattern.kind = "any"
    \/ pattern.kind = "user" /\ subject.username = pattern.name
    \/ pattern.kind = "group" /\ pattern.name \in subject.groups
    \/ pattern.kind = "sub" /\ subject.sub = pattern.name

matchField(pattern, value) == pattern = Star \/ pattern = value

matchResource(pattern, canonical) ==
    IF pattern.prefix THEN IsPrefix(pattern.parts, canonical) ELSE pattern.parts = canonical

\* Mutant: a window over midnight is read like any other.
matchAllowedHours_NoWrap(hours, now) ==
    hours.kind = "window" => now >= hours.start /\ now < hours.end

\* No hours and hours that cannot be parsed restrict nothing.
matchAllowedHours(hours, now) ==
    hours.kind = "window" =>
        IF hours.start <= hours.end THEN now >= hours.start /\ now < hours.end
                                    ELSE now >= hours.start \/ now < hours.end

matchDeviceTrust(required, actual) ==
    actual # "absent" /\ TrustLevels[actual] >= TrustLevels[required]

\* The rule's fields match: all that does not depend on the clock.
FieldsMatch(rule, req) ==
    /\ matchSubject(rule.subject, req.subject)
    /\ matchField(rule.action, req.action)
    /\ matchField(rule.type, req.resource.type)
    /\ matchResource(rule.resource, Canonical(req.resource))
    /\ rule.trust # "" => matchDeviceTrust(rule.trust, req.trust)

Matches(rule, req, now) == FieldsMatch(rule, req) /\ matchAllowedHours(rule.hours, now)

-----------------------------------------------------------------------------
(***************************************************************************)
(* Evaluate                                                                *)
(***************************************************************************)
EvaluationInit ==
    /\ policy \in Policies
    /\ request \in [subject : Subjects, action : Actions, resource : Resources, trust : Trusts]
    /\ minute \in Minutes
    /\ i = 1
    /\ outcome = Undecided
    /\ passed = <<minute>>

Walking == outcome = Undecided
Decided == ~Walking

Tick ==
    /\ Walking /\ Len(passed) <= MaxMinutes
    /\ minute' = (minute + 1) % Day
    /\ passed' = Append(passed, minute')
    /\ UNCHANGED <<policy, request, i, outcome>>

\* continue: the next rule.
Skip ==
    /\ Walking /\ i <= Len(policy)
    /\ ~Matches(policy[i], request, minute)
    /\ i' = i + 1
    /\ UNCHANGED <<policy, request, minute, outcome, passed>>

\* Mutant: the search goes on for an allow rule.
Take_PrefersAllow ==
    /\ Walking /\ i <= Len(policy)
    /\ Matches(policy[i], request, minute)
    /\ IF policy[i].effect = "allow" \/ i = Len(policy)
       THEN outcome' = [effect |-> policy[i].effect, rule |-> i] /\ UNCHANGED i
       ELSE i' = i + 1 /\ UNCHANGED outcome
    /\ UNCHANGED <<policy, request, minute, passed>>

\* The first rule that matches decides.
Take ==
    /\ Walking /\ i <= Len(policy)
    /\ Matches(policy[i], request, minute)
    /\ outcome' = [effect |-> policy[i].effect, rule |-> i]
    /\ UNCHANGED <<policy, request, minute, i, passed>>

\* Mutant: without a matching rule the request is allowed.
DefaultDeny_Allows ==
    /\ Walking /\ i > Len(policy)
    /\ outcome' = [effect |-> "allow", rule |-> 0]
    /\ UNCHANGED <<policy, request, minute, i, passed>>

\* No rule matched.
DefaultDeny ==
    /\ Walking /\ i > Len(policy)
    /\ outcome' = [effect |-> "deny", rule |-> 0]
    /\ UNCHANGED <<policy, request, minute, i, passed>>

EvaluationNext == Tick \/ Skip \/ Take \/ DefaultDeny

EvaluationSpec == EvaluationInit /\ [][EvaluationNext]_evaluationVars

-----------------------------------------------------------------------------
(***************************************************************************)
(* The meaning of a policy, without a walk: the least rule that matches.   *)
(***************************************************************************)
Matching(p, req, now) == {j \in DOMAIN p : Matches(p[j], req, now)}

Meaning(p, req, now) ==
    LET hits == Matching(p, req, now)
    IN  IF hits = {} THEN [effect |-> "deny", rule |-> 0]
        ELSE LET first == CHOOSE j \in hits : \A k \in hits : j <= k
             IN  [effect |-> p[first].effect, rule |-> first]

\* The minutes a window holds, counted from its start.
Window(hours) ==
    {(hours.start + k) % Day : k \in 0..((hours.end + Day - hours.start) % Day) - 1}

Passed == {passed[k] : k \in DOMAIN passed}

-----------------------------------------------------------------------------
(***************************************************************************)
(* Properties                                                              *)
(***************************************************************************)

\* As long as the clock stands still, a walk decides what the policy means
\* (evaluation.go:34-60).
DecidesTheMeaning ==
    Decided /\ Len(passed) = 1 => outcome = Meaning(policy, request, minute)

\* If the clock moves, the rule that decided applied at some minute of the walk,
\* and so it was at some minute that each rule before it did not.
DecidedWithinTheWalk ==
    Decided =>
        /\ outcome.rule = 0 => outcome.effect = "deny"
        /\ outcome.rule # 0 => \E now \in Passed : Matches(policy[outcome.rule], request, now)
        /\ \A j \in 1..(i - 1) : \E now \in Passed : ~Matches(policy[j], request, now)

\* A rule with hours applies exactly in its window, also over midnight
\* (evaluation.go:126-145).
HoursAreTheWindow ==
    \A j \in DOMAIN policy :
        policy[j].hours.kind = "window" =>
            (matchAllowedHours(policy[j].hours, minute) <=> minute \in Window(policy[j].hours))
=============================================================================
