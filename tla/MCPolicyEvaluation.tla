-------------------------- MODULE MCPolicyEvaluation --------------------------
(***************************************************************************)
(* A small instance of PolicyEvaluation: every policy of two rules of a    *)
(* pool that holds the kinds of patterns, windows and trust conditions.    *)
(***************************************************************************)
EXTENDS PolicyEvaluation

MCDay == 4

AnyOne == [kind |-> "any", name |-> ""]
Group(g) == [kind |-> "group", name |-> g]
Everything == [prefix |-> TRUE, parts |-> <<>>]
AllOf(type) == [prefix |-> TRUE, parts |-> <<type>>]
One(type, host) == [prefix |-> FALSE, parts |-> <<type, host>>]
Always == [kind |-> "none", start |-> 0, end |-> 0]
Hours(s, e) == [kind |-> "window", start |-> s, end |-> e]

Rule(effect, subject, type, resource, hours, trust) ==
    [effect |-> effect, subject |-> subject, action |-> "connect", type |-> type,
     resource |-> resource, hours |-> hours, trust |-> trust]

\* Rules that differ in one condition each.
MCPool ==
    {Rule(e, AnyOne, Star, Everything, h, t) :
        e \in {"allow", "deny"}, h \in {Always, Hours(1, 3), Hours(3, 1)}, t \in {"", "medium"}}
    \cup {Rule("allow", AnyOne, Star, Everything, Hours(2, 2), ""),
          Rule("allow", Group("admins"), "ssh", AllOf("ssh"), Always, ""),
          Rule("deny", Group("admins"), "ssh", One("ssh", "h1"), Always, ""),
          Rule("deny", [kind |-> "user", name |-> "u1"], Star, One("ssh", "h1"), Always, ""),
          Rule("allow", [kind |-> "sub", name |-> "id1"], "ssh", One("ssh", "h1"), Always, "")}

MCPolicies == {<<>>} \cup {<<a, b>> : a, b \in MCPool}

MCSubjects ==
    {[username |-> "u1", sub |-> "id1", groups |-> {}],
     [username |-> "u2", sub |-> "id2", groups |-> {"admins"}]}

MCResources == {[type |-> "ssh", host |-> "h1"], [type |-> "http", host |-> "h1"]}

MCActions == {"connect"}
=============================================================================
