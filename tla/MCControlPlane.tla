---------------------------- MODULE MCControlPlane -----------------------------
(***************************************************************************)
(* A small instance of ControlPlane: two administrators, a decision and a  *)
(* user with or without a name against two migrations, two resources and   *)
(* versions of two rules.  A second is 4 units of a 5-bit duration, so     *)
(* that a ttl of 4 seconds wraps around.                                   *)
(***************************************************************************)
EXTENDS ControlPlane

MCAdmins == {"a1", "a2"}
MCReaders == {"r1"}
MCTemplates == <<UserName, "deploy">>
MCRequests ==
    {[user |-> "ann", principals |-> {}, seconds |-> 0],
     [user |-> "ann", principals |-> {"ann", "root"}, seconds |-> 3],
     [user |-> "ann", principals |-> {"deploy"}, seconds |-> 1],
     [user |-> "", principals |-> {"deploy", "root"}, seconds |-> 1],
     [user |-> "", principals |-> {}, seconds |-> 4]}
=============================================================================
