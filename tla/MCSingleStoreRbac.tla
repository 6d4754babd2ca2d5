-------------------------- MODULE MCSingleStoreRbac --------------------------
(***************************************************************************)
(* The small instance of SingleStoreRbac: a managed role that is moved     *)
(* from one scope to another, a role of an administrator, and a group that *)
(* is moved from the one role to the other and loses its user.             *)
(***************************************************************************)
EXTENDS SingleStoreRbac, TLC

CONSTANTS reader, writer, team, u, s1, s2

Select == {"SELECT"}

SelectOn(s) == [grants |-> {<<s, "SELECT">>}, roles |-> {}, users |-> {}]
GroupSpec(names, people) == [grants |-> {}, roles |-> names, users |-> people]

Readers == GroupSpec({reader}, {u})
Writers == GroupSpec({writer}, {})

MCSpecs   == {SelectOn(s1), SelectOn(s2), Readers, Writers}
MCChoices == reader :> {SelectOn(s1), SelectOn(s2)}
                 @@ team :> {Readers, Writers}
==============================================================================
