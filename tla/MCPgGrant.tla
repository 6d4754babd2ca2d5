------------------------------ MODULE MCPgGrant ------------------------------
(***************************************************************************)
(* The small instances of PgGrant: a grant on two tables that an edit may  *)
(* leave without a type, or all default privileges in one schema; another  *)
(* grant on the second table, or of a privilege that an old server         *)
(* refuses, or a grant on a database that PUBLIC shall not reach, or the   *)
(* default privileges in another schema.  For the run of its own: one      *)
(* grant on tables or membership.                                          *)
(***************************************************************************)
EXTENDS PgGrant, TLC

CONSTANTS a, b, t1, t2, db, d1, d2

Wants(fields, objects, privileges, option, revokePublic) ==
    [fields |-> fields, objects |-> objects, privileges |-> privileges,
     option |-> option, revokePublicOnDb |-> revokePublic]
OnTable == {"Database", "Schema", "Tables"}

MCPrivileges    == {"SELECT", "MAINTAIN", "CONNECT", "MEMBER"}
MCNewPrivileges == {"MAINTAIN"}
MCShorthand     == [t \in GrantTypes |->
                        CASE t = "ROLE_TABLE"    -> {"SELECT", "MAINTAIN"}
                          [] t = "ROLE_DATABASE" -> {"CONNECT"}
                          [] OTHER               -> {"SELECT"}]

All      == Wants(OnTable, {t1, t2}, {"ALL"}, FALSE, FALSE)
Select   == Wants(OnTable, {t2}, {"SELECT"}, TRUE, TRUE)
Maintain == Wants(OnTable, {t2}, {"MAINTAIN"}, FALSE, FALSE)
Connect  == Wants({"Database"}, {db}, {"CONNECT"}, FALSE, TRUE)
Member   == Wants({"MemberOf"}, {t1}, {}, TRUE, FALSE)
Untyped  == Wants({"Schema", "Tables"}, {t1}, {"SELECT"}, FALSE, FALSE)
InAll    == Wants({}, {d1}, {"ALL"}, FALSE, FALSE)
InOther  == Wants({}, {d2}, {"SELECT"}, TRUE, FALSE)

TwoSpecs == {All, Select, Maintain, Connect, Untyped, InAll, InOther}
Two == (a :> {All, Untyped, InAll} @@ b :> {Select, Maintain, Connect, InOther})

OneSpecs == {All, Member}
One == (a :> OneSpecs)
==============================================================================
