------------------------------ MODULE MCPgRole ------------------------------
(***************************************************************************)
(* The small instances of PgRole: one attribute, one configuration         *)
(* parameter, two connection limits, and specifications that between them  *)
(* set, clear and leave out each of the three.                             *)
(***************************************************************************)
EXTENDS PgRole

MCPrivileges == {"login"}
MCParameters == {"search_path"}
MCLimits     == {"unlimited", "five"}
MCDefaultOn  == {}

Wants(setting, limit, params) ==
    [privs |-> [p \in Privileges |-> setting], limit |-> limit,
     params |-> params]

MCSpecChoices ==
    {Wants(Nil, Nil, Unset), Wants("on", "five", {"search_path"}),
     Wants("off", Nil, {})}
=============================================================================
