----------------------------- MODULE MCDiffGrant -----------------------------
(***************************************************************************)
(* The small instance of DiffGrant: two grants on the same target or on    *)
(* different ones, the first narrowed from ALL and widened to it, the      *)
(* second with the grant option.                                           *)
(***************************************************************************)
EXTENDS DiffGrant, TLC

CONSTANTS a, b, t1, t2

MCPrivileges == {"SELECT", "INSERT"}

Select  == {"SELECT"}
Regrant == {"SELECT", Option}
Every   == {All}

MCSpecs      == {Select, Regrant, Every}
MCChoices    == a :> {Select, Every} @@ b :> {Regrant}
MCPlacements == {a :> t1 @@ b :> t1, a :> t1 @@ b :> t2}
==============================================================================
