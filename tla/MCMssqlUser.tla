---------------------------- MODULE MCMssqlUser ----------------------------
(***************************************************************************)
(* The small instances of MssqlUser: two users of one name, of which the   *)
(* first may be contained.                                                 *)
(***************************************************************************)
EXTENDS MssqlUser, TLC

CONSTANTS a, b

MCSpecs == [contained : BOOLEAN]
Login   == {[contained |-> FALSE]}

MCChoices  == (a :> MCSpecs @@ b :> Login)
OneLogin   == (a :> Login)
============================================================================
