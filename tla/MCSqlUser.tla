------------------------------ MODULE MCSqlUser ------------------------------
(***************************************************************************)
(* The small instance of SqlUser: one user whose specification sets one of *)
(* two options, the other or both, is taken out of the binary log, or      *)
(* turned from a token user into a password user and back.                 *)
(***************************************************************************)
EXTENDS SqlUser, TLC

CONSTANTS a, g1

MCOptionNames == <<"queries", "updates">>

Wants(queries, updates, jwt, binlog) ==
    [options |-> "queries" :> queries @@ "updates" :> updates,
     jwt |-> jwt, binlog |-> binlog]

MCSpecs ==
    {Wants(Unset, Unset, FALSE, TRUE), Wants(Unset, "five", FALSE, TRUE),
     Wants("five", "five", FALSE, FALSE), Wants(Unset, Unset, TRUE, TRUE)}
MCChoices == a :> MCSpecs
==============================================================================
