------------------------------ MODULE MCProvider ------------------------------
(***************************************************************************)
(* The small instances of Provider: a leader and its stand-by with two     *)
(* resources of one ProviderConfig, that configuration with TLS material   *)
(* and one process for two resources, a process with TLS material of two,  *)
(* a process for each flavour with TLS settings that are invalid for one,  *)
(* a flavour that no process was started for, two processes of which one   *)
(* may lead and a ClusterProviderConfig that nothing watches, processes    *)
(* started with a flavour twice or with one that does not exist; and, for  *)
(* the run of its own, a process for each flavour when leaders are         *)
(* elected.  In four of them the configurations have their finalizers      *)
(* already.                                                                *)
(***************************************************************************)
EXTENDS Provider, TLC

CONSTANTS p, q, a, b, my, ss, pg, k, l

MCFlavourOf == my :> "mysql" @@ ss :> "singlestore" @@ pg :> "postgresql"
MCClusterKind == {pg}

Started(first, second, elects, uses, tls, names) ==
    [flavours |-> p :> first @@ q :> second, elects |-> elects,
     uses |-> uses, tls |-> pg :> "plain" @@ tls, claimed |-> {},
     names |-> pg :> l @@ names]
Claimed(d) == [d EXCEPT !.claimed = {my, ss}]
BothCustom == my :> "custom" @@ ss :> "custom"
BothPlain  == my :> "plain" @@ ss :> "plain"
TwoNames   == my :> k @@ ss :> l
OneName    == my :> k @@ ss :> k
OneConfig  == a :> my @@ b :> my
TwoConfigs == a :> my @@ b :> ss

StandBy == Started(<<"mysql">>, <<"mysql">>, TRUE, OneConfig, BothPlain, TwoNames)
Rotated == Claimed(Started(<<"mysql">>, <<"sqlserver">>, FALSE,
                           OneConfig, BothCustom, TwoNames))
Shared  == Claimed(Started(<<"mysql", "singlestore">>, <<"sqlserver">>, FALSE,
                           TwoConfigs, BothCustom, TwoNames))
Apart   == Claimed(Started(<<"mysql">>, <<"singlestore">>, FALSE,
                           TwoConfigs, my :> "custom" @@ ss :> "invalid", OneName))
Unserved == Claimed(Started(<<"mysql">>, <<"sqlserver">>, FALSE,
                            TwoConfigs, BothCustom, TwoNames))
Mistyped == Started(<<"mysql", "mysql">>, <<"singlestore", "sqlserver">>, FALSE,
                    TwoConfigs, my :> "plain" @@ ss :> "invalid", TwoNames)
Unwatched == Started(<<"postgresql">>, <<"postgresql">>, TRUE, a :> pg @@ b :> pg,
                     BothCustom, TwoNames)
MCDeployments == {StandBy, Rotated, Shared, Apart, Unserved, Mistyped, Unwatched}

Alongside == {Started(<<"mysql">>, <<"singlestore">>, TRUE,
                      TwoConfigs, BothPlain, TwoNames)}
===============================================================================
