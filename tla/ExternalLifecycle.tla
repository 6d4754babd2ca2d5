-------------------------- MODULE ExternalLifecycle --------------------------
(***************************************************************************)
(* What a controller of provider-sql promises about one external object: a *)
(* role, a user, a grant, a database.  Nothing is created before the       *)
(* managed resource is claimed with a finalizer, and a claim is given up   *)
(* only when the object no longer exists in the database server.           *)
(***************************************************************************)

VARIABLES
    claimed,   \* the managed resource carries the provider's finalizer
    external   \* "absent", or who created the object: "provider", "other"

avars == <<claimed, external>>

Origins == {"provider", "other"}

ATypeOK == /\ claimed \in BOOLEAN
           /\ external \in Origins \cup {"absent"}

AInit == /\ claimed = FALSE
         /\ external \in {"absent", "other"}

Claim == /\ ~claimed
         /\ claimed' = TRUE
         /\ UNCHANGED external

Create == /\ claimed
          /\ external = "absent"
          /\ external' = "provider"
          /\ UNCHANGED claimed

(* Dropped by the controller, or at any time by an administrator: the      *)
(* database is not the provider's alone.                                   *)
Vanish == /\ external # "absent"
          /\ external' = "absent"
          /\ UNCHANGED claimed

Release == /\ claimed
           /\ external = "absent"
           /\ claimed' = FALSE
           /\ UNCHANGED external

ANext == Claim \/ Create \/ Vanish \/ Release

ASpec == AInit /\ [][ANext]_avars
=============================================================================
