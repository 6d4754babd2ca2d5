------------------------------- MODULE Managed -------------------------------
(***************************************************************************)
(* The managed reconciler of crossplane-runtime, as the controllers of     *)
(* provider-sql rely on it.  It is not under src/: the module states the   *)
(* part of its contract that every controller's Observe, Create, Update    *)
(* and Delete is written against.  Every component module composes its own *)
(* steps with these operators.                                             *)
(*                                                                         *)
(* An MR is the Kubernetes metadata of one managed resource: whether the   *)
(* object is there, whether it carries a deletion timestamp, whether it    *)
(* carries the provider's finalizer, and which of the three                *)
(* external-create-* annotations is the newest.                            *)
(***************************************************************************)

CreationMarks == {"none", "pending", "failed", "succeeded"}

MR == [present : BOOLEAN, deleting : BOOLEAN, finalizer : BOOLEAN,
       creation : CreationMarks]

NewMR  == [present |-> TRUE, deleting |-> FALSE, finalizer |-> FALSE,
           creation |-> "none"]
GoneMR == [present |-> FALSE, deleting |-> FALSE, finalizer |-> FALSE,
           creation |-> "none"]

(***************************************************************************)
(* A reconcile of a resource whose creation was started and never          *)
(* concluded is refused until a person removes the annotation, a reconcile *)
(* of a deleted one included.                                              *)
(***************************************************************************)
CreateIncomplete(m) == m.creation = "pending"
Reconcilable(m)     == m.present /\ ~CreateIncomplete(m)

(***************************************************************************)
(* The API server: a deleted object with a finalizer stays until the       *)
(* finalizer is removed, one without a finalizer is gone at once.          *)
(***************************************************************************)
Deleted(m) == IF m.finalizer THEN [m EXCEPT !.deleting = TRUE] ELSE GoneMR
WithFinalizer(m) == [m EXCEPT !.finalizer = TRUE]
WithoutFinalizer(m) ==
    IF m.deleting THEN GoneMR ELSE [m EXCEPT !.finalizer = FALSE]
Marked(m, mark) == [m EXCEPT !.creation = mark]

(***************************************************************************)
(* Where a reconcile goes once Observe has answered: a deleted resource is *)
(* deleted outside and observed again until it no longer exists, and only  *)
(* then released; any other is claimed with the finalizer before anything  *)
(* is created or updated.                                                  *)
(***************************************************************************)
AfterObserve(deleting, exists) ==
    CASE deleting /\ exists  -> "delete"
      [] deleting /\ ~exists -> "release"
      [] OTHER               -> "claim"

AfterClaim(exists, upToDate) ==
    CASE ~exists             -> "mark"
      [] exists /\ ~upToDate -> "update"
      [] OTHER               -> "done"
=============================================================================
