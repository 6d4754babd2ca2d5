------------------------------- MODULE Worker -------------------------------
(***************************************************************************)
(* The steps of the managed reconciler that touch the API server alone,    *)
(* shared by the components that model several managed resources at once:  *)
(* one worker per resource, any number of workers at work.  Like Managed   *)
(* it states what crossplane-runtime does; a component adds what Observe,  *)
(* Create, Update and Delete do to the database.                           *)
(*                                                                         *)
(* A worker works on its own copy of the resource.  A write of that copy   *)
(* is refused when the resource has changed in the meantime (dirty).       *)
(***************************************************************************)
EXTENDS Naturals, Managed

CONSTANTS
    Resources,        \* the managed resources
    Specs,            \* every specification a resource may have
    Choices,          \* Choices[r]: the specifications users write for r
    MaxEdits, MaxFaults

ASSUME WorkerAssumption ==
    /\ Choices \in [Resources -> SUBSET Specs]
    /\ \A r \in Resources : Choices[r] # {}
    /\ MaxEdits \in Nat /\ MaxFaults \in Nat

VARIABLES
    mr,      \* mr[r]: the metadata of r in the API server
    spec,    \* spec[r]: spec.forProvider of r
    work,    \* work[r]: what the worker of r holds
    edits, faults

apiVars    == <<mr, spec>>
boundVars  == <<edits, faults>>
workerVars == <<apiVars, work, boundVars>>

(* The phases between two calls of the controller.                         *)
WorkerPhases == {"idle", "observe", "claim", "mark", "create", "createFailed",
                 "created", "update", "publish", "delete", "release", "done"}

Idle == [pc |-> "idle", spec |-> CHOOSE s \in Specs : TRUE,
         deleting |-> FALSE, exists |-> FALSE, upToDate |-> FALSE,
         dirty |-> FALSE]

(* The types, for the component's own set of phases.                       *)
WorkerTypes(phases) ==
    /\ mr \in [Resources -> MR]
    /\ spec \in [Resources -> Specs]
    /\ work \in [Resources -> [pc : phases, spec : Specs, deleting : BOOLEAN,
                               exists : BOOLEAN, upToDate : BOOLEAN,
                               dirty : BOOLEAN]]
    /\ edits \in Nat /\ faults \in Nat

WorkerInit ==
    /\ mr = [r \in Resources |-> NewMR]
    /\ spec \in {s \in [Resources -> Specs] :
                    \A r \in Resources : s[r] \in Choices[r]}
    /\ work = [r \in Resources |-> Idle]
    /\ edits = 0 /\ faults = 0

At(r, phase)     == work[r].pc = phase
Goes(r, phase)   == work' = [work EXCEPT ![r].pc = phase]
Ends(r)          == work' = [work EXCEPT ![r] = Idle]
UseCredit        == faults < MaxFaults /\ faults' = faults + 1

-----------------------------------------------------------------------------
(* What Observe answers.                                                   *)
Observed(r, exists, upToDate) ==
    work' = [work EXCEPT ![r].exists = exists, ![r].upToDate = upToDate,
                         ![r].pc = AfterObserve(work[r].deleting, exists)]

Begin(r) ==
    /\ At(r, "idle")
    /\ Reconcilable(mr[r])
    /\ work' = [work EXCEPT ![r] = [Idle EXCEPT
                    !.pc = "observe", !.spec = spec[r],
                    !.deleting = mr[r].deleting]]
    /\ UNCHANGED <<apiVars, boundVars>>

Claim(r) ==
    /\ At(r, "claim")
    /\ mr[r].finalizer \/ ~work[r].dirty
    /\ mr' = [mr EXCEPT ![r] = WithFinalizer(@)]
    /\ Goes(r, AfterClaim(work[r].exists, work[r].upToDate))
    /\ UNCHANGED <<spec, boundVars>>

MarkPending(r) ==
    /\ At(r, "mark")
    /\ ~work[r].dirty
    /\ mr' = [mr EXCEPT ![r] = Marked(@, "pending")]
    /\ Goes(r, "create")
    /\ UNCHANGED <<spec, boundVars>>

(* The outcome of Create is recorded by a write that is retried with a     *)
(* fresh copy until it goes through.                                       *)
RecordFailure(r) ==
    /\ At(r, "createFailed")
    /\ mr' = [mr EXCEPT ![r] = Marked(@, "failed")]
    /\ Ends(r)
    /\ UNCHANGED <<spec, boundVars>>

RecordSuccess(r) ==
    /\ At(r, "created")
    /\ mr' = [mr EXCEPT ![r] = Marked(@, "succeeded")]
    /\ Goes(r, "publish")
    /\ UNCHANGED <<spec, boundVars>>

Release(r) ==
    /\ At(r, "release")
    /\ ~work[r].dirty
    /\ mr' = [mr EXCEPT ![r] = WithoutFinalizer(@)]
    /\ Ends(r)
    /\ UNCHANGED <<spec, boundVars>>

Conflict(r) ==
    /\ work[r].dirty
    /\ \/ At(r, "claim") /\ ~mr[r].finalizer
       \/ At(r, "mark") \/ At(r, "release")
    /\ Ends(r)
    /\ UNCHANGED <<apiVars, boundVars>>

(* Publishing the connection details ends a reconcile, and a reconcile     *)
(* that finds nothing to do publishes what it has observed.                *)
Settled(r) ==
    /\ work[r].pc \in {"publish", "done"}
    /\ Ends(r)
    /\ UNCHANGED <<apiVars, boundVars>>

WorkerSteps(r) ==
    Begin(r) \/ Claim(r) \/ MarkPending(r) \/ RecordFailure(r)
    \/ RecordSuccess(r) \/ Release(r) \/ Conflict(r)

-----------------------------------------------------------------------------
(* A call fails, or the process ends and every worker with it.             *)
CallFails(r, createPhases) ==
    /\ ~At(r, "idle")
    /\ UseCredit
    /\ IF work[r].pc \in createPhases THEN Goes(r, "createFailed") ELSE Ends(r)
    /\ UNCHANGED <<apiVars, edits>>

Crash ==
    /\ \E r \in Resources : ~At(r, "idle")
    /\ UseCredit
    /\ work' = [r \in Resources |-> Idle]
    /\ UNCHANGED <<apiVars, edits>>

(* The users of the API server.                                            *)
UserEdits(r) ==
    /\ mr[r].present
    /\ edits < MaxEdits
    /\ edits' = edits + 1
    /\ \E s \in Choices[r] \ {spec[r]} : spec' = [spec EXCEPT ![r] = s]
    /\ work' = [work EXCEPT ![r].dirty = ~At(r, "idle")]
    /\ UNCHANGED <<mr, faults>>

DeleteMR(r) ==
    /\ mr[r].present
    /\ ~mr[r].deleting
    /\ mr' = [mr EXCEPT ![r] = Deleted(@)]
    /\ work' = [work EXCEPT ![r].dirty = ~At(r, "idle")]
    /\ UNCHANGED <<spec, boundVars>>

ClearPendingMark(r) ==
    /\ At(r, "idle")
    /\ CreateIncomplete(mr[r])
    /\ mr' = [mr EXCEPT ![r] = Marked(@, "none")]
    /\ UNCHANGED <<spec, work, boundVars>>

Users(r) == UserEdits(r) \/ DeleteMR(r) \/ ClearPendingMark(r)

(* A resource whose reconcile cannot go on by itself.                      *)
Stopped(r) == ~mr[r].present \/ CreateIncomplete(mr[r])
=============================================================================
