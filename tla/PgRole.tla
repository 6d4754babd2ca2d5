-------------------------------- MODULE PgRole --------------------------------
(***************************************************************************)
(* One PostgreSQL Role managed resource and the role it stands for:        *)
(* pkg/controller/cluster/postgresql/role (the namespaced controller is    *)
(* the same code over another API group).                                  *)
(*                                                                         *)
(* Four parties act.  A reconcile worker (one at a time per resource) runs *)
(* the managed reconciler, which calls Connect, Observe, Create, Update    *)
(* and Delete; every SQL statement and every write to the API server is a  *)
(* step of its own, so a user, an administrator, a failure or a crash can  *)
(* come between any two.  A user edits the specification, rotates the      *)
(* password in the referenced secret and deletes the resource.  A database *)
(* administrator drops or alters the role.  An operator removes a          *)
(* create-pending annotation that a crash left behind.                     *)
(***************************************************************************)
EXTENDS Naturals, Managed

CONSTANTS
    Privileges,      \* the role attributes SUPERUSER, LOGIN, ...
    Parameters,      \* configuration parameters, each a name with its value
    Limits,          \* connection limits
    DefaultLimit,    \* the limit of a role created without one (-1)
    DefaultOn,       \* the attributes a new role has unless told otherwise
    Generated,       \* passwords password.Generate can return
    SpecChoices,     \* the specifications a user writes
    WritesSecret,    \* spec.writeConnectionSecretToRef is set
    PasswordsReused, \* a rotation may return to an earlier password
    MaxPassword, MaxEdits, MaxDrifts, MaxFaults  \* bounds on the environment

(* A pointer that is nil, and a nil list of configuration parameters.      *)
Nil   == "nil"
Unset == {Nil}
Setting == {Nil, "on", "off"}

(* The passwords of the referenced secret are numbers in the order of      *)
(* their rotation; 0 is the empty string, which a missing key reads as.    *)
Empty    == 0
Password == Nat \cup Generated

ParameterLists == (SUBSET Parameters) \cup {Unset}
Desired == [privs : [Privileges -> Setting], limit : Limits \cup {Nil},
            params : ParameterLists]
Status  == [privs : [Privileges -> Setting], params : ParameterLists]

ASSUME ConstantsAssumption ==
    /\ WritesSecret \in BOOLEAN
    /\ PasswordsReused \in BOOLEAN
    /\ DefaultLimit \in Limits /\ DefaultOn \subseteq Privileges
    /\ Nil \notin Limits /\ Nil \notin Parameters
    /\ Generated # {} /\ Generated \cap Nat = {}
    /\ SpecChoices # {} /\ SpecChoices \subseteq Desired
    /\ MaxPassword \in Nat \ {0}
    /\ MaxEdits \in Nat /\ MaxDrifts \in Nat /\ MaxFaults \in Nat

VARIABLES
    mr,          \* the resource's metadata in the API server
    spec,        \* spec.forProvider in the API server
    status,      \* status.atProvider in the API server
    input,       \* the password in the referenced secret
    secretThere, \* the referenced secret exists
    output,      \* the password in the connection secret, Empty if none
    role,        \* the role in the database server
    pc,          \* where the worker's reconcile is
    mg,          \* the worker's copy of the resource
    pw,          \* the password Create or Update works with, Empty if none
    dirty,       \* the resource changed in the API server since the copy
    edits, drifts, faults  \* what the environment has done so far

kubeVars  == <<mr, spec, status, input, secretThere, output>>
localVars == <<pc, mg, pw, dirty>>
envVars   == <<edits, drifts, faults>>
vars      == <<kubeVars, role, localVars, envVars>>

CreatePhases == {"create", "createRole", "setParams"}
UpdatePhases == {"update", "alterPassword", "alterPrivs", "alterParams",
                 "alterLimit"}
Phases == {"idle", "observe", "claim", "lateInit", "mark", "createFailed",
           "created", "publish", "delete", "release", "done"}
          \cup CreatePhases \cup UpdatePhases

(* What the worker holds: its copy of the resource, what Observe has told  *)
(* it, and the parameters Create has still to set.                         *)
Copy == [spec : Desired, status : Status, deleting : BOOLEAN,
         exists : BOOLEAN, late : BOOLEAN, upToDate : BOOLEAN,
         todo : SUBSET Parameters]

Roles == [exists : BOOLEAN, origin : {"provider", "other"}, pw : Password,
          privs : [Privileges -> {"on", "off"}], limit : Limits,
          params : SUBSET Parameters]

NoStatus == [privs |-> [p \in Privileges |-> Nil], params |-> Unset]
NoSpec   == [privs |-> [p \in Privileges |-> Nil], limit |-> Nil,
             params |-> Unset]
NoCopy   == [spec |-> NoSpec, status |-> NoStatus, deleting |-> FALSE,
             exists |-> FALSE, late |-> FALSE, upToDate |-> FALSE,
             todo |-> {}]
DefaultPrivs == [p \in Privileges |-> IF p \in DefaultOn THEN "on" ELSE "off"]
NoRole   == [exists |-> FALSE, origin |-> "other", pw |-> Empty,
             privs |-> DefaultPrivs, limit |-> DefaultLimit, params |-> {}]

TypeOK ==
    /\ mr \in MR
    /\ spec \in Desired
    /\ status \in Status
    /\ input \in Nat
    /\ secretThere \in BOOLEAN
    /\ output \in Password
    /\ role \in Roles
    /\ pc \in Phases
    /\ mg \in Copy
    /\ pw \in Password
    /\ dirty \in BOOLEAN
    /\ edits \in Nat /\ drifts \in Nat /\ faults \in Nat

-------------------------------------------------------------------------------
(***************************************************************************)
(* The pure parts of the controller.                                       *)
(***************************************************************************)

(* lateInit: whatever the specification leaves nil takes the observed      *)
(* value; configuration parameters are never late-initialised.             *)
LateInit(desired, observed) ==
    [desired EXCEPT
        !.privs = [p \in Privileges |->
                     IF desired.privs[p] = Nil THEN observed.privs[p]
                                               ELSE desired.privs[p]],
        !.limit = IF @ = Nil THEN observed.limit ELSE @]

(* An observation has no list of parameters when the role has none.        *)
ObservedParams(observed) ==
    IF observed.params = {} THEN Unset ELSE observed.params

(* upToDate compares the pointers of the observation and the               *)
(* specification, not the values: they are the same pointer only where     *)
(* this very Observe late-initialised the field, that is where the         *)
(* specification was nil before.                                           *)
UpToDate(before, observed) ==
    /\ before.limit = Nil
    /\ \A p \in Privileges : before.privs[p] = Nil
    /\ before.params = ObservedParams(observed)

(* privilegesToClauses: one clause per attribute that is not nil, in one   *)
(* fixed order, kept as a function from attributes.  changedPrivs refuses  *)
(* to compare a list that is shorter than the desired one.  Late           *)
(* initialisation has filled the desired list, so a list that is long      *)
(* enough has every attribute at its place.                                *)
Comparable(existing, desired) ==
    \A p \in Privileges : existing[p] = Nil => desired[p] = Nil
ChangedPrivs(existing, desired) ==
    {p \in Privileges : desired[p] # Nil /\ desired[p] # existing[p]}

(* A statement sets the attributes it names and leaves the others.         *)
SetPrivs(have, desired, named) ==
    [p \in Privileges |-> IF p \in named THEN desired[p] ELSE have[p]]

(* getPassword: the referenced password, and whether it differs from the   *)
(* one in the connection secret.  Without a connection secret, or with an  *)
(* empty password, nothing ever counts as changed.                         *)
HasPasswordRef   == input # Empty
PasswordReadable == HasPasswordRef => secretThere
NewPassword == IF HasPasswordRef THEN input ELSE Empty

(* Mutant of PasswordChanged: only a first publication counts as a change. *)
PasswordChangedOnce ==
    /\ WritesSecret
    /\ NewPassword # Empty
    /\ output = Empty

PasswordChanged ==
    /\ WritesSecret
    /\ NewPassword # Empty
    /\ NewPassword # output

(***************************************************************************)
(* What the API server's reply to a write leaves of the status the worker  *)
(* has computed: the reply is decoded over the worker's copy, so a field   *)
(* the server holds replaces the computed one and a field the server lacks *)
(* keeps it.                                                               *)
(***************************************************************************)
Overwritten(local, server) ==
    [privs  |-> IF \A p \in Privileges : server.privs[p] = Nil
                THEN local.privs ELSE server.privs,
     params |-> IF server.params = Unset THEN local.params ELSE server.params]

-------------------------------------------------------------------------------
(***************************************************************************)
(* The reconcile.                                                          *)
(***************************************************************************)

(* The end of a reconcile: the status is written unless the resource has   *)
(* changed in the meantime, and the copy is dropped.                       *)
Finish ==
    /\ pc' = "idle"
    /\ mg' = NoCopy
    /\ pw' = Empty
    /\ dirty' = FALSE
    /\ status' = IF dirty THEN status ELSE mg.status

(* A full write of the resource, refused when the copy is stale; the reply *)
(* is decoded over the copy.                                               *)
WriteCopy(meta, next) ==
    /\ ~dirty
    /\ mr' = meta
    /\ spec' = mg.spec
    /\ mg' = [mg EXCEPT !.status = Overwritten(mg.status, status)]
    /\ pc' = next
    /\ UNCHANGED <<status, pw, dirty>>

(* The worker takes the resource and connects.  A Connect that fails       *)
(* leaves everything as it was, and is no step.                            *)
Begin ==
    /\ pc = "idle"
    /\ Reconcilable(mr)
    /\ pc' = "observe"
    /\ mg' = [NoCopy EXCEPT !.spec = spec, !.status = status,
                            !.deleting = mr.deleting]
    /\ UNCHANGED <<kubeVars, role, pw, dirty, envVars>>

(* Mutant of ObserveAbsent: any error of the query is read as no rows.     *)
ObserveAbsentOnError ==
    /\ pc = "observe"
    /\ pc' = AfterObserve(mg.deleting, FALSE)
    /\ UNCHANGED <<kubeVars, role, mg, pw, dirty, envVars>>

ObserveAbsent ==
    /\ pc = "observe"
    /\ ~role.exists
    /\ pc' = AfterObserve(mg.deleting, FALSE)
    /\ UNCHANGED <<kubeVars, role, mg, pw, dirty, envVars>>

ObserveRole ==
    /\ pc = "observe"
    /\ role.exists
    /\ PasswordReadable
    /\ LET desired == LateInit(mg.spec, role)
       IN  mg' = [mg EXCEPT
                    !.exists   = TRUE,
                    !.spec     = desired,
                    !.late     = desired # mg.spec,
                    !.upToDate = ~PasswordChanged /\ UpToDate(mg.spec, role),
                    !.status   = [privs  |-> role.privs,
                                  params |-> ObservedParams(role)]]
    /\ pc' = AfterObserve(mg.deleting, TRUE)
    /\ UNCHANGED <<kubeVars, role, pw, dirty, envVars>>

(* Mutant of ObserveSecretMissing: the missing secret is read as a missing *)
(* role.                                                                   *)
ObserveSecretMissingAsAbsent ==
    /\ pc = "observe"
    /\ role.exists
    /\ ~PasswordReadable
    /\ pc' = AfterObserve(mg.deleting, FALSE)
    /\ UNCHANGED <<kubeVars, role, mg, pw, dirty, envVars>>

(* The role is there but the referenced secret is not: Observe fails after *)
(* it has set the observed parameters, whether or not the resource is      *)
(* being deleted.                                                          *)
ObserveSecretMissing ==
    /\ pc = "observe"
    /\ role.exists
    /\ ~PasswordReadable
    /\ pc' = "idle" /\ mg' = NoCopy /\ pw' = Empty /\ dirty' = FALSE
    /\ status' = IF dirty THEN status
                 ELSE [mg.status EXCEPT !.params = ObservedParams(role)]
    /\ UNCHANGED <<mr, spec, input, secretThere, output, role, envVars>>

AfterClaimed ==
    IF mg.late THEN "lateInit" ELSE AfterClaim(mg.exists, mg.upToDate)

ClaimWithFinalizer ==
    /\ pc = "claim"
    /\ ~mr.finalizer
    /\ mr.present
    /\ WriteCopy(WithFinalizer(mr), AfterClaimed)
    /\ UNCHANGED <<input, secretThere, output, role, envVars>>

AlreadyClaimed ==
    /\ pc = "claim"
    /\ mr.finalizer
    /\ pc' = AfterClaimed
    /\ UNCHANGED <<kubeVars, role, mg, pw, dirty, envVars>>

(* The late-initialised specification is persisted.                        *)
WriteLateInit ==
    /\ pc = "lateInit"
    /\ WriteCopy(mr, AfterClaim(mg.exists, mg.upToDate))
    /\ UNCHANGED <<input, secretThere, output, role, envVars>>

(* The create-pending annotation is persisted before Create is called.     *)
MarkPending ==
    /\ pc = "mark"
    /\ WriteCopy(Marked(mr, "pending"), "create")
    /\ UNCHANGED <<input, secretThere, output, role, envVars>>

Conflict ==
    /\ dirty
    /\ \/ pc = "claim" /\ ~mr.finalizer
       \/ pc \in {"lateInit", "mark", "release"}
    /\ Finish
    /\ UNCHANGED <<mr, spec, input, secretThere, output, role, envVars>>

Settled ==
    /\ pc = "done"
    /\ Finish
    /\ UNCHANGED <<mr, spec, input, secretThere, output, role, envVars>>

(***************************************************************************)
(* Create.                                                                 *)
(***************************************************************************)

(* The referenced password is used, and an empty or absent one replaced by *)
(* a generated one, different from any in use.                             *)
CreateReadPassword ==
    /\ pc = "create"
    /\ PasswordReadable
    /\ pw' \in IF NewPassword # Empty THEN {NewPassword}
               ELSE Generated \ {role.pw, output}
    /\ pc' = "createRole"
    /\ UNCHANGED <<kubeVars, role, mg, dirty, envVars>>

CreateSecretMissing ==
    /\ pc = "create"
    /\ ~PasswordReadable
    /\ pc' = "createFailed"
    /\ UNCHANGED <<kubeVars, role, mg, pw, dirty, envVars>>

(* CREATE ROLE with the password and the attributes that are not nil.  The *)
(* connection limit is not part of it.                                     *)
CreateRole ==
    /\ pc = "createRole"
    /\ ~role.exists
    /\ role' = [NoRole EXCEPT
                  !.exists = TRUE, !.origin = "provider", !.pw = pw,
                  !.privs = SetPrivs(DefaultPrivs, mg.spec.privs,
                              {p \in Privileges : mg.spec.privs[p] # Nil})]
    /\ mg' = [mg EXCEPT !.status.privs = mg.spec.privs,
                        !.todo = IF mg.spec.params = Unset THEN {}
                                 ELSE mg.spec.params]
    /\ pc' = "setParams"
    /\ UNCHANGED <<kubeVars, pw, dirty, envVars>>

(* ALTER ROLE ... set, one statement and one transaction per parameter.    *)
CreateSetParam ==
    /\ pc = "setParams"
    /\ role.exists
    /\ \E c \in mg.todo : /\ role' = [role EXCEPT !.params = @ \cup {c}]
                          /\ mg' = [mg EXCEPT !.todo = @ \ {c}]
    /\ UNCHANGED <<kubeVars, pc, pw, dirty, envVars>>

CreateReturns ==
    /\ pc = "setParams"
    /\ mg.todo = {}
    /\ pc' = "created"
    /\ mg' = [mg EXCEPT !.status.params =
                IF mg.spec.params = Unset THEN @ ELSE mg.spec.params]
    /\ UNCHANGED <<kubeVars, role, pw, dirty, envVars>>

(* ALTER ROLE on a role an administrator has dropped since.                *)
CreateRoleGone ==
    /\ pc = "setParams"
    /\ ~role.exists
    /\ mg.todo # {}
    /\ pc' = "createFailed"
    /\ UNCHANGED <<kubeVars, role, mg, pw, dirty, envVars>>

(* The outcome of Create is recorded by a write that is retried on a       *)
(* conflict with a fresh copy, so it ends with one.                        *)
RecordFailure ==
    /\ pc = "createFailed"
    /\ mr' = Marked(mr, "failed")
    /\ pc' = "idle" /\ mg' = NoCopy /\ pw' = Empty /\ dirty' = FALSE
    /\ status' = Overwritten(mg.status, status)
    /\ UNCHANGED <<spec, input, secretThere, output, role, envVars>>

RecordSuccess ==
    /\ pc = "created"
    /\ mr' = Marked(mr, "succeeded")
    /\ pc' = "publish"
    /\ mg' = [mg EXCEPT !.status = Overwritten(mg.status, status)]
    /\ dirty' = FALSE
    /\ UNCHANGED <<spec, status, input, secretThere, output, role, pw, envVars>>

(* PublishConnection of the details Create or Update has returned.  Update *)
(* returns none unless it has changed the password.                        *)
Publish ==
    /\ pc = "publish"
    /\ output' = IF WritesSecret /\ pw # Empty THEN pw ELSE output
    /\ Finish
    /\ UNCHANGED <<mr, spec, input, secretThere, role, envVars>>

(***************************************************************************)
(* Update: up to four statements or transactions, each of which may be the *)
(* last one.                                                               *)
(***************************************************************************)

(* Mutant of UpdateReadPassword: Update leaves the password alone.         *)
UpdateIgnoresPassword ==
    /\ pc = "update"
    /\ PasswordReadable
    /\ pw' = Empty
    /\ pc' = "alterPassword"
    /\ UNCHANGED <<kubeVars, role, mg, dirty, envVars>>

UpdateReadPassword ==
    /\ pc = "update"
    /\ PasswordReadable
    /\ pw' = IF PasswordChanged THEN NewPassword ELSE Empty
    /\ pc' = "alterPassword"
    /\ UNCHANGED <<kubeVars, role, mg, dirty, envVars>>

AlterPassword ==
    /\ pc = "alterPassword"
    /\ pw # Empty => role.exists
    /\ role' = IF pw # Empty THEN [role EXCEPT !.pw = pw] ELSE role
    /\ pc' = "alterPrivs"
    /\ UNCHANGED <<kubeVars, mg, pw, dirty, envVars>>

AlterPrivs ==
    /\ pc = "alterPrivs"
    /\ Comparable(mg.status.privs, mg.spec.privs)
    /\ LET changed == ChangedPrivs(mg.status.privs, mg.spec.privs)
       IN  /\ changed # {} => role.exists
           /\ role' = IF changed = {} THEN role
                      ELSE [role EXCEPT !.privs =
                              SetPrivs(@, mg.spec.privs, changed)]
    /\ mg' = [mg EXCEPT !.status.privs = mg.spec.privs]
    /\ pc' = "alterParams"
    /\ UNCHANGED <<kubeVars, pw, dirty, envVars>>

ParamsDiffer ==
    mg.spec.params # Unset /\ mg.spec.params # mg.status.params

(* RESET ALL and the desired parameters in one transaction.  ExecTx        *)
(* commits in a deferred function whose error it does not return: when     *)
(* the commit fails, nothing has changed and Update goes on as if it had.  *)
AlterParams(committed) ==
    /\ pc = "alterParams"
    /\ ParamsDiffer => role.exists
    /\ role' = IF ParamsDiffer /\ committed
               THEN [role EXCEPT !.params = mg.spec.params] ELSE role
    /\ mg' = [mg EXCEPT !.status.params =
                IF ParamsDiffer THEN mg.spec.params ELSE @]
    /\ pc' = "alterLimit"
    /\ UNCHANGED <<kubeVars, pw, dirty, edits, drifts>>

CommitParams == AlterParams(TRUE) /\ UNCHANGED faults
LoseCommit   == /\ ParamsDiffer
                /\ faults < MaxFaults
                /\ AlterParams(FALSE)
                /\ faults' = faults + 1

(* Mutant of AlterLimit: the connection limit is forgotten.                *)
AlterNoLimit ==
    /\ pc = "alterLimit"
    /\ pc' = "publish"
    /\ UNCHANGED <<kubeVars, role, mg, pw, dirty, envVars>>

AlterLimit ==
    /\ pc = "alterLimit"
    /\ mg.spec.limit # Nil => role.exists
    /\ role' = IF mg.spec.limit = Nil THEN role
               ELSE [role EXCEPT !.limit = mg.spec.limit]
    /\ pc' = "publish"
    /\ UNCHANGED <<kubeVars, mg, pw, dirty, envVars>>

(* Update returns an error of its own: the secret is missing, the status   *)
(* was overwritten by a shorter list of clauses, or the role is gone.      *)
UpdateRefused ==
    /\ \/ pc = "update" /\ ~PasswordReadable
       \/ pc = "alterPassword" /\ pw # Empty /\ ~role.exists
       \/ /\ pc = "alterPrivs"
          /\ \/ ~Comparable(mg.status.privs, mg.spec.privs)
             \/ /\ ChangedPrivs(mg.status.privs, mg.spec.privs) # {}
                /\ ~role.exists
       \/ pc = "alterParams" /\ ParamsDiffer /\ ~role.exists
       \/ pc = "alterLimit" /\ mg.spec.limit # Nil /\ ~role.exists
    /\ Finish
    /\ UNCHANGED <<mr, spec, input, secretThere, output, role, envVars>>

(***************************************************************************)
(* Delete and release.                                                     *)
(***************************************************************************)
(* Mutant of DropRole: the role is only altered, never dropped.            *)
DropNothing ==
    /\ pc = "delete"
    /\ Finish
    /\ UNCHANGED <<mr, spec, input, secretThere, output, role, envVars>>

DropRole ==
    /\ pc = "delete"
    /\ role' = NoRole
    /\ Finish
    /\ UNCHANGED <<mr, spec, input, secretThere, output, envVars>>

(* The finalizer goes, the object with it, and the connection secret the   *)
(* object owns is garbage collected.                                       *)
Release ==
    /\ pc = "release"
    /\ ~dirty
    /\ mr' = WithoutFinalizer(mr)
    /\ output' = Empty
    /\ pc' = "idle" /\ mg' = NoCopy /\ pw' = Empty /\ dirty' = FALSE
    /\ UNCHANGED <<spec, status, input, secretThere, role, envVars>>

(***************************************************************************)
(* Failures: a call to the database or to the API server fails, before or  *)
(* after it has taken effect (in which case it is the next phase that      *)
(* fails), or the provider's process ends.                                 *)
(***************************************************************************)
CallFails ==
    /\ pc # "idle"
    /\ faults < MaxFaults
    /\ faults' = faults + 1
    /\ IF pc \in CreatePhases
       THEN /\ pc' = "createFailed"
            /\ UNCHANGED <<status, mg, pw, dirty>>
       ELSE Finish
    /\ UNCHANGED <<mr, spec, input, secretThere, output, role, edits, drifts>>

Crash ==
    /\ pc # "idle"
    /\ faults < MaxFaults
    /\ faults' = faults + 1
    /\ pc' = "idle" /\ mg' = NoCopy /\ pw' = Empty /\ dirty' = FALSE
    /\ UNCHANGED <<kubeVars, role, edits, drifts>>

-------------------------------------------------------------------------------
(***************************************************************************)
(* The environment.                                                        *)
(***************************************************************************)
UserEdits ==
    /\ mr.present
    /\ edits < MaxEdits
    /\ edits' = edits + 1
    /\ spec' \in SpecChoices \ {spec}
    /\ dirty' = (pc # "idle")
    /\ UNCHANGED <<mr, status, input, secretThere, output, role, pc, mg, pw,
                   drifts, faults>>

RotatePassword ==
    /\ HasPasswordRef
    /\ edits < MaxEdits
    /\ edits' = edits + 1
    /\ input' \in (1 .. MaxPassword) \ {input}
    /\ PasswordsReused \/ input' > input
    /\ UNCHANGED <<mr, spec, status, secretThere, output, role, localVars,
                   drifts, faults>>

RemoveOrRestoreSecret ==
    /\ HasPasswordRef
    /\ edits < MaxEdits
    /\ edits' = edits + 1
    /\ secretThere' = ~secretThere
    /\ UNCHANGED <<mr, spec, status, input, output, role, localVars,
                   drifts, faults>>

DeleteMR ==
    /\ mr.present
    /\ ~mr.deleting
    /\ mr' = Deleted(mr)
    /\ output' = IF mr.finalizer THEN output ELSE Empty
    /\ dirty' = (pc # "idle")
    /\ UNCHANGED <<spec, status, input, secretThere, role, pc, mg, pw, envVars>>

ClearPendingMark ==
    /\ pc = "idle"
    /\ CreateIncomplete(mr)
    /\ mr' = Marked(mr, "none")
    /\ UNCHANGED <<spec, status, input, secretThere, output, role, localVars,
                   envVars>>

AdminDropsRole ==
    /\ role.exists
    /\ drifts < MaxDrifts
    /\ drifts' = drifts + 1
    /\ role' = NoRole
    /\ UNCHANGED <<kubeVars, localVars, edits, faults>>

AdminAltersRole ==
    /\ role.exists
    /\ drifts < MaxDrifts
    /\ drifts' = drifts + 1
    /\ \/ \E p \in Privileges, v \in {"on", "off"} :
            role' = [role EXCEPT !.privs[p] = v]
       \/ \E l \in Limits : role' = [role EXCEPT !.limit = l]
       \/ \E c \in SUBSET Parameters : role' = [role EXCEPT !.params = c]
    /\ UNCHANGED <<kubeVars, localVars, edits, faults>>

-------------------------------------------------------------------------------
Init ==
    /\ mr = NewMR
    /\ spec \in SpecChoices
    /\ status = NoStatus
    /\ input \in {Empty, 1}
    /\ secretThere = TRUE
    /\ output = Empty
    /\ role \in {NoRole} \cup {[NoRole EXCEPT !.exists = TRUE, !.pw = g] :
                                  g \in Generated}
    /\ pc = "idle" /\ mg = NoCopy /\ pw = Empty /\ dirty = FALSE
    /\ edits = 0 /\ drifts = 0 /\ faults = 0

ObserveSteps == ObserveAbsent \/ ObserveRole \/ ObserveSecretMissing
ClaimSteps   == ClaimWithFinalizer \/ AlreadyClaimed \/ WriteLateInit
                \/ MarkPending \/ Conflict \/ Settled
CreateSteps  == CreateReadPassword \/ CreateSecretMissing \/ CreateRole
                \/ CreateSetParam \/ CreateReturns \/ CreateRoleGone
                \/ RecordFailure \/ RecordSuccess
UpdateSteps  == UpdateReadPassword \/ AlterPassword \/ AlterPrivs
                \/ CommitParams \/ AlterLimit \/ UpdateRefused
DeleteSteps  == DropRole \/ Release

Reconcile == Begin \/ ObserveSteps \/ ClaimSteps \/ CreateSteps
             \/ UpdateSteps \/ Publish \/ DeleteSteps
Failure     == LoseCommit \/ CallFails \/ Crash
Environment == UserEdits \/ RotatePassword \/ RemoveOrRestoreSecret
               \/ DeleteMR \/ ClearPendingMark \/ AdminDropsRole
               \/ AdminAltersRole

Next == Reconcile \/ Failure \/ Environment
Spec == Init /\ [][Next]_vars

(* controller-runtime requeues the resource after every error and polls it *)
(* after every success, and a call returns: the reconcile never stops.     *)
(* Users, administrators and failures owe nothing.                         *)
FairSpec == Spec /\ WF_vars(Reconcile)

-------------------------------------------------------------------------------
(***************************************************************************)
(* Properties.                                                             *)
(***************************************************************************)

(* The resource as the abstract life cycle sees it.                        *)
Lifecycle == INSTANCE ExternalLifecycle WITH
    claimed  <- mr.finalizer,
    external <- IF role.exists THEN role.origin ELSE "absent"

(* Whatever fails, crashes or is edited in between, a role is created only *)
(* under a claimed resource, and the finalizer is given up only when the   *)
(* role is gone (role/reconciler.go, Observe, Create and Delete).          *)
ImplementsLifecycle == Lifecycle!ASpec

(* A role the provider has created has its managed resource: none is left  *)
(* behind that nobody will delete.                                         *)
NoOrphanedRole ==
    role.exists /\ role.origin = "provider" => mr.present /\ mr.finalizer

(* ALTER ROLE and PublishConnection are two steps, so the published        *)
(* password can differ from the role's.  As long as passwords are not      *)
(* reused, getPassword (role/utils.go) notices every such difference, so   *)
(* that Update repairs it.                                                 *)
StalePasswordIsNoticed ==
    HasPasswordRef /\ WritesSecret =>
        (role.exists /\ role.pw # output => PasswordChanged)

(* What a reconcile cannot go on from by itself: the resource is gone, a   *)
(* crash left its create-pending mark, or the referenced secret is missing *)
Halted == ~mr.present \/ CreateIncomplete(mr) \/ ~PasswordReadable

Matches ==
    /\ role.exists
    /\ \A p \in Privileges : spec.privs[p] \in {Nil, role.privs[p]}
    /\ spec.limit \in {Nil, role.limit}
    /\ spec.params \in {Unset, role.params}

(* Once the edits, drifts and failures end, the role settles on what the   *)
(* specification says, although no Observe ever calls it up to date and    *)
(* although Update compares with a status the API server may have reset.   *)
AttributesConverge == <>[](Halted \/ mr.deleting \/ Matches)

(* ... and the role and the connection secret settle on the referenced     *)
(* password.                                                               *)
PasswordConverges ==
    HasPasswordRef =>
        <>[](Halted \/ mr.deleting
             \/ (role.exists /\ role.pw = input /\ output = input))

(* A deleted resource goes away, unless the reconcile is halted.           *)
DeletionCompletes == mr.deleting ~> Halted

(* The role's password is the one of the referenced secret, in the end:    *)
(* role_types.go calls it "the secret that contains the password used for  *)
(* this role".                                                             *)
ReferencedPasswordIsUsed ==
    HasPasswordRef =>
        <>[](Halted \/ mr.deleting \/ (role.exists /\ role.pw = input))
===============================================================================
