----------------------------- MODULE PgRoleProofs -----------------------------
(***************************************************************************)
(* Theorems about PgRole, for every set of attributes, parameters, limits, *)
(* specifications and passwords, and for every bound on the environment.   *)
(***************************************************************************)
EXTENDS PgRole, TLAPS

(***************************************************************************)
(* Types.                                                                  *)
(***************************************************************************)

(* The initial copies and roles have their types.                          *)
LEMMA BlankTypes ==
    /\ NoStatus \in Status
    /\ NoSpec \in Desired
    /\ NoCopy \in Copy
    /\ NoRole \in Roles
  BY ConstantsAssumption
  DEF NoStatus, NoSpec, NoCopy, NoRole, Status, Desired, Copy, Roles, Setting,
      ParameterLists, Unset, Nil, DefaultPrivs, Password, Empty

(* Late initialisation yields a specification.                             *)
LEMMA LateInitType ==
    ASSUME NEW d \in Desired, NEW r \in Roles
    PROVE  LateInit(d, r) \in Desired
  BY DEF LateInit, Desired, Roles, Setting

(* The observed parameters are a list or the absence of one.               *)
LEMMA ObservedParamsType ==
    ASSUME NEW r \in Roles
    PROVE  ObservedParams(r) \in ParameterLists
  BY DEF ObservedParams, Roles, ParameterLists

(* Decoding a reply over a status yields a status.                         *)
LEMMA OverwrittenType ==
    ASSUME NEW s \in Status, NEW t \in Status
    PROVE  Overwritten(s, t) \in Status
  BY DEF Overwritten, Status

(* Setting the named attributes to what a full specification says.         *)
LEMMA SetPrivsType ==
    ASSUME NEW have \in [Privileges -> {"on", "off"}],
           NEW desired \in [Privileges -> Setting],
           NEW named \in SUBSET Privileges,
           \A p \in named : desired[p] # Nil
    PROVE  SetPrivs(have, desired, named) \in [Privileges -> {"on", "off"}]
  BY DEF SetPrivs, Setting

LEMMA FinishType ==
    ASSUME TypeOK, Finish
    PROVE  /\ pc' \in Phases /\ mg' \in Copy /\ pw' \in Password
           /\ dirty' \in BOOLEAN /\ status' \in Status
  BY BlankTypes DEF TypeOK, Finish, Phases, Copy, Password, Empty

LEMMA WriteCopyType ==
    ASSUME TypeOK, NEW m \in MR, NEW next \in Phases, WriteCopy(m, next)
    PROVE  /\ mr' \in MR /\ spec' \in Desired /\ status' \in Status
           /\ mg' \in Copy /\ pc' \in Phases /\ pw' \in Password
           /\ dirty' \in BOOLEAN
  <1>1. mg.spec \in Desired /\ mg.status \in Status /\ status \in Status
    BY DEF TypeOK, Copy
  <1>2. Overwritten(mg.status, status) \in Status
    BY <1>1, OverwrittenType
  <1>3. mg' \in Copy
    BY <1>2 DEF WriteCopy, TypeOK, Copy
  <1> QED BY <1>1, <1>3 DEF WriteCopy, TypeOK

LEMMA AfterClaimPhase ==
    ASSUME TypeOK
    PROVE  /\ AfterClaim(mg.exists, mg.upToDate) \in {"mark", "update", "done"}
           /\ AfterClaimed \in {"lateInit", "mark", "update", "done"}
  BY DEF TypeOK, Copy, AfterClaim, AfterClaimed

LEMMA MRType ==
    ASSUME NEW m \in MR
    PROVE  /\ WithFinalizer(m) \in MR /\ WithoutFinalizer(m) \in MR
           /\ Deleted(m) \in MR
           /\ \A mark \in CreationMarks : Marked(m, mark) \in MR
  BY DEF MR, WithFinalizer, WithoutFinalizer, Deleted, Marked, GoneMR,
         CreationMarks

(* Each action of a reconcile preserves the types.                         *)
LEMMA ObserveTypes == TypeOK /\ (Begin \/ ObserveSteps) => TypeOK'
  <1> SUFFICES ASSUME TypeOK, Begin \/ ObserveSteps PROVE TypeOK'
    OBVIOUS
  <1> USE DEF kubeVars, envVars
  <1>1. CASE Begin
    <2>1. mg' \in Copy
      BY <1>1, BlankTypes DEF Begin, TypeOK, Copy, MR
    <2> QED BY <1>1, <2>1 DEF Begin, TypeOK, Phases
  <1>2. CASE ObserveAbsent
    BY <1>2 DEF ObserveAbsent, TypeOK, Phases, AfterObserve, Copy
  <1>3. CASE ObserveRole
    <2>1. LateInit(mg.spec, role) \in Desired
      BY LateInitType DEF TypeOK, Copy
    <2>2. [privs |-> role.privs, params |-> ObservedParams(role)] \in Status
      BY ObservedParamsType DEF TypeOK, Roles, Status, Setting
    <2>3. /\ (LateInit(mg.spec, role) # mg.spec) \in BOOLEAN
          /\ (~PasswordChanged /\ UpToDate(mg.spec, role)) \in BOOLEAN
      OBVIOUS
    <2>4. mg' \in Copy
      BY <1>3, <2>1, <2>2, <2>3 DEF ObserveRole, TypeOK, Copy
    <2>5. pc' \in Phases
      BY <1>3 DEF ObserveRole, AfterObserve, Phases, TypeOK, Copy
    <2> QED BY <1>3, <2>4, <2>5 DEF ObserveRole, TypeOK
  <1>4. CASE ObserveSecretMissing
    <2>1. ObservedParams(role) \in ParameterLists
      BY ObservedParamsType DEF TypeOK
    <2>2. status' \in Status
      BY <1>4, <2>1 DEF ObserveSecretMissing, TypeOK, Copy, Status
    <2> QED BY <1>4, <2>2, BlankTypes
            DEF ObserveSecretMissing, TypeOK, Phases, Password, Empty
  <1> QED BY <1>1, <1>2, <1>3, <1>4 DEF ObserveSteps

LEMMA ClaimTypes == TypeOK /\ ClaimSteps => TypeOK'
  <1> SUFFICES ASSUME TypeOK, ClaimSteps PROVE TypeOK'
    OBVIOUS
  <1> USE DEF kubeVars, envVars
  <1>0. mr \in MR
    BY DEF TypeOK
  <1>1. CASE ClaimWithFinalizer
    <2>1. AfterClaimed \in Phases
      BY AfterClaimPhase DEF Phases, UpdatePhases
    <2>2. WithFinalizer(mr) \in MR
      BY <1>0, MRType
    <2> QED BY <1>1, <2>1, <2>2, WriteCopyType DEF ClaimWithFinalizer, TypeOK
  <1>2. CASE AlreadyClaimed
    BY <1>2, AfterClaimPhase DEF AlreadyClaimed, TypeOK, Phases, UpdatePhases
  <1>3. CASE WriteLateInit
    <2>1. AfterClaim(mg.exists, mg.upToDate) \in Phases
      BY AfterClaimPhase DEF Phases, UpdatePhases
    <2> QED BY <1>0, <1>3, <2>1, WriteCopyType DEF WriteLateInit, TypeOK
  <1>4. CASE MarkPending
    <2>1. Marked(mr, "pending") \in MR
      BY <1>0, MRType DEF CreationMarks
    <2>2. "create" \in Phases
      BY DEF Phases, CreatePhases
    <2> QED BY <1>4, <2>1, <2>2, WriteCopyType DEF MarkPending, TypeOK
  <1>5. CASE Conflict
    BY <1>5, FinishType DEF Conflict, TypeOK
  <1>6. CASE Settled
    BY <1>6, FinishType DEF Settled, TypeOK
  <1> QED BY <1>1, <1>2, <1>3, <1>4, <1>5, <1>6 DEF ClaimSteps

LEMMA CreateTypes == TypeOK /\ CreateSteps => TypeOK'
  <1> SUFFICES ASSUME TypeOK, CreateSteps PROVE TypeOK'
    OBVIOUS
  <1> USE DEF kubeVars, envVars, localVars
  <1>0. /\ mr \in MR /\ mg \in Copy /\ mg.status \in Status
        /\ Overwritten(mg.status, status) \in Status
    BY OverwrittenType DEF TypeOK, Copy
  <1>1. CASE CreateReadPassword
    BY <1>1 DEF CreateReadPassword, TypeOK, Phases, CreatePhases, Password,
                NewPassword, Empty
  <1>2. CASE CreateSecretMissing
    BY <1>2 DEF CreateSecretMissing, TypeOK, Phases
  <1>3. CASE CreateRole
    <2> DEFINE named == {p \in Privileges : mg.spec.privs[p] # Nil}
    <2>1. DefaultPrivs \in [Privileges -> {"on", "off"}]
      BY DEF DefaultPrivs
    <2>2. SetPrivs(DefaultPrivs, mg.spec.privs, named)
            \in [Privileges -> {"on", "off"}]
      BY <1>0, <2>1, SetPrivsType DEF Copy, Desired
    <2>3. role' \in Roles
      BY <1>3, <2>2, BlankTypes DEF CreateRole, TypeOK, Roles
    <2>4. mg' \in Copy
      BY <1>0, <1>3 DEF CreateRole, Copy, Desired, Status, ParameterLists
    <2> QED BY <1>3, <2>3, <2>4 DEF CreateRole, TypeOK, Phases, CreatePhases
  <1>4. CASE CreateSetParam
    <2>1. PICK c \in mg.todo : /\ role' = [role EXCEPT !.params = @ \cup {c}]
                               /\ mg' = [mg EXCEPT !.todo = @ \ {c}]
      BY <1>4 DEF CreateSetParam
    <2>2. role' \in Roles /\ mg' \in Copy
      BY <1>0, <2>1 DEF TypeOK, Roles, Copy
    <2> QED BY <1>4, <2>2 DEF CreateSetParam, TypeOK
  <1>5. CASE CreateReturns
    <2>1. mg' \in Copy
      BY <1>0, <1>5 DEF CreateReturns, Copy, Desired, Status
    <2> QED BY <1>5, <2>1 DEF CreateReturns, TypeOK, Phases
  <1>6. CASE CreateRoleGone
    BY <1>6 DEF CreateRoleGone, TypeOK, Phases
  <1>7. CASE RecordFailure
    BY <1>0, <1>7, MRType, BlankTypes
    DEF RecordFailure, TypeOK, Phases, Password, Empty, CreationMarks
  <1>8. CASE RecordSuccess
    <2>1. mg' \in Copy
      BY <1>0, <1>8 DEF RecordSuccess, Copy
    <2>2. mr' \in MR
      BY <1>0, <1>8, MRType DEF RecordSuccess, CreationMarks
    <2> QED BY <1>8, <2>1, <2>2 DEF RecordSuccess, TypeOK, Phases
  <1> QED BY <1>1, <1>2, <1>3, <1>4, <1>5, <1>6, <1>7, <1>8 DEF CreateSteps

LEMMA AlterParamsType ==
    ASSUME TypeOK, NEW committed \in BOOLEAN, AlterParams(committed)
    PROVE  /\ role' \in Roles /\ mg' \in Copy /\ pc' \in Phases
           /\ UNCHANGED <<mr, spec, status, input, secretThere, output,
                          pw, dirty, edits, drifts>>
  <1>1. mg \in Copy /\ role \in Roles
    BY DEF TypeOK
  <1>2. ParamsDiffer => mg.spec.params \in SUBSET Parameters
    BY <1>1 DEF ParamsDiffer, Copy, Desired, ParameterLists
  <1>3. role' \in Roles
    BY <1>1, <1>2 DEF AlterParams, Roles
  <1>4. mg' \in Copy
    BY <1>1, <1>2 DEF AlterParams, Copy, Status, ParameterLists
  <1> QED BY <1>3, <1>4 DEF AlterParams, Phases, UpdatePhases, kubeVars

LEMMA UpdateTypes == TypeOK /\ UpdateSteps => TypeOK'
  <1> SUFFICES ASSUME TypeOK, UpdateSteps PROVE TypeOK'
    OBVIOUS
  <1> USE DEF kubeVars, envVars
  <1>0. mg \in Copy /\ role \in Roles
    BY DEF TypeOK
  <1>1. CASE UpdateReadPassword
    BY <1>1 DEF UpdateReadPassword, TypeOK, Phases, UpdatePhases, Password,
                NewPassword, Empty
  <1>2. CASE AlterPassword
    <2>1. role' \in Roles
      BY <1>0, <1>2 DEF AlterPassword, TypeOK, Roles
    <2> QED BY <1>2, <2>1 DEF AlterPassword, TypeOK, Phases, UpdatePhases
  <1>3. CASE AlterPrivs
    <2> DEFINE changed == ChangedPrivs(mg.status.privs, mg.spec.privs)
    <2>1. SetPrivs(role.privs, mg.spec.privs, changed)
            \in [Privileges -> {"on", "off"}]
      BY <1>0, SetPrivsType DEF ChangedPrivs, Copy, Desired, Roles
    <2>2. role' \in Roles
      BY <1>0, <1>3, <2>1 DEF AlterPrivs, Roles
    <2>3. mg' \in Copy
      BY <1>0, <1>3 DEF AlterPrivs, Copy, Desired, Status
    <2> QED BY <1>3, <2>2, <2>3 DEF AlterPrivs, TypeOK, Phases, UpdatePhases
  <1>4. CASE CommitParams
    BY <1>4, AlterParamsType DEF CommitParams, TypeOK
  <1>5. CASE AlterLimit
    <2>1. role' \in Roles
      BY <1>0, <1>5 DEF AlterLimit, Roles, Copy, Desired
    <2> QED BY <1>5, <2>1 DEF AlterLimit, TypeOK, Phases
  <1>6. CASE UpdateRefused
    <2>1. Finish /\ UNCHANGED <<mr, spec, input, secretThere, output, role,
                                edits, drifts, faults>>
      BY <1>6 DEF UpdateRefused
    <2> QED BY <2>1, FinishType DEF TypeOK
  <1> QED BY <1>1, <1>2, <1>3, <1>4, <1>5, <1>6 DEF UpdateSteps

LEMMA ReleaseTypes == TypeOK /\ (Publish \/ DeleteSteps) => TypeOK'
  <1> SUFFICES ASSUME TypeOK, Publish \/ DeleteSteps PROVE TypeOK'
    OBVIOUS
  <1> USE DEF envVars
  <1>1. CASE Publish
    BY <1>1, FinishType DEF Publish, TypeOK
  <1>2. CASE DropRole
    BY <1>2, FinishType, BlankTypes DEF DropRole, TypeOK
  <1>3. CASE Release
    BY <1>3, MRType, BlankTypes
    DEF Release, TypeOK, Phases, Password, Empty
  <1> QED BY <1>1, <1>2, <1>3 DEF DeleteSteps

LEMMA FailureTypes == TypeOK /\ Failure => TypeOK'
  <1> SUFFICES ASSUME TypeOK, Failure PROVE TypeOK'
    OBVIOUS
  <1>1. CASE LoseCommit
    <2>1. AlterParams(FALSE) /\ faults' = faults + 1
      BY <1>1 DEF LoseCommit
    <2>2. /\ role' \in Roles /\ mg' \in Copy /\ pc' \in Phases
          /\ UNCHANGED <<mr, spec, status, input, secretThere, output,
                         pw, dirty, edits, drifts>>
      BY <2>1, AlterParamsType
    <2> QED BY <2>1, <2>2 DEF TypeOK
  <1>2. CASE CallFails
    <2>1. CASE pc \in CreatePhases
      BY <1>2, <2>1 DEF CallFails, TypeOK, Phases
    <2>2. CASE pc \notin CreatePhases
      BY <1>2, <2>2, FinishType DEF CallFails, TypeOK
    <2> QED BY <2>1, <2>2
  <1>3. CASE Crash
    <2>1. /\ pc' = "idle" /\ mg' = NoCopy /\ pw' = Empty /\ dirty' = FALSE
          /\ faults' = faults + 1
          /\ UNCHANGED <<mr, spec, status, input, secretThere, output, role,
                         edits, drifts>>
      BY <1>3 DEF Crash, kubeVars
    <2>2. pc' \in Phases /\ mg' \in Copy
      BY <2>1, BlankTypes DEF Phases
    <2>3. pw' \in Password /\ dirty' \in BOOLEAN
      BY <2>1 DEF Password, Empty
    <2>4. faults' \in Nat
      BY <2>1 DEF TypeOK
    <2> QED BY <2>1, <2>2, <2>3, <2>4 DEF TypeOK
  <1> QED BY <1>1, <1>2, <1>3 DEF Failure

LEMMA EnvironmentTypes == TypeOK /\ Environment => TypeOK'
  <1> SUFFICES ASSUME TypeOK, Environment PROVE TypeOK'
    OBVIOUS
  <1> USE DEF kubeVars, localVars, envVars
  <1>1. CASE UserEdits
    BY <1>1, ConstantsAssumption DEF UserEdits, TypeOK
  <1>2. CASE RotatePassword
    BY <1>2, ConstantsAssumption DEF RotatePassword, TypeOK
  <1>3. CASE RemoveOrRestoreSecret
    BY <1>3 DEF RemoveOrRestoreSecret, TypeOK
  <1>4. CASE DeleteMR
    BY <1>4, MRType DEF DeleteMR, TypeOK, Password, Empty
  <1>5. CASE ClearPendingMark
    BY <1>5, MRType DEF ClearPendingMark, TypeOK, CreationMarks
  <1>6. CASE AdminDropsRole
    BY <1>6, BlankTypes DEF AdminDropsRole, TypeOK
  <1>7. CASE AdminAltersRole
    <2>1. role' \in Roles
      <3>0. role \in Roles
        BY DEF TypeOK
      <3>1. ASSUME NEW p \in Privileges, NEW v \in {"on", "off"},
                   role' = [role EXCEPT !.privs[p] = v]
            PROVE  role' \in Roles
        BY <3>0, <3>1 DEF Roles
      <3>2. ASSUME NEW l \in Limits, role' = [role EXCEPT !.limit = l]
            PROVE  role' \in Roles
        BY <3>0, <3>2 DEF Roles
      <3>3. ASSUME NEW c \in SUBSET Parameters,
                   role' = [role EXCEPT !.params = c]
            PROVE  role' \in Roles
        BY <3>0, <3>3 DEF Roles
      <3> QED BY <1>7, <3>1, <3>2, <3>3 DEF AdminAltersRole
    <2> QED BY <1>7, <2>1 DEF AdminAltersRole, TypeOK
  <1> QED BY <1>1, <1>2, <1>3, <1>4, <1>5, <1>6, <1>7 DEF Environment

(* The state of PgRole keeps its types.                                    *)
THEOREM TypeCorrect == Spec => []TypeOK
  <1>1. Init => TypeOK
    <2> SUFFICES ASSUME Init PROVE TypeOK
      OBVIOUS
    <2>1. role \in Roles
      <3>1. ASSUME NEW g \in Generated
            PROVE  [NoRole EXCEPT !.exists = TRUE, !.pw = g] \in Roles
        BY BlankTypes DEF Roles, Password
      <3> QED BY <3>1, BlankTypes DEF Init
    <2>2. mr \in MR
      BY DEF Init, NewMR, MR, CreationMarks
    <2>3. input \in Nat
      <3>1. input \in {Empty, 1}
        BY DEF Init
      <3> QED BY <3>1 DEF Empty
    <2> QED BY <2>1, <2>2, <2>3, BlankTypes, ConstantsAssumption
            DEF Init, TypeOK, Phases, Password, Empty
  <1>2. TypeOK /\ [Next]_vars => TypeOK'
    <2> SUFFICES ASSUME TypeOK, [Next]_vars PROVE TypeOK'
      OBVIOUS
    <2>1. CASE UNCHANGED vars
      BY <2>1 DEF vars, kubeVars, localVars, envVars, TypeOK
    <2> QED BY <2>1, ObserveTypes, ClaimTypes, CreateTypes, UpdateTypes,
               ReleaseTypes, FailureTypes, EnvironmentTypes
            DEF Next, Reconcile
  <1> QED BY <1>1, <1>2, PTL DEF Spec

(***************************************************************************)
(* The claim.                                                              *)
(***************************************************************************)

(* What makes NoOrphanedRole inductive.  Once a reconcile is past the      *)
(* claim the resource has its finalizer, whatever the user does; and a     *)
(* reconcile on its way to the release has seen that the role is gone,     *)
(* which nobody but itself can undo.                                       *)
ClaimHeld ==
    /\ mr.finalizer => mr.present
    /\ NoOrphanedRole
    /\ pc \in {"lateInit", "mark", "createFailed", "created"} \cup CreatePhases
         => mr.finalizer
    /\ pc = "release" => ~role.exists

ClaimPhases == {"lateInit", "mark", "createFailed", "created"} \cup CreatePhases

(* The resource as ExternalLifecycle sees it, before and after a step.     *)
LifecycleStep == [Lifecycle!ANext]_(Lifecycle!avars)

LEMMA ClaimStep ==
    TypeOK /\ ClaimHeld /\ [Next]_vars => ClaimHeld' /\ LifecycleStep
  <1> SUFFICES ASSUME TypeOK, ClaimHeld, [Next]_vars
               PROVE  ClaimHeld' /\ LifecycleStep
    OBVIOUS
  <1> USE DEF kubeVars, localVars, envVars, ClaimHeld, NoOrphanedRole,
              LifecycleStep, Lifecycle!ANext, Lifecycle!avars, CreatePhases
  <1>t. /\ mr.present \in BOOLEAN /\ mr.finalizer \in BOOLEAN
        /\ mr.deleting \in BOOLEAN /\ role.exists \in BOOLEAN
        /\ role.origin \in {"provider", "other"}
        /\ mr \in MR /\ role \in Roles
    BY DEF TypeOK, MR, Roles
  (* Most steps leave the metadata and the existence of the role alone, and *)
  (* lead to no phase that the invariant speaks of.                         *)
  <1>q. ASSUME mr' = mr, role'.exists = role.exists,
               role'.origin = role.origin,
               pc' \in ClaimPhases => mr.finalizer,
               pc' = "release" => ~role.exists
        PROVE  ClaimHeld' /\ LifecycleStep
    BY <1>q DEF ClaimPhases
  <1>1. CASE Begin
    BY <1>1, <1>q DEF Begin, ClaimPhases
  <1>2. CASE ObserveSteps
    <2>1. CASE ObserveAbsent
      BY <1>t, <2>1, <1>q DEF ObserveAbsent, ClaimPhases, AfterObserve
    <2>2. CASE ObserveRole
      <3>1. pc' \in {"delete", "claim"}
        BY <2>2 DEF ObserveRole, AfterObserve, TypeOK, Copy
      <3> QED BY <2>2, <3>1, <1>q DEF ObserveRole, ClaimPhases
    <2>3. CASE ObserveSecretMissing
      BY <2>3, <1>q DEF ObserveSecretMissing, ClaimPhases
    <2> QED BY <1>2, <2>1, <2>2, <2>3 DEF ObserveSteps
  <1>3. CASE ClaimSteps
    <2>1. CASE ClaimWithFinalizer
      <3>1. /\ mr' = WithFinalizer(mr) /\ role' = role /\ mr.present
            /\ pc' # "release"
        BY <2>1, AfterClaimPhase DEF ClaimWithFinalizer, WriteCopy
      <3>2. mr'.finalizer = TRUE /\ mr'.present = mr.present
        BY <1>t, <3>1 DEF WithFinalizer, MR
      <3>3. ClaimHeld'
        BY <1>t, <3>1, <3>2
      <3>4. ~mr.finalizer
        BY <2>1 DEF ClaimWithFinalizer
      <3>5. LifecycleStep
        BY <1>t, <3>1, <3>2, <3>4 DEF Lifecycle!Claim
      <3> QED BY <3>3, <3>5
    <2>2. CASE AlreadyClaimed
      BY <2>2, <1>q, AfterClaimPhase DEF AlreadyClaimed
    <2>3. CASE WriteLateInit
      <3>1. mr' = mr /\ role' = role /\ mr.finalizer /\ pc' # "release"
        BY <2>3, AfterClaimPhase DEF WriteLateInit, WriteCopy
      <3> QED BY <3>1, <1>q
    <2>4. CASE MarkPending
      <3>1. /\ mr' = Marked(mr, "pending") /\ role' = role /\ mr.finalizer
            /\ pc' # "release"
        BY <2>4 DEF MarkPending, WriteCopy
      <3>2. mr'.finalizer = mr.finalizer /\ mr'.present = mr.present
        BY <1>t, <3>1 DEF Marked, MR
      <3> QED BY <1>t, <3>1, <3>2
    <2>5. CASE Conflict
      BY <2>5, <1>q DEF Conflict, Finish, ClaimPhases
    <2>6. CASE Settled
      BY <2>6, <1>q DEF Settled, Finish, ClaimPhases
    <2> QED BY <1>3, <2>1, <2>2, <2>3, <2>4, <2>5, <2>6 DEF ClaimSteps
  <1>4. CASE CreateSteps
    <2>1. CASE CreateReadPassword
      BY <2>1, <1>q DEF CreateReadPassword
    <2>2. CASE CreateSecretMissing
      BY <2>2, <1>q DEF CreateSecretMissing
    <2>3. CASE CreateRole
      <3>1. /\ mr' = mr /\ mr.finalizer /\ mr.present /\ ~role.exists
            /\ pc' = "setParams"
        BY <2>3 DEF CreateRole
      <3>2. role'.exists = TRUE /\ role'.origin = "provider"
        BY <2>3, BlankTypes DEF CreateRole, NoRole
      <3> QED BY <1>t, <3>1, <3>2 DEF Lifecycle!Create
    <2>4. CASE CreateSetParam
      <3>1. PICK c \in mg.todo : role' = [role EXCEPT !.params = @ \cup {c}]
        BY <2>4 DEF CreateSetParam
      <3>2. role'.exists = role.exists /\ role'.origin = role.origin
        BY <1>t, <3>1 DEF Roles
      <3> QED BY <2>4, <3>2, <1>q DEF CreateSetParam
    <2>5. CASE CreateReturns
      BY <2>5, <1>q DEF CreateReturns
    <2>6. CASE CreateRoleGone
      BY <2>6, <1>q DEF CreateRoleGone
    <2>7. CASE RecordFailure
      <3>1. mr' = Marked(mr, "failed") /\ role' = role /\ pc' = "idle"
        BY <2>7 DEF RecordFailure
      <3>2. mr'.finalizer = mr.finalizer /\ mr'.present = mr.present
        BY <1>t, <3>1 DEF Marked, MR
      <3> QED BY <1>t, <3>1, <3>2
    <2>8. CASE RecordSuccess
      <3>1. mr' = Marked(mr, "succeeded") /\ role' = role /\ pc' = "publish"
        BY <2>8 DEF RecordSuccess
      <3>2. mr'.finalizer = mr.finalizer /\ mr'.present = mr.present
        BY <1>t, <3>1 DEF Marked, MR
      <3> QED BY <1>t, <3>1, <3>2
    <2> QED BY <1>4, <2>1, <2>2, <2>3, <2>4, <2>5, <2>6, <2>7, <2>8
            DEF CreateSteps
  <1>5. ASSUME NEW committed \in BOOLEAN, AlterParams(committed)
        PROVE  ClaimHeld' /\ LifecycleStep
    <2>1. role'.exists = role.exists /\ role'.origin = role.origin
      BY <1>t, <1>5 DEF AlterParams, Roles
    <2> QED BY <1>5, <2>1, <1>q DEF AlterParams, ClaimPhases
  <1>6. CASE UpdateSteps
    <2>1. CASE UpdateReadPassword
      BY <2>1, <1>q DEF UpdateReadPassword, ClaimPhases
    <2>2. CASE AlterPassword
      <3>1. role'.exists = role.exists /\ role'.origin = role.origin
        BY <1>t, <2>2 DEF AlterPassword, Roles
      <3> QED BY <2>2, <3>1, <1>q DEF AlterPassword, ClaimPhases
    <2>3. CASE AlterPrivs
      <3>1. role'.exists = role.exists /\ role'.origin = role.origin
        BY <1>t, <2>3 DEF AlterPrivs, Roles
      <3> QED BY <2>3, <3>1, <1>q DEF AlterPrivs, ClaimPhases
    <2>4. CASE CommitParams
      BY <2>4, <1>5 DEF CommitParams
    <2>5. CASE AlterLimit
      <3>1. role'.exists = role.exists /\ role'.origin = role.origin
        BY <1>t, <2>5 DEF AlterLimit, Roles
      <3> QED BY <2>5, <3>1, <1>q DEF AlterLimit, ClaimPhases
    <2>6. CASE UpdateRefused
      <3>1. mr' = mr /\ role' = role /\ pc' = "idle"
        BY <2>6 DEF UpdateRefused, Finish
      <3> QED BY <3>1, <1>q DEF ClaimPhases
    <2> QED BY <1>6, <2>1, <2>2, <2>3, <2>4, <2>5, <2>6 DEF UpdateSteps
  <1>7. CASE Publish
    BY <1>7, <1>q DEF Publish, Finish, ClaimPhases
  <1>8. CASE DeleteSteps
    <2>1. CASE DropRole
      <3>1. mr' = mr /\ role' = NoRole /\ pc' = "idle"
        BY <2>1 DEF DropRole, Finish
      <3>2. role'.exists = FALSE
        BY <3>1 DEF NoRole
      <3> QED BY <1>t, <3>1, <3>2 DEF Lifecycle!Vanish
    <2>2. CASE Release
      <3>1. mr' = WithoutFinalizer(mr) /\ role' = role /\ pc' = "idle"
            /\ ~role.exists
        BY <2>2 DEF Release
      <3>2. mr'.finalizer = FALSE
        BY <1>t, <3>1 DEF WithoutFinalizer, MR, GoneMR
      <3> QED BY <1>t, <3>1, <3>2 DEF Lifecycle!Release
    <2> QED BY <1>8, <2>1, <2>2 DEF DeleteSteps
  <1>9. CASE Failure
    <2>1. CASE LoseCommit
      BY <2>1, <1>5 DEF LoseCommit
    <2>2. CASE CallFails
      <3>1. CASE pc \in CreatePhases
        BY <2>2, <3>1, <1>q DEF CallFails
      <3>2. CASE pc \notin CreatePhases
        BY <2>2, <3>2, <1>q DEF CallFails, Finish, ClaimPhases
      <3> QED BY <3>1, <3>2
    <2>3. CASE Crash
      BY <2>3, <1>q DEF Crash, ClaimPhases
    <2> QED BY <1>9, <2>1, <2>2, <2>3 DEF Failure
  <1>10. CASE Environment
    <2>1. CASE UserEdits
      BY <2>1, <1>q DEF UserEdits, ClaimPhases
    <2>2. CASE RotatePassword
      BY <2>2, <1>q DEF RotatePassword, ClaimPhases
    <2>3. CASE RemoveOrRestoreSecret
      BY <2>3, <1>q DEF RemoveOrRestoreSecret, ClaimPhases
    <2>4. CASE DeleteMR
      <3>1. mr' = Deleted(mr) /\ role' = role /\ pc' = pc
        BY <2>4 DEF DeleteMR
      <3>2. /\ mr'.finalizer = mr.finalizer
            /\ mr.finalizer => mr'.present
        BY <1>t, <3>1 DEF Deleted, MR, GoneMR
      <3> QED BY <1>t, <3>1, <3>2
    <2>5. CASE ClearPendingMark
      <3>1. mr' = Marked(mr, "none") /\ role' = role /\ pc' = pc
        BY <2>5 DEF ClearPendingMark
      <3>2. mr'.finalizer = mr.finalizer /\ mr'.present = mr.present
        BY <1>t, <3>1 DEF Marked, MR
      <3> QED BY <1>t, <3>1, <3>2
    <2>6. CASE AdminDropsRole
      <3>1. mr' = mr /\ role' = NoRole /\ pc' = pc /\ role.exists
        BY <2>6 DEF AdminDropsRole
      <3>2. role'.exists = FALSE
        BY <3>1 DEF NoRole
      <3> QED BY <1>t, <3>1, <3>2 DEF Lifecycle!Vanish
    <2>7. CASE AdminAltersRole
      <3>1. role'.exists = role.exists /\ role'.origin = role.origin
        BY <1>t, <2>7 DEF AdminAltersRole, Roles
      <3> QED BY <2>7, <3>1, <1>q DEF AdminAltersRole, ClaimPhases
    <2> QED BY <1>10, <2>1, <2>2, <2>3, <2>4, <2>5, <2>6, <2>7
            DEF Environment
  <1>11. CASE UNCHANGED vars
    BY <1>11, <1>q DEF vars, ClaimPhases
  <1> QED BY <1>1, <1>2, <1>3, <1>4, <1>6, <1>7, <1>8, <1>9, <1>10, <1>11
          DEF Next, Reconcile

LEMMA ClaimInit == Init => ClaimHeld /\ Lifecycle!AInit
  <1> SUFFICES ASSUME Init PROVE ClaimHeld /\ Lifecycle!AInit
    OBVIOUS
  <1>1. mr.finalizer = FALSE /\ pc = "idle"
    BY DEF Init, NewMR
  <1>2. role.origin = "other" /\ role.exists \in BOOLEAN
    <2>1. NoRole.origin = "other" /\ NoRole.exists = FALSE
      BY DEF NoRole
    <2>2. ASSUME NEW g \in Generated,
                 role = [NoRole EXCEPT !.exists = TRUE, !.pw = g]
          PROVE  role.origin = "other" /\ role.exists \in BOOLEAN
      BY <2>2 DEF NoRole
    <2> QED BY <2>1, <2>2 DEF Init
  <1> QED BY <1>1, <1>2
          DEF ClaimHeld, NoOrphanedRole, CreatePhases, Lifecycle!AInit

(* No role the provider has created is ever without its claimed resource   *)
(* (role/reconciler.go, Create and Delete, whatever fails in between).     *)
THEOREM NoOrphan == Spec => []NoOrphanedRole
  <1>1. Init => ClaimHeld
    BY ClaimInit
  <1>2. TypeOK /\ ClaimHeld /\ [Next]_vars => ClaimHeld'
    BY ClaimStep
  <1>3. ClaimHeld => NoOrphanedRole
    BY DEF ClaimHeld
  <1> QED BY <1>1, <1>2, <1>3, TypeCorrect, PTL DEF Spec

(* Every behaviour of the Role controller is one of ExternalLifecycle.     *)
THEOREM RoleImplementsLifecycle == Spec => ImplementsLifecycle
  <1>1. Init => ClaimHeld /\ Lifecycle!AInit
    BY ClaimInit
  <1>2. TypeOK /\ ClaimHeld /\ [Next]_vars
          => ClaimHeld' /\ [Lifecycle!ANext]_(Lifecycle!avars)
    BY ClaimStep DEF LifecycleStep
  <1> QED BY <1>1, <1>2, TypeCorrect, PTL
          DEF Spec, ImplementsLifecycle, Lifecycle!ASpec

(***************************************************************************)
(* The published password.                                                 *)
(***************************************************************************)

(* Passwords only move forward: the published one is no newer than the one *)
(* a worker carries, and that one no newer than the referenced one; where  *)
(* the role's password is not the published one, the referenced one is     *)
(* newer.  Between the statement and the publication the worker carries    *)
(* the role's password.                                                    *)
CarryPhases == {"setParams", "created", "publish", "alterPrivs",
                "alterParams", "alterLimit"}
PasswordsAdvance ==
    /\ input \in Nat \ {0} /\ output \in Nat /\ pw \in Nat
    /\ output <= input /\ pw <= input
    /\ pw # Empty => output <= pw
    /\ pc = "createRole" => pw # Empty
    /\ pc \in CarryPhases /\ pw # Empty /\ role.exists => role.pw = pw
    /\ role.exists /\ role.pw # output => output < input
InOrderPasswords == HasPasswordRef /\ WritesSecret => PasswordsAdvance

(* The reference is rotated, and neither set nor taken away.               *)
LEMMA InputStep ==
    ASSUME [Next]_vars
    PROVE  input' = input \/ RotatePassword
  <1> USE DEF kubeVars, localVars, envVars
  <1>1. ASSUME Begin \/ ObserveSteps \/ Publish \/ DeleteSteps
        PROVE  input' = input
    BY <1>1 DEF Begin, ObserveSteps, ObserveAbsent, ObserveRole,
                ObserveSecretMissing, Publish, DeleteSteps, DropRole, Release, Finish
  <1>2. ASSUME ClaimSteps
        PROVE  input' = input
    BY <1>2 DEF ClaimSteps, ClaimWithFinalizer, AlreadyClaimed, WriteLateInit,
                MarkPending, Conflict, Settled, WriteCopy, Finish
  <1>3. ASSUME CreateSteps
        PROVE  input' = input
    BY <1>3 DEF CreateSteps, CreateReadPassword, CreateSecretMissing, CreateRole,
                CreateSetParam, CreateReturns, CreateRoleGone, RecordFailure,
                RecordSuccess
  <1>4. ASSUME UpdateSteps \/ Failure
        PROVE  input' = input
    BY <1>4 DEF UpdateSteps, UpdateReadPassword, AlterPassword, AlterPrivs,
                CommitParams, AlterParams, AlterLimit, UpdateRefused, Failure,
                LoseCommit, CallFails, Crash, Finish
  <1>5. ASSUME Environment
        PROVE  input' = input \/ RotatePassword
    BY <1>5 DEF Environment, UserEdits, RemoveOrRestoreSecret, DeleteMR,
                ClearPendingMark, AdminDropsRole, AdminAltersRole
  <1> QED BY <1>1, <1>2, <1>3, <1>4, <1>5 DEF Next, Reconcile, vars

LEMMA PasswordsStep ==
    ASSUME ~PasswordsReused, HasPasswordRef, WritesSecret,
           TypeOK, PasswordsAdvance, [Next]_vars
    PROVE  PasswordsAdvance'
  <1> USE DEF kubeVars, localVars, envVars, PasswordsAdvance, Empty
  <1>t. role \in Roles /\ role.exists \in BOOLEAN
    BY DEF TypeOK, Roles
  (* Steps that change no password, and do not bring a reconcile into a     *)
  (* phase that carries one from a phase that does not.                     *)
  <1>q. ASSUME input' = input, output' = output, pw' = pw,
               role'.exists = role.exists, role'.pw = role.pw,
               pc' # "createRole" \/ pc = "createRole",
               pc' \in CarryPhases => pc \in CarryPhases
        PROVE  PasswordsAdvance'
    BY <1>q
  (* Steps that end a reconcile without touching a secret or the role.      *)
  <1>e. ASSUME input' = input, output' = output, pw' = Empty, pc' = "idle",
               role' = role \/ role'.exists = FALSE
        PROVE  PasswordsAdvance'
    BY <1>e DEF CarryPhases
  <1>1. CASE Begin
    BY <1>1, <1>q DEF Begin, CarryPhases
  <1>2. CASE ObserveSteps
    <2>1. CASE ObserveAbsent
      BY <2>1, <1>q DEF ObserveAbsent, CarryPhases, AfterObserve, TypeOK, Copy
    <2>2. CASE ObserveRole
      <3>1. pc' \in {"delete", "claim"}
        BY <2>2 DEF ObserveRole, AfterObserve, TypeOK, Copy
      <3> QED BY <2>2, <3>1, <1>q DEF ObserveRole, CarryPhases
    <2>3. CASE ObserveSecretMissing
      BY <2>3, <1>e DEF ObserveSecretMissing
    <2> QED BY <1>2, <2>1, <2>2, <2>3 DEF ObserveSteps
  <1>3. CASE ClaimSteps
    <2>1. CASE ClaimWithFinalizer
      BY <2>1, <1>q, AfterClaimPhase
      DEF ClaimWithFinalizer, WriteCopy, CarryPhases
    <2>2. CASE AlreadyClaimed
      BY <2>2, <1>q, AfterClaimPhase DEF AlreadyClaimed, CarryPhases
    <2>3. CASE WriteLateInit
      BY <2>3, <1>q, AfterClaimPhase DEF WriteLateInit, WriteCopy, CarryPhases
    <2>4. CASE MarkPending
      BY <2>4, <1>q DEF MarkPending, WriteCopy, CarryPhases
    <2>5. CASE Conflict
      BY <2>5, <1>e DEF Conflict, Finish
    <2>6. CASE Settled
      BY <2>6, <1>e DEF Settled, Finish
    <2> QED BY <1>3, <2>1, <2>2, <2>3, <2>4, <2>5, <2>6 DEF ClaimSteps
  <1>4. CASE CreateSteps
    <2>1. CASE CreateReadPassword
      <3>1. /\ pw' = input /\ pc' = "createRole"
            /\ input' = input /\ output' = output /\ role' = role
        BY <2>1 DEF CreateReadPassword, NewPassword
      <3> QED BY <3>1 DEF CarryPhases
    <2>2. CASE CreateSecretMissing
      BY <2>2, <1>q DEF CreateSecretMissing, CarryPhases
    <2>3. CASE CreateRole
      <3>1. /\ pw # Empty /\ pw' = pw /\ pc' = "setParams"
            /\ input' = input /\ output' = output
        BY <2>3 DEF CreateRole
      <3>2. role'.pw = pw
        BY <2>3, BlankTypes DEF CreateRole, NoRole
      <3> QED BY <3>1, <3>2
    <2>4. CASE CreateSetParam
      <3>1. PICK c \in mg.todo : role' = [role EXCEPT !.params = @ \cup {c}]
        BY <2>4 DEF CreateSetParam
      <3>2. role'.exists = role.exists /\ role'.pw = role.pw
        BY <1>t, <3>1 DEF Roles
      <3> QED BY <2>4, <3>2, <1>q DEF CreateSetParam
    <2>5. CASE CreateReturns
      BY <2>5, <1>q DEF CreateReturns, CarryPhases
    <2>6. CASE CreateRoleGone
      BY <2>6, <1>q DEF CreateRoleGone, CarryPhases
    <2>7. CASE RecordFailure
      BY <2>7, <1>e DEF RecordFailure
    <2>8. CASE RecordSuccess
      BY <2>8, <1>q DEF RecordSuccess, CarryPhases
    <2> QED BY <1>4, <2>1, <2>2, <2>3, <2>4, <2>5, <2>6, <2>7, <2>8
            DEF CreateSteps
  <1>5. ASSUME NEW committed \in BOOLEAN, AlterParams(committed)
        PROVE  PasswordsAdvance'
    <2>1. role'.exists = role.exists /\ role'.pw = role.pw
      BY <1>t, <1>5 DEF AlterParams, Roles
    <2> QED BY <1>5, <2>1, <1>q DEF AlterParams, CarryPhases
  <1>6. CASE UpdateSteps
    <2>1. CASE UpdateReadPassword
      <3>1. /\ pw' \in {input, Empty} /\ pc' = "alterPassword"
            /\ input' = input /\ output' = output /\ role' = role
        BY <2>1 DEF UpdateReadPassword, NewPassword
      <3> QED BY <3>1 DEF CarryPhases
    <2>2. CASE AlterPassword
      <3>1. /\ pw' = pw /\ pc' = "alterPrivs"
            /\ input' = input /\ output' = output
        BY <2>2 DEF AlterPassword
      <3>2. CASE pw = Empty
        BY <2>2, <3>1, <3>2 DEF AlterPassword
      <3>3. CASE pw # Empty
        <4>1. role'.pw = pw /\ role'.exists = role.exists
          BY <1>t, <2>2, <3>3 DEF AlterPassword, Roles
        <4> QED BY <3>1, <3>3, <4>1
      <3> QED BY <3>2, <3>3
    <2>3. CASE AlterPrivs
      <3>1. role'.exists = role.exists /\ role'.pw = role.pw
        BY <1>t, <2>3 DEF AlterPrivs, Roles
      <3> QED BY <2>3, <3>1, <1>q DEF AlterPrivs, CarryPhases
    <2>4. CASE CommitParams
      BY <2>4, <1>5 DEF CommitParams
    <2>5. CASE AlterLimit
      <3>1. role'.exists = role.exists /\ role'.pw = role.pw
        BY <1>t, <2>5 DEF AlterLimit, Roles
      <3> QED BY <2>5, <3>1, <1>q DEF AlterLimit, CarryPhases
    <2>6. CASE UpdateRefused
      <3>1. /\ pc' = "idle" /\ pw' = Empty /\ role' = role
            /\ input' = input /\ output' = output
        BY <2>6 DEF UpdateRefused, Finish
      <3> QED BY <3>1, <1>e
    <2> QED BY <1>6, <2>1, <2>2, <2>3, <2>4, <2>5, <2>6 DEF UpdateSteps
  <1>7. CASE Publish
    <2>1. /\ pc = "publish" /\ pc' = "idle" /\ pw' = Empty
          /\ role' = role /\ input' = input
          /\ output' = IF pw # Empty THEN pw ELSE output
      BY <1>7 DEF Publish, Finish
    <2>2. role.exists /\ pw # Empty => role.pw = pw
      BY <2>1 DEF CarryPhases
    <2> QED BY <2>1, <2>2 DEF CarryPhases
  <1>8. CASE DeleteSteps
    <2>1. CASE DropRole
      BY <2>1, <1>e DEF DropRole, Finish, NoRole
    <2>2. CASE Release
      BY <2>2 DEF Release, CarryPhases
    <2> QED BY <1>8, <2>1, <2>2 DEF DeleteSteps
  <1>9. CASE Failure
    <2>1. CASE LoseCommit
      BY <2>1, <1>5 DEF LoseCommit
    <2>2. CASE CallFails
      <3>1. CASE pc \in CreatePhases
        BY <2>2, <3>1, <1>q DEF CallFails, CarryPhases
      <3>2. CASE pc \notin CreatePhases
        BY <2>2, <3>2, <1>e DEF CallFails, Finish
      <3> QED BY <3>1, <3>2
    <2>3. CASE Crash
      BY <2>3, <1>e DEF Crash
    <2> QED BY <1>9, <2>1, <2>2, <2>3 DEF Failure
  <1>10. CASE Environment
    <2>1. CASE UserEdits
      BY <2>1, <1>q DEF UserEdits
    <2>2. CASE RotatePassword
      <3>1. /\ input' \in Nat /\ input' > input
            /\ output' = output /\ pw' = pw /\ pc' = pc /\ role' = role
        BY <2>2, ConstantsAssumption DEF RotatePassword
      <3> QED BY <3>1
    <2>3. CASE RemoveOrRestoreSecret
      BY <2>3, <1>q DEF RemoveOrRestoreSecret
    <2>4. CASE DeleteMR
      <3>1. /\ output' \in {output, Empty} /\ input' = input /\ pw' = pw
            /\ pc' = pc /\ role' = role
        BY <2>4 DEF DeleteMR
      <3> QED BY <3>1
    <2>5. CASE ClearPendingMark
      BY <2>5, <1>q DEF ClearPendingMark
    <2>6. CASE AdminDropsRole
      <3>1. role'.exists = FALSE
        BY <2>6 DEF AdminDropsRole, NoRole
      <3> QED BY <2>6, <3>1 DEF AdminDropsRole
    <2>7. CASE AdminAltersRole
      <3>1. role'.exists = role.exists /\ role'.pw = role.pw
        BY <1>t, <2>7 DEF AdminAltersRole, Roles
      <3> QED BY <2>7, <3>1, <1>q DEF AdminAltersRole
    <2> QED BY <1>10, <2>1, <2>2, <2>3, <2>4, <2>5, <2>6, <2>7
            DEF Environment
  <1>11. CASE UNCHANGED vars
    BY <1>11, <1>q DEF vars
  <1> QED BY <1>1, <1>2, <1>3, <1>4, <1>6, <1>7, <1>8, <1>9, <1>10, <1>11
          DEF Next, Reconcile

(* When passwords are never reused, a published password that does not     *)
(* open the role is one that getPassword (role/utils.go) reports changed.  *)
THEOREM StalePasswordNoticed ==
    ASSUME ~PasswordsReused
    PROVE  Spec => []StalePasswordIsNoticed
  <1>1. Init => InOrderPasswords
    <2> SUFFICES ASSUME Init, HasPasswordRef PROVE PasswordsAdvance
      BY DEF InOrderPasswords
    <2>0. input \in {Empty, 1} /\ input # Empty
      BY DEF Init, HasPasswordRef
    <2>1. input = 1 /\ output = 0 /\ pw = 0 /\ pc = "idle"
      BY <2>0 DEF Init, Empty
    <2> QED BY <2>1 DEF PasswordsAdvance, CarryPhases, Empty
  <1>2. TypeOK /\ InOrderPasswords /\ [Next]_vars => InOrderPasswords'
    <2> SUFFICES ASSUME TypeOK, InOrderPasswords, [Next]_vars,
                        HasPasswordRef', WritesSecret
                 PROVE  PasswordsAdvance'
      BY DEF InOrderPasswords
    <2>1. HasPasswordRef
      BY InputStep DEF HasPasswordRef, RotatePassword
    <2> QED BY <2>1, PasswordsStep DEF InOrderPasswords
  <1>3. InOrderPasswords => StalePasswordIsNoticed
    BY DEF InOrderPasswords, PasswordsAdvance, StalePasswordIsNoticed,
           PasswordChanged, NewPassword, HasPasswordRef, Empty
  <1> QED BY <1>1, <1>2, <1>3, TypeCorrect, PTL DEF Spec
====
