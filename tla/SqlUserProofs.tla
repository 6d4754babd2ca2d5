---------------------------- MODULE SqlUserProofs ----------------------------
(***************************************************************************)
(* Theorems about SqlUser, for either flavour, for every set of resources, *)
(* resource options, limits and passwords, and for every bound on edits,   *)
(* rotations and faults.                                                   *)
(***************************************************************************)
EXTENDS SqlUser, WorkerProofs

LEMMA PhasesOfWorkers ==
    /\ WorkerPhases \subseteq Phases
    /\ {"createUser", "created", "createFailed", "publish", "alterOptions",
        "readPassword", "alterPassword"} \subseteq Phases
  BY DEF Phases, WorkerPhases, CreatePhases, AlterPhases

(***************************************************************************)
(* The kinds of steps.                                                     *)
(***************************************************************************)
Call(r) ==
    Observe(r) \/ CreateSteps(r) \/ UpdateSteps(r) \/ Delete(r) \/ Publish(r)
    \/ Unanswered(r)
Steps(r) ==
    /\ WorkerSteps(r) \/ (At(r, "done") /\ Settled(r))
    /\ noted' = noted \/ noted' = [noted EXCEPT ![r] = Nothing]
    /\ UNCHANGED <<serverVars, switched, secretVars, pw>>
Breaks ==
    /\ Crash \/ \E r \in Resources : CallFails(r, CreatePhases)
    /\ pw' = [r \in Resources |-> IF At(r, "idle")' \/ At(r, "createFailed")'
                                  THEN Empty ELSE pw[r]]
    /\ noted' = [r \in Resources |-> IF At(r, "idle")' THEN Nothing ELSE noted[r]]
    /\ UNCHANGED <<serverVars, switched, secretVars>>
Orders(r) ==
    /\ Users(r)
    /\ switched' \in BOOLEAN
    /\ ~switched' => /\ ~switched
                     /\ \A q \in Resources : spec'[q].binlog = spec[q].binlog
    /\ UNCHANGED <<serverVars, secretVars, memoryVars>>
Administers ==
    \/ RotatePassword \/ RemoveOrRestoreSecret
    \/ \E r \in Resources : AdminDropsUser(r) \/ AdminAltersOptions(r)

LEMMA NextCases ==
    ASSUME TypeOK, Next
    PROVE  \/ \E r \in Resources : Call(r) \/ Steps(r) \/ Orders(r)
           \/ Breaks \/ Administers
  <1>1. ASSUME NEW r \in Resources, Reconcile(r)
        PROVE  Call(r) \/ Steps(r)
    BY <1>1 DEF Reconcile, Call, Steps
  <1>2. ASSUME Failure
        PROVE  Breaks \/ \E r \in Resources : Call(r)
    BY <1>2 DEF Failure, Breaks, Call
  <1>3. ASSUME NEW r \in Resources, Users(r),
               switched' = (switched \/ \E q \in Resources :
                                            spec'[q].binlog # spec[q].binlog),
               UNCHANGED <<serverVars, secretVars, memoryVars>>
        PROVE  Orders(r)
    BY <1>3 DEF Orders, TypeOK
  <1>4. ASSUME Environment
        PROVE  Administers \/ \E r \in Resources : Orders(r)
    BY <1>3, <1>4 DEF Environment, Administers
  <1> QED BY <1>1, <1>2, <1>4 DEF Next

(***************************************************************************)
(* The calls of the controller.                                            *)
(***************************************************************************)

(* Where the worker goes, and that no other moves.                         *)
LEMMA CallEffect ==
    ASSUME TypeOK, NEW r \in Resources, Call(r)
    PROVE  /\ WorkerTypes(Phases)' /\ mr' = mr /\ Elsewhere(r)
           /\ UNCHANGED <<spec, flavour, switched, input, secretThere>>
           /\ At(r, "release")' => At(r, "observe") /\ ~Exists(r)
           /\ work'[r].pc \notin {"mark", "create"}
           /\ work'[r].pc # "idle" => work'[r].spec = work[r].spec
  <1> USE DEF apiVars, boundVars, serverVars, memoryVars, secretVars
  <1>0. /\ work \in Workers(Phases) /\ mr \in [Resources -> MR]
        /\ spec \in [Resources -> Specs] /\ edits \in Nat /\ faults \in Nat
        /\ work[r] \in Copies(Phases)
    BY TypesOfParts DEF TypeOK, Workers
  <1> DEFINE Later == {"createUser", "created", "createFailed", "publish",
                       "alterOptions", "readPassword", "alterPassword"}
  <1>u. /\ UNCHANGED <<mr, spec, edits, flavour, switched, input, secretThere>>
        /\ faults' \in Nat
    BY <1>0 DEF Call, Observe, Answered, CreateSteps, ReadPassword, CreateUser, UpdateSteps,
       Update, AlterOptions, UpdatePassword, AlterPassword, Delete, Publish, Settled,
       Unanswered, UseCredit
  <1>t. ASSUME work' \in Workers(Phases)
        PROVE  WorkerTypes(Phases)'
    BY <1>0, <1>t, <1>u, TypesKept
  <1>g. ASSUME NEW phase \in Later, Goes(r, phase)
        PROVE  /\ work' \in Workers(Phases) /\ Elsewhere(r) /\ work'[r].pc \in Later
               /\ work'[r].spec = work[r].spec
    <2>1. phase \in Phases
      BY <1>g, PhasesOfWorkers
    <2>2. /\ work' \in Workers(Phases) /\ Elsewhere(r)
          /\ work'[r] = [work[r] EXCEPT !.pc = phase] /\ work'[r].pc = phase
      BY <1>0, <1>g, <2>1, GoesOne
    <2> QED BY <1>0, <1>g, <2>2 DEF Copies
  <1>e. ASSUME Ends(r)
        PROVE  work' \in Workers(Phases) /\ Elsewhere(r) /\ work'[r].pc = "idle"
    BY <1>0, <1>e, EndsOne, PhasesOfWorkers
  <1>a. ASSUME Ends(r) \/ \E phase \in Later : Goes(r, phase)
        PROVE  /\ WorkerTypes(Phases)' /\ Elsewhere(r)
               /\ work'[r].pc \notin {"mark", "create", "release"}
               /\ work'[r].pc # "idle" => work'[r].spec = work[r].spec
    BY <1>a, <1>e, <1>g, <1>t
  <1>1. CASE Observe(r)
    <2>1. \/ Ends(r)
          \/ \E upToDate \in BOOLEAN : Observed(r, Exists(r), upToDate)
      BY <1>1 DEF Observe, Answered
    <2>2. ASSUME NEW upToDate \in BOOLEAN, Observed(r, Exists(r), upToDate)
          PROVE  /\ work' \in Workers(Phases) /\ Elsewhere(r)
                 /\ work'[r].pc \in {"delete", "release", "claim"}
                 /\ work'[r].pc = "release" => ~Exists(r)
                 /\ work'[r].spec = work[r].spec
      <3>1. Exists(r) \in BOOLEAN
        BY DEF Exists
      <3> QED BY <1>0, <2>2, <3>1, ObservesOne, PhasesOfWorkers
    <2>3. At(r, "observe")
      BY <1>1 DEF Observe, Answered
    <2> QED BY <1>a, <1>t, <1>u, <2>1, <2>2, <2>3 DEF At
  <1>2. CASE CreateSteps(r) \/ Unanswered(r)
    <2>1. Ends(r) \/ \E phase \in Later : Goes(r, phase)
      BY <1>2 DEF CreateSteps, ReadPassword, CreateUser, Unanswered
    <2> QED BY <1>a, <1>u, <2>1 DEF At
  <1>3. CASE UpdateSteps(r)
    <2>1. Ends(r) \/ \E phase \in Later : Goes(r, phase)
      BY <1>3 DEF UpdateSteps, Update, AlterOptions, UpdatePassword, AlterPassword
    <2> QED BY <1>a, <1>u, <2>1 DEF At
  <1>4. CASE Delete(r) \/ Publish(r)
    BY <1>4, <1>a, <1>u DEF Delete, Publish, Settled, At
  <1> QED BY <1>1, <1>2, <1>3, <1>4 DEF Call

(***************************************************************************)
(* What the statements do to the users and the replica.                    *)
(***************************************************************************)
LEMMA UserWritten ==
    ASSUME TypeOK, NEW r \in Resources, NEW u \in UserRecord,
           user' = [user EXCEPT ![r] = u]
    PROVE  /\ user' \in [Resources -> UserRecord] /\ user'[r] = u
           /\ \A q \in Resources \ {r} : user'[q] = user[q]
  BY DEF TypeOK

LEMMA OptionsKept ==
    ASSUME TypeOK, NEW options \in [Options -> Limits], NEW s \in Specs
    PROVE  /\ WithOptions(options, s.options) \in [Options -> Limits]
           /\ Defaults \in [Options -> Limits] /\ Nothing \in [Options -> Limits \cup {Unset}]
           /\ JWT(s) \in BOOLEAN
  <1>1. s.options \in [Options -> Limits \cup {Unset}] /\ s.jwt \in BOOLEAN
    BY UserAssumption DEF UserParameters
  <1> QED BY <1>1, UserAssumption DEF WithOptions, Defaults, Nothing, JWT

LEMMA NobodyThere == NoUser \in UserRecord /\ NoUser.origin = "absent"
  BY UserAssumption DEF NoUser, UserRecord, Password, Defaults, Empty

LEMMA CreatedEffect ==
    ASSUME TypeOK, NEW r \in Resources, Created(r)
    PROVE  /\ user' \in [Resources -> UserRecord]
           /\ \A q \in Resources \ {r} : user'[q] = user[q]
           /\ user'[r].origin = "provider" /\ user'[r].pw = pw[r]
           /\ user'[r].jwt = JWT(work[r].spec)
  <1>0. work[r].spec \in Specs /\ pw[r] \in Password
    BY DEF TypeOK, WorkerTypes
  <1>1. PICK options \in [Options -> Limits] :
           user' = [user EXCEPT ![r] = [origin |-> "provider", pw |-> pw[r],
                       jwt |-> JWT(work[r].spec), options |-> options]]
    <2>1. Defaults \in [Options -> Limits]
      BY UserAssumption DEF Defaults
    <2> QED BY <1>0, <2>1, OptionsKept DEF Created
  <1> DEFINE u == [origin |-> "provider", pw |-> pw[r],
                   jwt |-> JWT(work[r].spec), options |-> options]
  <1>2. u \in UserRecord
    <2>1. Defaults \in [Options -> Limits]
      BY UserAssumption DEF Defaults
    <2>2. JWT(work[r].spec) \in BOOLEAN
      BY <1>0, <2>1, OptionsKept
    <2> QED BY <1>0, <1>1, <2>2 DEF UserRecord
  <1> QED BY <1>1, <1>2, UserWritten

LEMMA PasswordSetEffect ==
    ASSUME TypeOK, NEW r \in Resources, PasswordSet(r)
    PROVE  /\ user' \in [Resources -> UserRecord]
           /\ \A q \in Resources \ {r} : user'[q] = user[q]
           /\ user'[r].origin = user[r].origin /\ user'[r].pw = pw[r]
  <1> DEFINE u == [user[r] EXCEPT !.pw = pw[r], !.jwt = FALSE]
  <1>0. user[r] \in UserRecord /\ pw[r] \in Password
    BY DEF TypeOK
  <1>1. u \in UserRecord /\ u.origin = user[r].origin /\ u.pw = pw[r]
    BY <1>0 DEF UserRecord
  <1>2. user' = [user EXCEPT ![r] = u]
    BY DEF PasswordSet, TypeOK
  <1> QED BY <1>1, <1>2, UserWritten

(* Every step of a controller, by what it does to the user of its resource.*)
LEMMA CallData ==
    ASSUME TypeOK, NEW r \in Resources, Call(r)
    PROVE  /\ user' \in [Resources -> UserRecord]
           /\ \A q \in Resources \ {r} : user'[q] = user[q]
           /\ \/ user'[r].origin = user[r].origin
              \/ user'[r].origin = "absent"
              \/ user'[r].origin = "provider" /\ ~Exists(r) /\ At(r, "createUser")
           /\ \/ user'[r].pw = user[r].pw /\ user'[r].jwt = user[r].jwt
              \/ user'[r].origin = "absent"
              \/ At(r, "createUser") /\ Created(r)
              \/ At(r, "alterPassword") /\ PasswordSet(r)
  <1> USE DEF serverVars
  <1>0. user \in [Resources -> UserRecord] /\ user[r] \in UserRecord
    BY DEF TypeOK
  <1>1. CASE user' = user
    BY <1>0, <1>1
  <1>2. CASE At(r, "createUser") /\ ~Exists(r) /\ Created(r)
    BY <1>2, CreatedEffect
  <1>3. CASE At(r, "alterPassword") /\ PasswordSet(r)
    BY <1>3, PasswordSetEffect
  <1>4. CASE user' = [user EXCEPT ![r] = NoUser]
    BY <1>4, NobodyThere, UserWritten
  <1>5. CASE AlterOptions(r) /\ Exists(r)
    <2> DEFINE u == [user[r] EXCEPT !.options = WithOptions(user[r].options, work[r].spec.options)]
    <2>1. user[r].options \in [Options -> Limits] /\ work[r].spec \in Specs
      BY <1>0 DEF UserRecord, TypeOK, WorkerTypes
    <2>2. WithOptions(user[r].options, work[r].spec.options) \in [Options -> Limits]
      BY <2>1, OptionsKept
    <2>3. /\ u \in UserRecord /\ u.origin = user[r].origin /\ u.pw = user[r].pw
          /\ u.jwt = user[r].jwt
      BY <1>0, <2>2 DEF UserRecord
    <2>4. user' = [user EXCEPT ![r] = u]
      BY <1>0, <1>5 DEF AlterOptions
    <2> QED BY <2>3, <2>4, UserWritten
  <1>6. CASE Observe(r) \/ CreateSteps(r) \/ Publish(r)
    BY <1>1, <1>2, <1>6 DEF Observe, Answered, CreateSteps, ReadPassword, CreateUser, Publish
  <1>7. CASE Unanswered(r)
    <2>1. At(r, "createUser") => ~Exists(r)
      BY <1>7 DEF Unanswered, At
    <2> QED BY <1>2, <1>3, <1>7, <2>1 DEF Unanswered
  <1>8. CASE Delete(r)
    BY <1>4, <1>8 DEF Delete
  <1>9. CASE UpdateSteps(r)
    <2>1. CASE Update(r) \/ UpdatePassword(r)
      BY <1>1, <2>1 DEF Update, UpdatePassword
    <2>2. CASE AlterOptions(r)
      BY <1>1, <1>5, <2>2 DEF AlterOptions
    <2>3. CASE AlterPassword(r)
      BY <1>1, <1>3, <2>3 DEF AlterPassword
    <2> QED BY <1>9, <2>1, <2>2, <2>3 DEF UpdateSteps
  <1> QED BY <1>6, <1>7, <1>8, <1>9 DEF Call

LEMMA ReplicaTyped ==
    ASSUME TypeOK, NEW r \in Resources, NEW s,
           NEW statement \in {"drop", "create", "alter"}, Replicated(r, s, statement)
    PROVE  replica' \in [Resources -> {"absent", "present", "broken"}]
  BY DEF Replicated, TypeOK

LEMMA CallTyped ==
    ASSUME TypeOK, NEW r \in Resources, Call(r)
    PROVE  TypeOK'
  <1> USE DEF serverVars, memoryVars, secretVars, Created, PasswordSet
  <1>0. /\ replica \in [Resources -> {"absent", "present", "broken"}]
        /\ output \in [Resources -> Password] /\ pw \in [Resources -> Password]
        /\ pw[r] \in Password /\ input \in Password /\ Empty \in Password
        /\ Generated \subseteq Password
        /\ noted \in [Resources -> [Options -> Limits \cup {Unset}]]
        /\ user[r].options \in [Options -> Limits \cup {Unset}]
        /\ Nothing \in [Options -> Limits \cup {Unset}]
    BY DEF TypeOK, Password, Empty, UserRecord, Nothing
  <1>1. replica' \in [Resources -> {"absent", "present", "broken"}]
    <2>1. \/ replica' = replica
          \/ \E statement \in {"drop", "create", "alter"} :
                Replicated(r, work[r].spec, statement)
      <3>1. CASE Observe(r) \/ CreateSteps(r) \/ Publish(r) \/ Delete(r)
        BY <3>1 DEF Observe, Answered, CreateSteps, ReadPassword, CreateUser, Publish, Delete
      <3>2. CASE UpdateSteps(r) \/ Unanswered(r)
        BY <3>2 DEF UpdateSteps, Update, AlterOptions, UpdatePassword, AlterPassword,
           Unanswered
      <3> QED BY <3>1, <3>2 DEF Call
    <2> QED BY <1>0, <2>1, ReplicaTyped
  <1>2. pw' \in [Resources -> Password]
    <2>1. pw' = pw \/ \E p \in Password : pw' = [pw EXCEPT ![r] = p]
      <3>1. CASE ReadPassword(r) \/ UpdatePassword(r)
        BY <1>0, <3>1 DEF ReadPassword, UpdatePassword
      <3>2. CASE ~ReadPassword(r) /\ ~UpdatePassword(r)
        BY <1>0, <3>2 DEF Call, Observe, Answered, CreateSteps, CreateUser, Publish, Delete,
           UpdateSteps, Update, AlterOptions, AlterPassword, Unanswered
      <3> QED BY <3>1, <3>2
    <2> QED BY <1>0, <2>1
  <1>3. output' \in [Resources -> Password]
    <2>1. output' = output \/ \E p \in Password : output' = [output EXCEPT ![r] = p]
      BY <1>0 DEF Call, Observe, Answered, CreateSteps, CreateUser, Publish, Delete,
         UpdateSteps, Update, AlterOptions, AlterPassword, Unanswered, ReadPassword,
         UpdatePassword
    <2> QED BY <1>0, <2>1
  <1>4. noted' \in [Resources -> [Options -> Limits \cup {Unset}]]
    <2>1. \/ noted' = noted \/ noted' = [noted EXCEPT ![r] = Nothing]
          \/ noted' = [noted EXCEPT ![r] = user[r].options]
      <3>1. CASE Observe(r) \/ CreateSteps(r) \/ Publish(r) \/ Delete(r)
        BY <3>1 DEF Observe, Answered, CreateSteps, ReadPassword, CreateUser, Publish, Delete
      <3>2. CASE UpdateSteps(r) \/ Unanswered(r)
        BY <3>2 DEF UpdateSteps, Update, AlterOptions, UpdatePassword, AlterPassword,
           Unanswered
      <3> QED BY <3>1, <3>2 DEF Call
    <2> QED BY <1>0, <2>1
  <1>5. /\ WorkerTypes(Phases)' /\ UNCHANGED <<flavour, switched, input, secretThere>>
        /\ user' \in [Resources -> UserRecord]
    BY CallEffect, CallData
  <1> QED BY <1>1, <1>2, <1>3, <1>4, <1>5 DEF TypeOK

(***************************************************************************)
(* The other steps.                                                        *)
(***************************************************************************)

(* Where they leave a worker, its password and the finalizer.              *)
Fate(r) ==
    \/ /\ work'[r].pc = work[r].pc /\ work'[r].spec = work[r].spec
       /\ mr'[r].finalizer = mr[r].finalizer /\ pw'[r] = pw[r]
    \/ /\ work'[r].pc \in {"idle", "createFailed"}
       /\ mr'[r].finalizer = mr[r].finalizer /\ pw'[r] = Empty
    \/ /\ At(r, "created") /\ At(r, "publish")'
       /\ mr[r].finalizer => mr'[r].finalizer
       /\ pw'[r] = pw[r]
    \/ /\ work[r].pc \in {"idle", "claim", "mark", "createFailed", "release", "done"}
       /\ work'[r].pc \in {"idle", "observe", "mark", "update", "done", "create"}
       /\ work'[r].pc = "mark" => mr'[r].finalizer
       /\ work'[r].pc = "create" => At(r, "mark")
       /\ At(r, "release") \/ (mr[r].finalizer => mr'[r].finalizer)
       /\ At(r, "release") => At(r, "idle")'
       /\ pw'[r] = pw[r]

LEMMA StepsFate ==
    ASSUME TypeOK, NEW r \in Resources, Steps(r)
    PROVE  /\ WorkerTypes(Phases)'
           /\ \A q \in Resources : Fate(q)
  <1>0. work \in Workers(Phases) /\ pw' = pw
    BY TypesOfParts DEF TypeOK, Steps
  <1>1. WorkerTypes(Phases)' /\ Elsewhere(r) /\ Moved(r) /\ Metadata(r)
    BY PhasesOfWorkers, WorkerStepEffect DEF TypeOK, Steps
  <1>2. ASSUME At(r, "created") PROVE Fate(r)
    <2>1. Goes(r, "publish")
      BY <1>2 DEF Steps, WorkerSteps, Begin, Claim, MarkPending, RecordFailure,
         RecordSuccess, Release, Conflict, At
    <2>2. At(r, "publish")'
      BY <1>0, <2>1, GoesOne, PhasesOfWorkers DEF At
    <2> QED BY <1>0, <1>1, <1>2, <2>2 DEF Fate, Metadata, At
  <1>3. ASSUME ~At(r, "created") PROVE Fate(r)
    <2>1. work[r].pc \in {"idle", "claim", "mark", "createFailed", "release", "done"}
      BY <1>3 DEF Steps, WorkerSteps, Begin, Claim, MarkPending, RecordFailure,
         RecordSuccess, Release, Conflict, At
    <2> QED BY <1>0, <1>1, <1>3, <2>1 DEF Fate, Metadata, Moved, At
  <1>4. \A q \in Resources \ {r} : Fate(q)
    BY <1>0, <1>1 DEF Fate, Elsewhere, Metadata
  <1> QED BY <1>1, <1>2, <1>3, <1>4

LEMMA OrdersFate ==
    ASSUME TypeOK, NEW r \in Resources, Orders(r)
    PROVE  /\ WorkerTypes(Phases)'
           /\ \A q \in Resources : Fate(q)
  <1>1. /\ WorkerTypes(Phases)'
        /\ \A q \in Resources :
              /\ work'[q].pc = work[q].pc /\ work'[q].spec = work[q].spec
              /\ mr'[q].finalizer = mr[q].finalizer
    BY PhasesOfWorkers, UsersEffect DEF Orders, TypeOK
  <1>2. pw' = pw
    BY DEF Orders, memoryVars
  <1> QED BY <1>1, <1>2 DEF Fate

LEMMA BreaksFate ==
    ASSUME TypeOK, Breaks
    PROVE  /\ WorkerTypes(Phases)' /\ pw' \in [Resources -> Password]
           /\ noted' \in [Resources -> [Options -> Limits \cup {Unset}]]
           /\ \A q \in Resources : Fate(q)
  <1>1. WorkerTypes(Phases)' /\ mr' = mr
    BY CallFailsEffect, CrashEffect, PhasesOfWorkers DEF Breaks, TypeOK
  <1>2. ASSUME NEW q \in Resources
        PROVE  work'[q] = work[q] \/ work'[q].pc \in {"idle", "createFailed"}
    <2>1. CASE Crash
      BY <2>1, CrashEffect, PhasesOfWorkers DEF TypeOK
    <2>2. ASSUME NEW r \in Resources, CallFails(r, CreatePhases)
          PROVE  work'[q] = work[q] \/ work'[q].pc \in {"idle", "createFailed"}
      BY <2>2, CallFailsEffect, PhasesOfWorkers DEF Elsewhere, TypeOK
    <2> QED BY <2>1, <2>2 DEF Breaks
  <1>3. /\ pw' = [r \in Resources |-> IF work'[r].pc = "idle" \/ work'[r].pc = "createFailed"
                                      THEN Empty ELSE pw[r]]
        /\ noted' = [r \in Resources |-> IF work'[r].pc = "idle" THEN Nothing ELSE noted[r]]
    BY DEF Breaks, At
  <1>4. /\ Empty \in Password /\ Nothing \in [Options -> Limits \cup {Unset}]
        /\ pw \in [Resources -> Password]
        /\ noted \in [Resources -> [Options -> Limits \cup {Unset}]]
    BY DEF TypeOK, Empty, Password, Nothing
  <1>5. ASSUME NEW q \in Resources
        PROVE  Fate(q)
    <2>1. CASE work'[q].pc \in {"idle", "createFailed"}
      BY <1>1, <1>3, <2>1 DEF Fate
    <2>2. CASE work'[q].pc \notin {"idle", "createFailed"}
      BY <1>1, <1>2, <1>3, <2>2 DEF Fate
    <2> QED BY <2>1, <2>2
  <1> QED BY <1>1, <1>3, <1>4, <1>5

LEMMA OtherEffect ==
    ASSUME TypeOK,
           (\E r \in Resources : Steps(r) \/ Orders(r)) \/ Breaks
    PROVE  /\ TypeOK' /\ UNCHANGED <<user, input, output>>
           /\ \A r \in Resources : Fate(r)
  <1> USE DEF serverVars, memoryVars, secretVars
  <1>1. ASSUME NEW r \in Resources, Steps(r)
        PROVE  /\ TypeOK' /\ UNCHANGED <<user, input, output>>
               /\ \A q \in Resources : Fate(q)
    <2>1. Nothing \in [Options -> Limits \cup {Unset}]
      BY DEF Nothing
    <2>2. noted' \in [Resources -> [Options -> Limits \cup {Unset}]]
      BY <1>1, <2>1 DEF Steps, TypeOK
    <2> QED BY <1>1, <2>2, StepsFate DEF Steps, TypeOK
  <1>2. ASSUME NEW r \in Resources, Orders(r)
        PROVE  /\ TypeOK' /\ UNCHANGED <<user, input, output>>
               /\ \A q \in Resources : Fate(q)
    BY <1>2, OrdersFate DEF Orders, TypeOK
  <1>3. CASE Breaks
    BY <1>3, BreaksFate DEF Breaks, TypeOK
  <1> QED BY <1>1, <1>2, <1>3

LEMMA AdministersEffect ==
    ASSUME TypeOK, Administers
    PROVE  /\ TypeOK' /\ UNCHANGED <<work, mr, output, pw>>
           /\ input' = input \/ (HasPasswordRef /\ input' = input + 1)
           /\ \A r \in Resources :
                 \/ /\ user'[r].origin = user[r].origin /\ user'[r].pw = user[r].pw
                    /\ user'[r].jwt = user[r].jwt
                 \/ user'[r].origin = "absent"
  <1> USE DEF apiVars, boundVars, workerVars, serverVars, memoryVars, secretVars
  <1>0. edits \in Nat /\ faults \in Nat /\ input \in Nat /\ user \in [Resources -> UserRecord]
    BY DEF TypeOK, WorkerTypes
  <1>5. ASSUME UNCHANGED <<work, mr, spec, flavour, switched, output, pw, noted>>,
               edits' \in Nat, faults' \in Nat, input' \in Nat, secretThere' \in BOOLEAN,
               user' \in [Resources -> UserRecord],
               replica' \in [Resources -> {"absent", "present", "broken"}]
        PROVE  TypeOK'
    BY <1>5 DEF TypeOK, WorkerTypes
  <1>6. CASE RotatePassword
    <2>1. /\ UNCHANGED <<work, mr, spec, edits, faults, flavour, user, replica, switched, output,
                         secretThere, pw, noted>>
          /\ HasPasswordRef /\ input' = input + 1
      BY <1>6 DEF RotatePassword
    <2> QED BY <1>0, <1>5, <2>1 DEF TypeOK
  <1>7. CASE RemoveOrRestoreSecret
    <2>1. /\ UNCHANGED <<work, mr, spec, faults, flavour, user, replica, switched, output,
                         input, pw, noted>>
          /\ edits' = edits + 1 /\ secretThere' = ~secretThere
      BY <1>7 DEF RemoveOrRestoreSecret
    <2> QED BY <1>0, <1>5, <2>1 DEF TypeOK
  <1>8. ASSUME NEW r \in Resources, AdminDropsUser(r)
        PROVE  /\ TypeOK' /\ UNCHANGED <<work, mr, output, pw, input>>
               /\ \A q \in Resources :
                     user'[q] = user[q] \/ user'[q].origin = "absent"
    <2>1. /\ UNCHANGED <<work, mr, spec, edits, flavour, switched, output, input,
                         secretThere, pw, noted>>
          /\ faults' \in Nat /\ user' = [user EXCEPT ![r] = NoUser]
      BY <1>0, <1>8 DEF AdminDropsUser, UseCredit
    <2>2. /\ user' \in [Resources -> UserRecord] /\ user'[r].origin = "absent"
          /\ \A q \in Resources \ {r} : user'[q] = user[q]
      BY <2>1, NobodyThere, UserWritten
    <2>3. replica' \in [Resources -> {"absent", "present", "broken"}]
      BY <1>8 DEF AdminDropsUser, TypeOK
    <2> QED BY <1>0, <1>5, <2>1, <2>2, <2>3 DEF TypeOK
  <1>9. ASSUME NEW r \in Resources, AdminAltersOptions(r)
        PROVE  /\ TypeOK' /\ UNCHANGED <<work, mr, output, pw, input>>
               /\ \A q \in Resources :
                     /\ user'[q].origin = user[q].origin /\ user'[q].pw = user[q].pw
                     /\ user'[q].jwt = user[q].jwt
    <2>1. /\ UNCHANGED <<work, mr, spec, edits, flavour, replica, switched, output, input,
                         secretThere, pw, noted>>
          /\ faults' \in Nat
      BY <1>0, <1>9 DEF AdminAltersOptions, UseCredit
    <2>2. PICK o \in Options, l \in Limits : user' = [user EXCEPT ![r].options[o] = l]
      BY <1>9 DEF AdminAltersOptions
    <2> DEFINE options == [user[r].options EXCEPT ![o] = l]
               u == [user[r] EXCEPT !.options = options]
    <2>3. user[r] \in UserRecord /\ options \in [Options -> Limits]
      BY <1>0 DEF UserRecord
    <2>4. /\ u \in UserRecord /\ u.origin = user[r].origin /\ u.pw = user[r].pw
          /\ u.jwt = user[r].jwt
      BY <2>3 DEF UserRecord
    <2>5. user' = [user EXCEPT ![r] = u]
      BY <1>0, <2>2
    <2>6. /\ user' \in [Resources -> UserRecord] /\ user'[r] = u
          /\ \A q \in Resources \ {r} : user'[q] = user[q]
      BY <2>4, <2>5, UserWritten
    <2> QED BY <1>0, <1>5, <2>1, <2>4, <2>6 DEF TypeOK
  <1> QED BY <1>6, <1>7, <1>8, <1>9 DEF Administers, RotatePassword, RemoveOrRestoreSecret

LEMMA TypesStep == TypeOK /\ [Next]_vars => TypeOK'
  <1>1. ASSUME TypeOK, UNCHANGED vars
        PROVE  TypeOK'
    BY <1>1 DEF vars, workerVars, apiVars, boundVars, serverVars, memoryVars, secretVars,
                TypeOK, WorkerTypes
  <1> QED BY <1>1, NextCases, CallTyped, OtherEffect, AdministersEffect

LEMMA InitTyped == Init => TypeOK
  <1> SUFFICES ASSUME Init PROVE TypeOK
    OBVIOUS
  <1>1. WorkerTypes(Phases)
    BY InitTypes, PhasesOfWorkers DEF Init
  <1>2. /\ user \in [Resources -> UserRecord]
        /\ replica \in [Resources -> {"absent", "present", "broken"}]
    <2>1. PICK there \in [Resources -> {"absent", "other"}], p \in Generated :
             /\ user = [r \in Resources |-> [NoUser EXCEPT !.origin = there[r],
                            !.pw = IF there[r] = "other" THEN p ELSE Empty]]
             /\ replica = [r \in Resources |->
                               IF there[r] = "other" /\ Logged(spec[r])
                               THEN "present" ELSE "absent"]
      BY DEF Init
    <2>2. ASSUME NEW r \in Resources
          PROVE  [NoUser EXCEPT !.origin = there[r],
                     !.pw = IF there[r] = "other" THEN p ELSE Empty] \in UserRecord
      <3>1. (IF there[r] = "other" THEN p ELSE Empty) \in Password
        BY DEF Password, Empty
      <3> QED BY <3>1, NobodyThere DEF UserRecord
    <2> QED BY <2>1, <2>2
  <1>3. /\ Empty \in Password /\ 1 \in Nat /\ Empty \in Nat
        /\ Nothing \in [Options -> Limits \cup {Unset}]
    BY DEF Empty, Password, Nothing
  <1> QED BY <1>1, <1>2, <1>3 DEF Init, TypeOK

(* The user, its replica, the passwords and what is noted of the options   *)
(* are what the types say, whichever of the two servers it is and whatever *)
(* options it knows.                                                       *)
THEOREM UserTypesCorrect == Spec => []TypeOK
  BY InitTyped, TypesStep, PTL DEF Spec

(***************************************************************************)
(* The life cycle.                                                         *)
(***************************************************************************)

(* Create runs under the finalizer, and so does a resource whose user the  *)
(* provider has made; nobody but its own worker brings back a user that    *)
(* Observe has seen to be gone.                                            *)
Guarded(r) ==
    /\ work[r].pc \in {"mark"} \cup CreatePhases => mr[r].finalizer
    /\ At(r, "release") => ~Exists(r)
Claims == \A r \in Resources : Guarded(r)
LifecycleStep(r) ==
    Lifecycle(r)!ANext \/ UNCHANGED <<mr[r].finalizer, user[r].origin>>

(* What is not a creation: the finalizer comes or stays, or goes after the *)
(* user; the user stays or goes.                                           *)
LEMMA Steady ==
    ASSUME TypeOK, TypeOK', NEW r \in Resources,
           \/ user'[r].origin = user[r].origin
           \/ user'[r].origin = "absent" /\ mr'[r].finalizer = mr[r].finalizer,
           mr[r].finalizer => mr'[r].finalizer \/ ~Exists(r)
    PROVE  LifecycleStep(r)
  <1>0. mr[r].finalizer \in BOOLEAN /\ mr'[r].finalizer \in BOOLEAN
    BY DEF TypeOK, WorkerTypes, MR
  <1>1. CASE user'[r].origin # user[r].origin
    BY <1>1 DEF LifecycleStep, Lifecycle!ANext, Lifecycle!Vanish
  <1>2. CASE user'[r].origin = user[r].origin /\ mr[r].finalizer /\ ~mr'[r].finalizer
    BY <1>0, <1>2 DEF LifecycleStep, Lifecycle!ANext, Lifecycle!Release, Exists
  <1>3. CASE user'[r].origin = user[r].origin /\ ~mr[r].finalizer /\ mr'[r].finalizer
    BY <1>0, <1>3 DEF LifecycleStep, Lifecycle!ANext, Lifecycle!Claim
  <1> QED BY <1>0, <1>1, <1>2, <1>3 DEF LifecycleStep

LEMMA ClaimsStep ==
    ASSUME TypeOK, Claims, Next, NEW q \in Resources
    PROVE  Guarded(q)' /\ LifecycleStep(q)
  <1>0. TypeOK' /\ Guarded(q)
    BY TypesStep DEF Claims
  <1>1. ASSUME NEW r \in Resources, Call(r), r # q
        PROVE  Guarded(q)' /\ LifecycleStep(q)
    <2>1. mr' = mr /\ work'[q] = work[q] /\ user'[q] = user[q]
      BY <1>1, CallEffect, CallData DEF Elsewhere
    <2> QED BY <1>0, <2>1 DEF Guarded, LifecycleStep, At, Exists
  <1>2. ASSUME Call(q)
        PROVE  Guarded(q)' /\ LifecycleStep(q)
    <2>1. /\ mr' = mr /\ work'[q].pc \notin {"mark", "create"}
          /\ At(q, "release")' => At(q, "observe") /\ ~Exists(q)
      BY <1>2, CallEffect
    <2>2. /\ \/ user'[q].origin = user[q].origin
             \/ user'[q].origin = "absent"
             \/ user'[q].origin = "provider" /\ ~Exists(q) /\ At(q, "createUser")
      BY <1>2, CallData
    <2>3. Guarded(q)'
      <3>1. work'[q].pc = "createUser" => At(q, "create")
        <4>1. work \in Workers(Phases)
          BY TypesOfParts DEF TypeOK
        <4>2. ASSUME work'[q].pc = "createUser", ~At(q, "create")
              PROVE  FALSE
          <5>1. \/ Ends(q)
                \/ \E phase \in {"createFailed", "created", "publish", "alterOptions",
                                 "readPassword", "alterPassword"} : Goes(q, phase)
                \/ Observe(q)
            BY <1>2, <4>2 DEF Call, CreateSteps, ReadPassword, CreateUser, Unanswered,
               UpdateSteps, Update, AlterOptions, UpdatePassword, AlterPassword, Delete,
               Publish, Settled
          <5>2. ~Ends(q)
            BY <4>1, <4>2, EndsOne, PhasesOfWorkers
          <5>3. \A phase \in {"createFailed", "created", "publish", "alterOptions",
                              "readPassword", "alterPassword"} : ~Goes(q, phase)
            <6> SUFFICES ASSUME NEW phase \in {"createFailed", "created", "publish",
                             "alterOptions", "readPassword", "alterPassword"},
                             Goes(q, phase)
                         PROVE  FALSE
              OBVIOUS
            <6>1. phase \in Phases
              BY PhasesOfWorkers
            <6> QED BY <4>1, <4>2, <6>1, GoesOne
          <5>4. ASSUME Observe(q) PROVE FALSE
            <6>1. \/ Ends(q)
                  \/ \E upToDate \in BOOLEAN : Observed(q, Exists(q), upToDate)
              BY <5>4 DEF Observe, Answered
            <6>2. Exists(q) \in BOOLEAN
              BY DEF Exists
            <6>3. ASSUME NEW upToDate \in BOOLEAN, Observed(q, Exists(q), upToDate)
                  PROVE  work'[q].pc \in {"delete", "release", "claim"}
              BY <4>1, <6>2, <6>3, ObservesOne, PhasesOfWorkers
            <6> QED BY <4>2, <5>2, <6>1, <6>3
          <5> QED BY <5>1, <5>2, <5>3, <5>4
        <4> QED BY <4>2
      <3>2. work'[q].pc \in CreatePhases => mr[q].finalizer
        BY <1>0, <2>1, <3>1 DEF Guarded, CreatePhases, At
      <3>3. At(q, "release")' => ~Exists(q)'
        BY <2>1, <2>2 DEF Exists, At
      <3> QED BY <2>1, <3>2, <3>3 DEF Guarded, At
    <2>4. LifecycleStep(q)
      <3>1. CASE user'[q].origin = "provider" /\ ~Exists(q) /\ At(q, "createUser")
        <4>1. mr[q].finalizer
          BY <1>0, <3>1 DEF Guarded, CreatePhases, At
        <4> QED BY <2>1, <3>1, <4>1
                DEF LifecycleStep, Lifecycle!ANext, Lifecycle!Create, Exists
      <3> QED BY <1>0, <2>1, <2>2, <3>1, Steady
    <2> QED BY <2>3, <2>4
  <1>3. ASSUME \/ \E r \in Resources : Steps(r) \/ Orders(r)
               \/ Breaks
        PROVE  Guarded(q)' /\ LifecycleStep(q)
    <2>1. user' = user /\ Fate(q)
      BY <1>3, OtherEffect
    <2>2. Guarded(q)'
      BY <1>0, <2>1 DEF Guarded, Fate, CreatePhases, At, Exists
    <2>3. mr[q].finalizer => mr'[q].finalizer \/ ~Exists(q)
      BY <1>0, <2>1 DEF Guarded, Fate, At
    <2> QED BY <1>0, <2>1, <2>2, <2>3, Steady
  <1>4. CASE Administers
    <2>1. work' = work /\ mr' = mr
          /\ (user'[q].origin = user[q].origin \/ user'[q].origin = "absent")
      BY <1>4, AdministersEffect
    <2>2. Guarded(q)'
      BY <1>0, <2>1 DEF Guarded, At, Exists
    <2> QED BY <1>0, <2>1, <2>2, Steady
  <1> QED BY <1>1, <1>2, <1>3, <1>4, NextCases

(* Of either server, for any number of resources, options and faults, the  *)
(* user of a resource goes through the abstract life cycle                 *)
(* ({mysql,singlestore}/user, Observe, Create and Delete).                 *)
THEOREM UserImplementsLifecycle == Spec => UserLifecycle
  <1>1. Init => Claims /\ \A r \in Resources : Lifecycle(r)!AInit
    <2> SUFFICES ASSUME Init, NEW r \in Resources
                 PROVE  Guarded(r) /\ Lifecycle(r)!AInit
      BY DEF Claims
    <2>1. work[r].pc = "idle" /\ mr[r].finalizer = FALSE
      BY InitTypes, PhasesOfWorkers DEF Init
    <2>2. user[r].origin \in {"absent", "other"}
      <3>1. PICK there \in [Resources -> {"absent", "other"}], p \in Generated :
               user = [q \in Resources |-> [NoUser EXCEPT !.origin = there[q],
                          !.pw = IF there[q] = "other" THEN p ELSE Empty]]
        BY DEF Init
      <3>2. [NoUser EXCEPT !.origin = there[r],
                 !.pw = IF there[r] = "other" THEN p ELSE Empty].origin = there[r]
        BY DEF NoUser
      <3> QED BY <3>1, <3>2
    <2> QED BY <2>1, <2>2 DEF Guarded, At, CreatePhases, Lifecycle!AInit
  <1>2. TypeOK /\ Claims /\ [Next]_vars
          => /\ Claims'
             /\ [\A r \in Resources : Lifecycle(r)!ANext
                   \/ UNCHANGED <<mr[r].finalizer, user[r].origin>>]_<<mr, user>>
    <2>1. ASSUME TypeOK, Claims, UNCHANGED vars
          PROVE  Claims' /\ UNCHANGED <<mr, user>>
      BY <2>1 DEF vars, workerVars, apiVars, serverVars, Claims, Guarded, At, Exists
    <2>2. ASSUME TypeOK, Claims, Next
          PROVE  Claims' /\ \A r \in Resources : LifecycleStep(r)
      BY <2>2, ClaimsStep DEF Claims
    <2> QED BY <2>1, <2>2 DEF LifecycleStep
  <1> QED BY <1>1, <1>2, UserTypesCorrect, PTL DEF Spec, UserLifecycle

(***************************************************************************)
(* Passwords.                                                              *)
(***************************************************************************)

(* With a reference no password is newer than the secret.  The password a  *)
(* worker carries is at least as new as the published one, and the one it  *)
(* has just set is the user's; any other user has the published password,  *)
(* or the published password is behind the secret.                         *)
Carriers == {"createUser", "created", "alterPassword", "publish"}
Behind(r) ==
    Exists(r) /\ ~user[r].jwt => user[r].pw = output[r] \/ output[r] < input
InOrder(r) ==
    HasPasswordRef =>
        /\ output[r] \in Nat /\ output[r] <= input
        /\ pw[r] \in Nat /\ pw[r] <= input
        /\ pw[r] # Empty => work[r].pc \in Carriers /\ output[r] <= pw[r]
        /\ At(r, "createUser") /\ ~JWT(work[r].spec) => pw[r] # Empty
        /\ At(r, "alterPassword") => output[r] < pw[r]
        /\ Behind(r)
        /\ At(r, "created") \/ At(r, "publish") =>
              (pw[r] # Empty /\ Exists(r) /\ ~user[r].jwt => user[r].pw = pw[r])
Ordered == \A r \in Resources : InOrder(r)

(* A worker that carries no password, or has dropped it.                   *)
LEMMA NothingCarried ==
    ASSUME TypeOK, NEW r \in Resources, InOrder(r),
           input' = input, output'[r] = output[r], pw'[r] = Empty,
           work'[r].pc \notin {"createUser", "alterPassword"},
           HasPasswordRef => Behind(r)'
    PROVE  InOrder(r)'
  <1>1. input \in Nat /\ (HasPasswordRef' <=> HasPasswordRef)
    BY DEF TypeOK, HasPasswordRef
  <1>2. Empty \in Nat /\ Empty <= input
    BY <1>1 DEF Empty
  <1> QED BY <1>1, <1>2 DEF InOrder, At

(* The user of a resource keeps its password, or goes.                     *)
LEMMA BehindKept ==
    ASSUME NEW r \in Resources, HasPasswordRef => Behind(r),
           input' = input, output'[r] = output[r],
           \/ /\ user'[r].origin = user[r].origin /\ user'[r].pw = user[r].pw
              /\ user'[r].jwt = user[r].jwt
           \/ user'[r].origin = "absent"
    PROVE  HasPasswordRef => Behind(r)'
  BY DEF Behind, Exists

LEMMA OrderOfCalls ==
    ASSUME TypeOK, NEW q \in Resources, InOrder(q), Call(q)
    PROVE  InOrder(q)'
  <1> USE DEF secretVars, memoryVars, serverVars
  <1>0. /\ work \in Workers(Phases) /\ pw \in [Resources -> Password]
        /\ output \in [Resources -> Password] /\ input \in Nat /\ Empty \in Nat
    BY TypesOfParts DEF TypeOK, Empty
  <1>1. /\ flavour' = flavour /\ input' = input
        /\ work'[q].pc # "idle" => work'[q].spec = work[q].spec
    BY CallEffect
  <1>2. HasPasswordRef => Behind(q)
    BY DEF InOrder
  <1>g. ASSUME NEW phase \in {"createUser", "created", "createFailed", "publish",
                              "alterOptions", "readPassword", "alterPassword"},
               Goes(q, phase)
        PROVE  work'[q].pc = phase
    BY <1>0, <1>g, GoesOne, PhasesOfWorkers
  <1>e. ASSUME Ends(q) PROVE work'[q].pc = "idle"
    BY <1>0, <1>e, EndsOne, PhasesOfWorkers
  <1>3. CASE Observe(q)
    <2>1. work'[q].pc \notin {"createUser", "alterPassword"}
      <3>1. \/ Ends(q)
            \/ \E upToDate \in BOOLEAN : Observed(q, Exists(q), upToDate)
        BY <1>3 DEF Observe, Answered
      <3>2. Exists(q) \in BOOLEAN
        BY DEF Exists
      <3>3. ASSUME NEW upToDate \in BOOLEAN, Observed(q, Exists(q), upToDate)
            PROVE  work'[q].pc \in {"delete", "release", "claim"}
        BY <1>0, <3>2, <3>3, ObservesOne, PhasesOfWorkers
      <3> QED BY <1>e, <3>1, <3>3
    <2>2. At(q, "observe") /\ output' = output /\ pw' = pw /\ user' = user
      BY <1>3 DEF Observe, Answered
    <2>3. HasPasswordRef => pw[q] = Empty
      BY <2>2 DEF InOrder, At, Carriers
    <2>4. HasPasswordRef => Behind(q)'
      BY <1>1, <1>2, <2>2, BehindKept
    <2> QED BY <1>1, <2>1, <2>2, <2>3, <2>4, NothingCarried DEF InOrder, HasPasswordRef
  <1>4. CASE ReadPassword(q)
    <2>1. At(q, "create") /\ output' = output /\ user' = user
      BY <1>4 DEF ReadPassword
    <2>2. HasPasswordRef => pw[q] = Empty
      BY <2>1 DEF InOrder, At, Carriers
    <2>3. HasPasswordRef => Behind(q)'
      BY <1>1, <1>2, <2>1, BehindKept
    <2>4. CASE Goes(q, "createFailed") /\ pw' = pw
      <3>1. work'[q].pc = "createFailed"
        BY <1>g, <2>4
      <3> QED BY <1>1, <2>1, <2>2, <2>3, <2>4, <3>1, NothingCarried
              DEF InOrder, HasPasswordRef
    <2>5. CASE /\ Goes(q, "createUser")
               /\ \E p \in IF JWT(work[q].spec) THEN {Empty}
                           ELSE IF HasPasswordRef THEN {input} ELSE Generated :
                     pw' = [pw EXCEPT ![q] = p]
      <3>1. work'[q].pc = "createUser" /\ work'[q].spec = work[q].spec
        BY <1>g, <1>1, <2>5
      <3>2. HasPasswordRef => pw'[q] = IF JWT(work[q].spec) THEN Empty ELSE input
        BY <1>0, <2>5
      <3>3. JWT(work[q].spec)' <=> JWT(work[q].spec)
        BY <1>1, <3>1 DEF JWT
      <3> QED BY <1>0, <1>1, <2>1, <2>3, <3>1, <3>2, <3>3
              DEF InOrder, HasPasswordRef, At, Carriers
    <2> QED BY <1>4, <2>4, <2>5 DEF ReadPassword
  <1>5. CASE CreateUser(q)
    <2>1. At(q, "createUser") /\ output' = output
      BY <1>5 DEF CreateUser
    <2>2. CASE Exists(q)
      <3>1. pw'[q] = Empty /\ work'[q].pc = "createFailed" /\ user' = user
        BY <1>0, <1>5, <1>g, <2>2 DEF CreateUser
      <3>2. HasPasswordRef => Behind(q)'
        BY <1>1, <1>2, <2>1, <3>1, BehindKept
      <3> QED BY <1>1, <2>1, <3>1, <3>2, NothingCarried
    <2>3. CASE ~Exists(q)
      <3>1. pw' = pw /\ work'[q].pc = "created" /\ Created(q)
        BY <1>5, <1>g, <2>3 DEF CreateUser
      <3>2. user'[q].pw = pw[q] /\ user'[q].jwt = JWT(work[q].spec)
        BY <3>1, CreatedEffect
      <3> QED BY <1>0, <1>1, <2>1, <3>1, <3>2
              DEF InOrder, Behind, HasPasswordRef, At, Carriers
    <2> QED BY <2>2, <2>3
  <1>6. CASE Publish(q)
    <2>1. /\ At(q, "publish") /\ pw'[q] = Empty /\ user' = user
          /\ output'[q] = IF pw[q] # Empty THEN pw[q] ELSE output[q]
      BY <1>0, <1>6 DEF Publish, Settled, At
    <2>2. work'[q].pc = "idle"
      BY <1>6, <1>e DEF Publish, Settled
    <2> QED BY <1>0, <1>1, <2>1, <2>2 DEF InOrder, Behind, Exists, HasPasswordRef, At, Empty
  <1>7. CASE Update(q) \/ AlterOptions(q) \/ Delete(q)
    <2>1. /\ output' = output /\ pw' = pw
          /\ work[q].pc \in {"update", "alterOptions", "delete"}
      BY <1>7 DEF Update, AlterOptions, Delete, At
    <2>2. HasPasswordRef => pw[q] = Empty
      BY <2>1 DEF InOrder, Carriers
    <2>3. work'[q].pc \in {"idle", "alterOptions", "publish", "readPassword"}
      BY <1>7, <1>g, <1>e DEF Update, AlterOptions, Delete
    <2>4. \/ /\ user'[q].origin = user[q].origin /\ user'[q].pw = user[q].pw
             /\ user'[q].jwt = user[q].jwt
          \/ user'[q].origin = "absent"
      <3>1. ~At(q, "createUser") /\ ~At(q, "alterPassword")
        BY <2>1 DEF At
      <3>2. user'[q].origin = "absent" \/ user'[q].origin = user[q].origin
        BY <3>1, CallData
      <3> QED BY <3>1, <3>2, CallData
    <2>5. HasPasswordRef => Behind(q)'
      BY <1>1, <1>2, <2>1, <2>4, BehindKept
    <2> QED BY <1>1, <2>1, <2>2, <2>3, <2>5, NothingCarried DEF InOrder, HasPasswordRef
  <1>8. CASE UpdatePassword(q)
    <2>1. At(q, "readPassword") /\ output' = output /\ user' = user
      BY <1>8 DEF UpdatePassword
    <2>2. HasPasswordRef => pw[q] = Empty
      BY <2>1 DEF InOrder, At, Carriers
    <2>3. HasPasswordRef => Behind(q)'
      BY <1>1, <1>2, <2>1, BehindKept
    <2>4. CASE pw' = pw /\ (Ends(q) \/ Goes(q, "publish"))
      <3>1. work'[q].pc \in {"idle", "publish"}
        BY <1>e, <1>g, <2>4
      <3> QED BY <1>1, <2>1, <2>2, <2>3, <2>4, <3>1, NothingCarried
              DEF InOrder, HasPasswordRef
    <2>5. CASE /\ PasswordChanged(q) /\ Goes(q, "alterPassword")
               /\ pw' = [pw EXCEPT ![q] = input]
      <3>1. work'[q].pc = "alterPassword" /\ pw'[q] = input
        BY <1>0, <1>g, <2>5
      <3> QED BY <1>0, <1>1, <2>1, <2>3, <2>5, <3>1
              DEF InOrder, HasPasswordRef, PasswordChanged, At, Carriers
    <2> QED BY <1>8, <2>4, <2>5 DEF UpdatePassword
  <1>9. CASE AlterPassword(q)
    <2>1. At(q, "alterPassword") /\ output' = output
      BY <1>9 DEF AlterPassword
    <2>2. CASE ~Exists(q)
      <3>1. pw'[q] = Empty /\ work'[q].pc = "idle" /\ user' = user
        BY <1>0, <1>9, <1>e, <2>2 DEF AlterPassword
      <3>2. HasPasswordRef => Behind(q)'
        BY <1>1, <1>2, <2>1, <3>1, BehindKept
      <3> QED BY <1>1, <2>1, <3>1, <3>2, NothingCarried
    <2>3. CASE Exists(q)
      <3>1. pw' = pw /\ work'[q].pc = "publish" /\ PasswordSet(q)
        BY <1>9, <1>g, <2>3 DEF AlterPassword
      <3>2. user'[q].pw = pw[q]
        BY <3>1, PasswordSetEffect
      <3> QED BY <1>0, <1>1, <2>1, <3>1, <3>2
              DEF InOrder, Behind, HasPasswordRef, At, Carriers
    <2> QED BY <2>2, <2>3
  <1>10. CASE Unanswered(q)
    <2>1. pw'[q] = Empty /\ output' = output /\ work'[q].pc \in {"createFailed", "idle"}
      BY <1>0, <1>10, <1>e, <1>g DEF Unanswered
    <2>2. CASE At(q, "createUser") /\ Created(q)
      <3>1. user'[q].pw = pw[q] /\ user'[q].jwt = JWT(work[q].spec)
        BY <2>2, CreatedEffect
      <3>2. HasPasswordRef => Behind(q)'
        BY <1>0, <1>1, <2>1, <2>2, <3>1 DEF InOrder, Behind
      <3> QED BY <1>1, <2>1, <3>2, NothingCarried
    <2>3. CASE At(q, "alterPassword") /\ PasswordSet(q)
      <3>1. user'[q].pw = pw[q]
        BY <2>3, PasswordSetEffect
      <3>2. HasPasswordRef => Behind(q)'
        BY <1>0, <1>1, <2>1, <2>3, <3>1 DEF InOrder, Behind
      <3> QED BY <1>1, <2>1, <3>2, NothingCarried
    <2> QED BY <1>10, <2>2, <2>3 DEF Unanswered
  <1> QED BY <1>3, <1>4, <1>5, <1>6, <1>7, <1>8, <1>9, <1>10
          DEF Call, CreateSteps, UpdateSteps

LEMMA OrderedStep ==
    ASSUME TypeOK, Ordered, Next, NEW q \in Resources
    PROVE  InOrder(q)'
  <1>0. InOrder(q) /\ input \in Nat /\ (HasPasswordRef => Behind(q))
    BY DEF Ordered, InOrder, TypeOK
  <1>1. ASSUME NEW r \in Resources, Call(r), r # q
        PROVE  InOrder(q)'
    <2>1. /\ work'[q] = work[q] /\ user'[q] = user[q] /\ input' = input
          /\ flavour' = flavour
      BY <1>1, CallEffect, CallData DEF Elsewhere
    <2>2. output'[q] = output[q] /\ pw'[q] = pw[q]
      BY <1>1 DEF Call, Observe, Answered, CreateSteps, CreateUser, Publish, Delete,
         UpdateSteps, Update, AlterOptions, AlterPassword, Unanswered, ReadPassword,
         UpdatePassword, secretVars, memoryVars, TypeOK
    <2> QED BY <1>0, <2>1, <2>2 DEF InOrder, Behind, Exists, HasPasswordRef, At, JWT
  <1>2. ASSUME \/ \E r \in Resources : Steps(r) \/ Orders(r)
               \/ Breaks
        PROVE  InOrder(q)'
    <2>1. user' = user /\ input' = input /\ output' = output /\ Fate(q)
      BY <1>2, OtherEffect
    <2>2. flavour' = flavour
      BY <1>2 DEF Steps, Orders, Breaks, serverVars
    <2>3. HasPasswordRef => Behind(q)'
      BY <1>0, <2>1, BehindKept
    <2>4. CASE pw'[q] = Empty /\ work'[q].pc \notin {"createUser", "alterPassword"}
      BY <1>0, <2>1, <2>3, <2>4, NothingCarried
    <2>5. CASE /\ work'[q].pc = work[q].pc /\ work'[q].spec = work[q].spec
               /\ pw'[q] = pw[q]
      BY <1>0, <2>1, <2>2, <2>3, <2>5 DEF InOrder, Exists, HasPasswordRef, At, JWT
    <2>6. CASE At(q, "created") /\ At(q, "publish")' /\ pw'[q] = pw[q]
      BY <1>0, <2>1, <2>3, <2>6 DEF InOrder, Exists, HasPasswordRef, At, Carriers
    <2>7. CASE /\ work[q].pc \notin Carriers /\ pw'[q] = pw[q]
               /\ work'[q].pc \notin {"createUser", "alterPassword"}
      <3>1. HasPasswordRef => pw'[q] = Empty
        BY <1>0, <2>7 DEF InOrder
      <3> QED BY <1>0, <2>1, <2>3, <2>7, <3>1, NothingCarried DEF InOrder, HasPasswordRef
    <2> QED BY <2>1, <2>4, <2>5, <2>6, <2>7 DEF Fate, Carriers
  <1>3. CASE Administers
    <2>1. /\ work' = work /\ output' = output /\ pw' = pw
          /\ input' = input \/ (HasPasswordRef /\ input' = input + 1)
          /\ \/ /\ user'[q].origin = user[q].origin /\ user'[q].pw = user[q].pw
                /\ user'[q].jwt = user[q].jwt
             \/ user'[q].origin = "absent"
      BY <1>3, AdministersEffect
    <2>2. flavour' = flavour
      BY <1>3 DEF Administers, RotatePassword, RemoveOrRestoreSecret, AdminDropsUser,
         AdminAltersOptions, serverVars
    <2>3. HasPasswordRef' => HasPasswordRef
      BY <2>1 DEF HasPasswordRef
    <2>4. HasPasswordRef' => Behind(q)'
      <3>1. CASE input' = input
        BY <1>0, <2>1, <2>3, <3>1, BehindKept
      <3>2. CASE HasPasswordRef /\ input' = input + 1
        BY <1>0, <2>1, <3>2 DEF InOrder, Behind
      <3> QED BY <2>1, <3>1, <3>2
    <2>5. output[q] \in Nat /\ pw[q] \in Nat => /\ output[q] <= input => output[q] <= input'
                                                /\ pw[q] <= input => pw[q] <= input'
      BY <1>0, <2>1
    <2> QED BY <1>0, <2>1, <2>2, <2>3, <2>4, <2>5 DEF InOrder, Exists, At, JWT
  <1> QED BY <1>1, <1>2, <1>3, NextCases, OrderOfCalls, <1>0

(* However the password is rotated, and wherever a Create or an Update     *)
(* breaks off, a user that does not have the published password is one     *)
(* that Observe finds out of date (user, getPassword and Observe).         *)
THEOREM StalePasswordsAreNoticed == Spec => []StalePasswordIsNoticed
  <1>1. Init => Ordered
    <2> SUFFICES ASSUME Init, NEW r \in Resources PROVE InOrder(r)
      BY DEF Ordered
    <2>1. /\ work[r].pc = "idle" /\ input \in {0, 1} /\ output[r] = 0 /\ pw[r] = 0
      BY InitTypes, PhasesOfWorkers DEF Init, Empty
    <2> QED BY <2>1 DEF InOrder, Behind, HasPasswordRef, At, Empty
  <1>2. TypeOK /\ Ordered /\ [Next]_vars => Ordered'
    <2>1. ASSUME TypeOK, Ordered, UNCHANGED vars
          PROVE  Ordered'
      BY <2>1 DEF vars, workerVars, serverVars, secretVars, memoryVars, Ordered, InOrder,
         Behind, Exists, HasPasswordRef, At, JWT
    <2> QED BY <2>1, OrderedStep DEF Ordered
  <1>3. Ordered /\ TypeOK => StalePasswordIsNoticed
    <2> SUFFICES ASSUME Ordered, TypeOK, NEW r \in Resources, HasPasswordRef, Exists(r),
                        ~user[r].jwt, user[r].pw # output[r]
                 PROVE  PasswordChanged(r)
      BY DEF StalePasswordIsNoticed
    <2>1. output[r] \in Nat /\ output[r] < input /\ input \in Nat
      BY DEF Ordered, InOrder, Behind, TypeOK
    <2> QED BY <2>1 DEF PasswordChanged
  <1> QED BY <1>1, <1>2, <1>3, UserTypesCorrect, PTL DEF Spec

(***************************************************************************)
(* The replica.                                                            *)
(***************************************************************************)

(* Until somebody changes the binlog field, a worker's copy of it is the   *)
(* one in the API server, so that a user's statements are all logged or    *)
(* none is, and the replica has the user exactly when the server has one   *)
(* that is logged.                                                         *)
Following(r) == IF Exists(r) /\ Logged(spec[r]) THEN "present" ELSE "absent"
InStep(r) ==
    ~switched => /\ ~At(r, "idle") => work[r].spec.binlog = spec[r].binlog
                 /\ replica[r] = Following(r)
AllInStep == \A r \in Resources : InStep(r)

(* What a logged statement does to a replica that has not stopped, and     *)
(* that the replica of another user does not hear of it.                   *)
LEMMA ReplicatedEffect ==
    ASSUME TypeOK, NEW r \in Resources, NEW s, NEW statement, Replicated(r, s, statement)
    PROVE  /\ \A q \in Resources \ {r} : replica'[q] = replica[q]
           /\ ~Logged(s) => replica'[r] = replica[r]
           /\ Logged(s) /\ replica[r] # "broken" =>
                 /\ statement = "drop" => replica'[r] = "absent"
                 /\ statement = "create" /\ replica[r] = "absent" =>
                       replica'[r] = "present"
                 /\ statement = "alter" /\ replica[r] = "present" =>
                       replica'[r] = "present"
  BY DEF Replicated, TypeOK

(* The statement that a call sends, if it sends any, and what it makes of  *)
(* the user.                                                               *)
LEMMA CallStatement ==
    ASSUME TypeOK, NEW r \in Resources, Call(r)
    PROVE  /\ ~At(r, "idle")
           /\ \/ user'[r].origin = user[r].origin /\ replica' = replica
              \/ /\ ~Exists(r) /\ user'[r].origin = "provider"
                 /\ Replicated(r, work[r].spec, "create")
              \/ /\ Exists(r) /\ user'[r].origin = user[r].origin
                 /\ Replicated(r, work[r].spec, "alter")
              \/ /\ user'[r].origin = "absent"
                 /\ Replicated(r, work[r].spec, "drop")
  <1> USE DEF serverVars
  <1>1. CASE Observe(r) \/ ReadPassword(r) \/ Publish(r) \/ Update(r) \/ UpdatePassword(r)
    BY <1>1 DEF Observe, Answered, ReadPassword, Publish, Update, UpdatePassword, At
  <1>2. CASE CreateUser(r)
    <2>1. CASE Exists(r)
      BY <1>2, <2>1 DEF CreateUser, At
    <2>2. CASE ~Exists(r)
      <3>1. At(r, "createUser") /\ Created(r)
        BY <1>2, <2>2 DEF CreateUser
      <3> QED BY <2>2, <3>1, CreatedEffect DEF Created, At
    <2> QED BY <2>1, <2>2
  <1>3. CASE AlterOptions(r)
    <2>1. CASE ~Exists(r)
      BY <1>3, <2>1 DEF AlterOptions, At
    <2>2. CASE Exists(r)
      <3>1. At(r, "alterOptions") /\ Replicated(r, work[r].spec, "alter")
        BY <1>3, <2>2 DEF AlterOptions
      <3>2. user'[r].origin \in {"absent", user[r].origin}
        BY <3>1, CallData DEF At
      <3>3. /\ user \in [Resources -> UserRecord]
            /\ user' = [user EXCEPT ![r].options =
                           WithOptions(@, work[r].spec.options)]
        BY <1>3, <2>2 DEF AlterOptions, TypeOK
      <3>4. user'[r].origin = user[r].origin
        BY <3>3 DEF UserRecord
      <3> QED BY <2>2, <3>1, <3>4 DEF At
    <2> QED BY <2>1, <2>2
  <1>4. CASE AlterPassword(r)
    <2>1. CASE ~Exists(r)
      BY <1>4, <2>1 DEF AlterPassword, At
    <2>2. CASE Exists(r)
      <3>1. At(r, "alterPassword") /\ PasswordSet(r)
        BY <1>4, <2>2 DEF AlterPassword
      <3> QED BY <2>2, <3>1, PasswordSetEffect DEF PasswordSet, At
    <2> QED BY <2>1, <2>2
  <1>5. CASE Unanswered(r)
    <2>1. CASE At(r, "createUser") /\ Created(r)
      <3>1. ~Exists(r)
        BY <1>5, <2>1 DEF Unanswered, At
      <3> QED BY <2>1, <3>1, CreatedEffect DEF Created, At
    <2>2. CASE At(r, "alterPassword") /\ PasswordSet(r)
      <3>1. Exists(r)
        BY <1>5, <2>2 DEF Unanswered, At
      <3> QED BY <2>2, <3>1, PasswordSetEffect DEF PasswordSet, At
    <2> QED BY <1>5, <2>1, <2>2 DEF Unanswered
  <1>6. CASE Delete(r)
    <2>1. /\ At(r, "delete") /\ user' = [user EXCEPT ![r] = NoUser]
          /\ Replicated(r, work[r].spec, "drop")
      BY <1>6 DEF Delete
    <2> QED BY <2>1, NobodyThere, UserWritten DEF At
  <1> QED BY <1>1, <1>2, <1>3, <1>4, <1>5, <1>6 DEF Call, CreateSteps, UpdateSteps

LEMMA InStepCall ==
    ASSUME TypeOK, AllInStep, NEW r \in Resources, Call(r), NEW q \in Resources
    PROVE  InStep(q)'
  <1>0. InStep(q)
    BY DEF AllInStep
  <1>1. UNCHANGED <<spec, flavour, switched>> /\ Elsewhere(r)
    BY CallEffect
  <1>2. Logged(spec[q])' <=> Logged(spec[q])
    BY <1>1 DEF Logged
  <1>3. CASE q # r
    <2>1. work'[q] = work[q] /\ user'[q] = user[q]
      BY <1>1, <1>3, CallData DEF Elsewhere
    <2>2. replica'[q] = replica[q]
      BY <1>3, CallStatement, ReplicatedEffect
    <2> QED BY <1>0, <1>1, <1>2, <2>1, <2>2 DEF InStep, Following, Exists, At
  <1>4. CASE q = r
    <2> SUFFICES ASSUME ~switched'
                 PROVE  /\ ~At(q, "idle")' => work'[q].spec.binlog = spec'[q].binlog
                        /\ replica'[q] = Following(q)'
      BY DEF InStep
    <2>1. /\ work[q].spec.binlog = spec[q].binlog /\ replica[q] = Following(q)
          /\ ~At(q, "idle")' => work'[q].spec = work[q].spec
      BY <1>0, <1>1, <1>4, CallEffect, CallStatement DEF InStep, At
    <2>2. Logged(work[q].spec) <=> Logged(spec[q])
      BY <2>1 DEF Logged
    <2>3. replica[q] \in {"absent", "present"} /\ replica[q] # "broken"
      BY <2>1 DEF Following
    <2>4. replica'[q] = Following(q)'
      <3>1. CASE user'[q].origin = user[q].origin /\ replica' = replica
        BY <1>2, <2>1, <3>1 DEF Following, Exists
      <3>2. CASE /\ ~Exists(q) /\ user'[q].origin = "provider"
                 /\ Replicated(q, work[q].spec, "create")
        BY <1>2, <2>1, <2>2, <2>3, <3>2, ReplicatedEffect DEF Following, Exists
      <3>3. CASE /\ Exists(q) /\ user'[q].origin = user[q].origin
                 /\ Replicated(q, work[q].spec, "alter")
        BY <1>2, <2>1, <2>2, <2>3, <3>3, ReplicatedEffect DEF Following, Exists
      <3>4. CASE /\ user'[q].origin = "absent"
                 /\ Replicated(q, work[q].spec, "drop")
        BY <1>2, <2>1, <2>2, <2>3, <3>4, ReplicatedEffect DEF Following, Exists
      <3> QED BY <1>4, <3>1, <3>2, <3>3, <3>4, CallStatement
    <2> QED BY <1>1, <2>1, <2>4
  <1> QED BY <1>3, <1>4

(* The other steps send nothing, and a worker takes its copy afresh.       *)
LEMMA CopyKept ==
    ASSUME TypeOK, (\E r \in Resources : Steps(r) \/ Orders(r)) \/ Breaks,
           NEW q \in Resources
    PROVE  /\ ~switched' => ~switched /\ spec'[q].binlog = spec[q].binlog
           /\ \/ At(q, "idle")'
              \/ ~At(q, "idle") /\ work'[q].spec = work[q].spec
              \/ work'[q].spec = spec[q]
  <1>0. /\ WorkerTypes(Phases) /\ WorkerPhases \subseteq Phases
        /\ work \in Workers(Phases) /\ spec \in [Resources -> Specs]
        /\ mr \in [Resources -> MR] /\ work[q] \in Copies(Phases)
    BY PhasesOfWorkers, TypesOfParts DEF TypeOK, Workers
  <1>1. ASSUME NEW r \in Resources, Steps(r)
        PROVE  /\ spec' = spec /\ switched' = switched
               /\ \/ At(q, "idle")'
                  \/ ~At(q, "idle") /\ work'[q].spec = work[q].spec
                  \/ work'[q].spec = spec[q]
    <2>1. spec' = spec /\ Elsewhere(r) /\ Moved(r) /\ switched' = switched
      BY <1>0, <1>1, WorkerStepEffect DEF Steps
    <2>2. [Idle EXCEPT !.pc = "observe", !.spec = spec[q],
                       !.deleting = mr[q].deleting].spec = spec[q]
      BY <1>0, IdleCopy DEF Copies
    <2>3. \A x : [work[q] EXCEPT !.pc = x].spec = work[q].spec
      BY <1>0 DEF Copies
    <2>4. Idle.pc = "idle"
      BY <1>0, IdleCopy
    <2>5. CASE q # r
      BY <2>1, <2>5 DEF Elsewhere, At
    <2>6. CASE q = r /\ At(q, "idle")
      BY <2>1, <2>2, <2>6 DEF Moved
    <2>7. CASE q = r /\ ~At(q, "idle")
      <3>1. work'[q] = Idle \/ work'[q] = [work[q] EXCEPT !.pc = work'[q].pc]
        BY <2>1, <2>7 DEF Moved
      <3>2. work'[q].spec = work[q].spec \/ work'[q].pc = "idle"
        BY <2>3, <2>4, <3>1
      <3> QED BY <2>1, <2>7, <3>2 DEF At
    <2> QED BY <2>1, <2>5, <2>6, <2>7
  <1>2. ASSUME NEW r \in Resources, Orders(r)
        PROVE  /\ ~switched' => ~switched /\ spec'[q].binlog = spec[q].binlog
               /\ work'[q].pc = work[q].pc /\ work'[q].spec = work[q].spec
    BY <1>0, <1>2, UsersEffect DEF Orders
  <1>3. ASSUME Breaks
        PROVE  /\ spec' = spec /\ switched' = switched
               /\ \/ At(q, "idle")'
                  \/ ~At(q, "idle") /\ work'[q].spec = work[q].spec
    <2>1. CASE Crash
      BY <1>0, <1>3, <2>1, CrashEffect DEF Breaks, At
    <2>2. ASSUME NEW r \in Resources, CallFails(r, CreatePhases)
          PROVE  /\ spec' = spec
                 /\ \/ At(q, "idle")'
                    \/ ~At(q, "idle") /\ work'[q].spec = work[q].spec
      <3>1. [work[q] EXCEPT !.pc = "createFailed"].spec = work[q].spec
        BY <1>0 DEF Copies
      <3> QED BY <1>0, <2>2, <3>1, CallFailsEffect DEF Elsewhere, At
    <2> QED BY <1>3, <2>1, <2>2 DEF Breaks
  <1> QED BY <1>1, <1>2, <1>3 DEF At

LEMMA InStepOther ==
    ASSUME TypeOK, AllInStep,
           (\E r \in Resources : Steps(r) \/ Orders(r)) \/ Breaks,
           NEW q \in Resources
    PROVE  InStep(q)'
  <1>1. UNCHANGED <<flavour, user, replica>> /\ InStep(q)
    BY DEF AllInStep, Steps, Orders, Breaks, serverVars
  <1>2. ASSUME spec'[q].binlog = spec[q].binlog
        PROVE  Following(q)' = Following(q)
    BY <1>1, <1>2 DEF Following, Logged, Exists
  <1> QED BY <1>1, <1>2, CopyKept DEF InStep, At

LEMMA InStepAdministers ==
    ASSUME TypeOK, AllInStep, Administers, NEW q \in Resources
    PROVE  InStep(q)'
  <1>0. InStep(q) /\ replica \in [Resources -> {"absent", "present", "broken"}]
    BY DEF AllInStep, TypeOK
  <1>1. UNCHANGED <<work, spec, flavour, switched>>
    BY DEF Administers, RotatePassword, RemoveOrRestoreSecret, AdminDropsUser,
       AdminAltersOptions, workerVars, apiVars, serverVars
  <1>2. \/ user'[q].origin = user[q].origin /\ replica'[q] = replica[q]
        \/ /\ user'[q].origin = "absent"
           /\ replica'[q] = IF replica[q] = "broken" THEN "broken" ELSE "absent"
    <2>1. CASE RotatePassword \/ RemoveOrRestoreSecret
      BY <2>1 DEF RotatePassword, RemoveOrRestoreSecret, serverVars
    <2>2. ASSUME NEW r \in Resources, AdminDropsUser(r)
          PROVE  \/ user'[q].origin = user[q].origin /\ replica'[q] = replica[q]
                 \/ /\ user'[q].origin = "absent"
                    /\ replica'[q] = IF replica[q] = "broken" THEN "broken" ELSE "absent"
      <3>1. user' = [user EXCEPT ![r] = NoUser]
        BY <2>2 DEF AdminDropsUser
      <3>2. /\ user'[r].origin = "absent"
            /\ \A p \in Resources \ {r} : user'[p] = user[p]
        BY <3>1, NobodyThere, UserWritten
      <3>3. replica' = [replica EXCEPT ![r] = IF @ = "broken" THEN @ ELSE "absent"]
        BY <2>2 DEF AdminDropsUser
      <3> QED BY <1>0, <3>2, <3>3
    <2>3. ASSUME NEW r \in Resources, AdminAltersOptions(r)
          PROVE  user'[q].origin = user[q].origin /\ replica'[q] = replica[q]
      <3>1. PICK o \in Options, l \in Limits : user' = [user EXCEPT ![r].options[o] = l]
        BY <2>3 DEF AdminAltersOptions
      <3>2. user'[q].origin = user[q].origin
        BY <3>1 DEF TypeOK, UserRecord
      <3> QED BY <2>3, <3>2 DEF AdminAltersOptions
    <2> QED BY <2>1, <2>2, <2>3 DEF Administers
  <1>3. Logged(spec[q])' <=> Logged(spec[q])
    BY <1>1 DEF Logged
  <1> QED BY <1>0, <1>1, <1>2, <1>3 DEF InStep, Following, Exists, At

(* As long as nobody switches the log of a resource, the replica is not    *)
(* stopped by a statement of the provider and has the users it should,     *)
(* through failed, unanswered and repeated calls and whatever an           *)
(* administrator drops (mysql/user, and DSN in clients/mysql).             *)
THEOREM ReplicaInStep == Spec => []ReplicaFollows
  <1>1. Init => AllInStep
    <2> SUFFICES ASSUME Init, NEW r \in Resources PROVE InStep(r)
      BY DEF AllInStep
    <2>1. work[r].pc = "idle"
      BY InitTypes, PhasesOfWorkers DEF Init
    <2>2. PICK there \in [Resources -> {"absent", "other"}], p \in Generated :
             /\ user = [q \in Resources |-> [NoUser EXCEPT !.origin = there[q],
                            !.pw = IF there[q] = "other" THEN p ELSE Empty]]
             /\ replica = [q \in Resources |->
                               IF there[q] = "other" /\ Logged(spec[q])
                               THEN "present" ELSE "absent"]
      BY DEF Init
    <2>3. user[r].origin = there[r]
      BY <2>2, NobodyThere DEF UserRecord
    <2> QED BY <2>1, <2>2, <2>3 DEF InStep, Following, Exists, At
  <1>2. ASSUME TypeOK, AllInStep, [Next]_vars
        PROVE  AllInStep'
    <2>1. CASE UNCHANGED vars
      BY <1>2, <2>1 DEF vars, workerVars, apiVars, serverVars, AllInStep, InStep, Following,
         Exists, Logged, At
    <2>2. CASE Next
      BY <1>2, <2>2, NextCases, InStepCall, InStepOther, InStepAdministers DEF AllInStep
    <2> QED BY <1>2, <2>1, <2>2
  <1>3. AllInStep => ReplicaFollows
    BY DEF AllInStep, InStep, Following, ReplicaFollows
  <1> QED BY <1>1, <1>2, <1>3, UserTypesCorrect, PTL DEF Spec
=============================================================================
