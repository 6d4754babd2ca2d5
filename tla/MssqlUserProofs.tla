--------------------------- MODULE MssqlUserProofs ---------------------------
(***************************************************************************)
(* Theorems about MssqlUser, for every set of resources that share a name, *)
(* contained or not, for every set of passwords and for every bound on the *)
(* environment.                                                            *)
(***************************************************************************)
EXTENDS MssqlUser, WorkerProofs

LEMMA PhasesOfWorkers ==
    /\ WorkerPhases \subseteq Phases
    /\ {"alter", "publish", "createLogin", "createUser", "createFailed",
        "created", "dropUser", "dropLogin"} \subseteq Phases
  BY DEF Phases, WorkerPhases, CreatePhases

(***************************************************************************)
(* Types.                                                                  *)
(***************************************************************************)

(* The part of the types that is not the workers'.                         *)
ServerTypes ==
    /\ login \in [exists : BOOLEAN, by : Resources \cup {Nobody}, pw : Password]
    /\ user \in [Resources -> [exists : BOOLEAN, pw : Password]]
    /\ session \in BOOLEAN
    /\ input \in Nat /\ secretThere \in BOOLEAN
    /\ output \in [Resources -> Password] /\ pw \in [Resources -> Password]

LEMMA BlankTypes ==
    /\ Empty \in Password
    /\ NoLogin \in [exists : BOOLEAN, by : Resources \cup {Nobody}, pw : Password]
    /\ NoUser \in [exists : BOOLEAN, pw : Password]
    /\ NoUser.exists = FALSE /\ NoLogin.exists = FALSE
  BY DEF Empty, Password, NoLogin, NoUser, Nobody

(* Every step keeps the servers' and the secrets' types.                   *)
LEMMA ServerStep == TypeOK /\ [Next]_vars => ServerTypes'
  <1> SUFFICES ASSUME TypeOK, [Next]_vars PROVE ServerTypes'
    OBVIOUS
  <1> USE DEF ServerTypes, serverVars, secretVars, workerVars
  <1>0. ServerTypes
    BY DEF TypeOK
  <1>b. Empty \in Password /\ NewPassword \in Password
    BY <1>0 DEF NewPassword, Password, Empty
  <1>s. CASE UNCHANGED <<serverVars, secretVars, pw>>
    BY <1>0, <1>s
  <1>1. ASSUME NEW r \in Resources, CreateSteps(r) PROVE ServerTypes'
    <2>1. CASE ReadPassword(r)
      <3>1. Generated \subseteq Password /\ {NewPassword} \subseteq Password
        BY <1>b DEF Password
      <3> QED BY <1>0, <2>1, <3>1 DEF ReadPassword
    <2>2. CASE CreateLogin(r)
      <3>1. [exists |-> TRUE, by |-> r, pw |-> pw[r]]
              \in [exists : BOOLEAN, by : Resources \cup {Nobody},
                  pw : Password]
        BY <1>0
      <3>2. login' \in {login, [exists |-> TRUE, by |-> r, pw |-> pw[r]]}
        BY <2>2 DEF CreateLogin
      <3>3. UNCHANGED <<user, session, input, secretThere, output, pw>>
        BY <2>2 DEF CreateLogin
      <3> QED BY <1>0, <3>1, <3>2, <3>3
    <2>3. CASE CreateUser(r)
      <3> DEFINE new == [exists |-> TRUE,
                         pw |-> IF Contained(r) THEN pw[r] ELSE Empty]
      <3>1. new \in [exists : BOOLEAN, pw : Password]
        BY <1>0, <1>b
      <3>2. user' \in {user, [user EXCEPT ![r] = new]}
        BY <2>3 DEF CreateUser
      <3>3. UNCHANGED <<login, session, input, secretThere, output, pw>>
        BY <2>3 DEF CreateUser
      <3> HIDE DEF new
      <3> QED BY <1>0, <3>1, <3>2, <3>3
    <2> QED BY <1>1, <2>1, <2>2, <2>3 DEF CreateSteps
  <1>2. ASSUME NEW r \in Resources, UpdateSteps(r) PROVE ServerTypes'
    <2>1. CASE Update(r)
      BY <1>0, <1>b, <2>1 DEF Update
    <2>2. CASE Alter(r)
      BY <1>0, <1>b, <2>2 DEF Alter
    <2> QED BY <1>2, <2>1, <2>2 DEF UpdateSteps
  <1>3. ASSUME NEW r \in Resources, DeleteSteps(r) PROVE ServerTypes'
    BY <1>0, <1>3, BlankTypes
       DEF DeleteSteps, KillSessions, DropUser, DropLogin
  <1>4. ASSUME NEW r \in Resources, Publish(r) PROVE ServerTypes'
    BY <1>0, <1>4, <1>b DEF Publish
  <1>5. ASSUME NEW r \in Resources, Reconcile(r) PROVE ServerTypes'
    BY <1>1, <1>2, <1>3, <1>4, <1>5, <1>s DEF Reconcile, Observe
  <1>6. CASE Failure
    BY <1>0, <1>6, <1>b DEF Failure
  <1>7. CASE Environment
    <2>1. ASSUME NEW r \in Resources, AdminDropsUser(r) PROVE ServerTypes'
      BY <1>0, <2>1, BlankTypes DEF AdminDropsUser
    <2>2. CASE RotatePassword
      BY <1>0, <2>2 DEF RotatePassword
    <2>3. CASE RemoveOrRestoreSecret
      BY <1>0, <2>3 DEF RemoveOrRestoreSecret
    <2>4. CASE ClientConnects
      BY <1>0, <2>4 DEF ClientConnects
    <2>5. CASE ClientLeaves
      BY <1>0, <2>5 DEF ClientLeaves
    <2> QED BY <1>7, <1>s, <2>1, <2>2, <2>3, <2>4, <2>5 DEF Environment
  <1>8. CASE UNCHANGED vars
    BY <1>0, <1>8 DEF vars
  <1> QED BY <1>5, <1>6, <1>7, <1>8 DEF Next

(***************************************************************************)
(* The calls of the controller, each by what it does to the worker that    *)
(* makes it, to the login and to the user of its resource.                 *)
(***************************************************************************)
Call(r) ==
    Observe(r) \/ CreateSteps(r) \/ UpdateSteps(r) \/ DeleteSteps(r) \/ Publish(r)

LEMMA ObserveEffect ==
    ASSUME TypeOK, NEW r \in Resources, Observe(r)
    PROVE  /\ At(r, "observe") /\ UNCHANGED <<login, user, output, pw>>
           /\ work' \in Workers(Phases) /\ Elsewhere(r)
           /\ \/ work'[r] = Idle /\ At(r, "idle")'
              \/ /\ work'[r].pc \in {"delete", "release", "claim"}
                 /\ At(r, "delete")' => user[r].exists
                 /\ At(r, "release")' => ~user[r].exists
                 /\ work'[r].exists = user[r].exists
                 /\ work'[r].dirty = work[r].dirty
  <1>0. work \in Workers(Phases) /\ work[r].deleting \in BOOLEAN
    BY TypesOfParts DEF TypeOK, Workers, Copies
  <1>1. At(r, "observe") /\ UNCHANGED <<login, user, output, pw>>
    BY DEF Observe, serverVars, secretVars
  <1>2. CASE Ends(r)
    BY <1>0, <1>1, <1>2, EndsOne, PhasesOfWorkers DEF At
  <1>3. CASE Observed(r, user[r].exists, ~PasswordChanged(r))
    <2>1. user[r].exists \in BOOLEAN /\ (~PasswordChanged(r)) \in BOOLEAN
      BY DEF TypeOK, PasswordChanged
    <2>2. /\ work' \in Workers(Phases) /\ Elsewhere(r)
          /\ work'[r].pc = AfterObserve(work[r].deleting, user[r].exists)
          /\ work'[r].pc \in {"delete", "release", "claim"}
          /\ work'[r].exists = user[r].exists /\ work'[r].dirty = work[r].dirty
      BY <1>0, <1>3, <2>1, ObservesOne, PhasesOfWorkers, ZenonT(60)
    <2>3. /\ At(r, "delete")' => user[r].exists
          /\ At(r, "release")' => ~user[r].exists
      BY <1>0, <2>1, <2>2 DEF AfterObserve, At
    <2> QED BY <1>1, <2>2, <2>3
  <1> QED BY <1>2, <1>3 DEF Observe

(* A worker goes on to a phase with the copy it has, or rests.             *)
Onward(r, phase) ==
    /\ work' \in Workers(Phases) /\ Elsewhere(r)
    /\ work'[r].pc = phase /\ work'[r].dirty = work[r].dirty
Rests(r) ==
    /\ work' \in Workers(Phases) /\ Elsewhere(r)
    /\ work'[r].pc = "idle"

LEMMA WorkerGoesOn ==
    ASSUME TypeOK, NEW r \in Resources
    PROVE  /\ \A phase \in Phases : Goes(r, phase) => Onward(r, phase)
           /\ Ends(r) => Rests(r)
  <1>0. work \in Workers(Phases) /\ work[r] \in Copies(Phases)
    BY TypesOfParts DEF TypeOK, Workers
  <1>1. ASSUME NEW phase \in Phases, Goes(r, phase) PROVE Onward(r, phase)
    <2>1. [work[r] EXCEPT !.pc = phase].dirty = work[r].dirty
      BY <1>0 DEF Copies
    <2>2. work \in Workers(Phases) /\ phase \in Phases /\ Goes(r, phase)
      BY <1>0, <1>1
    <2>3. /\ work' \in Workers(Phases) /\ Elsewhere(r)
          /\ work'[r] = [work[r] EXCEPT !.pc = phase] /\ work'[r].pc = phase
      BY <2>2, GoesOne, ZenonT(30)
    <2> QED BY <2>1, <2>3 DEF Onward
  <1> QED BY <1>0, <1>1, EndsOne, PhasesOfWorkers DEF Rests

LEMMA ReadPasswordEffect ==
    ASSUME TypeOK, NEW r \in Resources, ReadPassword(r)
    PROVE  /\ At(r, "create") /\ UNCHANGED <<login, user, output>>
           /\ \/ /\ Onward(r, IF Contained(r) THEN "createUser" ELSE "createLogin")
                 /\ NewPassword # Empty => pw'[r] = NewPassword
                 /\ \A q \in Resources \ {r} : pw'[q] = pw[q]
              \/ Onward(r, "createFailed") /\ pw' = pw
  BY WorkerGoesOn, PhasesOfWorkers
     DEF ReadPassword, serverVars, secretVars, TypeOK

LEMMA CreateLoginEffect ==
    ASSUME TypeOK, NEW r \in Resources, CreateLogin(r)
    PROVE  /\ At(r, "createLogin") /\ UNCHANGED <<user, output, pw>>
           /\ \/ login.exists /\ login' = login /\ Onward(r, "createFailed")
              \/ /\ ~login.exists /\ Onward(r, "createUser")
                 /\ login'.exists /\ login'.by = r /\ login'.pw = pw[r]
  BY WorkerGoesOn, PhasesOfWorkers DEF CreateLogin, secretVars

LEMMA CreateUserEffect ==
    ASSUME TypeOK, NEW r \in Resources, CreateUser(r)
    PROVE  /\ At(r, "createUser") /\ UNCHANGED <<login, output, pw>>
           /\ \/ /\ user[r].exists \/ (~Contained(r) /\ ~login.exists)
                 /\ Onward(r, "createFailed") /\ user' = user
              \/ /\ ~user[r].exists /\ Onward(r, "created") /\ user'[r].exists = TRUE
                 /\ user'[r].pw = IF Contained(r) THEN pw[r] ELSE Empty
                 /\ \A q \in Resources \ {r} : user'[q] = user[q]
  BY WorkerGoesOn, PhasesOfWorkers DEF CreateUser, secretVars, TypeOK

LEMMA PublishEffect ==
    ASSUME TypeOK, NEW r \in Resources, Publish(r)
    PROVE  /\ At(r, "publish") /\ UNCHANGED <<login, user>> /\ Rests(r)
           /\ output'[r] = (IF pw[r] # Empty THEN pw[r] ELSE output[r])
           /\ pw'[r] = Empty
           /\ \A q \in Resources \ {r} : pw'[q] = pw[q] /\ output'[q] = output[q]
  BY WorkerGoesOn DEF Publish, Settled, serverVars, TypeOK

LEMMA UpdateEffect ==
    ASSUME TypeOK, NEW r \in Resources, Update(r)
    PROVE  /\ At(r, "update") /\ UNCHANGED <<login, user, output>>
           /\ \/ /\ Onward(r, "alter")
                 /\ pw'[r] \in {NewPassword, Empty}
                 /\ \A q \in Resources \ {r} : pw'[q] = pw[q]
              \/ Rests(r) /\ pw' = pw
  BY WorkerGoesOn, PhasesOfWorkers DEF Update, serverVars, secretVars, TypeOK

LEMMA AlterEffect ==
    ASSUME TypeOK, NEW r \in Resources, Alter(r)
    PROVE  /\ At(r, "alter") /\ output' = output
           /\ \A q \in Resources \ {r} : user'[q] = user[q] /\ pw'[q] = pw[q]
           /\ login'.exists = login.exists /\ login'.by = login.by
           /\ user'[r].exists = user[r].exists
           /\ \/ Rests(r) /\ pw'[r] = Empty /\ UNCHANGED <<login, user>>
              \/ /\ Onward(r, "publish") /\ pw'[r] = pw[r]
                 /\ IF pw[r] = Empty THEN UNCHANGED <<login, user>>
                    ELSE IF Contained(r)
                    THEN user'[r].pw = pw[r] /\ login' = login
                    ELSE login'.pw = pw[r] /\ user' = user
  <1>1. /\ login \in [exists : BOOLEAN, by : Resources \cup {Nobody}, pw : Password]
        /\ user \in [Resources -> [exists : BOOLEAN, pw : Password]]
        /\ pw \in [Resources -> Password]
    BY DEF TypeOK
  <1> QED BY <1>1, WorkerGoesOn, PhasesOfWorkers DEF Alter, secretVars

LEMMA DeleteEffect ==
    ASSUME TypeOK, NEW r \in Resources
    PROVE  /\ KillSessions(r) =>
                 /\ At(r, "delete") /\ UNCHANGED <<login, user, output, pw>>
                 /\ Onward(r, "dropUser")
           /\ DropUser(r) =>
                 /\ At(r, "dropUser") /\ UNCHANGED <<login, output, pw>>
                 /\ user'[r].exists = FALSE
                 /\ \A q \in Resources \ {r} : user'[q] = user[q]
                 /\ IF Contained(r) THEN Rests(r) ELSE Onward(r, "dropLogin")
           /\ DropLogin(r) =>
                 /\ At(r, "dropLogin") /\ UNCHANGED <<user, output, pw>>
                 /\ login' = (IF session THEN login ELSE NoLogin) /\ Rests(r)
  BY WorkerGoesOn, PhasesOfWorkers, BlankTypes
     DEF KillSessions, DropUser, DropLogin, secretVars, TypeOK

(* What a call leaves alone.                                               *)
LEMMA CallFrame ==
    ASSUME TypeOK, NEW r \in Resources, Call(r)
    PROVE  /\ WorkerTypes(Phases)' /\ UNCHANGED <<mr, spec, faults, input>>
           /\ ~At(r, "idle") /\ Elsewhere(r)
           /\ At(r, "idle")' \/ work'[r].dirty = work[r].dirty
           /\ \A q \in Resources \ {r} :
                 user'[q] = user[q] /\ output'[q] = output[q] /\ pw'[q] = pw[q]
           /\ session' => session
  <1> USE DEF apiVars, boundVars, serverVars, secretVars
  <1>0. WorkerTypes(Phases) /\ session \in BOOLEAN
    BY DEF TypeOK
  <1>1. /\ UNCHANGED <<mr, spec, edits, faults, input>>
        /\ session' => session
    BY <1>0 DEF Call, Observe, CreateSteps, ReadPassword, CreateLogin, CreateUser,
           UpdateSteps, Update, Alter, DeleteSteps, KillSessions, DropUser,
           DropLogin, Publish, Settled
  <1>2. /\ work' \in Workers(Phases) /\ Elsewhere(r) /\ ~At(r, "idle")
        /\ At(r, "idle")' \/ work'[r].dirty = work[r].dirty
    <2>1. CASE Observe(r) \/ Publish(r)
      BY <2>1, ObserveEffect, PublishEffect DEF Onward, Rests, At
    <2>2. CASE CreateSteps(r)
      BY <2>2, ReadPasswordEffect, CreateLoginEffect, CreateUserEffect
         DEF CreateSteps, Onward, Rests, At
    <2>3. CASE UpdateSteps(r)
      BY <2>3, UpdateEffect, AlterEffect DEF UpdateSteps, Onward, Rests, At
    <2>4. CASE DeleteSteps(r)
      BY <2>4, DeleteEffect DEF DeleteSteps, Onward, Rests, At
    <2> QED BY <2>1, <2>2, <2>3, <2>4 DEF Call
  <1>3. \A q \in Resources \ {r} :
           user'[q] = user[q] /\ output'[q] = output[q] /\ pw'[q] = pw[q]
    <2>1. CASE Observe(r) \/ Publish(r) \/ UpdateSteps(r)
      BY <2>1, ObserveEffect, PublishEffect, UpdateEffect, AlterEffect DEF UpdateSteps
    <2>2. CASE CreateSteps(r)
      BY <2>2, ReadPasswordEffect, CreateLoginEffect, CreateUserEffect DEF CreateSteps
    <2>3. CASE DeleteSteps(r)
      BY <2>3, DeleteEffect DEF DeleteSteps
    <2> QED BY <2>1, <2>2, <2>3 DEF Call
  <1>4. /\ mr \in [Resources -> MR] /\ spec \in [Resources -> Specs]
        /\ edits \in Nat /\ faults \in Nat
    BY <1>0, TypesOfParts
  <1> QED BY <1>1, <1>2, <1>3, <1>4, TypesKept

(***************************************************************************)
(* The other steps: the managed reconciler's own, failures, and what users *)
(* of the API server, clients and administrators do.                       *)
(***************************************************************************)
Steps(r) ==
    /\ WorkerSteps(r) \/ Settled(r)
    /\ UNCHANGED <<serverVars, secretVars, pw>>
Otherwise == (\E r \in Resources : Steps(r)) \/ Failure \/ Environment

LEMMA NextCases ==
    ASSUME [Next]_vars
    PROVE  (\E r \in Resources : Call(r)) \/ Otherwise \/ UNCHANGED vars
  BY DEF Next, Reconcile, Call, Otherwise, Steps

(* What they do to one resource: its worker stays where it is, is          *)
(* interrupted, or makes a step of the managed reconciler; its user stays, *)
(* or an administrator drops it.                                           *)
Fate(q) ==
    /\ \/ user'[q] = user[q]
       \/ faults' # 0 /\ user'[q] = NoUser
    /\ \/ pw'[q] = pw[q]
       \/ At(q, "idle")' /\ pw'[q] = Empty
    /\ \/ /\ work'[q].pc = work[q].pc /\ work'[q].exists = work[q].exists
          /\ mr'[q].finalizer = mr[q].finalizer
       \/ /\ faults' # 0 /\ work'[q].pc \in {"idle", "createFailed"}
          /\ mr'[q].finalizer = mr[q].finalizer
       \/ Moved(q) /\ Metadata(q) /\ user'[q] = user[q]

(* What they do to the rest.                                               *)
Rest ==
    /\ WorkerTypes(Phases)' /\ spec' = spec
    /\ UNCHANGED <<login, output>>
    /\ input' \in {input, input + 1}
    /\ faults' = 0 => faults = 0 /\ (session' => session)

LEMMA StepsEffect ==
    ASSUME TypeOK, NEW r \in Resources, Steps(r)
    PROVE  Rest /\ \A q \in Resources : Fate(q)
  <1>1. /\ WorkerTypes(Phases)' /\ spec' = spec
        /\ Elsewhere(r) /\ Moved(r) /\ Metadata(r)
    BY WorkerStepEffect, PhasesOfWorkers DEF Steps, TypeOK
  <1>2. UNCHANGED <<login, user, session, input, output, pw>>
    BY DEF Steps, serverVars, secretVars
  <1>3. faults' = faults
    BY DEF Steps, WorkerSteps, Begin, Claim, MarkPending, RecordFailure,
           RecordSuccess, Release, Conflict, Settled, boundVars
  <1>4. \A q \in Resources \ {r} : Fate(q)
    BY <1>1, <1>2 DEF Fate, Elsewhere, Metadata
  <1>5. Fate(r)
    BY <1>1, <1>2 DEF Fate
  <1> QED BY <1>1, <1>2, <1>3, <1>4, <1>5 DEF Rest

LEMMA FailureEffect ==
    ASSUME TypeOK, Failure
    PROVE  Rest /\ \A q \in Resources : Fate(q)
  <1>0. faults \in Nat
    BY DEF TypeOK, WorkerTypes
  <1>1. /\ faults' = faults + 1
        /\ UNCHANGED <<login, user, session, input, output>>
        /\ pw' = [r \in Resources |-> IF At(r, "idle")' THEN Empty ELSE pw[r]]
    BY DEF Failure, Crash, CallFails, UseCredit, serverVars, secretVars
  <1>2. /\ WorkerTypes(Phases)' /\ spec' = spec /\ mr' = mr
        /\ \A q \in Resources :
              work'[q] = work[q] \/ work'[q].pc \in {"idle", "createFailed"}
    <2>1. CASE Crash
      BY <2>1, CrashEffect, PhasesOfWorkers DEF TypeOK
    <2>2. ASSUME NEW r \in Resources, CallFails(r, CreatePhases)
          PROVE  /\ WorkerTypes(Phases)' /\ spec' = spec /\ mr' = mr
                 /\ \A q \in Resources :
                       work'[q] = work[q] \/ work'[q].pc \in {"idle", "createFailed"}
      BY <2>2, CallFailsEffect, PhasesOfWorkers DEF TypeOK, Elsewhere
    <2> QED BY <2>1, <2>2 DEF Failure
  <1>3. faults' # 0
    BY <1>0, <1>1
  <1>4. ASSUME NEW q \in Resources PROVE Fate(q)
    BY <1>1, <1>2, <1>3 DEF Fate
  <1> QED BY <1>1, <1>2, <1>3, <1>4 DEF Rest

LEMMA EnvironmentEffect ==
    ASSUME TypeOK, Environment
    PROVE  Rest /\ \A q \in Resources : Fate(q)
  <1> USE DEF serverVars, secretVars, workerVars, apiVars, boundVars
  <1>0. /\ faults \in Nat /\ edits \in Nat /\ input \in Nat
        /\ work \in Workers(Phases) /\ mr \in [Resources -> MR]
        /\ spec \in [Resources -> Specs]
    BY TypesOfParts DEF TypeOK
  <1>1. ASSUME NEW r \in Resources, DeleteMR(r) \/ ClearPendingMark(r),
               UNCHANGED <<serverVars, secretVars, pw>>
        PROVE  Rest /\ \A q \in Resources : Fate(q)
    <2>1. /\ WorkerTypes(Phases)' /\ faults' = faults
          /\ \A q \in Resources :
                /\ work'[q].pc = work[q].pc /\ work'[q].exists = work[q].exists
                /\ mr'[q].finalizer = mr[q].finalizer
      BY <1>1, UsersEffect, PhasesOfWorkers DEF TypeOK, Users
    <2>2. spec' = spec
      BY <1>1 DEF DeleteMR, ClearPendingMark
    <2> QED BY <1>1, <2>1, <2>2 DEF Rest, Fate
  <1>2. ASSUME UNCHANGED <<mr, spec, work, output, login, pw>>,
               edits' \in Nat, faults' \in Nat, input' \in {input, input + 1},
               \/ faults' = faults /\ user' = user /\ (session' => session)
               \/ /\ faults' # 0
                  /\ \A q \in Resources : user'[q] = user[q] \/ user'[q] = NoUser
        PROVE  Rest /\ \A q \in Resources : Fate(q)
    <2>1. WorkerTypes(Phases)'
      BY <1>0, <1>2, TypesKept
    <2> QED BY <1>2, <2>1 DEF Rest, Fate
  <1>3. CASE RotatePassword \/ ClientLeaves
    BY <1>0, <1>2, <1>3 DEF RotatePassword, ClientLeaves
  <1>4. CASE RemoveOrRestoreSecret
    BY <1>0, <1>2, <1>4 DEF RemoveOrRestoreSecret
  <1>5. CASE ClientConnects
    BY <1>0, <1>2, <1>5 DEF ClientConnects, UseCredit
  <1>6. ASSUME NEW r \in Resources, AdminDropsUser(r)
        PROVE  Rest /\ \A q \in Resources : Fate(q)
    <2>1. \A q \in Resources : user'[q] = user[q] \/ user'[q] = NoUser
      BY <1>6 DEF AdminDropsUser, TypeOK
    <2> QED BY <1>0, <1>2, <1>6, <2>1 DEF AdminDropsUser, UseCredit
  <1> QED BY <1>1, <1>3, <1>4, <1>5, <1>6 DEF Environment

LEMMA OtherEffect ==
    ASSUME TypeOK, Otherwise
    PROVE  Rest /\ \A q \in Resources : Fate(q)
  BY StepsEffect, FailureEffect, EnvironmentEffect DEF Otherwise

(* Every variable keeps its type (mssql/user, every handler).              *)
THEOREM UserTypeCorrect == Spec => []TypeOK
  <1>1. Init => TypeOK
    <2> SUFFICES ASSUME Init PROVE TypeOK
      OBVIOUS
    <2>1. WorkerTypes(Phases)
      BY InitTypes, PhasesOfWorkers DEF Init
    <2> QED BY <2>1, BlankTypes DEF Init, TypeOK
  <1>2. ASSUME TypeOK, [Next]_vars PROVE TypeOK'
    <2>1. CASE UNCHANGED vars
      BY <1>2, <2>1 DEF vars, workerVars, apiVars, boundVars, TypeOK, WorkerTypes,
         serverVars, secretVars
    <2>2. WorkerTypes(Phases)' \/ UNCHANGED vars
      BY <1>2, NextCases, CallFrame, OtherEffect DEF Rest
    <2> QED BY <1>2, <2>1, <2>2, ServerStep DEF TypeOK, ServerTypes
  <1> QED BY <1>1, <1>2, PTL DEF Spec

(***************************************************************************)
(* The login that several resources share.                                 *)
(***************************************************************************)

(* The login belongs to the resource whose user stands for it, and to the  *)
(* one that is about to create, alter or drop what belongs to such a user, *)
(* so that no other resource is in a position to alter or drop it.         *)
OwnerPhases == {"createUser", "update", "alter", "delete", "dropUser", "dropLogin"}
Needs(r) ==
    \/ user[r].exists \/ work[r].pc \in OwnerPhases
    \/ At(r, "claim") /\ work[r].exists
Owned(r) == login.exists /\ login.by = r
OwnedWhenNeeded(r) ==
    /\ ~Contained(r) /\ Needs(r) => Owned(r)
    /\ At(r, "dropLogin") => ~Contained(r) /\ ~user[r].exists
    /\ At(r, "createLogin") => ~Contained(r)
LoginOwned == \A r \in Resources : OwnedWhenNeeded(r)

(* A login that is another resource's is left alone.                       *)
LEMMA OthersLoginKept ==
    ASSUME TypeOK, LoginOwned, NEW r \in Resources, Call(r),
           NEW q \in Resources \ {r}, Owned(q)
    PROVE  login' = login
  <1>1. OwnedWhenNeeded(r)
    BY DEF LoginOwned
  <1>2. CASE UpdateSteps(r)
    BY <1>1, <1>2, UpdateEffect, AlterEffect
       DEF UpdateSteps, OwnedWhenNeeded, Needs, Owned, OwnerPhases, At
  <1>3. CASE DeleteSteps(r)
    BY <1>1, <1>3, DeleteEffect
       DEF DeleteSteps, OwnedWhenNeeded, Needs, Owned, OwnerPhases, At
  <1>4. CASE CreateSteps(r)
    BY <1>4, ReadPasswordEffect, CreateLoginEffect, CreateUserEffect
       DEF CreateSteps, Owned
  <1> QED BY <1>2, <1>3, <1>4, ObserveEffect, PublishEffect DEF Call

LEMMA LoginOwnedStep ==
    ASSUME TypeOK, LoginOwned, [Next]_vars, NEW q \in Resources
    PROVE  OwnedWhenNeeded(q)'
  <1>i. OwnedWhenNeeded(q)
    BY DEF LoginOwned
  <1> USE DEF OwnedWhenNeeded, Needs, Owned, OwnerPhases, At, Contained
  <1>1. ASSUME NEW r \in Resources, Call(r) PROVE OwnedWhenNeeded(q)'
    <2>0. spec' = spec
      BY <1>1, CallFrame
    <2>1. CASE r # q
      <3>1. work'[q] = work[q] /\ user'[q] = user[q]
        BY <1>1, <2>1, CallFrame DEF Elsewhere
      <3>2. Owned(q) => Owned(q)'
        BY <1>1, <2>1, OthersLoginKept
      <3> QED BY <1>i, <2>0, <3>1, <3>2
    <2>2. CASE Observe(q)
      BY <1>i, <2>0, <2>2, ObserveEffect
    <2>3. CASE ReadPassword(q)
      BY <1>i, <2>0, <2>3, ReadPasswordEffect DEF Onward
    <2>4. CASE CreateLogin(q)
      BY <1>i, <2>0, <2>4, CreateLoginEffect DEF Onward
    <2>5. CASE CreateUser(q)
      BY <1>i, <2>0, <2>5, CreateUserEffect DEF Onward
    <2>6. CASE Publish(q)
      BY <1>i, <2>0, <2>6, PublishEffect DEF Rests
    <2>7. CASE UpdateSteps(q)
      BY <1>i, <2>0, <2>7, UpdateEffect, AlterEffect DEF UpdateSteps, Onward, Rests
    <2>8. CASE DeleteSteps(q)
      BY <1>i, <2>0, <2>8, DeleteEffect, BlankTypes DEF DeleteSteps, Onward, Rests
    <2> QED BY <1>1, <2>1, <2>2, <2>3, <2>4, <2>5, <2>6, <2>7, <2>8
            DEF Call, CreateSteps
  <1>2. CASE Otherwise
    <2>1. /\ Fate(q) /\ login' = login /\ spec' = spec
      BY <1>2, OtherEffect DEF Rest
    <2> QED BY <1>i, <2>1, BlankTypes, IdleCopy, PhasesOfWorkers DEF Fate, Moved
  <1>3. CASE UNCHANGED vars
    BY <1>i, <1>3 DEF vars, workerVars, apiVars, serverVars
  <1> QED BY <1>1, <1>2, <1>3, NextCases

(* A user that exists, and a worker about to create or drop one, has its   *)
(* own login on the server for as long as it needs it: neither another     *)
(* resource's Delete nor its late Create takes the login away              *)
(* (mssql/user, Create, Update and Delete).                                *)
THEOREM LoginHasAnOwner == Spec => []LoginOwned
  <1>1. Init => LoginOwned
    <2>1. Init => \A r \in Resources : user[r].exists = FALSE /\ work[r].pc = "idle"
      BY InitTypes, PhasesOfWorkers, BlankTypes DEF Init
    <2> QED BY <2>1 DEF LoginOwned, OwnedWhenNeeded, Needs, OwnerPhases, At
  <1>2. TypeOK /\ LoginOwned /\ [Next]_vars => LoginOwned'
    BY LoginOwnedStep DEF LoginOwned
  <1> QED BY <1>1, <1>2, UserTypeCorrect, PTL DEF Spec

(* However many resources share a name, none is left with a user whose     *)
(* login another one, or its own half-done Delete, has dropped             *)
(* (mssql/user, Create and Delete).                                        *)
THEOREM NoUserWithoutLogin == Spec => []NoDanglingUser
  <1>1. LoginOwned => NoDanglingUser
    BY DEF LoginOwned, OwnedWhenNeeded, Needs, Owned, NoDanglingUser
  <1> QED BY <1>1, LoginHasAnOwner, PTL

(***************************************************************************)
(* The life cycle of the user.                                             *)
(***************************************************************************)

(* Create runs under the finalizer, a user has it, and what Observe has    *)
(* seen of a resource that is about to be released still holds: nobody but *)
(* its own worker brings the user back.                                    *)
ClaimedPhases == {"mark"} \cup CreatePhases
Guarded(r) ==
    /\ work[r].pc \in ClaimedPhases \/ user[r].exists => mr[r].finalizer
    /\ At(r, "release") => ~user[r].exists
Claims == \A r \in Resources : Guarded(r)

(* One resource's part of a step of the abstract specification.            *)
LifecycleStep(r) ==
    Lifecycle(r)!ANext \/ UNCHANGED <<mr[r].finalizer, user[r].exists>>

LEMMA ClaimsStep ==
    ASSUME TypeOK, Claims, [Next]_vars, NEW q \in Resources
    PROVE  Guarded(q)' /\ LifecycleStep(q)
  <1> USE DEF At, ClaimedPhases, CreatePhases
  <1>0. /\ mr[q].finalizer \in BOOLEAN /\ user[q].exists \in BOOLEAN
        /\ WorkerTypes(Phases)' => mr'[q].finalizer \in BOOLEAN
    BY DEF TypeOK, WorkerTypes, MR
  <1>g. Guarded(q)
    BY DEF Claims
  (* The three ways a step may go for the resource.                        *)
  <1>s. ASSUME mr'[q].finalizer = mr[q].finalizer,
               user'[q].exists = user[q].exists,
               work'[q].pc \in ClaimedPhases => mr[q].finalizer,
               work'[q].pc = "release" => ~user[q].exists
        PROVE  Guarded(q)' /\ LifecycleStep(q)
    BY <1>g, <1>s DEF Guarded, LifecycleStep
  <1>v. ASSUME mr'[q].finalizer = mr[q].finalizer,
               user'[q].exists = FALSE,
               work'[q].pc \in ClaimedPhases => mr[q].finalizer
        PROVE  Guarded(q)' /\ LifecycleStep(q)
    <2>1. LifecycleStep(q)
      BY <1>0, <1>v DEF LifecycleStep, Lifecycle!ANext, Lifecycle!Vanish
    <2> QED BY <1>v, <2>1 DEF Guarded
  <1>m. ASSUME Moved(q), Metadata(q), user'[q] = user[q],
               mr'[q].finalizer \in BOOLEAN
        PROVE  Guarded(q)' /\ LifecycleStep(q)
    <2>1. Guarded(q)'
      BY <1>g, <1>m DEF Guarded, Moved, Metadata
    <2>2. CASE mr[q].finalizer /\ ~mr'[q].finalizer
      BY <1>0, <1>m, <1>g, <2>1, <2>2
         DEF LifecycleStep, Lifecycle!ANext, Lifecycle!Release, Guarded, Metadata
    <2>3. CASE ~mr[q].finalizer /\ mr'[q].finalizer
      BY <1>0, <1>m, <2>1, <2>3 DEF LifecycleStep, Lifecycle!ANext, Lifecycle!Claim
    <2> QED BY <1>0, <1>m, <2>1, <2>2, <2>3 DEF LifecycleStep
  <1>1. ASSUME NEW r \in Resources, Call(r)
        PROVE  Guarded(q)' /\ LifecycleStep(q)
    <2>0. mr' = mr
      BY <1>1, CallFrame
    <2>1. CASE r # q
      BY <1>1, <1>g, <1>s, <2>0, <2>1, CallFrame DEF Elsewhere, Guarded
    <2>2. CASE Observe(q)
      BY <1>s, <2>0, <2>2, ObserveEffect
    <2>3. CASE ReadPassword(q) \/ CreateLogin(q)
      BY <1>g, <1>s, <2>0, <2>3, ReadPasswordEffect, CreateLoginEffect
         DEF Guarded, Onward
    <2>4. CASE CreateUser(q)
      <3>1. mr[q].finalizer
        BY <1>g, <2>4, CreateUserEffect DEF Guarded
      <3>2. CASE user' = user
        BY <1>s, <2>0, <2>4, <3>1, <3>2, CreateUserEffect DEF Onward
      <3>3. CASE ~user[q].exists /\ user'[q].exists = TRUE
        <4>1. Guarded(q)'
          BY <2>0, <2>4, <3>1, <3>3, CreateUserEffect DEF Guarded, Onward
        <4> QED BY <2>0, <3>1, <3>3, <4>1
                DEF LifecycleStep, Lifecycle!ANext, Lifecycle!Create
      <3> QED BY <2>4, <3>2, <3>3, CreateUserEffect
    <2>5. CASE UpdateSteps(q) \/ Publish(q)
      BY <1>s, <2>0, <2>5, UpdateEffect, AlterEffect, PublishEffect
         DEF UpdateSteps, Onward, Rests
    <2>6. CASE KillSessions(q) \/ DropLogin(q)
      BY <1>s, <2>0, <2>6, DeleteEffect DEF Onward, Rests
    <2>7. CASE DropUser(q)
      BY <1>v, <2>0, <2>7, DeleteEffect DEF Onward, Rests
    <2> QED BY <1>1, <2>1, <2>2, <2>3, <2>4, <2>5, <2>6, <2>7
            DEF Call, CreateSteps, DeleteSteps
  <1>2. CASE Otherwise
    <2>1. Fate(q) /\ mr'[q].finalizer \in BOOLEAN
      BY <1>0, <1>2, OtherEffect DEF Rest
    <2>2. CASE user'[q] = user[q]
      BY <1>g, <1>m, <1>s, <2>1, <2>2 DEF Fate, Guarded
    <2>3. CASE user'[q] # user[q]
      BY <1>g, <1>v, <2>1, <2>3, BlankTypes DEF Fate, Guarded
    <2> QED BY <2>1, <2>2, <2>3 DEF Fate
  <1>3. CASE UNCHANGED vars
    BY <1>3, <1>g, <1>s DEF vars, workerVars, apiVars, serverVars, Guarded
  <1> QED BY <1>1, <1>2, <1>3, NextCases

LEMMA ClaimsInit ==
    ASSUME Init
    PROVE  Claims /\ \A r \in Resources : Lifecycle(r)!AInit
  <1>1. \A r \in Resources :
           /\ mr[r].finalizer = FALSE /\ user[r].exists = FALSE
           /\ work[r].pc = "idle"
    BY InitTypes, PhasesOfWorkers, BlankTypes DEF Init
  <1> QED BY <1>1
          DEF Claims, Guarded, At, ClaimedPhases, CreatePhases, Lifecycle!AInit

(* The database user of every resource follows the abstract life cycle:    *)
(* created under a finalizer, and gone before the finalizer is given up    *)
(* (mssql/user, Observe, Create and Delete).                               *)
THEOREM UserImplementsLifecycle == Spec => UserLifecycle
  <1>1. TypeOK /\ Claims /\ [Next]_vars
          => /\ Claims'
             /\ [\A r \in Resources : Lifecycle(r)!ANext
                   \/ UNCHANGED <<mr[r].finalizer, user[r].exists>>]_<<mr, user>>
    BY ClaimsStep DEF Claims, LifecycleStep
  <1> QED BY <1>1, ClaimsInit, UserTypeCorrect, PTL DEF Spec, UserLifecycle

(***************************************************************************)
(* Passwords.                                                              *)
(***************************************************************************)

(* With a referenced secret a password is as good as its number, for the   *)
(* secret only goes forward.  What is published lags behind what is set,   *)
(* and what is set behind the secret; a password on its way from a         *)
(* statement to the connection secret lies between the two.                *)
CarryingPhases == {"createLogin", "createUser", "created", "alter", "publish"}
InOrder(r) ==
    /\ input # Empty /\ pw[r] \in 0..input /\ output[r] \in 0..input
    /\ work[r].pc \in CarryingPhases /\ pw[r] # Empty => output[r] <= pw[r]
    /\ work[r].pc \in {"createLogin", "createUser"} => pw[r] # Empty
    /\ At(r, "createUser") /\ ~Contained(r) => login.pw = pw[r]
    /\ user[r].exists =>
          /\ CurrentPassword(r) \in output[r]..input
          /\ work[r].pc \in {"created", "publish"} => pw[r] <= CurrentPassword(r)
PasswordsInOrder == \A r \in Resources : InOrder(r)

LEMMA InOrderStep ==
    ASSUME TypeOK, LoginOwned, PasswordsInOrder, HasPasswordRef, [Next]_vars,
           NEW q \in Resources
    PROVE  InOrder(q)'
  <1>i. /\ input \in Nat /\ NewPassword = input
        /\ InOrder(q) /\ OwnedWhenNeeded(q)
    BY DEF TypeOK, PasswordsInOrder, LoginOwned, NewPassword
  <1> USE DEF InOrder, At, CarryingPhases, Contained, CurrentPassword, Empty
  <1>1. ASSUME NEW r \in Resources, Call(r)
        PROVE  InOrder(q)'
    <2>0. spec' = spec /\ input' = input
      BY <1>1, CallFrame
    <2>1. CASE r # q
      <3>1. /\ work'[q] = work[q] /\ user'[q] = user[q]
            /\ pw'[q] = pw[q] /\ output'[q] = output[q]
        BY <1>1, <2>1, CallFrame DEF Elsewhere
      <3>2. ~Contained(q) /\ (user[q].exists \/ At(q, "createUser")) => Owned(q)
        BY <1>i DEF OwnedWhenNeeded, Needs, OwnerPhases
      <3>3. Owned(q) => login' = login
        BY <1>1, <2>1, OthersLoginKept
      <3> QED BY <1>i, <2>0, <3>1, <3>2, <3>3
    <2>2. CASE Observe(q)
      BY <1>i, <2>0, <2>2, ObserveEffect
    <2>3. CASE ReadPassword(q)
      BY <1>i, <2>0, <2>3, ReadPasswordEffect DEF Onward
    <2>4. CASE CreateLogin(q)
      BY <1>i, <2>0, <2>4, CreateLoginEffect
         DEF Onward, OwnedWhenNeeded, Needs, Owned
    <2>5. CASE CreateUser(q)
      <3>1. /\ At(q, "createUser") /\ UNCHANGED <<login, output, pw>>
            /\ \/ work'[q].pc = "createFailed" /\ user' = user
               \/ /\ work'[q].pc = "created"
                  /\ user'[q].pw = IF Contained(q) THEN pw[q] ELSE Empty
        BY <2>5, CreateUserEffect DEF Onward
      <3>2. /\ pw[q] \in output[q]..input
            /\ ~Contained(q) => login.pw = pw[q]
        BY <1>i, <3>1
      <3> QED BY <1>i, <2>0, <3>1, <3>2
    <2>6. CASE Publish(q)
      BY <1>i, <2>0, <2>6, PublishEffect DEF Rests
    <2>7. CASE Update(q)
      BY <1>i, <2>0, <2>7, UpdateEffect DEF Onward, Rests
    <2>8. CASE Alter(q)
      BY <1>i, <2>0, <2>8, AlterEffect DEF Onward, Rests
    <2>9. CASE DeleteSteps(q)
      BY <1>i, <2>0, <2>9, DeleteEffect DEF DeleteSteps, Onward, Rests, OwnedWhenNeeded
    <2> QED BY <1>1, <2>1, <2>2, <2>3, <2>4, <2>5, <2>6, <2>7, <2>8, <2>9
            DEF Call, CreateSteps, UpdateSteps
  <1>2. CASE Otherwise
    <2>1. /\ Fate(q) /\ UNCHANGED <<login, output, spec>>
          /\ input' \in {input, input + 1}
      BY <1>2, OtherEffect DEF Rest
    <2>2. /\ user'[q].exists => user'[q] = user[q]
          /\ pw'[q] = pw[q] \/ (work'[q].pc = "idle" /\ pw'[q] = Empty)
          /\ \/ work'[q].pc = work[q].pc
             \/ work'[q].pc \notin CarryingPhases
             \/ work[q].pc = "created" /\ work'[q].pc = "publish"
      BY <2>1, BlankTypes DEF Fate, Moved
    <2> QED BY <1>i, <2>1, <2>2
  <1>3. CASE UNCHANGED vars
    BY <1>i, <1>3 DEF vars, workerVars, apiVars, serverVars, secretVars
  <1> QED BY <1>1, <1>2, <1>3, NextCases

(* A password that is set but not the published one is older than the      *)
(* referenced one, so that the comparison of the referenced and the        *)
(* published one that Observe makes is enough, although it never sees the  *)
(* password that is set (mssql/user, Observe and getPassword).             *)
THEOREM StalePasswordNoticed == Spec => []StalePasswordIsNoticed
  <1>1. ASSUME HasPasswordRef PROVE Init => PasswordsInOrder
    <2> SUFFICES ASSUME Init, NEW r \in Resources PROVE InOrder(r)
      BY DEF PasswordsInOrder
    <2>1. user[r].exists = FALSE /\ work[r].pc = "idle"
      BY InitTypes, PhasesOfWorkers, BlankTypes DEF Init
    <2> QED BY <2>1 DEF Init, InOrder, At, CarryingPhases, Empty
  <1>2. ASSUME HasPasswordRef
        PROVE  TypeOK /\ LoginOwned /\ PasswordsInOrder /\ [Next]_vars
                  => PasswordsInOrder'
    <2> SUFFICES ASSUME TypeOK, LoginOwned, PasswordsInOrder, [Next]_vars,
                        NEW r \in Resources
                 PROVE  InOrder(r)'
      BY DEF PasswordsInOrder
    <2> QED BY <1>2, InOrderStep
  <1>3. ASSUME HasPasswordRef
        PROVE  TypeOK /\ PasswordsInOrder => StalePasswordIsNoticed
    <2> SUFFICES ASSUME TypeOK, PasswordsInOrder, NEW r \in Resources,
                        user[r].exists, CurrentPassword(r) # output[r]
                 PROVE  PasswordChanged(r)
      BY DEF StalePasswordIsNoticed
    <2>1. /\ input \in Nat /\ input # Empty /\ output[r] \in 0..input
          /\ CurrentPassword(r) \in output[r]..input
      BY DEF PasswordsInOrder, InOrder, TypeOK
    <2>2. output[r] # input
      BY <2>1
    <2> QED BY <1>3, <2>1, <2>2 DEF PasswordChanged, NewPassword
  <1>4. CASE HasPasswordRef
    BY <1>1, <1>2, <1>3, <1>4, UserTypeCorrect, LoginHasAnOwner, PTL DEF Spec
  <1>5. CASE ~HasPasswordRef
    <2>1. StalePasswordIsNoticed
      BY <1>5 DEF StalePasswordIsNoticed
    <2> QED BY <2>1, PTL
  <1> QED BY <1>4, <1>5

(***************************************************************************)
(* Logins that are left behind.                                            *)
(***************************************************************************)

(* As long as nothing fails and nobody interferes, what Observe has        *)
(* answered is true until Create, and a login has a user unless its        *)
(* resource is between the two statements of Create or of Delete.          *)
SeenTruly(r) ==
    /\ At(r, "claim") => work[r].exists = user[r].exists
    /\ work[r].pc \in ClaimedPhases => ~user[r].exists
Answers(r) ==
    /\ login.by = r /\ ~Contained(r) /\ mr[r].finalizer
    /\ user[r].exists \/ work[r].pc \in {"createUser", "dropLogin"}
Undisturbed ==
    /\ session = FALSE
    /\ \A r \in Resources : SeenTruly(r)
    /\ login.exists => \E r \in Resources : Answers(r)

(* The three steps below are those of a run without failures.              *)
LEMMA SeenTrulyStep ==
    ASSUME TypeOK, Undisturbed, [Next]_vars, faults' = 0, NEW q \in Resources
    PROVE  SeenTruly(q)'
  <1>i. SeenTruly(q) /\ user[q].exists \in BOOLEAN /\ work[q].exists \in BOOLEAN
    BY DEF Undisturbed, TypeOK, WorkerTypes
  <1> USE DEF SeenTruly, At, ClaimedPhases, CreatePhases
  <1>1. ASSUME NEW r \in Resources, Call(r) PROVE SeenTruly(q)'
    <2>1. CASE r # q
      BY <1>i, <1>1, <2>1, CallFrame DEF Elsewhere
    <2>2. CASE Observe(q) \/ ReadPassword(q) \/ CreateLogin(q) \/ Publish(q)
      BY <1>i, <2>2, ObserveEffect, ReadPasswordEffect, CreateLoginEffect, PublishEffect
         DEF Onward, Rests
    <2>3. CASE CreateUser(q) \/ UpdateSteps(q) \/ DeleteSteps(q)
      BY <1>i, <2>3, CreateUserEffect, UpdateEffect, AlterEffect, DeleteEffect
         DEF UpdateSteps, DeleteSteps, Onward, Rests
    <2> QED BY <1>1, <2>1, <2>2, <2>3 DEF Call, CreateSteps
  <1>2. CASE Otherwise
    <2>1. Fate(q)
      BY <1>2, OtherEffect
    <2> QED BY <1>i, <2>1 DEF Fate, Moved
  <1>3. CASE UNCHANGED vars
    BY <1>i, <1>3 DEF vars, workerVars, serverVars
  <1> QED BY <1>1, <1>2, <1>3, NextCases

(* The resource that answers for the login goes on to, or has gone with it.*)
LEMMA AnswersCall ==
    ASSUME TypeOK, LoginOwned, Undisturbed, NEW r \in Resources, Call(r),
           NEW k \in Resources, login.exists, Answers(k)
    PROVE  Answers(k)' \/ ~login'.exists
  <1>0. /\ mr' = mr /\ Contained(k)' = Contained(k) /\ session = FALSE
        /\ SeenTruly(k) /\ OwnedWhenNeeded(k)
    BY CallFrame DEF Contained, Undisturbed, LoginOwned
  <1> USE DEF Answers, At
  <1>1. CASE r # k
    <2>1. login' = login
      BY <1>1, OthersLoginKept DEF Owned
    <2> QED BY <1>0, <1>1, <2>1, CallFrame DEF Elsewhere
  <1>2. CASE Observe(k) \/ Publish(k)
    BY <1>0, <1>2, ObserveEffect, PublishEffect
  <1>3. CASE CreateSteps(k)
    <2>1. work[k].pc = "createUser" /\ CreateUser(k)
      BY <1>0, <1>3, ReadPasswordEffect, CreateLoginEffect, CreateUserEffect
         DEF CreateSteps, SeenTruly, ClaimedPhases, CreatePhases
    <2> QED BY <1>0, <2>1, CreateUserEffect
            DEF SeenTruly, ClaimedPhases, CreatePhases
  <1>4. CASE UpdateSteps(k)
    BY <1>0, <1>4, UpdateEffect, AlterEffect DEF UpdateSteps
  <1>5. CASE DeleteSteps(k)
    BY <1>0, <1>5, DeleteEffect, BlankTypes DEF DeleteSteps, Onward
  <1> QED BY <1>1, <1>2, <1>3, <1>4, <1>5 DEF Call

LEMMA UndisturbedStep ==
    ASSUME TypeOK, LoginOwned, Claims, Undisturbed, [Next]_vars, faults' = 0
    PROVE  Undisturbed'
  <1>0. session = FALSE /\ \A r \in Resources : SeenTruly(r)'
    BY SeenTrulyStep DEF Undisturbed
  <1>1. session' = FALSE
    <2>1. session' => session
      BY NextCases, CallFrame, OtherEffect DEF Rest, vars, serverVars
    <2>2. session' \in BOOLEAN
      BY ServerStep DEF ServerTypes
    <2> QED BY <1>0, <2>1, <2>2
  <1>2. ASSUME login'.exists PROVE \E r \in Resources : Answers(r)'
    <2>1. CASE login.exists
      <3>1. PICK k \in Resources : Answers(k)
        BY <2>1 DEF Undisturbed
      <3>2. ASSUME NEW r \in Resources, Call(r) PROVE Answers(k)'
        BY <1>2, <2>1, <3>1, <3>2, AnswersCall
      <3>3. CASE Otherwise
        <4>1. Fate(k) /\ login' = login /\ Contained(k)' = Contained(k)
          BY <3>3, OtherEffect DEF Rest, Contained
        <4>2. Guarded(k)
          BY DEF Claims
        <4> QED BY <3>1, <4>1, <4>2 DEF Fate, Moved, Metadata, Answers, Guarded, At
      <3>4. CASE UNCHANGED vars
        BY <3>1, <3>4 DEF vars, workerVars, apiVars, serverVars, Answers, Contained
      <3> QED BY <3>2, <3>3, <3>4, NextCases
    <2>2. CASE ~login.exists
      <3>1. PICK r \in Resources : Call(r)
        <4>1. Otherwise \/ UNCHANGED vars => login' = login
          BY OtherEffect DEF Rest, vars, serverVars
        <4> QED BY <1>2, <2>2, <4>1, NextCases
      <3>2. CreateLogin(r)
        BY <1>2, <2>2, <3>1, ObserveEffect, PublishEffect, ReadPasswordEffect,
           CreateUserEffect, UpdateEffect, AlterEffect, DeleteEffect, BlankTypes
           DEF Call, CreateSteps, UpdateSteps, DeleteSteps
      <3>3. /\ At(r, "createLogin") /\ login'.by = r /\ At(r, "createUser")'
            /\ mr' = mr /\ Contained(r)' = Contained(r)
        BY <2>2, <3>1, <3>2, CreateLoginEffect, CallFrame DEF Contained, Onward, At
      <3>4. ~Contained(r) /\ mr[r].finalizer
        BY <3>3 DEF LoginOwned, OwnedWhenNeeded, Claims, Guarded, At, ClaimedPhases,
           CreatePhases
      <3> QED BY <3>3, <3>4 DEF Answers, At
    <2> QED BY <2>1, <2>2
  <1> QED BY <1>0, <1>1, <1>2 DEF Undisturbed

(* The faults of a run only become more.                                   *)
LEMMA FaultsStay ==
    ASSUME TypeOK, [Next]_vars, faults' = 0
    PROVE  faults = 0
  BY NextCases, CallFrame, OtherEffect DEF Rest, vars, workerVars, boundVars

(* A resource is there as long as it has a finalizer.                      *)
AllBacked == \A r \in Resources : Backed(r)

LEMMA AllBackedStep == TypeOK /\ AllBacked /\ [Next]_vars => AllBacked'
  <1> SUFFICES ASSUME TypeOK, AllBacked, [Next]_vars, NEW q \in Resources
               PROVE  Backed(q)'
    BY DEF AllBacked
  <1>i. WorkerTypes(Phases) /\ Backed(q)
    BY DEF TypeOK, AllBacked
  <1>1. ASSUME NEW r \in Resources, Call(r) PROVE Backed(q)'
    <2>1. CASE q # r
      BY <1>i, <1>1, <2>1, CallFrame DEF Elsewhere, Backed, At
    <2>2. CASE q = r
      BY <1>i, <1>1, <2>2, CallFrame, BackedKept
    <2> QED BY <2>1, <2>2
  <1>2. ASSUME NEW r \in Resources, Steps(r) PROVE Backed(q)'
    BY <1>i, <1>2, BackedStep, PhasesOfWorkers DEF Steps
  <1>3. CASE Failure
    BY <1>i, <1>3, BackedStep, PhasesOfWorkers DEF Failure
  <1>4. CASE Environment
    <2>1. ASSUME NEW r \in Resources, DeleteMR(r) \/ ClearPendingMark(r)
          PROVE  Backed(q)'
      BY <1>i, <2>1, BackedStep, PhasesOfWorkers DEF Users
    <2>2. ASSUME UNCHANGED <<work, mr>> PROVE Backed(q)'
      BY <1>i, <2>2 DEF Backed, At
    <2> QED BY <1>4, <2>1, <2>2
            DEF Environment, RotatePassword, RemoveOrRestoreSecret, ClientConnects,
                ClientLeaves, AdminDropsUser, workerVars, apiVars
  <1>5. CASE UNCHANGED vars
    BY <1>i, <1>5 DEF vars, workerVars, apiVars, Backed, At
  <1> QED BY <1>1, <1>2, <1>3, <1>4, <1>5, NextCases DEF Otherwise

(* A login the provider created answers to a resource that is still there  *)
(* and has its finalizer, as long as no call fails, no client connects and *)
(* nobody else drops the user (mssql/user, Create and Delete).             *)
THEOREM NoLoginLeaks == Spec => []NoLeakedLogin
  <1> DEFINE Calm == faults = 0 => Undisturbed
  <1>1. Init => Calm /\ AllBacked
    <2> SUFFICES ASSUME Init PROVE Calm /\ AllBacked
      OBVIOUS
    <2>1. \A r \in Resources : /\ user[r].exists = FALSE /\ work[r].pc = "idle"
                               /\ mr[r].finalizer = FALSE
      BY InitTypes, PhasesOfWorkers, BlankTypes DEF Init
    <2>2. session = FALSE /\ login.exists = FALSE
      BY BlankTypes DEF Init
    <2> QED BY <2>1, <2>2 DEF Undisturbed, SeenTruly, AllBacked, Backed, At,
               ClaimedPhases, CreatePhases
  <1>2. TypeOK /\ LoginOwned /\ Claims /\ Calm /\ [Next]_vars => Calm'
    BY UndisturbedStep, FaultsStay
  <1>3. TypeOK /\ Claims /\ [Next]_vars => Claims'
    BY ClaimsStep DEF Claims
  <1>4. Init => Claims
    BY ClaimsInit
  <1>5. Calm /\ AllBacked => NoLeakedLogin
    BY DEF Undisturbed, Answers, AllBacked, Backed, NoLeakedLogin, NoLoginLeft
  <1> QED BY <1>1, <1>2, <1>3, <1>4, <1>5, UserTypeCorrect, LoginHasAnOwner,
             AllBackedStep, PTL DEF Spec
=============================================================================
