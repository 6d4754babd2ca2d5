------------------------------ MODULE MssqlUser ------------------------------
(***************************************************************************)
(* MSSQL User managed resources with one external name, each in a database *)
(* of its own: pkg/controller/cluster/mssql/user (the namespaced           *)
(* controller is the same code over another API group).                    *)
(*                                                                         *)
(* A traditional user is two objects: a login of the server, which the     *)
(* resources share, and a user of the database.  Create and Delete take a  *)
(* statement for each, MSSQL has no transaction here, and Observe looks at *)
(* the user alone.  A contained user is one object with a password of its  *)
(* own.                                                                    *)
(***************************************************************************)
EXTENDS Worker

CONSTANTS
    HasPasswordRef,  \* spec.forProvider.passwordSecretRef is set
    Generated,       \* passwords password.Generate can return
    MaxPassword      \* bound on rotations of the referenced password

ASSUME UserAssumption ==
    /\ Specs \subseteq [contained : BOOLEAN]
    /\ HasPasswordRef \in BOOLEAN
    /\ Generated # {} /\ Generated \cap Nat = {}
    /\ MaxPassword \in Nat \ {0}

VARIABLES
    login,       \* the login of the server
    user,        \* user[r]: the user in the database of r
    session,     \* a client is connected with the login
    input,       \* the password in the referenced secret
    secretThere, \* the referenced secret exists
    output,      \* output[r]: the password in the connection secret of r
    pw           \* pw[r]: the password Create or Update of r works with

serverVars == <<login, user, session>>
secretVars == <<input, secretThere, output>>
vars == <<workerVars, serverVars, secretVars, pw>>

Empty    == 0
Password == Nat \cup Generated
Nobody   == "nobody"
NoLogin  == [exists |-> FALSE, by |-> Nobody, pw |-> Empty]
NoUser   == [exists |-> FALSE, pw |-> Empty]

CreatePhases == {"create", "createLogin", "createUser"}
Phases == WorkerPhases \cup CreatePhases \cup {"alter", "dropUser", "dropLogin"}

TypeOK ==
    /\ WorkerTypes(Phases)
    /\ login \in [exists : BOOLEAN, by : Resources \cup {Nobody}, pw : Password]
    /\ user \in [Resources -> [exists : BOOLEAN, pw : Password]]
    /\ session \in BOOLEAN
    /\ input \in Nat /\ secretThere \in BOOLEAN
    /\ output \in [Resources -> Password] /\ pw \in [Resources -> Password]

------------------------------------------------------------------------------
(* spec.forProvider.contained; users may not change it.                    *)
Contained(r) == spec[r].contained

(* getPassword.                                                            *)
PasswordReadable == HasPasswordRef => secretThere
NewPassword == IF HasPasswordRef THEN input ELSE Empty

PasswordChanged(r) == NewPassword # Empty /\ NewPassword # output[r]

(* Mutant of Observe: a missing secret is read as a missing user.          *)
ObserveMissingSecret(r) ==
    /\ At(r, "observe")
    /\ Observed(r, user[r].exists /\ PasswordReadable, ~PasswordChanged(r))
    /\ UNCHANGED <<apiVars, boundVars, serverVars, secretVars, pw>>

(* The login is not looked at.                                             *)
Observe(r) ==
    /\ At(r, "observe")
    /\ IF user[r].exists /\ ~PasswordReadable
       THEN Ends(r)
       ELSE Observed(r, user[r].exists, ~PasswordChanged(r))
    /\ UNCHANGED <<apiVars, boundVars, serverVars, secretVars, pw>>

(* Create: a referenced password that is not empty, or a generated one.    *)
ReadPassword(r) ==
    /\ At(r, "create")
    /\ IF PasswordReadable
       THEN /\ \E p \in IF NewPassword # Empty THEN {NewPassword} ELSE Generated :
                  pw' = [pw EXCEPT ![r] = p]
            /\ Goes(r, IF Contained(r) THEN "createUser" ELSE "createLogin")
       ELSE /\ Goes(r, "createFailed")
            /\ UNCHANGED pw
    /\ UNCHANGED <<apiVars, boundVars, serverVars, secretVars>>

(* CREATE LOGIN fails when the login is already there.                     *)
CreateLogin(r) ==
    /\ At(r, "createLogin")
    /\ IF login.exists
       THEN Goes(r, "createFailed") /\ UNCHANGED login
       ELSE /\ login' = [exists |-> TRUE, by |-> r, pw |-> pw[r]]
            /\ Goes(r, "createUser")
    /\ UNCHANGED <<apiVars, boundVars, user, session, secretVars, pw>>

(* CREATE USER ... WITH PASSWORD, or ... FOR LOGIN, which has to be there. *)
CreateUser(r) ==
    /\ At(r, "createUser")
    /\ IF user[r].exists \/ (~Contained(r) /\ ~login.exists)
       THEN Goes(r, "createFailed") /\ UNCHANGED user
       ELSE /\ user' = [user EXCEPT ![r] =
                   [exists |-> TRUE, pw |-> IF Contained(r) THEN pw[r] ELSE Empty]]
            /\ Goes(r, "created")
    /\ UNCHANGED <<apiVars, boundVars, login, session, secretVars, pw>>

(* Mutants of Publish: Update returns no connection details; the           *)
(* referenced secret is read again for them.                               *)
PublishCreated(r) ==
    /\ At(r, "publish")
    /\ output' = [output EXCEPT ![r] = IF @ = Empty THEN pw[r] ELSE @]
    /\ pw' = [pw EXCEPT ![r] = Empty]
    /\ Settled(r)
    /\ UNCHANGED <<serverVars, input, secretThere>>

PublishReadAgain(r) ==
    /\ At(r, "publish")
    /\ output' = [output EXCEPT ![r] = IF pw[r] # Empty THEN input ELSE @]
    /\ pw' = [pw EXCEPT ![r] = Empty]
    /\ Settled(r)
    /\ UNCHANGED <<serverVars, input, secretThere>>

(* PublishConnection, a step after the statements it tells of.             *)
Publish(r) ==
    /\ At(r, "publish")
    /\ output' = [output EXCEPT ![r] = IF pw[r] # Empty THEN pw[r] ELSE @]
    /\ pw' = [pw EXCEPT ![r] = Empty]
    /\ Settled(r)
    /\ UNCHANGED <<serverVars, input, secretThere>>

Update(r) ==
    /\ At(r, "update")
    /\ IF PasswordReadable
       THEN /\ pw' = [pw EXCEPT ![r] = IF PasswordChanged(r) THEN NewPassword
                                                             ELSE Empty]
            /\ Goes(r, "alter")
       ELSE Ends(r) /\ UNCHANGED pw
    /\ UNCHANGED <<apiVars, boundVars, serverVars, secretVars>>

(* ALTER USER of a contained user, ALTER LOGIN of any other.               *)
Alter(r) ==
    LET there == IF Contained(r) THEN user[r].exists ELSE login.exists
    IN  /\ At(r, "alter")
        /\ IF pw[r] # Empty /\ ~there
           THEN /\ Ends(r)
                /\ pw' = [pw EXCEPT ![r] = Empty]
                /\ UNCHANGED <<login, user>>
           ELSE /\ Goes(r, "publish")
                /\ login' = IF ~Contained(r) /\ pw[r] # Empty
                            THEN [login EXCEPT !.pw = pw[r]] ELSE login
                /\ user'  = IF Contained(r) /\ pw[r] # Empty
                            THEN [user EXCEPT ![r].pw = pw[r]] ELSE user
                /\ UNCHANGED pw
        /\ UNCHANGED <<apiVars, boundVars, session, secretVars>>

(* killLoginSessions, for a user with a login.                             *)
KillSessions(r) ==
    /\ At(r, "delete")
    /\ session' = (session /\ Contained(r))
    /\ Goes(r, "dropUser")
    /\ UNCHANGED <<apiVars, boundVars, login, user, secretVars, pw>>

(* Mutants of DropUser: the user is left to the login's removal, or kept.  *)
DropUserNever(r) ==
    /\ At(r, "dropUser")
    /\ IF Contained(r) THEN Ends(r) ELSE Goes(r, "dropLogin")
    /\ UNCHANGED <<apiVars, boundVars, serverVars, secretVars, pw>>

DropUserLater(r) ==
    /\ At(r, "dropUser")
    /\ IF Contained(r)
       THEN Ends(r) /\ user' = [user EXCEPT ![r] = NoUser]
       ELSE Goes(r, "dropLogin") /\ UNCHANGED user
    /\ UNCHANGED <<apiVars, boundVars, login, session, secretVars, pw>>

(* DROP USER IF EXISTS.                                                    *)
DropUser(r) ==
    /\ At(r, "dropUser")
    /\ user' = [user EXCEPT ![r] = NoUser]
    /\ IF Contained(r) THEN Ends(r) ELSE Goes(r, "dropLogin")
    /\ UNCHANGED <<apiVars, boundVars, login, session, secretVars, pw>>

(* Mutant of DropLogin: the login is left alone.                           *)
DropLoginNever(r) ==
    /\ At(r, "dropLogin")
    /\ Ends(r)
    /\ UNCHANGED <<apiVars, boundVars, serverVars, secretVars, pw>>

(* DROP LOGIN fails while somebody is connected with it, and when it is    *)
(* not there.                                                              *)
DropLogin(r) ==
    /\ At(r, "dropLogin")
    /\ login' = IF session THEN login ELSE NoLogin
    /\ Ends(r)
    /\ UNCHANGED <<apiVars, boundVars, user, session, secretVars, pw>>

------------------------------------------------------------------------------
(* The environment.  Clients that connect and administrators who drop a    *)
(* user draw on the bound of failures, secrets that are removed on the     *)
(* bound of edits.                                                         *)
RotatePassword ==
    /\ HasPasswordRef
    /\ input < MaxPassword
    /\ input' = input + 1
    /\ UNCHANGED <<workerVars, serverVars, secretThere, output, pw>>

RemoveOrRestoreSecret ==
    /\ HasPasswordRef
    /\ edits < MaxEdits
    /\ edits' = edits + 1
    /\ secretThere' = ~secretThere
    /\ UNCHANGED <<apiVars, work, faults, serverVars, input, output, pw>>

ClientConnects ==
    /\ login.exists /\ ~session
    /\ UseCredit
    /\ session' = TRUE
    /\ UNCHANGED <<apiVars, work, edits, login, user, secretVars, pw>>

ClientLeaves ==
    /\ session
    /\ session' = FALSE
    /\ UNCHANGED <<workerVars, login, user, secretVars, pw>>

AdminDropsUser(r) ==
    /\ user[r].exists
    /\ UseCredit
    /\ user' = [user EXCEPT ![r] = NoUser]
    /\ UNCHANGED <<apiVars, work, edits, login, session, secretVars, pw>>

Init ==
    /\ WorkerInit
    /\ login = NoLogin /\ session = FALSE
    /\ user = [r \in Resources |-> NoUser]
    /\ input = 1 /\ secretThere = TRUE
    /\ output = [r \in Resources |-> Empty]
    /\ pw = [r \in Resources |-> Empty]

CreateSteps(r) == ReadPassword(r) \/ CreateLogin(r) \/ CreateUser(r)
UpdateSteps(r) == Update(r) \/ Alter(r)
DeleteSteps(r) == KillSessions(r) \/ DropUser(r) \/ DropLogin(r)

Reconcile(r) ==
    \/ /\ WorkerSteps(r) \/ (At(r, "done") /\ Settled(r))
       /\ UNCHANGED <<serverVars, secretVars, pw>>
    \/ Observe(r) \/ CreateSteps(r) \/ UpdateSteps(r) \/ DeleteSteps(r)
    \/ Publish(r)

Failure ==
    /\ Crash \/ \E r \in Resources : CallFails(r, CreatePhases)
    /\ pw' = [r \in Resources |-> IF At(r, "idle")' THEN Empty ELSE pw[r]]
    /\ UNCHANGED <<serverVars, secretVars>>

Environment ==
    \/ /\ \E r \in Resources : DeleteMR(r) \/ ClearPendingMark(r)
       /\ UNCHANGED <<serverVars, secretVars, pw>>
    \/ RotatePassword \/ RemoveOrRestoreSecret
    \/ ClientConnects \/ ClientLeaves
    \/ \E r \in Resources : AdminDropsUser(r)

Next == (\E r \in Resources : Reconcile(r)) \/ Failure \/ Environment
Spec == Init /\ [][Next]_vars

(* Every resource is requeued after an error and polled after a success.   *)
FairSpec == Spec /\ \A r \in Resources : WF_vars(Reconcile(r))

------------------------------------------------------------------------------
(* The user of each database, contained or not, follows the abstract life  *)
(* cycle: it is created under a finalizer and gone before the release.     *)
Lifecycle(r) == INSTANCE ExternalLifecycle WITH
    claimed  <- mr[r].finalizer,
    external <- IF user[r].exists THEN "provider" ELSE "absent"
UserLifecycle ==
    /\ \A r \in Resources : Lifecycle(r)!AInit
    /\ [][\A r \in Resources : Lifecycle(r)!ANext
             \/ UNCHANGED <<mr[r].finalizer, user[r].exists>>]_<<mr, user>>

(* No user is left without the login it stands for, whatever two resources *)
(* of one name do to each other's login: a login is created before its     *)
(* user and dropped after it.                                              *)
NoDanglingUser ==
    \A r \in Resources : ~Contained(r) /\ user[r].exists => login.exists

(* A login the provider created answers to a resource.                     *)
NoLoginLeft ==
    login.exists =>
        \E r \in Resources : /\ login.by = r
                             /\ mr[r].present /\ mr[r].finalizer

(* ... which the code keeps up as long as no call fails, no client         *)
(* connects and nobody else drops the user.                                *)
NoLeakedLogin == faults = 0 => NoLoginLeft

(* A password that is set but not the published one is noticed, so that    *)
(* Update sets it again and publishes it.                                  *)
CurrentPassword(r) == IF Contained(r) THEN user[r].pw ELSE login.pw
StalePasswordIsNoticed ==
    HasPasswordRef =>
        \A r \in Resources :
            user[r].exists /\ CurrentPassword(r) # output[r] => PasswordChanged(r)

Waiting(r) == Stopped(r) \/ mr[r].deleting \/ ~PasswordReadable

(* Once drift, rotation and failures end, the user exists for good, and a  *)
(* contained one has the referenced password.                              *)
UserConverges ==
    <>[](\A r \in Resources : Waiting(r) \/ user[r].exists)
PasswordConverges ==
    <>[](\A r \in Resources : Contained(r) =>
            Waiting(r) \/ (/\ user[r].exists
                           /\ user[r].pw = input /\ output[r] = input))

(* A deleted resource goes away, with a login or without, unless the       *)
(* referenced secret is missing.                                           *)
DeletionCompletes ==
    <>[](\A r \in Resources :
            mr[r].deleting => Stopped(r) \/ ~PasswordReadable)
==============================================================================
