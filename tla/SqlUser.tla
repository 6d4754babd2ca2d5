------------------------------- MODULE SqlUser -------------------------------
(***************************************************************************)
(* The User managed resources of MySQL and SingleStore:                    *)
(* pkg/controller/cluster/{mysql,singlestore}/user (the namespaced MySQL   *)
(* controller is the same code over another API group).                    *)
(*                                                                         *)
(* A MySQL user has a password and resource options; an Update alters the  *)
(* options first and the password next, as two statements.  A SingleStore  *)
(* user has either a password or presents a token (JWT), and only the      *)
(* password is ever updated.  The statements of MySQL are written to the   *)
(* binary log, from which a replica follows, unless the resource says      *)
(* otherwise.  Every resource writes a connection secret; what is only     *)
(* ever set by CREATE USER and observed by nobody (REQUIRE SSL) is left    *)
(* out.                                                                    *)
(***************************************************************************)
EXTENDS Worker, Sequences

CONSTANTS
    Flavours,     \* the servers to look at: "mysql", "singlestore"
    OptionNames,  \* the resource options, in the order of their clauses
    Limits,       \* the values of an option
    DefaultLimit, \* what the server gives an option that is not set
    Generated,    \* passwords password.Generate can return
    MaxPassword   \* bound on rotations of the referenced password

Unset    == "unset"
Empty    == 0
Password == Nat \cup Generated
Options  == {OptionNames[i] : i \in DOMAIN OptionNames}

(* UserParameters of either flavour; nil resource options are options that *)
(* are all unset, and a binary log that is not spoken of is written.       *)
UserParameters == [options : [Options -> Limits \cup {Unset}],
                   jwt : BOOLEAN, binlog : BOOLEAN]

ASSUME UserAssumption ==
    /\ Flavours \subseteq {"mysql", "singlestore"}
    /\ OptionNames \in Seq(STRING)
    /\ DefaultLimit \in Limits /\ Unset \notin Limits
    /\ Generated # {} /\ Generated \cap Nat = {}
    /\ MaxPassword \in Nat \ {0}
    /\ Specs \subseteq UserParameters

VARIABLES
    flavour,     \* which server this is; never changes
    user,        \* user[r]: the user in the database
    replica,     \* replica[r]: the user on the replica
    switched,    \* somebody has changed a binlog field
    input,       \* the password in the referenced secret, Empty without one
    secretThere, \* the referenced secret exists
    output,      \* output[r]: the password in the connection secret of r
    pw,          \* pw[r]: the password Create or Update of r works with
    noted        \* noted[r]: status.atProvider of the worker's copy

serverVars == <<flavour, user, replica>>
secretVars == <<input, secretThere, output>>
memoryVars == <<pw, noted>>
vars == <<workerVars, serverVars, switched, secretVars, memoryVars>>

Defaults == [o \in Options |-> DefaultLimit]
Nothing  == [o \in Options |-> Unset]
NoUser   == [origin |-> "absent", pw |-> Empty, jwt |-> FALSE,
             options |-> Defaults]
UserRecord == [origin : {"absent", "provider", "other"}, pw : Password,
               jwt : BOOLEAN, options : [Options -> Limits]]

CreatePhases == {"create", "createUser"}
AlterPhases  == {"alterOptions", "readPassword", "alterPassword"}
Phases       == WorkerPhases \cup CreatePhases \cup AlterPhases

TypeOK ==
    /\ WorkerTypes(Phases)
    /\ flavour \in Flavours
    /\ user \in [Resources -> UserRecord]
    /\ replica \in [Resources -> {"absent", "present", "broken"}]
    /\ switched \in BOOLEAN
    /\ input \in Nat /\ secretThere \in BOOLEAN
    /\ output \in [Resources -> Password] /\ pw \in [Resources -> Password]
    /\ noted \in [Resources -> [Options -> Limits \cup {Unset}]]

------------------------------------------------------------------------------
Exists(r) == user[r].origin # "absent"

(* getPassword and isJWT.                                                  *)
HasPasswordRef == input # Empty
JWT(s) == flavour = "singlestore" /\ s.jwt
PasswordReadable(s) == JWT(s) \/ (HasPasswordRef => secretThere)

(* Mutant of PasswordChanged: any password that was published will do.     *)
PasswordPublished(r) == HasPasswordRef /\ output[r] = Empty

PasswordChanged(r) == HasPasswordRef /\ input # output[r]

(* resourceOptionsToClauses: the options that are set, in order.           *)
Clauses(options) ==
    SelectSeq([i \in DOMAIN OptionNames |->
                  <<OptionNames[i], options[OptionNames[i]]>>],
              LAMBDA clause : clause[2] # Unset)

(* Mutant of ChangedOptions: the first clause is the only one compared.    *)
ChangedFirst(existing, desired) ==
    desired # <<>> /\ desired[1] # existing[1]

(* changedResourceOptions compares the clauses by position.  What was      *)
(* observed has a clause for every option, so that the clauses at one      *)
(* position need not be of one option: a specification that leaves an      *)
(* option out finds a difference in every Update.                          *)
ChangedOptions(existing, desired) ==
    \E i \in DOMAIN desired : desired[i] # existing[i]

(* The statement sets the options that the specification has.              *)
WithOptions(options, desired) ==
    [o \in Options |-> IF desired[o] = Unset THEN options[o] ELSE desired[o]]

(* upToDate compares pointers: a MySQL user with resource options is never *)
(* up to date.                                                             *)
UpToDate(s) == flavour = "mysql" => \A o \in Options : s.options[o] = Unset

(* The session of a statement has sql_log_bin set (mysql, DSN).            *)
Logged(s) == flavour = "mysql" /\ s.binlog

(* The replica executes what is logged.  A CREATE USER of a user it has,   *)
(* and an ALTER USER of one it has not, stop it for good.                  *)
Replicated(r, s, statement) ==
    replica' =
      IF ~Logged(s) \/ replica[r] = "broken" THEN replica
      ELSE [replica EXCEPT ![r] =
              CASE statement = "drop"                    -> "absent"
                [] statement = "create" /\ @ = "absent"  -> "present"
                [] statement = "alter"  /\ @ = "present" -> "present"
                [] OTHER                                 -> "broken"]

------------------------------------------------------------------------------
(* Observe fails, or answers with what is there and notes the options.     *)
Answered(r, fails, exists, upToDate) ==
    /\ At(r, "observe")
    /\ IF fails THEN Ends(r) ELSE Observed(r, exists, upToDate)
    /\ noted' = IF flavour = "mysql" /\ exists /\ ~fails
                THEN [noted EXCEPT ![r] = user[r].options] ELSE noted
    /\ UNCHANGED <<apiVars, boundVars, serverVars, switched, secretVars, pw>>

(* Mutants of Observe: a missing secret is read as a missing user; a user  *)
(* that is not there is an error.                                          *)
ObserveMissingSecret(r) ==
    Answered(r, FALSE, Exists(r) /\ PasswordReadable(work[r].spec),
             (JWT(work[r].spec) \/ ~PasswordChanged(r)) /\ UpToDate(work[r].spec))
ObserveNoRows(r) ==
    Answered(r, ~Exists(r) \/ ~PasswordReadable(work[r].spec), Exists(r),
             (JWT(work[r].spec) \/ ~PasswordChanged(r)) /\ UpToDate(work[r].spec))

(* The password is only looked at when the user is there; a SingleStore    *)
(* user is unless SHOW GRANTS fails with the number of a missing grant.    *)
Observe(r) ==
    Answered(r, Exists(r) /\ ~PasswordReadable(work[r].spec), Exists(r),
             (JWT(work[r].spec) \/ ~PasswordChanged(r)) /\ UpToDate(work[r].spec))

(* identifiedClause: a token user has no password, any other the one that  *)
(* is referenced or else a generated one.                                  *)
ReadPassword(r) ==
    LET s == work[r].spec
    IN  /\ At(r, "create")
        /\ IF PasswordReadable(s)
           THEN /\ \E p \in IF JWT(s) THEN {Empty}
                            ELSE IF HasPasswordRef THEN {input} ELSE Generated :
                      pw' = [pw EXCEPT ![r] = p]
                /\ Goes(r, "createUser")
           ELSE Goes(r, "createFailed") /\ UNCHANGED pw
        /\ UNCHANGED <<apiVars, boundVars, serverVars, switched, secretVars, noted>>

(* CREATE USER, and what it makes; it fails when the user is there.        *)
Created(r) ==
    LET s == work[r].spec
    IN  /\ user' = [user EXCEPT ![r] =
               [origin |-> "provider", pw |-> pw[r], jwt |-> JWT(s),
                options |-> IF flavour = "mysql"
                            THEN WithOptions(Defaults, s.options) ELSE Defaults]]
        /\ Replicated(r, s, "create")

CreateUser(r) ==
    /\ At(r, "createUser")
    /\ IF Exists(r)
       THEN /\ Goes(r, "createFailed") /\ pw' = [pw EXCEPT ![r] = Empty]
            /\ UNCHANGED <<user, replica>>
       ELSE Goes(r, "created") /\ Created(r) /\ UNCHANGED pw
    /\ UNCHANGED <<apiVars, boundVars, flavour, switched, secretVars, noted>>

(* PublishConnection of what Create or Update has returned; no password is *)
(* returned of a token user, or by an Update that has not set one.         *)
Publish(r) ==
    /\ At(r, "publish")
    /\ output' = [output EXCEPT ![r] = IF pw[r] # Empty THEN pw[r] ELSE @]
    /\ pw' = [pw EXCEPT ![r] = Empty]
    /\ Settled(r)
    /\ UNCHANGED <<serverVars, switched, input, secretThere, noted>>

(* Update of MySQL starts with the options, and fails when fewer are known *)
(* than are wanted; that of SingleStore leaves a token user alone.         *)
Update(r) ==
    LET known  == Clauses(noted[r])
        wanted == Clauses(work[r].spec.options)
        toOptions == flavour = "mysql" /\ Len(known) >= Len(wanted)
                     /\ ChangedOptions(known, wanted)
    IN  /\ At(r, "update")
        /\ \/ flavour = "mysql" /\ Len(known) < Len(wanted) /\ Ends(r)
           \/ toOptions /\ Goes(r, "alterOptions")
           \/ JWT(work[r].spec) /\ Goes(r, "publish")
           \/ /\ ~toOptions /\ ~JWT(work[r].spec)
              /\ flavour = "mysql" => Len(known) >= Len(wanted)
              /\ Goes(r, "readPassword")
        /\ noted' = [noted EXCEPT ![r] = Nothing]
        /\ UNCHANGED <<apiVars, boundVars, serverVars, switched, secretVars, pw>>

AlterOptions(r) ==
    LET s == work[r].spec
    IN  /\ At(r, "alterOptions")
        /\ IF Exists(r)
           THEN /\ user' = [user EXCEPT ![r].options = WithOptions(@, s.options)]
                /\ Replicated(r, s, "alter")
                /\ Goes(r, "readPassword")
           ELSE Ends(r) /\ UNCHANGED <<user, replica>>
        /\ UNCHANGED <<apiVars, boundVars, flavour, switched, secretVars, memoryVars>>

(* UpdatePassword.                                                         *)
UpdatePassword(r) ==
    /\ At(r, "readPassword")
    /\ IF PasswordReadable(work[r].spec)
       THEN IF PasswordChanged(r)
            THEN pw' = [pw EXCEPT ![r] = input] /\ Goes(r, "alterPassword")
            ELSE Goes(r, "publish") /\ UNCHANGED pw
       ELSE Ends(r) /\ UNCHANGED pw
    /\ UNCHANGED <<apiVars, boundVars, serverVars, switched, secretVars, noted>>

(* ALTER USER ... IDENTIFIED BY makes a password user of a token user, too.*)
PasswordSet(r) ==
    /\ user' = [user EXCEPT ![r].pw = pw[r], ![r].jwt = FALSE]
    /\ Replicated(r, work[r].spec, "alter")

AlterPassword(r) ==
    /\ At(r, "alterPassword")
    /\ IF Exists(r)
       THEN PasswordSet(r) /\ Goes(r, "publish") /\ UNCHANGED pw
       ELSE /\ Ends(r) /\ pw' = [pw EXCEPT ![r] = Empty]
            /\ UNCHANGED <<user, replica>>
    /\ UNCHANGED <<apiVars, boundVars, flavour, switched, secretVars, noted>>

(* The statement is executed, and the connection lost before the answer.   *)
Unanswered(r) ==
    /\ Exists(r) = At(r, "alterPassword")
    /\ \/ At(r, "createUser") /\ Created(r) /\ Goes(r, "createFailed")
       \/ At(r, "alterPassword") /\ PasswordSet(r) /\ Ends(r)
    /\ UseCredit
    /\ pw' = [pw EXCEPT ![r] = Empty]
    /\ UNCHANGED <<apiVars, edits, flavour, switched, secretVars, noted>>

(* Mutant of Delete: DROP USER of a resource that is no longer logged.     *)
DeleteUnlogged(r) ==
    /\ At(r, "delete")
    /\ user' = [user EXCEPT ![r] = NoUser]
    /\ Ends(r)
    /\ UNCHANGED <<apiVars, boundVars, flavour, replica, switched, secretVars,
                   memoryVars>>

(* DROP USER IF EXISTS.                                                    *)
Delete(r) ==
    /\ At(r, "delete")
    /\ user' = [user EXCEPT ![r] = NoUser]
    /\ Replicated(r, work[r].spec, "drop")
    /\ Ends(r)
    /\ UNCHANGED <<apiVars, boundVars, flavour, switched, secretVars, memoryVars>>

------------------------------------------------------------------------------
RotatePassword ==
    /\ HasPasswordRef
    /\ input < MaxPassword
    /\ input' = input + 1
    /\ UNCHANGED <<workerVars, serverVars, switched, secretThere, output, memoryVars>>

RemoveOrRestoreSecret ==
    /\ HasPasswordRef
    /\ edits < MaxEdits
    /\ edits' = edits + 1
    /\ secretThere' = ~secretThere
    /\ UNCHANGED <<apiVars, work, faults, serverVars, switched, input, output, memoryVars>>

(* What an administrator does counts as a fault, and the replica follows.  *)
AdminDropsUser(r) ==
    /\ Exists(r)
    /\ UseCredit
    /\ user' = [user EXCEPT ![r] = NoUser]
    /\ replica' = [replica EXCEPT ![r] = IF @ = "broken" THEN @ ELSE "absent"]
    /\ UNCHANGED <<apiVars, work, edits, flavour, switched, secretVars, memoryVars>>

AdminAltersOptions(r) ==
    /\ Exists(r) /\ flavour = "mysql"
    /\ UseCredit
    /\ \E o \in Options, l \in Limits :
          /\ l # user[r].options[o]
          /\ user' = [user EXCEPT ![r].options[o] = l]
    /\ UNCHANGED <<apiVars, work, edits, flavour, replica, switched, secretVars, memoryVars>>

(* There may be a user before the resource, on the replica as the resource *)
(* has it.                                                                 *)
Init ==
    /\ WorkerInit
    /\ flavour \in Flavours
    /\ switched = FALSE
    /\ \E there \in [Resources -> {"absent", "other"}], p \in Generated :
          /\ user = [r \in Resources |-> [NoUser EXCEPT !.origin = there[r],
                         !.pw = IF there[r] = "other" THEN p ELSE Empty]]
          /\ replica = [r \in Resources |->
                            IF there[r] = "other" /\ Logged(spec[r])
                            THEN "present" ELSE "absent"]
    /\ input \in {Empty, 1} /\ secretThere = TRUE
    /\ output = [r \in Resources |-> Empty]
    /\ pw = [r \in Resources |-> Empty]
    /\ noted = [r \in Resources |-> Nothing]

CreateSteps(r) == ReadPassword(r) \/ CreateUser(r)
UpdateSteps(r) == Update(r) \/ AlterOptions(r) \/ UpdatePassword(r) \/ AlterPassword(r)

(* The write that adds the finalizer reads the resource back, and with it  *)
(* the status that was stored.                                             *)
Reconcile(r) ==
    \/ /\ WorkerSteps(r) \/ (At(r, "done") /\ Settled(r))
       /\ noted' = IF At(r, "claim") /\ ~mr[r].finalizer
                   THEN [noted EXCEPT ![r] = Nothing] ELSE noted
       /\ UNCHANGED <<serverVars, switched, secretVars, pw>>
    \/ Observe(r) \/ CreateSteps(r) \/ UpdateSteps(r) \/ Delete(r) \/ Publish(r)

(* What a worker holds is lost with it.                                    *)
Failure ==
    \/ /\ Crash \/ \E r \in Resources : CallFails(r, CreatePhases)
       /\ pw' = [r \in Resources |-> IF At(r, "idle")' \/ At(r, "createFailed")'
                                     THEN Empty ELSE pw[r]]
       /\ noted' = [r \in Resources |-> IF At(r, "idle")' THEN Nothing ELSE noted[r]]
       /\ UNCHANGED <<serverVars, switched, secretVars>>
    \/ \E r \in Resources : Unanswered(r)

Environment ==
    \/ /\ \E r \in Resources : Users(r)
       /\ switched' = (switched \/ \E r \in Resources :
                                      spec'[r].binlog # spec[r].binlog)
       /\ UNCHANGED <<serverVars, secretVars, memoryVars>>
    \/ RotatePassword \/ RemoveOrRestoreSecret
    \/ \E r \in Resources : AdminDropsUser(r) \/ AdminAltersOptions(r)

Next == (\E r \in Resources : Reconcile(r)) \/ Failure \/ Environment
Spec == Init /\ [][Next]_vars

(* Every resource is requeued after an error and polled after a success.   *)
FairSpec == Spec /\ \A r \in Resources : WF_vars(Reconcile(r))

------------------------------------------------------------------------------
(* The user follows the abstract life cycle: it is created under a         *)
(* finalizer and gone before the release, whatever fails, is edited or is  *)
(* dropped in between (user, Observe, Create and Delete).                  *)
Lifecycle(r) == INSTANCE ExternalLifecycle WITH
    claimed  <- mr[r].finalizer,
    external <- user[r].origin
UserLifecycle ==
    /\ \A r \in Resources : Lifecycle(r)!AInit
    /\ [][\A r \in Resources : Lifecycle(r)!ANext
             \/ UNCHANGED <<mr[r].finalizer, user[r].origin>>]_<<mr, user>>

(* A user whose password is not the published one is noticed, so that the  *)
(* password is set and published again, wherever an Update or a Create     *)
(* broke off and whatever it altered first (user, getPassword).            *)
StalePasswordIsNoticed ==
    \A r \in Resources :
        HasPasswordRef /\ Exists(r) /\ ~user[r].jwt /\ user[r].pw # output[r]
        => PasswordChanged(r)

(* As long as nobody changes the binlog field, the replica never stops at  *)
(* a statement of the provider, and it has the user when the server has,   *)
(* if the resource says so (clients/mysql, DSN).                           *)
ReplicaFollows ==
    ~switched =>
        \A r \in Resources :
            replica[r] = IF Exists(r) /\ Logged(spec[r])
                         THEN "present" ELSE "absent"

Waiting(r) == Stopped(r) \/ mr[r].deleting \/ ~PasswordReadable(spec[r])

(* The authentication of a SingleStore user is settled when it is created: *)
(* an edit of authPlugin may never be noticed.                             *)
AuthOutdated(r) == user[r].jwt # JWT(spec[r])

(* Once edits, rotations and failures end the user is there for good, with *)
(* the options that are set and with the referenced password, which is     *)
(* published (user, Update).                                               *)
UserConverges ==
    <>[](\A r \in Resources :
            \/ Waiting(r) \/ AuthOutdated(r)
            \/ /\ Exists(r)
               /\ flavour = "mysql" =>
                     user[r].options = WithOptions(user[r].options, spec[r].options)
               /\ HasPasswordRef /\ ~JWT(spec[r]) =>
                     user[r].pw = input /\ output[r] = input)

(* A deleted user goes away for good, unless its password secret was taken *)
(* away first (user, Observe and Delete).                                  *)
DeletionCompletes ==
    <>[](\A r \in Resources :
            mr[r].deleting => Stopped(r) \/ ~PasswordReadable(spec[r]))
==============================================================================
