------------------------------ MODULE DiffGrant ------------------------------
(***************************************************************************)
(* The Grant managed resources of MySQL, SingleStore and MSSQL:            *)
(* pkg/controller/cluster/{mysql,singlestore,mssql}/grant.                 *)
(*                                                                         *)
(* A grant wants one user to hold a set of privileges on one target.       *)
(* Observe lists what the user holds there and compares the names; Update  *)
(* revokes the names too many and grants the names missing, as two         *)
(* statements and in no transaction.  On MySQL and SingleStore Update      *)
(* computes the difference from what Observe has noted in the status, on   *)
(* MSSQL it lists the permissions anew.                                    *)
(*                                                                         *)
(* MySQL shows a user who holds every privilege ALL PRIVILEGES, and the    *)
(* grant option as a clause that the provider treats as a privilege.       *)
(***************************************************************************)
EXTENDS Worker, FiniteSets

CONSTANTS
    Servers,    \* the servers to look at: "mysql" (SingleStore too), "mssql"
    Targets,    \* databases, tables, schemas
    Placements, \* how grants are placed on them
    Privileges  \* the privileges there are on a target

All    == "ALL"
Option == "GRANT OPTION"
Names  == Privileges \cup {All, Option}

ASSUME GrantAssumption ==
    /\ Servers \subseteq {"mysql", "mssql"}
    /\ Privileges # {} /\ All \notin Privileges /\ Option \notin Privileges
    /\ Placements \subseteq [Resources -> Targets]
    /\ Specs \subseteq SUBSET Names \ {{}}

VARIABLES
    server,  \* which server this is; never changes
    target,  \* target[r]: the target of r; never changes
    user,    \* the user exists
    held,    \* held[t]: what the user holds on t, Option included
    seen,    \* seen[r]: status.atProvider.privileges of the worker's copy
    plan,    \* plan[r]: what Update has left to revoke and to grant
    foreign  \* somebody else has granted a privilege

placeVars  == <<server, target>>
serverVars == <<user, held>>
memoryVars == <<seen, plan>>
vars == <<workerVars, placeVars, serverVars, memoryVars, foreign>>

NoPlan == [revoke |-> {}, grant |-> {}]
Plans  == [revoke : SUBSET Names, grant : SUBSET Names]
Phases == WorkerPhases \cup {"revoke", "grant"}

TypeOK ==
    /\ WorkerTypes(Phases)
    /\ server \in Servers /\ target \in [Resources -> Targets]
    /\ user \in BOOLEAN
    /\ held \in [Targets -> SUBSET (Privileges \cup {Option})]
    /\ seen \in [Resources -> SUBSET Names]
    /\ plan \in [Resources -> Plans]
    /\ foreign \in BOOLEAN

------------------------------------------------------------------------------
(* What the names of a statement stand for, and how a server shows what a  *)
(* user holds; the alias ALL PRIVILEGES of ALL is read as ALL.             *)
Meaning(names) ==
    (names \ {All}) \cup (IF All \in names THEN Privileges ELSE {})

Shown(privileges) ==
    IF server = "mysql" /\ Privileges \subseteq privileges
    THEN {All} \cup (privileges \ Privileges) ELSE privileges

Listed(r) == Shown(held[target[r]])

(* Mutant of Difference: what is too many stays.                           *)
DifferenceGrowing(desired, observed) ==
    [revoke |-> {}, grant |-> desired \ observed]

(* diffPermissions: names missing and names too many.                      *)
Difference(desired, observed) ==
    [revoke |-> observed \ desired, grant |-> desired \ observed]

(* A statement has to name a privilege besides the option, REVOKE has no   *)
(* clause WITH GRANT OPTION, MSSQL has no such privilege, and every        *)
(* statement needs the user.  On MySQL a REVOKE from somebody who holds    *)
(* nothing on the target fails, too.                                       *)
WellFormed(names) ==
    names \ {Option} # {} /\ (server = "mssql" => Option \notin names)
GrantAccepted(names) == user /\ WellFormed(names)
RevokeAccepted(names, t) ==
    /\ user /\ Option \notin names
    /\ server = "mysql" => held[t] # {}

Revoked(names, t) == [held EXCEPT ![t] = @ \ Meaning(names)]
Granted(names, t) == [held EXCEPT ![t] = @ \cup Meaning(names)]

------------------------------------------------------------------------------
(* Observe of MySQL and SingleStore notes the privileges, which only an    *)
(* Update of the same reconcile reads.                                     *)
Notes(r, names) ==
    seen' = IF server = "mysql" /\ ~work[r].deleting /\ names # work[r].spec
            THEN [seen EXCEPT ![r] = names] ELSE seen

(* Mutant of Observe: a user without any of the desired privileges counts  *)
(* as one without the grant.                                               *)
ObserveDesired(r) ==
    /\ At(r, "observe")
    /\ Notes(r, Listed(r))
    /\ Observed(r, Listed(r) \cap work[r].spec # {},
                   Difference(work[r].spec, Listed(r)) = NoPlan)
    /\ UNCHANGED <<apiVars, boundVars, placeVars, serverVars, plan, foreign>>

(* A user who does not exist, or holds nothing, has no grant.              *)
Observe(r) ==
    /\ At(r, "observe")
    /\ Notes(r, Listed(r))
    /\ Observed(r, Listed(r) # {},
                   Difference(work[r].spec, Listed(r)) = NoPlan)
    /\ UNCHANGED <<apiVars, boundVars, placeVars, serverVars, plan, foreign>>

Create(r) ==
    /\ At(r, "create")
    /\ IF GrantAccepted(work[r].spec)
       THEN held' = Granted(work[r].spec, target[r]) /\ Goes(r, "created")
       ELSE Goes(r, "createFailed") /\ UNCHANGED held
    /\ UNCHANGED <<apiVars, boundVars, placeVars, user, memoryVars, foreign>>

(* The statement is executed, and the connection lost before the answer.   *)
CreateUnanswered(r) ==
    /\ At(r, "create")
    /\ GrantAccepted(work[r].spec)
    /\ UseCredit
    /\ held' = Granted(work[r].spec, target[r])
    /\ Goes(r, "createFailed")
    /\ UNCHANGED <<apiVars, edits, placeVars, user, memoryVars, foreign>>

(* The next statement of an Update that has p left to do.                  *)
NextStatement(p) ==
    IF p.revoke # {} THEN "revoke"
    ELSE IF p.grant # {} THEN "grant" ELSE "publish"

Update(r) ==
    /\ At(r, "update")
    /\ LET p == Difference(work[r].spec,
                           IF server = "mysql" THEN seen[r] ELSE Listed(r))
       IN  plan' = [plan EXCEPT ![r] = p] /\ Goes(r, NextStatement(p))
    /\ seen' = [seen EXCEPT ![r] = {}]
    /\ UNCHANGED <<apiVars, boundVars, placeVars, serverVars, foreign>>

Revoke(r) ==
    /\ At(r, "revoke")
    /\ IF RevokeAccepted(plan[r].revoke, target[r])
       THEN /\ held' = Revoked(plan[r].revoke, target[r])
            /\ plan' = [plan EXCEPT ![r].revoke = {}]
            /\ Goes(r, NextStatement([plan[r] EXCEPT !.revoke = {}]))
       ELSE /\ Ends(r)
            /\ plan' = [plan EXCEPT ![r] = NoPlan]
            /\ UNCHANGED held
    /\ UNCHANGED <<apiVars, boundVars, placeVars, user, seen, foreign>>

Grant(r) ==
    /\ At(r, "grant")
    /\ IF GrantAccepted(plan[r].grant)
       THEN held' = Granted(plan[r].grant, target[r]) /\ Goes(r, "publish")
       ELSE Ends(r) /\ UNCHANGED held
    /\ plan' = [plan EXCEPT ![r] = NoPlan]
    /\ UNCHANGED <<apiVars, boundVars, placeVars, user, seen, foreign>>

(* Mutant of Delete: the grant option alone is taken away.                 *)
DeleteOption(r) ==
    /\ At(r, "delete")
    /\ held' = [held EXCEPT ![target[r]] = @ \ {Option}]
    /\ Ends(r)
    /\ UNCHANGED <<apiVars, boundVars, placeVars, user, memoryVars, foreign>>

(* One REVOKE of the desired privileges; whatever it returns, the next     *)
(* reconcile looks again.                                                  *)
Delete(r) ==
    /\ At(r, "delete")
    /\ held' = IF RevokeAccepted(work[r].spec, target[r])
               THEN Revoked(work[r].spec, target[r]) ELSE held
    /\ Ends(r)
    /\ UNCHANGED <<apiVars, boundVars, placeVars, user, memoryVars, foreign>>

------------------------------------------------------------------------------
(* What an administrator does counts as a fault.                           *)
AdminGrants ==
    /\ user
    /\ UseCredit
    /\ foreign' = TRUE
    /\ \E t \in Targets, p \in Privileges : held' = [held EXCEPT ![t] = @ \cup {p}]
    /\ UNCHANGED <<apiVars, work, edits, placeVars, user, memoryVars>>

(* The privileges of a user go with the user.                              *)
UserGoes ==
    /\ user
    /\ UseCredit
    /\ user' = FALSE
    /\ held' = [t \in Targets |-> {}]
    /\ UNCHANGED <<apiVars, work, edits, placeVars, memoryVars, foreign>>

UserComes ==
    /\ ~user
    /\ user' = TRUE
    /\ UNCHANGED <<workerVars, placeVars, held, memoryVars, foreign>>

Init ==
    /\ WorkerInit
    /\ server \in Servers /\ target \in Placements
    /\ user \in BOOLEAN
    /\ held = [t \in Targets |-> {}]
    /\ seen = [r \in Resources |-> {}]
    /\ plan = [r \in Resources |-> NoPlan]
    /\ foreign = FALSE

UpdateSteps(r) == Update(r) \/ Revoke(r) \/ Grant(r)
Changes(r)     == Create(r) \/ UpdateSteps(r) \/ Delete(r)

Reconcile(r) ==
    \/ /\ WorkerSteps(r) \/ Settled(r)
       /\ UNCHANGED <<placeVars, serverVars, memoryVars, foreign>>
    \/ Observe(r) \/ Changes(r)

(* What a worker holds is lost with it.                                    *)
Failure ==
    \/ /\ Crash \/ \E r \in Resources : CallFails(r, {"create"})
       /\ plan' = [r \in Resources |-> IF At(r, "idle")' THEN NoPlan ELSE plan[r]]
       /\ seen' = [r \in Resources |-> IF At(r, "idle")' THEN {} ELSE seen[r]]
       /\ UNCHANGED <<placeVars, serverVars, foreign>>
    \/ \E r \in Resources : CreateUnanswered(r)

Environment ==
    \/ /\ \E r \in Resources : Users(r)
       /\ UNCHANGED <<placeVars, serverVars, memoryVars, foreign>>
    \/ AdminGrants \/ UserGoes \/ UserComes

Next == (\E r \in Resources : Reconcile(r)) \/ Failure \/ Environment
Spec == Init /\ [][Next]_vars

(* Every resource is requeued after an error and polled after a success.   *)
FairSpec == Spec /\ \A r \in Resources : WF_vars(Reconcile(r))

------------------------------------------------------------------------------
(* What a user holds on a target answers to a grant that is still there to *)
(* revoke it, however grants share targets, are edited, fail half-way and  *)
(* are deleted, as long as nobody else grants: Observe calls a grant gone  *)
(* only when nothing is held (grant, Observe and Delete).                  *)
NoOrphanedPrivilege ==
    ~foreign =>
        \A t \in Targets :
            held[t] # {} => \E r \in Resources : target[r] = t /\ mr[r].finalizer

Alone(r) ==
    \A q \in Resources \ {r} : target[q] = target[r] => ~mr[q].present

(* A specification that the server shows the way it is spelled: not one    *)
(* that lists every privilege of MySQL by name.                            *)
Canonical(s) == Shown(Meaning(s)) = s

(* Nobody else was ever given the target of this grant.                   *)
Apart(r) == \A q \in Resources \ {r} : target[q] # target[r]

(* An Update that reports success leaves the user no more than what the    *)
(* specification means, and when nothing failed in between exactly that,   *)
(* whatever was held, however it is shown, and from whichever reconcile    *)
(* the note in the status is; that is for a grant with a target of its own *)
(* (Observe, Update and diffPermissions).                                  *)
UpdateDelivers ==
    [][\A r \in Resources :
          /\ work[r].pc \in {"revoke", "grant"} /\ work'[r].pc = "publish"
          /\ Apart(r) /\ ~foreign /\ Canonical(work[r].spec)
          => /\ held'[target[r]] \subseteq Meaning(work[r].spec)
             /\ faults = 0 => held'[target[r]] = Meaning(work[r].spec)]_vars

(* The next statement is one that no server accepts.                       *)
Refused(r) ==
    LET p == Difference(spec[r], Listed(r))
    IN  \/ Option \in p.revoke
        \/ p.revoke = {} /\ p.grant # {} /\ ~WellFormed(p.grant)

(* A grant that has its target to itself settles on its specification once *)
(* edits, failures and other grantors end, whatever it was interrupted in. *)
GrantsConverge ==
    <>[](\A r \in Resources :
            \/ Stopped(r) \/ mr[r].deleting \/ ~user \/ ~Alone(r)
            \/ ~Canonical(spec[r]) \/ Refused(r)
            \/ Listed(r) = spec[r])

(* A deleted grant that has its target to itself goes away for good, or is *)
(* left with nothing but privileges that its specification does not name,  *)
(* as after an edit that Update did not get to, or with the grant option,  *)
(* which its REVOKE cannot spell (grant, Delete and createRevokeQuery).    *)
Leftover(r) ==
    held[target[r]] # {}
    /\ (held[target[r]] \cap Meaning(spec[r]) = {} \/ Option \in spec[r])
DeletionCompletes ==
    <>[](\A r \in Resources :
            mr[r].deleting /\ Alone(r) => Stopped(r) \/ Leftover(r))
==============================================================================
