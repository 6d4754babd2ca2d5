--------------------------- MODULE SingleStoreRbac ---------------------------
(***************************************************************************)
(* The Role and Group managed resources of SingleStore and the access they *)
(* give together: pkg/controller/cluster/singlestore/{role,group}.         *)
(*                                                                         *)
(* A role is a bundle of privileges, each on a scope; a group joins roles  *)
(* and users, and a user has the privileges of the roles of its groups.    *)
(* The two controllers reconcile their objects without knowing of each     *)
(* other: a group names roles and users that may not be there yet, or be   *)
(* gone again, and the database drops the edges of what is dropped.        *)
(* Create and Update are queues of statements, one for every scope and     *)
(* direction of a role and one for every edge of a group, none of them in  *)
(* a transaction; the first one that fails ends the reconcile.             *)
(***************************************************************************)
EXTENDS Worker, Sequences

LOCAL Seqs == INSTANCE SequencesExt

CONSTANTS
    Roles, Groups, People, \* names; the managed ones are in Resources
    Scopes, Privileges

Grants == Scopes \X Privileges

ASSUME RbacAssumption ==
    /\ Resources \subseteq Roles \cup Groups
    /\ Roles \cap Groups = {}
    /\ Specs \subseteq [grants : SUBSET Grants, roles : SUBSET Roles,
                        users : SUBSET People]

VARIABLES
    there,    \* the roles and groups there are
    users,    \* the users there are
    grants,   \* grants[x]: the privileges of role x
    attached, \* <<x, g>>: role x is granted to group g
    member,   \* <<u, g>>: user u is a member of group g
    plan      \* plan[r]: the statements the worker of r has left

serverVars == <<there, users, grants, attached, member>>
vars == <<workerVars, serverVars, plan>>

Operations == {"create", "grant", "revoke", "attach", "detach", "add", "remove"}
Statements == [op : Operations, on : Roles \cup Groups,
               arg : SUBSET (Grants \cup Roles \cup People)]
Phases     == WorkerPhases \cup {"creating", "updating"}

TypeOK ==
    /\ WorkerTypes(Phases)
    /\ there \subseteq Roles \cup Groups
    /\ users \subseteq People
    /\ grants \in [Roles -> SUBSET Grants]
    /\ attached \subseteq Roles \X Groups
    /\ member \subseteq People \X Groups
    /\ plan \in [Resources -> Seq(Statements)]

------------------------------------------------------------------------------
(* The statements of a reconcile.                                          *)
Statement(op, x, arg) == [op |-> op, on |-> x, arg |-> arg]

(* One statement for all privileges of a scope, none for no privileges.    *)
OnScope(op, x, privileges, s) ==
    LET here == {g \in privileges : g[1] = s}
    IN  IF here = {} THEN <<>> ELSE <<Statement(op, x, here)>>

(* grant and revoke scope by scope, in the order of a Go map.              *)
RoleStatements(x, desired, observed, order) ==
    Seqs!FlattenSeq([i \in DOMAIN order |->
        OnScope("revoke", x, observed \ desired, order[i])
            \o OnScope("grant", x, desired \ observed, order[i])])

(* One statement for each name of a set.                                   *)
Each(op, g, names) ==
    LET sorted == Seqs!SetToSeq(names)
    IN  [i \in DOMAIN sorted |-> Statement(op, g, {sorted[i]})]

(* Mutant of GroupStatements: what is missing is added before what is too  *)
(* many is removed.                                                        *)
GroupAddsFirst(g, desired, hasRoles, hasUsers) ==
    Each("attach", g, desired.roles \ hasRoles)
        \o Each("add", g, desired.users \ hasUsers)
        \o Each("detach", g, hasRoles \ desired.roles)
        \o Each("remove", g, hasUsers \ desired.users)

(* reconcileEdges.                                                         *)
GroupStatements(g, desired, hasRoles, hasUsers) ==
    Each("detach", g, hasRoles \ desired.roles)
        \o Each("attach", g, desired.roles \ hasRoles)
        \o Each("remove", g, hasUsers \ desired.users)
        \o Each("add", g, desired.users \ hasUsers)

(* What SHOW GRANTS FOR ROLE, SHOW ROLES and SHOW USERS FOR GROUP show; a  *)
(* role without privileges shows USAGE, which is none.                     *)
PrivilegesOf(x) == grants[x]
RolesOf(g)   == {x \in Roles : <<x, g>> \in attached}
MembersOf(g) == {u \in People : <<u, g>> \in member}

(* The statements that turn what there is into what is desired.            *)
Needed(r, desired, order) ==
    IF r \in Roles
    THEN RoleStatements(r, desired.grants, PrivilegesOf(r), order)
    ELSE GroupStatements(r, desired, RolesOf(r), MembersOf(r))

(* The server executes a statement on what there is.                       *)
Accepted(s) ==
    CASE s.op = "create" -> s.on \notin there
      [] s.op = "attach" -> s.on \in there /\ s.arg \subseteq there
      [] s.op = "add"    -> s.on \in there /\ s.arg \subseteq users
      [] OTHER           -> s.on \in there

Executed(s) ==
    /\ there' = IF s.op = "create" THEN there \cup {s.on} ELSE there
    /\ grants' =
         CASE s.op = "grant"  -> [grants EXCEPT ![s.on] = @ \cup s.arg]
           [] s.op = "revoke" -> [grants EXCEPT ![s.on] = @ \ s.arg]
           [] OTHER           -> grants
    /\ attached' =
         CASE s.op = "attach" -> attached \cup (s.arg \X {s.on})
           [] s.op = "detach" -> attached \ (s.arg \X {s.on})
           [] OTHER           -> attached
    /\ member' =
         CASE s.op = "add"    -> member \cup (s.arg \X {s.on})
           [] s.op = "remove" -> member \ (s.arg \X {s.on})
           [] OTHER           -> member
    /\ UNCHANGED users

(* The edges and the privileges of a role or a group go with it.           *)
Dropped(x) ==
    /\ there' = there \ {x}
    /\ grants' = IF x \in Roles THEN [grants EXCEPT ![x] = {}] ELSE grants
    /\ attached' = {e \in attached : e[1] # x /\ e[2] # x}
    /\ member' = {e \in member : e[2] # x}
    /\ UNCHANGED users

------------------------------------------------------------------------------
(* Mutant of UpToDate: nobody looks at the members.                        *)
UpToDateRoles(r, desired) ==
    IF r \in Roles
    THEN PrivilegesOf(r) = desired.grants
    ELSE RolesOf(r) = desired.roles

UpToDate(r, desired) ==
    IF r \in Roles
    THEN PrivilegesOf(r) = desired.grants
    ELSE RolesOf(r) = desired.roles /\ MembersOf(r) = desired.users

(* Mutant of Observe: a role without privileges counts as no role.         *)
ObserveGranted(r) ==
    /\ At(r, "observe")
    /\ Observed(r, r \in there /\ (r \in Roles => grants[r] # {}),
                   UpToDate(r, work[r].spec))
    /\ UNCHANGED <<apiVars, boundVars, serverVars, plan>>

(* A role or group that is not there is told by the number of the error.   *)
Observe(r) ==
    /\ At(r, "observe")
    /\ Observed(r, r \in there, UpToDate(r, work[r].spec))
    /\ UNCHANGED <<apiVars, boundVars, serverVars, plan>>

(* CREATE ROLE or CREATE GROUP, and everything that is desired.            *)
Create(r) ==
    /\ At(r, "create")
    /\ \E order \in Seqs!SetToSeqs(Scopes) :
          plan' = [plan EXCEPT ![r] =
              <<Statement("create", r, {})>> \o
              (IF r \in Roles
               THEN RoleStatements(r, work[r].spec.grants, {}, order)
               ELSE GroupStatements(r, work[r].spec, {}, {}))]
    /\ Goes(r, "creating")
    /\ UNCHANGED <<apiVars, boundVars, serverVars>>

(* Update looks again; a group that is gone has no users to show.          *)
Update(r) ==
    /\ At(r, "update")
    /\ \E order \in Seqs!SetToSeqs(Scopes) :
          LET todo == Needed(r, work[r].spec, order)
          IN  IF r \in Groups /\ r \notin there
              THEN Ends(r) /\ UNCHANGED plan
              ELSE /\ plan' = [plan EXCEPT ![r] = todo]
                   /\ Goes(r, IF todo = <<>> THEN "publish" ELSE "updating")
    /\ UNCHANGED <<apiVars, boundVars, serverVars>>

Executing(r) == work[r].pc \in {"creating", "updating"}

(* A call that returns an error.                                           *)
Fails(r) ==
    /\ plan' = [plan EXCEPT ![r] = <<>>]
    /\ IF At(r, "creating") THEN Goes(r, "createFailed") ELSE Ends(r)

(* The next statement, and the end of Create or Update after the last one. *)
Execute(r) ==
    /\ Executing(r)
    /\ IF Accepted(Head(plan[r]))
       THEN /\ Executed(Head(plan[r]))
            /\ plan' = [plan EXCEPT ![r] = Tail(@)]
            /\ IF Tail(plan[r]) # <<>> THEN UNCHANGED work
               ELSE Goes(r, IF At(r, "creating") THEN "created" ELSE "publish")
       ELSE Fails(r) /\ UNCHANGED serverVars
    /\ UNCHANGED <<apiVars, boundVars>>

(* The connection is lost after the statement and before its answer.       *)
ExecuteUnanswered(r) ==
    /\ Executing(r)
    /\ Accepted(Head(plan[r]))
    /\ UseCredit
    /\ Executed(Head(plan[r]))
    /\ Fails(r)
    /\ UNCHANGED <<apiVars, edits>>

(* Mutant of Delete: the edges go and the object stays.                    *)
DeleteEdges(r) ==
    /\ At(r, "delete")
    /\ attached' = {e \in attached : e[1] # r /\ e[2] # r}
    /\ member' = {e \in member : e[2] # r}
    /\ Ends(r)
    /\ UNCHANGED <<apiVars, boundVars, there, users, grants, plan>>

(* DROP ROLE IF EXISTS or DROP GROUP; either way the next reconcile looks  *)
(* again.                                                                  *)
Delete(r) ==
    /\ At(r, "delete")
    /\ Dropped(r)
    /\ Ends(r)
    /\ UNCHANGED <<apiVars, boundVars, plan>>

------------------------------------------------------------------------------
(* What an administrator drops counts as a fault.                          *)
AdminDrops(x) ==
    /\ x \in there
    /\ UseCredit
    /\ Dropped(x)
    /\ UNCHANGED <<apiVars, work, edits, plan>>

(* Roles that no resource stands for are an administrator's to make.       *)
AdminMakesRole(x) ==
    /\ x \in Roles \ (Resources \cup there)
    /\ there' = there \cup {x}
    /\ UNCHANGED <<workerVars, users, grants, attached, member, plan>>

UserComes(u) ==
    /\ u \notin users
    /\ users' = users \cup {u}
    /\ UNCHANGED <<workerVars, there, grants, attached, member, plan>>

UserGoes(u) ==
    /\ u \in users
    /\ UseCredit
    /\ users' = users \ {u}
    /\ member' = {e \in member : e[1] # u}
    /\ UNCHANGED <<apiVars, work, edits, there, grants, attached, plan>>

(* The roles and users that nobody manages here are there to begin with.   *)
Init ==
    /\ WorkerInit
    /\ there = Roles \ Resources
    /\ users = People
    /\ grants = [x \in Roles |-> {}]
    /\ attached = {} /\ member = {}
    /\ plan = [r \in Resources |-> <<>>]

Reconcile(r) ==
    \/ (WorkerSteps(r) \/ Settled(r)) /\ UNCHANGED <<serverVars, plan>>
    \/ Observe(r) \/ Create(r) \/ Update(r) \/ Execute(r) \/ Delete(r)

Failure ==
    \/ /\ Crash \/ \E r \in Resources : CallFails(r, {"create", "creating"})
       /\ plan' = [r \in Resources |->
                      IF work'[r].pc \in {"creating", "updating"}
                      THEN plan[r] ELSE <<>>]
       /\ UNCHANGED serverVars
    \/ \E r \in Resources : ExecuteUnanswered(r)

Environment ==
    \/ /\ \E r \in Resources : Users(r)
       /\ UNCHANGED <<serverVars, plan>>
    \/ \E x \in Roles \cup Groups : AdminDrops(x) \/ AdminMakesRole(x)
    \/ \E u \in People : UserComes(u) \/ UserGoes(u)

Next == (\E r \in Resources : Reconcile(r)) \/ Failure \/ Environment
Spec == Init /\ [][Next]_vars

(* Every resource is requeued after an error and polled after a success.   *)
FairSpec == Spec /\ \A r \in Resources : WF_vars(Reconcile(r))

------------------------------------------------------------------------------
(* Every managed role and group follows the abstract life cycle: created   *)
(* under a finalizer, gone before the finalizer is given up, whatever an   *)
(* administrator, a failure half-way and the other controller do (role and *)
(* group, Observe, Create and Delete).                                     *)
Lifecycle(r) == INSTANCE ExternalLifecycle WITH
    claimed  <- mr[r].finalizer,
    external <- IF r \in there THEN "provider" ELSE "absent"
RbacLifecycle ==
    /\ \A r \in Resources : Lifecycle(r)!AInit
    /\ [][\A r \in Resources : Lifecycle(r)!ANext
             \/ UNCHANGED <<mr[r].finalizer, r \in there>>]_<<mr, there>>

(* A user comes to a role through a group only if the specification the    *)
(* worker goes by has both of them, or if the user is about to be removed: *)
(* roles and users too many go before those that are missing are added     *)
(* (group, reconcileEdges).                                                *)
Access(u, x, g) == <<u, g>> \in member /\ <<x, g>> \in attached
GainsOnlyWanted ==
    [][\A g \in Groups \cap Resources, u \in People, x \in Roles :
          ~Access(u, x, g) /\ Access(u, x, g)' =>
             /\ x \in work[g].spec.roles
             /\ u \in work[g].spec.users
                \/ \E i \in DOMAIN plan[g] :
                      plan[g][i] = Statement("remove", g, {u})]_vars

Waits(r) == Stopped(r) \/ mr[r].deleting

(* A group cannot be completed while a role or a user it names is missing. *)
Incomplete(g) == ~(spec[g].roles \subseteq there /\ spec[g].users \subseteq users)

(* What the specifications together promise comes about, however the two   *)
(* controllers' statements interleave, fail half-way and lose objects to   *)
(* each other or to an administrator: in the end every group joins the     *)
(* users and the privileges it should.                                     *)
Gets(u, g)     == IF u \in MembersOf(g)
                  THEN UNION {grants[x] : x \in RolesOf(g)} ELSE {}
Promised(u, g) == IF u \in spec[g].users
                  THEN UNION {IF x \in Resources THEN spec[x].grants
                              ELSE grants[x] : x \in spec[g].roles} ELSE {}
AccessConverges ==
    <>[](\A g \in Groups \cap Resources :
            \/ Incomplete(g) \/ \E r \in Resources : Waits(r)
            \/ \A u \in People : Gets(u, g) = Promised(u, g))

(* ... and deleted roles and groups go away, for good (role and group,     *)
(* Delete and Observe).                                                    *)
DeletionCompletes ==
    <>[](\A r \in Resources : mr[r].deleting => Stopped(r))
==============================================================================
