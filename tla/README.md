# provider-sql in TLA+

provider-sql is a Crossplane provider: it turns Kubernetes objects (*managed
resources*) into databases, users, roles and grants of PostgreSQL, MySQL, MSSQL
and SingleStore servers. Each kind of resource has a controller made of
`Connect`, `Observe`, `Create`, `Update` and `Delete`; the managed reconciler of
crossplane-runtime calls them. This directory holds TLA+ models of the
controllers whose behaviour depends on the order of things, TLC configurations
that check them on small instances, and proofs.

## The system

A controller is called in a loop, by one worker per resource at a time (five
workers per controller run for different resources). One reconcile is

    get -> [creation incomplete? stop] -> Connect -> Observe
        -> deleted and exists:      Delete, end
        -> deleted and gone:        remove the finalizer, end
        -> add the finalizer -> [persist late initialisation]
        -> missing: write create-pending -> Create -> record the outcome -> publish
        -> different: Update -> publish
        -> end (write the status)

Between any two of these arrows, and between any two SQL statements within
Create, Update and Delete, a user can edit or delete the resource, an
administrator or another resource's worker can change the database, a call can
fail, and the process can end. Nothing is kept in memory across reconciles except
the registry of TLS configurations, which every connection of the process reads.

| Component | State | Operations | What is hard | What makes it correct |
|---|---|---|---|---|
| PostgreSQL Role | role attributes, limit, parameters, password; status; password secret; connection secret | Create (CREATE ROLE, one ALTER per parameter), Update (four statements or transactions), Delete | half-done Creates and Updates; two secrets and a role that must agree; a status the API server overwrites; comparison by pointer | no orphan; a stale password is noticed; attributes and password converge |
| PostgreSQL Grant | access control lists | Observe compares exact sets; Create is REVOKE and GRANT in a transaction; Update is empty; Delete is REVOKE | resources that share an object; edits; commits that fail | nothing leaks; no privilege is lost by a Create |
| PostgreSQL DefaultPrivileges | access control lists for objects to come, per target role, schema and type | REVOKE ALL and GRANT in a transaction; Update is empty | Observe asks for neither the schema nor the target role | as Grant |
| PostgreSQL Database, Schema, Extension | one object each, two of them inside the first | late initialisation; Update as a list of ALTERs, or as nothing | partial Updates, a late write against an edit, a database that goes first | no edit is lost; life cycle; fields converge; deletion in any order |
| MySQL User | user, resource options, password; status; two secrets; the binary log | CREATE USER, ALTER USER twice | as Role, and a replica that follows the log | a stale password is noticed; the replica never stops; life cycle; options and password converge |
| MySQL, MSSQL and SingleStore Grant | privileges of a user on a database or table | Observe lists them; Update is REVOKE then GRANT of a difference | not one transaction; a status that is old when used; resources that share a target | nothing held without a grant; an Update that reports success has delivered; a grant alone on its target converges |
| MySQL TLS registry | one table per process | read CA, certificate and key, register, use by name later | two workers register under one name; secrets that are rotated between two reads | a connection uses its own configuration; the registry catches up |
| MSSQL User | login of the server, user of the database | two statements for Create and for Delete, KILL in front | half-done Creates and Deletes; one login for several resources | no user without login, no login left |
| MSSQL and MySQL Database | one database each | CREATE, ALTER of character set and collation, DROP | late initialisation as above | as Database |
| SingleStore User | user, password or token | as MySQL User, without options | as Role; the authentication is settled at creation | as MySQL User |
| SingleStore Group, Role | groups, roles, edges, privileges | differences of sets, statement by statement | partial Creates and Updates; one controller drops what the other names | a user's access is in the end the one both specifications promise; in passing, a user who stays gains no other |
| Provider configurations | ProviderConfig, tracked uses | track the use, read the configuration; add a finalizer, count the uses of a deleted one, release it | the configuration is deleted before what it gives access to; a use recorded between the count and the release; kinds that nothing watches | a configuration outlives the objects of the resources it was given to while it had its finalizer and was not deleted; both go away |
| SQL clients | none | Exec, ExecTx, Query, Scan | the error of the commit is dropped | success means committed |
| Start-up | flags, the lease | set up controllers in order, elect a leader, run | several processes with several selections of flavours, take-over | every flavour asked for is reconciled by somebody |

`PROJECT.json` lists the same components with their sources and the state of the
work on them, and the hazards at their lines. The namespaced controllers
(`pkg/controller/namespaced`) are the code of the cluster ones over another API
group, and the models stand for both: the `map` names now the one copy, now the
other. `Setup` and `Connect` of a controller are mapped where the model has what
they decide: that a resource is watched and reconciled again (`Next`, `Spec`,
`FairSpec`), how a reconcile fails before it has observed anything (`Failure`),
which database it talks to.

## Modules

| Module | Stands for |
|---|---|
| `Managed` | the metadata of a resource and what the managed reconciler and the API server do with it: finalizer, deletion timestamp, creation marks, where a reconcile goes after Observe. External code, constant-level operators |
| `Worker` | the steps of the managed reconciler that touch the API server alone, for several resources with a worker each; users who edit and delete; failing calls and crashes. External code |
| `WorkerProofs` | lemmas about the steps of `Worker`, which the proofs about its users share |
| `ExternalLifecycle` | abstract specification: a claimed resource, an external object, and the promise that ties them |
| `PgRole`, `MCPgRole`, `PgRoleProofs` | the Role controller of PostgreSQL, its instances, its theorems |
| `PgGrant`, `MCPgGrant`, `PgGrantProofs` | the Grant and DefaultPrivileges controllers of PostgreSQL |
| `MssqlUser`, `MCMssqlUser`, `MssqlUserProofs` | the User controller of MSSQL, its instances, its theorems |
| `DiffGrant`, `MCDiffGrant`, `DiffGrantProofs` | the Grant controllers of MySQL, SingleStore and MSSQL |
| `SingleStoreRbac`, `MCSingleStoreRbac` | the Role and Group controllers of SingleStore, composed over one database |
| `SqlUser`, `MCSqlUser`, `SqlUserProofs` | the User controllers of MySQL and SingleStore |
| `SqlObjects`, `MCSqlObjects`, `SqlObjectsProofs` | the Database, Schema and Extension controllers of PostgreSQL, composed over one server, and the Database controllers of MySQL and MSSQL |
| `Provider`, `MCProvider`, `ProviderProofs` | the processes, their flavours and leases, the look-up of ProviderConfigs and the TLS registry, composed with a schematic controller |

Every component module but `PgRole` and `Provider` extends `Worker`, which
extends `Managed`; `PgRole` extends `Managed` alone. A definition `TypeOK` states
the type of every variable; except in `SingleStoreRbac`, where it documents the
state, it is proved for every instance.

### PgRole

One resource and its role. `mr`, `spec` and `status` are the resource in the API
server; `input`/`secretThere` the referenced password secret, `output` the
connection secret; `role` the role. `pc`, `mg`, `pw` and `dirty` are the worker:
where its reconcile is, its copy of the resource with what Observe found, the
password Create or Update works with, and whether the resource changed since the
copy was taken (a write would be refused with a conflict).

`ObserveAbsent`, `ObserveRole` and `ObserveSecretMissing` are the ways through
`Observe`. `CreateReadPassword` to `CreateReturns` are `Create`;
`UpdateReadPassword`, `AlterPassword`, `AlterPrivs`, `AlterParams` and
`AlterLimit` are `Update`, one per statement or transaction, and `UpdateRefused`
its error returns; `DropRole` is `Delete`. `LateInit`, `UpToDate`,
`ChangedPrivs` and `PasswordChanged` are the functions of those names. Two facts
of the code shape the model: `upToDate` compares pointers, so a role with any
field set is never up to date, and a write of the resource decodes the server's
reply over the worker's copy, status included (`Overwritten`).

Attributes are kept as a function from attribute names; the clauses of a
statement come in one fixed order, so comparing them by position
(`changedPrivs`) is comparing them by name as soon as the lists are equally long,
and the length check is `Comparable`.

### PgGrant

Several resources of one role. `acl[o][p]` says how the role holds privilege `p`
on object `o`: not, plain, or with grant option. The nine kinds of grant (table,
column, schema, sequence, routine, database, foreign server, foreign data
wrapper, membership) run the same steps over different SQL, so an object is a
model value and a membership is the one privilege of the object `memberOf`.
`GrantExists` is the select query: on every object exactly the desired
privileges, among those held with the desired grant option. `ExpandPrivileges` is
the replacement of `ALL`, with and without `MAINTAIN`; `GrantTypesOf` is
`IdentifyGrantType`, and a grant that an edit has left without a type fails in
`Observe`, when it is being deleted too. `Create` is one step because `ExecTx`
runs it in one transaction; `LoseCommit` is the commit that fails unseen.
`revokePublicOnDb` is applied by `Create` of a grant on a database, and ignored by
that of every other kind (`ShutsPublic`), whatever its documentation says; nothing
else reads it, so setting it on an existing grant has no effect.

Default privileges are lists like the others, of the objects a target role will
create in a schema; `Defaults` are those for one type of object.
`ObserveDefaults` reads all of them together, whatever their schema, target role
and grant option (`DefaultsFound`), and compares with the privileges as they are
spelled; `CreateDefaults` and `DeleteDefaults` write one list. It follows that
two resources about one role and type answer for each other: with equal
privileges the second is never created and neither is ever found gone while the
other lives; with different ones both are created again for ever, and released
without a REVOKE. `ALL` is not expanded before the comparison, so such a resource
is never found either: it is created again for ever, and released without a
REVOKE. The properties exempt such pairs and such a resource (`Disjoint`,
`Contested`, `SpelledOut`).

Grantors other than the provider's own user are left out.

### MssqlUser

Several resources of one external name, each in its own database, so that they
share the login. The two statements of `Create`, the three of `Delete` and the
publishing of the password are steps of their own. `session` says that a client
is connected with the login: `KillSessions` clears it, `ClientConnects` sets it
again, and `DropLogin` fails while it is set. `login.by` remembers whose Create
made the login; no step reads it but the property does. When a resource ends its
connection secret is not cleared in the model: a gone resource is never looked
at again.

### DiffGrant

Several grants of one user. `server` (the kind of server) and `target[r]` are
rigid: they are chosen by `Init` and never change, so that one run covers both
kinds and every way of sharing. `held[t]` is what the user holds on a target;
`Shown` is how the server lists it, `Meaning` what the names of a statement stand
for. `seen[r]` is `status.atProvider.privileges` of the worker's copy, from which
`Update` of MySQL and SingleStore computes `plan[r]`; MSSQL lists again.
`Revoke` and `Grant` are the two statements of an Update, each of which may be
refused (`RevokeAccepted`, `GrantAccepted`): a list that is empty without the
option, `REVOKE ... WITH GRANT OPTION`, a user who is gone. Four properties of
the code limit what can be promised, and the properties say so: a grant that
lists every privilege by name is shown as `ALL PRIVILEGES` and never up to date
(`Canonical`); a change of the option alone is refused (`Refused`); Delete
revokes the privileges of the specification and none that an earlier one had, and
none at all if the option is among them (`Leftover`); two grants on one target
undo each other (`Alone`). Nor does an Update leave alone what is wanted before and
after: the difference is one of names, so that widening `SELECT` to `ALL` revokes
`SELECT` before it grants `ALL`, and no property says otherwise. Hosts, column lists, `TABLE`/`SCHEMA` clauses and the
parsing of a line of `SHOW GRANTS` are left out.

### SingleStoreRbac

Roles and groups, each with a resource or an administrator's; `attached` and
`member` are the edges of groups to roles and users. `Create` and `Update` put
the statements into `plan[r]` in the order of the code (`RoleStatements`: scope
by scope in the arbitrary order of a Go map; `GroupStatements`: roles before
users, removals before additions, names sorted), and `Execute` runs the next one
against the database as it is then. A statement about a role, group or user that
is not there fails and ends the reconcile; the rest is left to a later one.
Observe's two queries are one step. In passing, `GainsOnlyWanted` allows one thing:
that a user who is about to leave the group comes to a role it is just being
given, because roles are added before users are removed. A group that goes from
`reader` with user `u` to `writer` without gives `u` the role `writer` for the time
between two statements.

### SqlUser

Several users of one server, MySQL or SingleStore (`flavour`, rigid). `input`,
`secretThere` and `output[r]` are the secrets as in `PgRole`; `noted[r]` is
`status.atProvider` of the worker's copy, from which `Update` computes the
changed options by position (`ChangedOptions`, with clauses for every option on
one side and for those that are set on the other), and which the write of the
finalizer overwrites. `Update`, `AlterOptions`, `UpdatePassword` and
`AlterPassword` are the steps of Update, `ReadPassword` and `CreateUser` those of
Create. `replica[r]` is the user on a replica that follows the binary log: a
statement that is written to it and does not fit stops the replica for good. A
SingleStore user with an authentication plugin (`jwt`) has no password; whether
it has one is settled when it is created, since nothing observes it.

### SqlObjects

`kind[r]` (rigid) says which of the five objects a resource is, and a schema or
an extension lives in the database of another resource, named by a reference
that is resolved once (`Resolve`). `object[r]` is the object, with the facts
Observe reads; `late[r]` says that the worker has late initialised its copy and
has to write it (`WriteLateInit`) before it goes on; `todo[r]` is what Update has
left, one ALTER after the other. `wrote[r]` is history: what the users wrote last.
Encoding stands for every field that only CREATE DATABASE sets, template for
those with an ALTER of their own. `Dropped` takes along what lives in a database,
`DropRefused` is a schema with tables and a template. `closed` are the databases
whose schema `public` a Schema with `revokePublicOnSchema` has closed: it is that
one the statement names, as the field's documentation says. A version of an
extension and an encoding that differ are found different for ever, and nothing
alters them (`Pinned`).

### Provider

`deployment` (rigid) is what two processes are started with, and which resources
use which ProviderConfigs. `Setup` goes through the names of `SetupSelected` one
by one, `Start` waits for the lease, `Crash` is a restart. `Track` to `Register`
are `Connect`; `Query` is any statement of the controller, on a connection of its
own that looks its TLS configuration up by name.

`config[c]` is the life of a ProviderConfig: new, present with a finalizer, deleting,
gone; `deployment.claimed` are those that have had the finalizer since before. Its
reconciler, which is crossplane-runtime's, adds the finalizer at some time
(`ClaimConfig`), lists the uses of a deleted configuration (`CountUses`, remembered
in `counted`) and removes the finalizer in a later call (`ReleaseConfig`). `served`
is history: the resources that have been given their configuration while it had
its finalizer and was not deleted. For those, and no others, `ConfigOutlivesObjects`
holds. One race is left open by the code and is in the model: after a count of
zero a worker records its use, is given the configuration, which is deleted but
there (`Connect` does not look at the deletion timestamp), the configuration is
released, and the worker creates an object that nothing can drop any more. The same
happens with a configuration that is used, and deleted, before it has a finalizer.
Reads of the API server are taken to be current; the client of the provider reads
a cache, which can make these windows longer.

Two facts of the code limit what can be promised. ProviderConfigs of one name in
two namespaces or scopes register under one name and do reconfigure each other
(`Clash`). And the namespaced PostgreSQL and MSSQL packages set up no controller
for ClusterProviderConfigs, so that one never gets a finalizer (`Watched`):
when it is deleted first, what it gives access to can no longer be dropped.

## Runs

| Run | Shows |
|---|---|
| `PgRole` | no orphaned role, every stale password noticed, the abstract life cycle implemented; attributes, parameters, limit and password converge and a deleted resource goes away, under edits, rotations, removed secrets, drift, lost commits, failures and crashes |
| `PgRoleReusedPassword` | violation: a rotation that is taken back leaves the role with the other password |
| `PgGrant` | grants that overlap nothing leave nothing behind, no Create takes a privilege away, a grant settles, a deleted one goes away; with default privileges among the resources, and a grant on a database that PUBLIC shall not reach, next to grants on tables that set the field without effect |
| `PgGrantLostCommit` | violation: a commit that failed is reported as a success |
| `MssqlUser` | no user without its login, no stale password unnoticed, the life cycle of the user; no login left without failures and reconnects; passwords converge, deletion completes |
| `MssqlUserStuck` | violation: after a half-done Create the user is never created |
| `DiffGrant` | what a user holds answers to a grant that is there; an Update that reports success has delivered what its specification means; a grant alone on its target settles, and goes away when deleted |
| `SingleStoreRbac` | the abstract life cycle; in passing, no user gains a role that the group's specification does not give it, unless the user is about to leave; the access both specifications promise in the end; deletion |
| `SqlUser` | a stale password is noticed, the replica follows, the life cycle; options and password converge; deletion |
| `SqlObjects` | no edit is lost to late initialisation, what was created can always be dropped again, the life cycle of objects inside each other, fields converge, deletion in either order |
| `Provider` | a connection is configured as its own ProviderConfig says, a ProviderConfig outlives the objects of the resources it was given to while it was held, every flavour that was asked for is reconciled, the registry catches up with rotations, resources and configurations go away |
| `ProviderAlongside` | violation: two providers with a flavour each, which elect leaders, wait for one lease |

Every property has a mutant of the code that breaks it (`mutants`); the mutant
operators stand in front of the definitions they change.

Known limits without a run of their own, because the properties that hold
exclude them by name: two PostgreSQL grants of one object never observe
themselves and are released without a REVOKE (`NoLeakedPrivilege` assumes
`Disjoint` objects and no edit), and so are default privileges that ask for `ALL`
(`SpelledOut`); a client that reconnects between KILL and DROP LOGIN makes a
login outlive its resource (`NoLeakedLogin` is about runs without faults, and what
clients and administrators do counts as one); a configuration that is released
between the record of a use and the creation of an object (`served`).

**Bounds.** `MaxEdits`, `MaxDrifts`, `MaxPassword`, `MaxVersion`, `MaxChanges` and
`MaxFaults` count what the environment does; nothing of the controllers themselves
is bounded. Except in `PgRole`, which counts drift apart, what an administrator or
a client does to the database counts as a fault; `MaxChanges` of `SqlObjects`
bounds edits and faults together. One or two faults are enough for a half-done
Create or Update followed by a clean one, and the interesting orders need one or
two edits within a reconcile.

- `PgRole`: one attribute, one parameter and two limits tell apart unset, equal and
  different, which is all the code distinguishes.
- `PgGrant`: two resources on two tables and two default lists give every overlap:
  same object, other object, subset, and a pair of default lists, one of them
  asking for `ALL`. `SELECT` and `MAINTAIN` give `ALL` a meaning with and without
  `MAINTAIN`; the server is an old one, which refuses it.
  A grant on a database and one on a table set `revokePublicOnDb`.
- `DiffGrant`: two privileges give `ALL` a meaning; two grants on one or two targets
  want the same privilege with and without the option.
- `MssqlUser`: two resources are enough to take a login from each other.
- `SingleStoreRbac`: a managed role, an administrator's role and a group that moves
  between them with its user give every kind of statement and every order of two.
- `SqlUser`: one user, because users share nothing; two options tell a clause that
  is compared at the wrong position from one that is not, two passwords a rotation.
- `SqlObjects`: a database with a schema or an extension in it, and the two other
  kinds side by side; the values are the server's default, another one, and an
  owner that is not there.
- `Provider`: two processes in seven deployments, one for each way to share or not to
  share a lease, a process, a registry key and a ProviderConfig, with a flavour
  that is misspelt, given twice or not given, and TLS settings that are invalid. In
  the four without election that start, the configurations have their finalizers
  already; in the others the finalizer comes during the run, or never.

The databases may really be at rest (a deleted resource is gone), so deadlock is
not checked.

**Fairness.** `FairSpec` adds weak fairness of `Reconcile` (of each resource,
where there are several). controller-runtime requeues a resource after an
error and the managed reconciler asks for a requeue after its poll interval, so
an enabled reconcile takes its next step. `Provider` has several processes, and is
fair to each on its own: to its start-up, to the look-up of each resource's
connection, to the queries and the end of its reconcile, and to its reconcile of
each ProviderConfig. The lease is not handed over fairly: a process keeps it until
it ends. Edits, drift, rotations, faults, crashes and the operator who removes a
create-pending mark are never fair. What stops a resource for good is named in the
properties: it is gone, its creation is marked incomplete (`Stopped`,
`CreateIncomplete`), its password secret or its database is missing (`Waiting`).

## Proofs

`PgRoleProofs` proves, for every set of attributes, parameters, limits,
specifications and passwords and every bound:

- `TypeCorrect`: `Spec => []TypeOK`, one lemma per group of actions.
- `NoOrphan`: `Spec => []NoOrphanedRole`. The property is not inductive: that
  Create runs under a finalizer has to be known while it runs, and that Release
  runs only when Observe saw no role. `ClaimHeld` says so for every phase.
- `RoleImplementsLifecycle`: every step is a step or a stutter of
  `ExternalLifecycle`, from the same invariant.
- `StalePasswordNoticed`: with `~PasswordsReused`, from `PasswordsAdvance`: the
  password a worker holds, the role's and the published one are never newer than
  the referenced one, in the order in which a reconcile moves them.

`MssqlUserProofs` proves, for every set of resources, logins and passwords:

- `UserTypeCorrect`: `Spec => []TypeOK`.
- `NoUserWithoutLogin`: `Spec => []NoDanglingUser`. The property alone says
  nothing about who may drop a login. The strengthening is `LoginOwned`: a login
  belongs to a resource whose user stands for it, or which is itself in the
  middle of Create or Delete; so no step of another resource can take it away.
  That `LoginOwned` is an invariant is a theorem of its own, `LoginHasAnOwner`.
- `UserImplementsLifecycle`: what a worker that is about to release has seen
  stays true (`Guarded`), because only a Create brings a user back and the one
  worker of a resource is not in Create then; and Create runs under a finalizer
  (`Claims`).
- `StalePasswordNoticed`: `Spec => []StalePasswordIsNoticed`, from `InOrder`: the
  published password, the one that is set and the referenced one are in the order
  in which a reconcile moves them, and a worker carries one between the first and
  the last. That another resource's worker never sets the password of a shared
  login is `OthersLoginKept`, a consequence of `LoginOwned`.
- `NoLoginLeaks`: `Spec => []NoLeakedLogin`. While nothing has failed and nobody has
  interfered, what Observe has answered is true until Create acts on it
  (`SeenTruly`), and a login has a user unless its resource is between the two
  statements of Create or of Delete, and that resource has its finalizer
  (`Answers`); so it is also there (`Backed`). A client that reconnects between
  KILL and DROP LOGIN breaks exactly the second.

`WorkerProofs` says once what a step of the managed reconciler, of a failing call
or of a user does to the workers' records and the metadata, for whatever phases a
component adds (`WorkerStepEffect`, `CallFailsEffect`, `CrashEffect`,
`UsersEffect`), and that a resource stays in the API server as long as it has its
finalizer (`Backed`). `MssqlUserProofs` above and the modules below rest on it,
except `ProviderProofs`. Each of them sorts the steps of its component into the
same few kinds (`NextCases`: a call of a controller, a step of the managed
reconciler, an order of a user, a breakdown, an administrator), says what a kind
does to each variable, and uses only that.

`PgGrantProofs`, for every set of grants, objects and privileges, and either server:

- `ListsTypeCorrect`: `Spec => []TypeOK`.
- `NothingIsLost`: `Spec => NoPrivilegeLost`, an action property that needs the
  types alone.
- `NothingIsLeft`: `Spec => []NoLeakedPrivilege`. The strengthening says that while
  nobody has edited or meddled the role holds, of what a specification is about,
  nothing or exactly what Create has granted (`Bare`, `Full`), that a resource with
  its privileges has its finalizer and is not about to give it up (`KeptFor`), and
  that whatever is held is some specification's (`Covered`); and that the worker's
  copy is the specification, and has a type from the claim on (`Sound`). What is
  granted in full is also what Observe looks for (`FullIsSeen`): so a release finds
  nothing. A lost commit leaves `Bare` as it was.

`DiffGrantProofs`, for every server, set of privileges and way to share targets:

- `GrantTypeCorrect`: `Spec => []TypeOK`.
- `PrivilegesAreAnswered`: `Spec => []NoOrphanedPrivilege`, from `Claims` (nothing is
  changed for a resource without finalizer) and `Answered` (who answers for a target
  is not about to be released, because Observe lists every privilege of the target
  and not only the grant's own).
- `UpdateDeliversWanted`: `Spec => UpdateDelivers`. That revoking and granting the
  difference to what is shown leaves just what is wanted is a lemma about the
  operators (`DifferenceDelivers`), for every set of privileges and `ALL` on either
  side. It is of use only while the listing an Update works by is the truth:
  `Noted` says when the note in the status of the worker's copy still is, after
  conflicts, edits and failures, and `Underway` what the rest of the plan still
  leads to (`Left`). When something has failed the user may have lost privileges
  that the plan takes for granted, so that only the upper half remains (`Near`).

`SqlUserProofs`, for every set of users, options, limits and passwords:

- `UserTypesCorrect`: `Spec => []TypeOK`.
- `UserImplementsLifecycle`: as for MSSQL, from `Guarded`.
- `StalePasswordsAreNoticed`: `Spec => []StalePasswordIsNoticed`, from `InOrder`: the
  published password, the one a worker carries and the referenced one are in the
  order in which a reconcile moves them, in every phase, and a user has the
  published password unless that is behind the reference (`Behind`).
- `ReplicaInStep`: `Spec => []ReplicaFollows`, from `InStep`: as long as nobody
  switches the log, every statement finds the replica where the server is
  (`Following`), because a worker's copy agrees with the specification on the log;
  what is refused is not logged, and what is done but not answered is.

`SqlObjectsProofs`, for any number of objects, wherever they live:

- `ObjectsTypeCorrect`: `Spec => []TypeOK`; that a worker's copy has the fields of
  its kind has to be known with it (`Types`).
- `NoOrphan`: `Spec => []NoOrphanedObject`. An object in a database lives no longer
  than that (`Nested`), a resource that has looked at its object or has made it has
  the name of its database (`Named`), Create runs under a finalizer (`Claimed`), and
  what has one is there (`Backed`).
- `EditsAreKept`: `Spec => []NoLostEdit`, from `Faithful`: a copy that is not stale
  says what the users wrote, so that writing it back changes nothing they set.
- `ObjectsImplementLifecycle`: from `Guarded`. A drop of a database takes other
  resources' objects along, which is why an object may vanish by another worker's
  step, but never come back by one.

`ProviderProofs`, for any number of processes, resources, ProviderConfigs and keys:

- `ProviderTyped`: `Spec => []TypeOK`.
- `OwnMaterial`: `Spec => []ConnectsAsConfigured`. While no two ProviderConfigs have
  one name in a registry, what stands under a name can only be replaced by
  material of the same ProviderConfig (`OwnRegistration`); that a worker has
  read what it registers follows from its phase (`ReadsInOrder`).
- `ConfigKept`: `Spec => []ConfigOutlivesObjects`. A worker that has passed the first
  step of Connect has its use recorded (`Tracked`). So when a resource is given a
  configuration that is held and not deleted, every later count finds the use,
  however late it is acted upon, and no earlier one exists, since only deleted
  configurations are counted (`CountedDeleted`); that it stays so until the resource
  is gone is `ServedKept`. Had Connect read the configuration first, a deletion and a
  count could come between the two, and the step would fail.

What each theorem assumes are the named assumptions on the constants, which TLC
evaluates in every run. Every safety invariant that a run checks is proved, and every
action property and refinement but two. Only model-checked, on the small instances,
are:

- liveness: convergence, deletion, `FlavoursRun` and `RegistryIsFresh` need fairness,
  hence `ENABLED`, which the prover does not reason about;
- `RbacLifecycle` and `GainsOnlyWanted` of `SingleStoreRbac`. An Update there is a
  list of statements, flattened out of one list for each scope, group and user, and
  both rest on which statements such a list has and in which order. That takes
  induction on its length, which the installed provers cannot do.

## What is left

1. Proofs: what the two properties of `SingleStoreRbac` need beyond the order of
   statements.
2. Runs: larger instances of `SqlObjects` (a schema and an extension in one
   database at once) and of `SqlUser` (an edit between two faults).
3. Pure functions against a reference: parsing the rows of SHOW GRANTS, how
   `IdentifyGrantType` tells the nine kinds of grant apart.

## Not modelled

- API types and generated code: data declarations, deep copies and client sets. The
  fields that matter are in the parameters of each module, and of the generated
  resolvers `Resolve` of `SqlObjects`.
- Manifests, examples, packaging and shell scripts.
- Connection strings, quoting of identifiers and literals, the keys of connection
  secrets: conversions without state, on which no property depends.
- Credentials: what the ProviderConfig names is data; a connection that is refused is
  a failing call.
- Flags other than `--flavours` and `--leader-election`, metrics, events and logging.
- Names, hosts, column lists and clauses of the MySQL grants beyond the target they
  make, and grantors other than the provider's user.
