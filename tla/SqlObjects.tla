------------------------------ MODULE SqlObjects ------------------------------
(***************************************************************************)
(* The Database, Schema and Extension managed resources of PostgreSQL and  *)
(* the Database resources of MySQL and MSSQL:                              *)
(* pkg/controller/{cluster,namespaced}/{postgresql/{database,schema,       *)
(* extension},mysql/database,mssql/database}.                              *)
(*                                                                         *)
(* They share one pattern: what the specification leaves open is late      *)
(* initialised from the observed object and written back, and whatever     *)
(* then differs is altered, one statement or several, where it can be      *)
(* altered at all.  A schema and an extension live in a database that may  *)
(* itself be a resource, named by a reference: it can go away first, and   *)
(* takes what it holds along.                                              *)
(***************************************************************************)
EXTENDS Worker, Sequences

CONSTANTS
    Placements,  \* the kinds of the resources to look at together
    Home,        \* Home[r]: the database a schema or extension r refers to
    Values,      \* the values of a field
    MaxChanges,  \* bound on edits and faults together
    DefaultValue \* what the server gives a field that is not set

Unset   == "unset"
Kinds   == {"database", "schema", "extension", "mysqldb", "mssqldb"}
InDatabase == {"schema", "extension"}

(* The fields of the five specifications, and those of them that are facts *)
(* of the object which Observe reads.  Encoding stands for everything that *)
(* only CREATE DATABASE sets, template for the fields with an ALTER of     *)
(* their own; a template is what isTemplate = TRUE makes of a database.    *)
DatabaseFields  == {"owner", "template", "encoding"}
SchemaFields    == {"owner", "dropBehavior", "revokePublic"}
ExtensionFields == {"version"}
MySQLFields     == {"charset", "collation"}
MSSQLFields     == {}
Fields == [database |-> DatabaseFields, schema |-> SchemaFields,
           extension |-> ExtensionFields,
           mysqldb |-> MySQLFields, mssqldb |-> MSSQLFields]
Facts  == [Fields EXCEPT !.schema = {"owner"}]

(* The second value is TRUE and CASCADE, and some are names of no role.    *)
CONSTANTS Second, MissingRoles

Parameters(kind) == [Fields[kind] -> Values \cup {Unset}]

ASSUME ObjectsAssumption ==
    /\ Placements \subseteq [Resources -> Kinds]
    /\ Home \in [Resources -> Resources]
    /\ \A kind \in Placements, r \in Resources :
          kind[r] \in InDatabase => kind[Home[r]] = "database"
    /\ MaxChanges \in Nat
    /\ DefaultValue \in Values /\ Second \in Values
    /\ MissingRoles \subseteq Values /\ Unset \notin Values
    /\ Specs = UNION {Parameters(kind) : kind \in Kinds}

VARIABLES
    kind,      \* kind[r]: which resource r is; never changes
    object,    \* object[r]: the database, schema or extension
    content,   \* content[r]: somebody has put tables into schema r
    closed,    \* the databases in which PUBLIC has lost its schema public
    resolved,  \* resolved[r]: spec.forProvider.database is set
    late,      \* late[r]: the worker has something to late initialise
    todo,      \* todo[r]: the statements that Update has left
    wrote      \* history: what the users wrote into the specification last

serverVars == <<kind, object, content, closed>>
memoryVars == <<late, todo>>
vars == <<workerVars, serverVars, resolved, memoryVars, wrote>>

Phases  == WorkerPhases \cup {"alter"}
Absent  == [origin |-> "absent", facts |-> <<>>]
Origins == {"provider", "other"}

TypeOK ==
    /\ WorkerTypes(Phases)
    /\ kind \in Placements
    /\ \A r \in Resources :
          /\ spec[r] \in Parameters(kind[r]) /\ wrote[r] \in Parameters(kind[r])
          /\ \/ object[r] = Absent
             \/ object[r] \in [origin : Origins, facts : [Facts[kind[r]] -> Values]]
          /\ todo[r] \in Seq(SUBSET Facts[kind[r]])
    /\ content \in [Resources -> BOOLEAN] /\ closed \in SUBSET Resources
    /\ resolved \in [Resources -> BOOLEAN] /\ late \in [Resources -> BOOLEAN]

-------------------------------------------------------------------------------
Exists(r) == object[r].origin # "absent"
Lives(r)  == kind[r] \in InDatabase
Inside(r) == {q \in Resources \ {r} : Lives(q) /\ Home[q] = r}

(* Connect to the database the object lives in; a connection to a database *)
(* that is missing fails with INVALID CATALOG NAME.                        *)
Connects(r) == Lives(r) => Exists(Home[r])

(* lateInit: the fields that are not set are taken from the object.        *)
LateInit(r, s) ==
    [f \in DOMAIN s |-> IF s[f] = Unset /\ f \in Facts[kind[r]]
                        THEN object[r].facts[f] ELSE s[f]]

(* upToDate, of the late initialised specification.                        *)
UpToDate(r, s) == \A f \in Facts[kind[r]] : s[f] = object[r].facts[f]

(* The statements of Update, each with the fields it sets: none for an     *)
(* extension and for MSSQL, whose Updates do nothing.                      *)
DatabaseStatements == <<{"owner"}, {"template"}>>
SchemaStatements   == <<{"owner"}>>
MySQLStatements    == <<{"charset", "collation"}>>
Statements(k) ==
    CASE k = "database" -> DatabaseStatements
      [] k = "schema"   -> SchemaStatements
      [] k = "mysqldb"  -> MySQLStatements
      [] OTHER          -> <<>>

(* The values that an object gets from CREATE: what is set, and else what  *)
(* the server chooses; a collation is by default the character set's own.  *)
Made(r, s) ==
    [f \in Facts[kind[r]] |->
        IF s[f] # Unset THEN s[f]
        ELSE IF f = "collation" /\ s["charset"] # Unset THEN s["charset"]
        ELSE IF f = "charset" /\ s["collation"] # Unset THEN s["collation"]
        ELSE DefaultValue]

(* The server accepts facts if the owner is there and the collation is one *)
(* of the character set.                                                   *)
OwnerMissing(facts) == "owner" \in DOMAIN facts /\ facts["owner"] \in MissingRoles
Incompatible(facts) == "charset" \in DOMAIN facts /\ facts["charset"] # facts["collation"]
Accepted(facts)     == ~OwnerMissing(facts) /\ ~Incompatible(facts)

(* A schema with tables is only dropped by CASCADE, a template never.      *)
DropRefused(r, s) ==
    \/ kind[r] = "schema" /\ content[r] /\ s["dropBehavior"] # Second
    \/ kind[r] = "database" /\ Exists(r) /\ object[r].facts["template"] = Second

(* What is dropped takes along what lives in it.                           *)
Dropped(r) ==
    /\ object' = [q \in Resources |->
                     IF q = r \/ q \in Inside(r) THEN Absent ELSE object[q]]
    /\ content' = [q \in Resources |-> content[q] /\ object'[q] # Absent]
    /\ closed' = closed \ {r}

(* What a schema asks for on top is REVOKE ALL ON SCHEMA PUBLIC FROM       *)
(* PUBLIC: it is the schema public of its database that is closed.         *)
Closes(r, s) ==
    closed' = IF kind[r] = "schema" /\ s["revokePublic"] = Second
              THEN closed \cup {Home[r]} ELSE closed

-------------------------------------------------------------------------------
(* ResolveReferences, before Connect: a resource that is not deleted needs *)
(* the resource it refers to until it has the name once.                   *)
Resolve(r) ==
    /\ At(r, "observe") /\ Lives(r) /\ ~resolved[r] /\ ~work[r].deleting
    /\ IF mr[Home[r]].present /\ ~work[r].dirty
       THEN resolved' = [resolved EXCEPT ![r] = TRUE] /\ UNCHANGED work
       ELSE Ends(r) /\ UNCHANGED resolved
    /\ UNCHANGED <<apiVars, boundVars, serverVars, memoryVars, wrote>>

(* The answer of Observe: the worker's copy is late initialised.           *)
Answered(r, exists, upToDate) ==
    LET s == IF exists THEN LateInit(r, work[r].spec) ELSE work[r].spec
    IN  /\ work' = [work EXCEPT ![r].spec = s, ![r].exists = exists,
                       ![r].upToDate = upToDate,
                       ![r].pc = AfterObserve(work[r].deleting, exists)]
        /\ late' = [late EXCEPT ![r] = ~work[r].deleting /\ s # work[r].spec]
        /\ UNCHANGED <<apiVars, boundVars, serverVars, resolved, todo, wrote>>

(* Mutants of Observe: the default database is looked at; the database     *)
(* that is missing is an error.                                            *)
ObserveDefault(r) ==
    /\ At(r, "observe") /\ (Lives(r) => resolved[r])
    /\ Answered(r, Exists(r) /\ ~Lives(r),
                   Exists(r) /\ UpToDate(r, LateInit(r, work[r].spec)))
ObserveCatalog(r) ==
    /\ At(r, "observe") /\ (Lives(r) => resolved[r])
    /\ IF Connects(r)
       THEN Answered(r, Exists(r), Exists(r) /\ UpToDate(r, LateInit(r, work[r].spec)))
       ELSE /\ Ends(r)
            /\ UNCHANGED <<apiVars, boundVars, serverVars, resolved, memoryVars, wrote>>

(* Nothing exists in a database that does not exist.                       *)
Observe(r) ==
    /\ At(r, "observe") /\ (Lives(r) => resolved[r])
    /\ Answered(r, Exists(r), Exists(r) /\ UpToDate(r, LateInit(r, work[r].spec)))

(* Mutant of WriteLateInit: the resource is written whatever it is by now. *)
WriteLateInitBlindly(r) ==
    /\ work[r].pc \in {"update", "done"} /\ late[r]
    /\ spec' = [spec EXCEPT ![r] = work[r].spec]
    /\ late' = [late EXCEPT ![r] = FALSE]
    /\ UNCHANGED <<mr, work, boundVars, serverVars, resolved, todo, wrote>>

(* The late initialised copy is written before anything is updated, and    *)
(* refused when the resource has changed since it was read.                *)
WriteLateInit(r) ==
    /\ work[r].pc \in {"update", "done"} /\ late[r]
    /\ IF work[r].dirty THEN Ends(r) /\ UNCHANGED spec
       ELSE spec' = [spec EXCEPT ![r] = work[r].spec] /\ UNCHANGED work
    /\ late' = [late EXCEPT ![r] = FALSE]
    /\ UNCHANGED <<mr, boundVars, serverVars, resolved, todo, wrote>>

(* CREATE.  IF NOT EXISTS leaves an object alone that has come in between. *)
Creates(r) ==
    /\ object' = [object EXCEPT ![r] =
          IF Exists(r) THEN @
          ELSE [origin |-> "provider", facts |-> Made(r, work[r].spec)]]
    /\ Closes(r, work[r].spec)

Create(r) ==
    /\ At(r, "create")
    /\ IF Connects(r) /\ Accepted(Made(r, work[r].spec))
          /\ (Exists(r) => Lives(r))
       THEN Creates(r) /\ Goes(r, "created")
       ELSE Goes(r, "createFailed") /\ UNCHANGED <<object, closed>>
    /\ UNCHANGED <<apiVars, boundVars, kind, content, resolved,
                   memoryVars, wrote>>

Update(r) ==
    /\ At(r, "update") /\ ~late[r]
    /\ todo' = [todo EXCEPT ![r] = Statements(kind[r])]
    /\ Goes(r, "alter")
    /\ UNCHANGED <<apiVars, boundVars, serverVars, resolved, late, wrote>>

(* The facts that the next ALTER makes.                                    *)
Altered(r) ==
    [f \in Facts[kind[r]] |->
        IF f \in Head(todo[r]) /\ work[r].spec[f] # Unset
        THEN work[r].spec[f] ELSE object[r].facts[f]]
CanAlter(r) ==
    /\ At(r, "alter") /\ todo[r] # <<>>
    /\ Exists(r)
    /\ "owner" \in Head(todo[r]) \/ "charset" \in Head(todo[r])
          => Accepted(Altered(r))

(* Mutant of Alter: one statement that fails does not end the update, but  *)
(* what follows it is not sent.                                            *)
AlterFirst(r) ==
    /\ CanAlter(r)
    /\ object' = [object EXCEPT ![r].facts = Altered(r)]
    /\ Closes(r, work[r].spec)
    /\ todo' = [todo EXCEPT ![r] = <<>>]
    /\ UNCHANGED <<work, apiVars, boundVars, kind, content, resolved, late, wrote>>

(* One ALTER after the other; the first that fails ends the update.        *)
Alter(r) ==
    /\ CanAlter(r)
    /\ object' = [object EXCEPT ![r].facts = Altered(r)]
    /\ Closes(r, work[r].spec)
    /\ todo' = [todo EXCEPT ![r] = Tail(@)]
    /\ UNCHANGED <<work, apiVars, boundVars, kind, content, resolved, late, wrote>>

AlterEnds(r) ==
    /\ At(r, "alter") /\ ~CanAlter(r)
    /\ IF todo[r] = <<>> THEN Goes(r, "publish") ELSE Ends(r)
    /\ todo' = [todo EXCEPT ![r] = <<>>]
    /\ UNCHANGED <<apiVars, boundVars, serverVars, resolved, late, wrote>>

(* DROP ... IF EXISTS.                                                     *)
Delete(r) ==
    /\ At(r, "delete")
    /\ IF Connects(r) /\ ~DropRefused(r, work[r].spec)
       THEN Dropped(r) ELSE UNCHANGED <<object, content, closed>>
    /\ Ends(r)
    /\ UNCHANGED <<apiVars, boundVars, kind, resolved, memoryVars, wrote>>

(* A transaction of a schema whose commit fails and is reported a success  *)
(* (ExecTx), or a CREATE that is executed and not answered.                *)
LostCommit(r) ==
    /\ kind[r] = "schema" /\ Connects(r)
    /\ UseCredit
    /\ \/ At(r, "create") /\ Goes(r, "created") /\ UNCHANGED todo
       \/ At(r, "alter") /\ Goes(r, "publish") /\ todo' = [todo EXCEPT ![r] = <<>>]
    /\ UNCHANGED <<apiVars, edits, serverVars, resolved, late, wrote>>

Unanswered(r) ==
    /\ At(r, "create") /\ Connects(r) /\ ~Exists(r)
    /\ Accepted(Made(r, work[r].spec))
    /\ UseCredit
    /\ Creates(r) /\ Goes(r, "createFailed")
    /\ UNCHANGED <<apiVars, edits, kind, content, resolved, memoryVars, wrote>>

-------------------------------------------------------------------------------
(* The users of the database server.                                       *)
AdminDrops(r) ==
    /\ Exists(r) /\ UseCredit
    /\ Dropped(r)
    /\ UNCHANGED <<apiVars, work, edits, kind, resolved, memoryVars, wrote>>

AdminAlters(r) ==
    /\ Exists(r) /\ UseCredit
    /\ \E f \in Facts[kind[r]], v \in Values :
          LET facts == [object[r].facts EXCEPT ![f] = v]
          IN  /\ v # object[r].facts[f] /\ Accepted(facts)
              /\ f \notin {"encoding"}
              /\ object' = [object EXCEPT ![r].facts = facts]
    /\ UNCHANGED <<apiVars, work, edits, kind, content, closed, resolved,
                   memoryVars, wrote>>

SessionFillsSchema(r) ==
    /\ kind[r] = "schema" /\ Exists(r) /\ ~content[r] /\ UseCredit
    /\ content' = [content EXCEPT ![r] = TRUE]
    /\ UNCHANGED <<apiVars, work, edits, kind, object, closed, resolved,
                   memoryVars, wrote>>

(* An object may be there before the resource, in a database that is.      *)
Init ==
    /\ WorkerInit
    /\ kind \in Placements
    /\ \A r \in Resources : DOMAIN spec[r] = Fields[kind[r]]
    /\ \E there \in SUBSET Resources :
          /\ \A r \in there : Lives(r) => Home[r] \in there
          /\ object = [r \in Resources |->
                IF r \in there
                THEN [origin |-> "other",
                      facts |-> [f \in Facts[kind[r]] |-> DefaultValue]]
                ELSE Absent]
    /\ content = [r \in Resources |-> FALSE] /\ closed = {}
    /\ resolved = [r \in Resources |-> FALSE]
    /\ late = [r \in Resources |-> FALSE]
    /\ todo = [r \in Resources |-> <<>>]
    /\ wrote = spec

UpdateSteps(r) == Update(r) \/ Alter(r) \/ AlterEnds(r)

Reconcile(r) ==
    \/ /\ WorkerSteps(r) \/ (Settled(r) /\ ~late[r])
       /\ UNCHANGED <<serverVars, resolved, memoryVars, wrote>>
    \/ Resolve(r) \/ Observe(r) \/ WriteLateInit(r)
    \/ Create(r) \/ UpdateSteps(r) \/ Delete(r)

(* What a worker holds is lost with it.                                    *)
Failure ==
    \/ /\ Crash \/ \E r \in Resources : CallFails(r, {"create"})
       /\ late' = [r \in Resources |-> late[r] /\ ~At(r, "idle")']
       /\ todo' = [r \in Resources |-> IF At(r, "idle")' THEN <<>> ELSE todo[r]]
       /\ UNCHANGED <<serverVars, resolved, wrote>>
    \/ \E r \in Resources : LostCommit(r) \/ Unanswered(r)

Environment ==
    \/ \E r \in Resources :
          /\ Users(r)
          /\ DOMAIN spec'[r] = DOMAIN spec[r]
          /\ wrote' = [wrote EXCEPT ![r] = IF spec' = spec THEN @ ELSE spec'[r]]
          /\ UNCHANGED <<serverVars, resolved, memoryVars>>
    \/ \E r \in Resources : AdminDrops(r) \/ AdminAlters(r) \/ SessionFillsSchema(r)

Next ==
    \/ \E r \in Resources : Reconcile(r)
    \/ (Failure \/ Environment) /\ edits' + faults' <= MaxChanges
Spec == Init /\ [][Next]_vars

(* Every resource is requeued after an error and polled after a success.   *)
FairSpec == Spec /\ \A r \in Resources : WF_vars(Reconcile(r))

-------------------------------------------------------------------------------
(* What the users wrote into a specification stays what they wrote,        *)
(* whatever is late initialised around and after an edit (lateInit and the *)
(* write that follows Observe).                                            *)
NoLostEdit ==
    \A r \in Resources : \A f \in DOMAIN wrote[r] :
        wrote[r][f] # Unset => spec[r][f] = wrote[r][f]

(* What Create has made can always be dropped again: the resource is there *)
(* and claimed, it has the name of its database, which is not resolved any *)
(* more once the resource is deleted, and that database exists             *)
(* (ResolveReferences, Connect, Delete).                                   *)
NoOrphanedObject ==
    \A r \in Resources : object[r].origin = "provider" =>
        /\ mr[r].present /\ mr[r].finalizer
        /\ Lives(r) => resolved[r] /\ Exists(Home[r])

(* An object follows the abstract life cycle: it is created under a        *)
(* finalizer and gone before the release, also when the database it lives  *)
(* in is dropped in between (database, schema and extension).              *)
Lifecycle(r) == INSTANCE ExternalLifecycle WITH
    claimed  <- mr[r].finalizer,
    external <- object[r].origin
ObjectLifecycle ==
    /\ \A r \in Resources : Lifecycle(r)!AInit
    /\ [][\A r \in Resources : Lifecycle(r)!ANext
             \/ UNCHANGED <<mr[r].finalizer, object[r].origin>>]_<<mr, object>>

(* The cases in which a resource cannot settle: its database is missing or *)
(* was never named, the server refuses the owner or the collation.         *)
Waiting(r) ==
    \/ Stopped(r) \/ mr[r].deleting
    \/ ~Connects(r) \/ (Lives(r) /\ ~resolved[r])
    \/ OwnerMissing(spec[r]) \/ Incompatible(Made(r, spec[r]))

(* What is only settled when the object is created.                        *)
Pinned(k) == Facts[k] \ UNION {Statements(k)[i] : i \in DOMAIN Statements(k)}

(* A schema that was created as the specification asks left PUBLIC without *)
(* the schema public of its database, also when that database had to be    *)
(* made anew; one that was there before is as it was.                      *)
Closed(r) ==
    /\ kind[r] = "schema" /\ spec[r]["revokePublic"] = Second
    /\ object[r].origin = "provider" /\ edits = 0
    => Home[r] \in closed

(* Once edits and failures end an object is there for good and agrees with *)
(* its specification, in which nothing is left open, except for the fields *)
(* that nothing alters (Update, lateInit, createSchemaQueries).            *)
ObjectsConverge ==
    <>[](\A r \in Resources :
            \/ Waiting(r)
            \/ /\ Exists(r) /\ Closed(r)
               /\ \A f \in Facts[kind[r]] \ Pinned(kind[r]) :
                     spec[r][f] = object[r].facts[f])

(* A deleted object goes away for good, whichever of a database and what   *)
(* it holds is deleted first, unless the server refuses to drop it (Delete *)
(* and the INVALID CATALOG NAME of Observe).                               *)
DeletionCompletes ==
    <>[](\A r \in Resources :
            mr[r].deleting => Stopped(r) \/ DropRefused(r, spec[r]))
===============================================================================
