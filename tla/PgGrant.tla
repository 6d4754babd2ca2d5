------------------------------- MODULE PgGrant -------------------------------
(***************************************************************************)
(* PostgreSQL Grant and DefaultPrivileges managed resources of one role:   *)
(* pkg/controller/{cluster,namespaced}/postgresql/grant and                *)
(* default_privileges (the two copies are one code over two API groups).   *)
(*                                                                         *)
(* The nine kinds of grant differ in the SQL they are spelled in.  Each    *)
(* observes whether the role holds, on every object of the grant, exactly  *)
(* the desired privileges with exactly the desired grant option; each      *)
(* creates by revoking and granting the desired privileges in one          *)
(* transaction, and deletes by revoking them.  A membership is the one     *)
(* privilege of the object memberOf.                                       *)
(*                                                                         *)
(* Default privileges are access control lists too, of the objects a       *)
(* target role will create in a schema.  DefaultPrivileges revokes all of  *)
(* the role's privileges on the one list it is about and grants the        *)
(* desired ones, in one transaction, but observes every list for the type  *)
(* of object together.  The resources share the lists, with each other and *)
(* with an administrator.                                                  *)
(***************************************************************************)
EXTENDS Worker

CONSTANTS
    Objects,       \* tables, schemas, databases, ... and default lists
    Defaults,      \* the default lists of one type of object
    AllPrivileges, \* the privileges of PostgreSQL 17
    NewPrivileges, \* those an older server does not know (MAINTAIN)
    OldServer,     \* server_version_num < 170000
    Shorthand      \* Shorthand[t]: what ALL stands for in a grant of type t

(* The fields of a grant that tell its type, and the privileges and the    *)
(* option it asks for on its objects.  A resource about a default list has *)
(* no type.                                                                *)
Fields == {"MemberOf", "Database", "Schema", "Tables", "Columns", "Sequences",
           "Routines", "ForeignServers", "ForeignDataWrappers"}
GrantParameters ==
    [fields : SUBSET Fields, objects : SUBSET Objects,
     privileges : SUBSET (AllPrivileges \cup {"ALL"}),
     option : BOOLEAN, revokePublicOnDb : BOOLEAN]

GrantTypeFields ==
    [ROLE_MEMBER   |-> {"MemberOf"},
     ROLE_DATABASE |-> {"Database"},
     ROLE_SCHEMA   |-> {"Database", "Schema"},
     ROLE_TABLE    |-> {"Database", "Schema", "Tables"},
     ROLE_COLUMN   |-> {"Database", "Schema", "Tables", "Columns"},
     ROLE_SEQUENCE |-> {"Database", "Schema", "Sequences"},
     ROLE_ROUTINE  |-> {"Database", "Schema", "Routines"},
     ROLE_FOREIGN_SERVER       |-> {"Database", "ForeignServers"},
     ROLE_FOREIGN_DATA_WRAPPER |-> {"Database", "ForeignDataWrappers"}]
GrantTypes == DOMAIN GrantTypeFields

ASSUME GrantAssumption ==
    /\ NewPrivileges \subseteq AllPrivileges
    /\ "ALL" \notin AllPrivileges /\ "MEMBER" \in AllPrivileges
    /\ Shorthand \in [GrantTypes -> SUBSET AllPrivileges]
    /\ OldServer \in BOOLEAN
    /\ Defaults \subseteq Objects
    /\ Specs \subseteq GrantParameters
    /\ \A s \in Specs : IF s.fields # {} THEN s.objects \cap Defaults = {}
                        ELSE \E o \in Defaults : s.objects = {o}

VARIABLES
    acl,      \* acl[o][p]: how the role holds p on o
    public,   \* PUBLIC has its default privileges on the database
    meddled   \* an administrator has granted or revoked something

serverVars == <<acl, public>>
vars       == <<workerVars, serverVars, meddled>>

Holdings == {"none", "plain", "grantable"}

TypeOK ==
    /\ WorkerTypes(WorkerPhases)
    /\ acl \in [Objects -> [AllPrivileges -> Holdings]]
    /\ public \in BOOLEAN
    /\ meddled \in BOOLEAN

------------------------------------------------------------------------------
ServerPrivileges ==
    IF OldServer THEN AllPrivileges \ NewPrivileges ELSE AllPrivileges

(* resolveGrantType and IdentifyGrantType: the type whose fields are       *)
(* exactly those filled in.  A membership names no privilege, any other    *)
(* grant at least one; a grant that is none of the types has no type.      *)
IsDefault(s) == s.fields = {}
GrantTypesOf(s) ==
    {t \in GrantTypes : /\ s.fields = GrantTypeFields[t]
                        /\ (t = "ROLE_MEMBER") = (s.privileges = {})}
Identified(s) == IsDefault(s) \/ GrantTypesOf(s) # {}
Names(s) == IF "MemberOf" \in s.fields THEN {"MEMBER"} ELSE s.privileges
LongForm(s) == UNION {Shorthand[t] : t \in GrantTypesOf(s)}

(* grantReplacements of the shorthand ALL, filtered for an older server.   *)
Replacement(s) == LongForm(s) \ (IF OldServer THEN NewPrivileges ELSE {})

(* Mutant of ExpandPrivileges: the version of the server is not asked.     *)
ExpandAnyVersion(s) ==
    IF "ALL" \in s.privileges THEN LongForm(s) ELSE Names(s)

ExpandPrivileges(s) ==
    IF "ALL" \in s.privileges
    THEN (s.privileges \ {"ALL"}) \cup Replacement(s) ELSE Names(s)

(* What the server takes the privileges as they are spelled to mean; a     *)
(* default list of tables knows the privileges of tables.                  *)
Spelled(s) ==
    (Names(s) \ {"ALL"}) \cup
        (IF "ALL" \notin Names(s) THEN {}
         ELSE ServerPrivileges \cap
              (IF IsDefault(s) THEN Shorthand.ROLE_TABLE ELSE LongForm(s)))

Wanted(s)     == IF s.option THEN "grantable" ELSE "plain"

(* selectGrantQuery: on every object the privileges held with this very    *)
(* grant option are the desired ones, no fewer and no more.                *)
Matched(s) ==
    {o \in s.objects :
        {p \in AllPrivileges : acl[o][p] = Wanted(s)} = ExpandPrivileges(s)}
GrantExists(s) == Matched(s) = s.objects

(* selectDefaultPrivilegesQuery and matchingGrants: the distinct           *)
(* privileges of all lists for the type of object, whatever their target   *)
(* role, schema and grant option; the shorthand ALL is not expanded.       *)
DefaultsFound == {p \in AllPrivileges : \E o \in Defaults : acl[o][p] # "none"}
DefaultsExist(s) == DefaultsFound # {} /\ DefaultsFound = s.privileges

Exists(s) == IF IsDefault(s) THEN DefaultsExist(s) ELSE GrantExists(s)

With(objects, privileges, how) ==
    [o \in Objects |-> [p \in AllPrivileges |->
        IF o \in objects /\ p \in privileges THEN how ELSE acl[o][p]]]

(* REVOKE ALL and GRANT on a default list, by their joint effect.          *)
Only(objects, privileges, how) ==
    [o \in Objects |-> [p \in AllPrivileges |->
        IF o \notin objects THEN acl[o][p]
        ELSE IF p \in privileges THEN how ELSE "none"]]

------------------------------------------------------------------------------
Grants(r)     == ~IsDefault(work[r].spec)
Defaulting(r) == IsDefault(work[r].spec)

(* A grant that exists is up to date, and Update is a no-op that is never  *)
(* called.  Without a type there is no query: Observe fails, also when the *)
(* resource is being deleted.                                              *)
Observe(r) ==
    /\ At(r, "observe") /\ Grants(r)
    /\ IF Identified(work[r].spec)
       THEN Observed(r, GrantExists(work[r].spec), TRUE)
       ELSE Ends(r)
    /\ UNCHANGED <<apiVars, boundVars, serverVars, meddled>>

ObserveDefaults(r) ==
    /\ At(r, "observe") /\ Defaulting(r)
    /\ Observed(r, DefaultsExist(work[r].spec), TRUE)
    /\ UNCHANGED <<apiVars, boundVars, serverVars, meddled>>

(* A grant on tables spells the shorthand out, the others leave it to the  *)
(* server, to the same effect.  The server refuses a privilege it does not *)
(* know.                                                                   *)
Accepted(s) ==
    (IF IsDefault(s) THEN Spelled(s) ELSE ExpandPrivileges(s))
        \subseteq ServerPrivileges

(* The transaction of Create, which leaves the lists as given.             *)
CreateTx(r, after) ==
    /\ At(r, "create") /\ Accepted(work[r].spec)
    /\ acl' = after
    /\ Goes(r, "created")
    /\ UNCHANGED <<apiVars, edits, meddled>>

(* Mutant of Create: the statements run outside a transaction and the      *)
(* second one fails.                                                       *)
CreateRevokesOnly(r) ==
    LET s == work[r].spec
    IN  /\ At(r, "create") /\ Grants(r)
        /\ acl' = With(s.objects, ExpandPrivileges(s), "none")
        /\ Goes(r, "createFailed")
        /\ UNCHANGED <<apiVars, boundVars, public, meddled>>

(* A grant on a database revokes what PUBLIC has on it where the grant     *)
(* says so; the other kinds of grant ignore the field.                     *)
ShutsPublic(s) == s.revokePublicOnDb /\ "ROLE_DATABASE" \in GrantTypesOf(s)

(* Mutant of Create: the REVOKE from PUBLIC is left out.                   *)
CreateGrantsOnly(r) ==
    LET s == work[r].spec
    IN  /\ Grants(r)
        /\ CreateTx(r, With(s.objects, ExpandPrivileges(s), Wanted(s)))
        /\ UNCHANGED <<public, faults>>

(* REVOKE and GRANT, and REVOKE from PUBLIC.                               *)
Create(r) ==
    LET s == work[r].spec
    IN  /\ Grants(r)
        /\ CreateTx(r, With(s.objects, ExpandPrivileges(s), Wanted(s)))
        /\ public' = (public /\ ~ShutsPublic(s))
        /\ UNCHANGED faults

(* REVOKE ALL and GRANT.                                                   *)
CreateDefaults(r) ==
    LET s == work[r].spec
    IN  /\ Defaulting(r)
        /\ CreateTx(r, Only(s.objects, Spelled(s), Wanted(s)))
        /\ UNCHANGED <<public, faults>>

(* ExecTx commits in a deferred function whose error it does not return: a *)
(* commit that fails leaves everything as it was, and Create succeeds all  *)
(* the same.                                                               *)
LoseCommit(r) == CreateTx(r, acl) /\ UNCHANGED public /\ UseCredit

CreateRefused(r) ==
    /\ At(r, "create")
    /\ ~Accepted(work[r].spec)
    /\ Goes(r, "createFailed")
    /\ UNCHANGED <<apiVars, boundVars, serverVars, meddled>>

(* A Delete revokes the privileges, whatever the option they are held      *)
(* with.                                                                   *)
RevokeFrom(r, objects, privileges) ==
    /\ At(r, "delete")
    /\ acl' = With(objects, privileges, "none")
    /\ Ends(r)
    /\ UNCHANGED <<apiVars, boundVars, public, meddled>>

(* Mutants of Delete: the first object alone, the grant option alone.      *)
DeleteOneObject(r) ==
    /\ Grants(r)
    /\ \E o \in work[r].spec.objects : RevokeFrom(r, {o}, Spelled(work[r].spec))

DeleteOption(r) ==
    LET s == work[r].spec
    IN  /\ At(r, "delete") /\ Grants(r)
        /\ acl' = With(s.objects, Spelled(s), "plain")
        /\ Ends(r)
        /\ UNCHANGED <<apiVars, boundVars, public, meddled>>

(* The privileges as the specification spells them, or all that the role   *)
(* has on a default list.                                                  *)
Delete(r) ==
    Grants(r) /\ RevokeFrom(r, work[r].spec.objects, Spelled(work[r].spec))
DeleteDefaults(r) ==
    Defaulting(r) /\ RevokeFrom(r, work[r].spec.objects, ServerPrivileges)

------------------------------------------------------------------------------
Meddle(o, p, how) ==
    /\ UseCredit
    /\ acl' = With({o}, {p}, how)
    /\ meddled' = TRUE
    /\ UNCHANGED <<apiVars, work, edits, public>>

(* The privileges on an object that some specification is about.           *)
Named(o) == UNION {Spelled(s) : s \in {t \in Specs : o \in t.objects}}
                \cap ServerPrivileges

AdminGrants ==
    \E o \in Objects, how \in {"plain", "grantable"} :
        \E p \in Named(o) : Meddle(o, p, how)

AdminRevokes ==
    \E o \in Objects : \E p \in Named(o) :
        acl[o][p] # "none" /\ Meddle(o, p, "none")

Init ==
    /\ WorkerInit
    /\ acl = [o \in Objects |-> [p \in AllPrivileges |-> "none"]]
    /\ public = TRUE
    /\ meddled = FALSE

Reconcile(r) ==
    \/ WorkerSteps(r) /\ UNCHANGED <<serverVars, meddled>>
    \/ Settled(r) /\ UNCHANGED <<serverVars, meddled>>
    \/ Observe(r) \/ Create(r) \/ CreateRefused(r) \/ Delete(r)
    \/ ObserveDefaults(r) \/ CreateDefaults(r) \/ DeleteDefaults(r)

Failure ==
    \/ /\ Crash \/ \E r \in Resources : CallFails(r, {"create"})
       /\ UNCHANGED <<serverVars, meddled>>
    \/ \E r \in Resources : LoseCommit(r)

(* An edit makes no default privileges of a grant.                         *)
Environment ==
    \/ /\ \E r \in Resources :
             Users(r) /\ IsDefault(spec'[r]) = IsDefault(spec[r])
       /\ UNCHANGED <<serverVars, meddled>>
    \/ AdminGrants \/ AdminRevokes

Next == (\E r \in Resources : Reconcile(r)) \/ Failure \/ Environment
Spec == Init /\ [][Next]_vars

(* Every resource is requeued after an error and polled after a success.   *)
FairSpec == Spec /\ \A r \in Resources : WF_vars(Reconcile(r))

------------------------------------------------------------------------------
(* A grant some resource still answers for.                                *)
Claimed(o, p) ==
    \E r \in Resources : /\ mr[r].present /\ mr[r].finalizer
                         /\ o \in spec[r].objects
                         /\ p \in ExpandPrivileges(spec[r])

(* The role holds no privilege that nobody answers for: one granted for a  *)
(* resource that is gone, or taken out of a specification, has been        *)
(* revoked.                                                                *)
NoPrivilegeLeft ==
    \A o \in Objects, p \in AllPrivileges :
        acl[o][p] # "none" => Claimed(o, p)

(* ... which the code keeps up, through failures, lost commits and         *)
(* crashes, for resources that are never edited and share no object, and   *)
(* at most one of which is about default privileges of a type, spelled out *)
(* rather than ALL, as long as an administrator leaves the role alone.     *)
Disjoint ==
    \A q, r \in Resources :
        q # r => /\ spec[q].objects \cap spec[r].objects = {}
                 /\ ~IsDefault(spec[q]) \/ ~IsDefault(spec[r])
SpelledOut ==
    \A r \in Resources : IsDefault(spec[r]) => "ALL" \notin spec[r].privileges
NoLeakedPrivilege ==
    ~meddled /\ edits = 0 /\ Disjoint /\ SpelledOut => NoPrivilegeLeft

(* The REVOKE that starts every Create is never seen on its own: a role    *)
(* loses a privilege only by a Delete, by an administrator, or on a        *)
(* default list whose resource does not ask for it, however many resources *)
(* overlap and however their specifications are edited.                    *)
NoPrivilegeLost ==
    [][\A o \in Objects, p \in AllPrivileges :
          acl[o][p] # "none" /\ acl'[o][p] = "none" =>
              \/ AdminRevokes
              \/ \E r \in Resources :
                    \/ At(r, "delete") /\ At(r, "idle")'
                    \/ /\ At(r, "create") /\ At(r, "created")'
                       /\ o \in work[r].spec.objects \cap Defaults
                       /\ p \notin Spelled(work[r].spec)]_vars

(* What a resource asks for is granted.  The grant option of a default     *)
(* list is set by Create but never observed, and neither are the           *)
(* privileges of PUBLIC: a grant on a database has revoked them unless it  *)
(* was there, or edited to ask for it, before Create could.                *)
Granted(s) ==
    /\ \A o \in s.objects, p \in Spelled(s) :
          acl[o][p] \in IF IsDefault(s) THEN {"plain", "grantable"}
                                        ELSE {Wanted(s)}
    /\ ShutsPublic(s) /\ edits = 0 /\ ~meddled => ~public

(* Another resource is about the same object, or the role has privileges   *)
(* on another default list, which Observe takes for those of this one.     *)
Contested(r) ==
    \/ \E q \in Resources \ {r} : mr[q].present /\
          spec[q].objects \cap spec[r].objects # {}
    \/ /\ IsDefault(spec[r])
       /\ \E o \in Defaults \ spec[r].objects, p \in AllPrivileges :
             acl[o][p] # "none"

(* Privileges nobody else is about come to be granted and stay so, once    *)
(* edits, meddling and failures end, even where a surplus makes every      *)
(* reconcile create the grant again.                                       *)
GrantsConverge ==
    <>[](\A r \in Resources :
            \/ Stopped(r) \/ mr[r].deleting
            \/ Contested(r) \/ ~Identified(spec[r]) \/ Granted(spec[r])
            \/ ~(Spelled(spec[r]) \subseteq ServerPrivileges))

(* ... and deleted resources go away, unless an edit has left them without *)
(* a type.                                                                 *)
DeletionCompletes ==
    <>[](\A r \in Resources :
            mr[r].deleting =>
                Stopped(r) \/ Contested(r) \/ ~Identified(spec[r]))

(* A Create that succeeds has granted: ExecTx says it executes its queries *)
(* "committing if all are successful" (clients/postgresql).                *)
CreateCommits ==
    [][\A r \in Resources :
          At(r, "create") /\ At(r, "created")'
          => Exists(work[r].spec)']_vars
==============================================================================
