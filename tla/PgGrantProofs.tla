---------------------------- MODULE PgGrantProofs ----------------------------
(***************************************************************************)
(* Theorems about PgGrant, for every set of grants, objects and            *)
(* privileges, on an old server or a new one, and for every bound on edits *)
(* and faults.                                                             *)
(***************************************************************************)
EXTENDS PgGrant, WorkerProofs

Lists == [Objects -> [AllPrivileges -> Holdings]]

(***************************************************************************)
(* Privileges and the lists they are on.                                   *)
(***************************************************************************)
LEMMA SpelledTypes ==
    ASSUME NEW s \in Specs
    PROVE  /\ Spelled(s) \subseteq AllPrivileges
           /\ ExpandPrivileges(s) \subseteq AllPrivileges
           /\ Wanted(s) \in {"plain", "grantable"}
  <1>1. /\ s.privileges \subseteq AllPrivileges \cup {"ALL"}
        /\ \A t \in GrantTypesOf(s) : Shorthand[t] \subseteq AllPrivileges
    BY GrantAssumption DEF GrantParameters, GrantTypesOf
  <1>2. LongForm(s) \subseteq AllPrivileges
    BY <1>1 DEF LongForm
  <1>3. Names(s) \ {"ALL"} \subseteq AllPrivileges
    BY <1>1, GrantAssumption DEF Names
  <1>4. ServerPrivileges \subseteq AllPrivileges
    BY DEF ServerPrivileges
  <1>5. Spelled(s) \subseteq AllPrivileges
    BY <1>3, <1>4 DEF Spelled
  <1>6. ExpandPrivileges(s) \subseteq AllPrivileges
    BY <1>1, <1>2, GrantAssumption DEF ExpandPrivileges, Replacement, Names
  <1> QED BY <1>5, <1>6 DEF Wanted

(* A grant with a type means what it is spelled as.                        *)
LEMMA SpelledIsExpanded ==
    ASSUME NEW s \in Specs, ~IsDefault(s), Identified(s)
    PROVE  Spelled(s) = ExpandPrivileges(s)
  <1>1. PICK t \in GrantTypes : /\ s.fields = GrantTypeFields[t]
                                /\ (t = "ROLE_MEMBER") = (s.privileges = {})
    BY DEF Identified, GrantTypesOf
  <1>2. \A g \in GrantTypesOf(s) : Shorthand[g] \subseteq AllPrivileges
    BY GrantAssumption DEF GrantTypesOf
  <1>3. LongForm(s) \subseteq AllPrivileges
    BY <1>2 DEF LongForm
  <1>4. ServerPrivileges \cap LongForm(s) = Replacement(s)
    BY <1>3, GrantAssumption DEF ServerPrivileges, Replacement
  <1>5. CASE "MemberOf" \in s.fields
    <2>1. t = "ROLE_MEMBER"
      BY <1>1, <1>5 DEF GrantTypes, GrantTypeFields
    <2> QED BY <1>1, <1>5, <2>1 DEF Spelled, ExpandPrivileges, Names
  <1>6. CASE "MemberOf" \notin s.fields
    BY <1>4, <1>6 DEF Spelled, ExpandPrivileges, Names
  <1> QED BY <1>5, <1>6

(* The privileges on some objects are set, those on others are not.        *)
LEMMA WithTypes ==
    ASSUME acl \in Lists, NEW objects, NEW privileges, NEW how \in Holdings
    PROVE  /\ With(objects, privileges, how) \in Lists
           /\ Only(objects, privileges, how) \in Lists
           /\ \A o \in Objects, p \in AllPrivileges :
                 /\ With(objects, privileges, how)[o][p]
                       = IF o \in objects /\ p \in privileges THEN how ELSE acl[o][p]
                 /\ Only(objects, privileges, how)[o][p]
                       = IF o \notin objects THEN acl[o][p]
                         ELSE IF p \in privileges THEN how ELSE "none"
  <1>1. "none" \in Holdings
    BY DEF Holdings
  <1>2. With(objects, privileges, how) \in Lists
    BY <1>1 DEF With, Lists
  <1>3. Only(objects, privileges, how) \in Lists
    BY <1>1 DEF Only, Lists
  <1>4. \A o \in Objects, p \in AllPrivileges :
           With(objects, privileges, how)[o][p]
              = IF o \in objects /\ p \in privileges THEN how ELSE acl[o][p]
    BY DEF With
  <1>5. \A o \in Objects, p \in AllPrivileges :
           Only(objects, privileges, how)[o][p]
              = IF o \notin objects THEN acl[o][p]
                ELSE IF p \in privileges THEN how ELSE "none"
    BY DEF Only
  <1> QED BY <1>2, <1>3, <1>4, <1>5

(***************************************************************************)
(* The kinds of steps.                                                     *)
(***************************************************************************)
Observes(r) == Observe(r) \/ ObserveDefaults(r)
Creates(r)  == Create(r) \/ CreateDefaults(r)
Deletes(r)  == Delete(r) \/ DeleteDefaults(r)
Call(r) ==
    Observes(r) \/ Creates(r) \/ CreateRefused(r) \/ LoseCommit(r) \/ Deletes(r)
Steps(r) ==
    (WorkerSteps(r) \/ Settled(r)) /\ UNCHANGED <<serverVars, meddled>>
Breaks ==
    /\ Crash \/ \E r \in Resources : CallFails(r, {"create"})
    /\ UNCHANGED <<serverVars, meddled>>
Orders(r) == Users(r) /\ UNCHANGED <<serverVars, meddled>>
Administers == AdminGrants \/ AdminRevokes

LEMMA NextCases ==
    ASSUME Next
    PROVE  \/ \E r \in Resources : Call(r) \/ Steps(r) \/ Orders(r)
           \/ Breaks \/ Administers
  BY DEF Next, Call, Observes, Creates, Deletes, Steps, Breaks, Orders, Administers,
         Reconcile, Failure, Environment

(***************************************************************************)
(* The calls of the controllers.                                           *)
(***************************************************************************)

(* Where a call leaves the worker, and what it leaves alone.               *)
LEMMA CallEffect ==
    ASSUME TypeOK, NEW r \in Resources, Call(r)
    PROVE  /\ WorkerTypes(WorkerPhases)' /\ UNCHANGED <<mr, spec, edits, meddled>>
           /\ Elsewhere(r) /\ ~At(r, "idle")
           /\ work'[r].pc \in {"idle", "delete", "release", "claim", "created",
                               "createFailed"}
           /\ work'[r].pc \in {"delete", "release", "claim"}
                 => Identified(work[r].spec)
           /\ work'[r].pc = "release" => Observes(r) /\ ~Exists(work[r].spec)
           /\ work'[r].pc # "idle" => /\ work'[r].spec = work[r].spec
                                      /\ work'[r].dirty = work[r].dirty
           /\ Creates(r) => work'[r].pc = "created"
           /\ Deletes(r) => work'[r].pc = "idle"
  <1> USE DEF apiVars, boundVars
  <1>0. /\ work \in Workers(WorkerPhases) /\ mr \in [Resources -> MR]
        /\ spec \in [Resources -> Specs] /\ edits \in Nat /\ faults \in Nat
        /\ work[r] \in Copies(WorkerPhases)
    BY TypesOfParts DEF TypeOK, Workers
  <1>u. UNCHANGED <<mr, spec, edits, meddled>> /\ faults' \in Nat
    <2>1. CASE Observes(r) \/ CreateRefused(r) \/ Deletes(r)
      BY <1>0, <2>1 DEF Observes, Observe, ObserveDefaults, CreateRefused, Deletes, Delete,
         DeleteDefaults, RevokeFrom
    <2>2. CASE Creates(r)
      BY <1>0, <2>2 DEF Creates, Create, CreateDefaults, CreateTx
    <2>3. CASE LoseCommit(r)
      BY <1>0, <2>3 DEF LoseCommit, CreateTx, UseCredit
    <2> QED BY <2>1, <2>2, <2>3 DEF Call
  <1>t. ASSUME work' \in Workers(WorkerPhases)
        PROVE  WorkerTypes(WorkerPhases)'
    BY <1>0, <1>t, <1>u, TypesKept
  <1>g. ASSUME NEW phase \in {"created", "createFailed"}, Goes(r, phase)
        PROVE  /\ work' \in Workers(WorkerPhases) /\ Elsewhere(r) /\ work'[r].pc = phase
               /\ work'[r].spec = work[r].spec /\ work'[r].dirty = work[r].dirty
    <2>1. phase \in WorkerPhases
      BY DEF WorkerPhases
    <2>2. /\ work' \in Workers(WorkerPhases) /\ Elsewhere(r)
          /\ work'[r] = [work[r] EXCEPT !.pc = phase] /\ work'[r].pc = phase
      BY <1>0, <1>g, <2>1, GoesOne
    <2> QED BY <1>0, <2>2 DEF Copies
  <1>e. ASSUME Ends(r)
        PROVE  work' \in Workers(WorkerPhases) /\ Elsewhere(r) /\ work'[r].pc = "idle"
    BY <1>0, <1>e, EndsOne
  <1>1. CASE Observes(r)
    <2>1. At(r, "observe") /\ ~Creates(r) /\ ~Deletes(r)
      BY <1>1 DEF Observes, Observe, ObserveDefaults, Creates, Create, CreateDefaults,
         CreateTx, Deletes, Delete, DeleteDefaults, RevokeFrom, At
    <2>2. CASE Ends(r)
      BY <1>e, <1>t, <1>u, <2>1, <2>2 DEF At
    <2>3. CASE /\ Identified(work[r].spec)
               /\ Observed(r, Exists(work[r].spec), TRUE)
      <3>1. Exists(work[r].spec) \in BOOLEAN
        BY DEF Exists, GrantExists, DefaultsExist
      <3>2. /\ work' \in Workers(WorkerPhases) /\ Elsewhere(r)
            /\ work'[r].pc \in {"delete", "release", "claim"}
            /\ work'[r].pc = "release" => ~Exists(work[r].spec)
            /\ work'[r].spec = work[r].spec /\ work'[r].dirty = work[r].dirty
        BY <1>0, <2>3, <3>1, ObservesOne
      <3> QED BY <1>1, <1>t, <1>u, <2>1, <2>3, <3>2 DEF At
    <2>4. \/ Ends(r)
          \/ Identified(work[r].spec) /\ Observed(r, Exists(work[r].spec), TRUE)
      BY <1>1 DEF Observes, Observe, ObserveDefaults, Grants, Defaulting, Identified, Exists
    <2> QED BY <2>2, <2>3, <2>4
  <1>2. CASE Creates(r) \/ LoseCommit(r)
    <2>1. At(r, "create") /\ ~Deletes(r) /\ Goes(r, "created")
      BY <1>2 DEF Creates, Create, CreateDefaults, LoseCommit, CreateTx, Deletes, Delete,
         DeleteDefaults, RevokeFrom, At
    <2> QED BY <1>g, <1>t, <1>u, <2>1 DEF At
  <1>3. CASE CreateRefused(r)
    <2>1. /\ At(r, "create") /\ ~Deletes(r) /\ Goes(r, "createFailed")
          /\ ~Creates(r)
      BY <1>3 DEF CreateRefused, Creates, Create, CreateDefaults, CreateTx, Deletes, Delete,
         DeleteDefaults, RevokeFrom, At
    <2> QED BY <1>g, <1>t, <1>u, <2>1 DEF At
  <1>4. CASE Deletes(r)
    <2>1. At(r, "delete") /\ ~Creates(r) /\ Ends(r)
      BY <1>4 DEF Creates, Create, CreateDefaults, CreateTx, Deletes, Delete,
         DeleteDefaults, RevokeFrom, At
    <2> QED BY <1>e, <1>t, <1>u, <2>1 DEF At
  <1> QED BY <1>1, <1>2, <1>3, <1>4 DEF Call

(* What a call does to the lists.                                          *)
LEMMA CallLists ==
    ASSUME TypeOK, NEW r \in Resources, Call(r)
    PROVE  LET s == work[r].spec
           IN  \/ acl' = acl
               \/ /\ At(r, "create") /\ Grants(r) /\ Accepted(s) /\ Creates(r)
                  /\ acl' = With(s.objects, ExpandPrivileges(s), Wanted(s))
               \/ /\ At(r, "create") /\ Defaulting(r) /\ Accepted(s) /\ Creates(r)
                  /\ acl' = Only(s.objects, Spelled(s), Wanted(s))
               \/ /\ At(r, "delete") /\ Deletes(r)
                  /\ \/ Grants(r) /\ acl' = With(s.objects, Spelled(s), "none")
                     \/ /\ Defaulting(r)
                        /\ acl' = With(s.objects, ServerPrivileges, "none")
  BY DEF Call, Observes, Observe, ObserveDefaults, Creates, Create, CreateDefaults,
     CreateTx, CreateRefused, LoseCommit, Deletes, Delete, DeleteDefaults, RevokeFrom,
     serverVars

LEMMA CallTyped ==
    ASSUME TypeOK, NEW r \in Resources, Call(r)
    PROVE  TypeOK'
  <1>0. acl \in Lists /\ work[r].spec \in Specs
    BY DEF TypeOK, WorkerTypes, Lists
  <1>1. WorkerTypes(WorkerPhases)' /\ meddled' = meddled
    BY CallEffect
  <1>2. Wanted(work[r].spec) \in Holdings /\ "none" \in Holdings
    BY <1>0, SpelledTypes DEF Holdings
  <1>3. acl' \in Lists
    BY <1>0, <1>2, WithTypes, CallLists
  <1>4. public' \in BOOLEAN
    BY DEF Call, Observes, Observe, ObserveDefaults, Creates, Create, CreateDefaults,
     CreateTx, CreateRefused, LoseCommit, Deletes, Delete, DeleteDefaults, RevokeFrom,
     serverVars, TypeOK
  <1> QED BY <1>1, <1>3, <1>4 DEF TypeOK, Lists

(***************************************************************************)
(* The other steps.                                                        *)
(***************************************************************************)

(* Where they leave a worker and its resource: at rest, at the start with  *)
(* a fresh copy, or with the copy it had, which may have become stale.     *)
Fate(r) ==
    /\ \/ work'[r].pc = "idle"
       \/ /\ At(r, "idle") /\ At(r, "observe")'
          /\ work'[r].spec = spec[r] /\ mr'[r].present
       \/ /\ ~At(r, "idle") /\ work'[r].spec = work[r].spec
          /\ \/ work'[r].dirty
             \/ ~work[r].dirty /\ (mr[r].present => mr'[r].present)
          /\ \/ work'[r].pc = work[r].pc
             \/ work'[r].pc \in {"mark", "update", "done"} /\ mr'[r].finalizer
                /\ At(r, "claim")
             \/ work'[r].pc = "create" /\ At(r, "mark")
             \/ work'[r].pc \in {"publish", "createFailed"}
    /\ At(r, "release") \/ (mr[r].finalizer => mr'[r].finalizer)
    /\ mr'[r].finalizer =>
          \/ mr[r].finalizer /\ (mr[r].present => mr'[r].present)
          \/ ~At(r, "idle") /\ ~work[r].dirty /\ (mr[r].present => mr'[r].present)
    /\ \/ spec'[r] = spec[r] /\ edits' = edits
       \/ edits' = edits + 1

(* A finalizer is only given to a resource that is as it was read, and one *)
(* that stays stays with its resource.                                     *)
LEMMA FinalizerGiven ==
    ASSUME TypeOK, NEW r \in Resources, Steps(r), mr'[r].finalizer
    PROVE  /\ mr[r].finalizer \/ (~At(r, "idle") /\ ~work[r].dirty)
           /\ mr'[r].present = mr[r].present
  <1> USE DEF apiVars
  <1>0. mr \in [Resources -> MR] /\ mr[r] \in MR
    BY DEF TypeOK, WorkerTypes
  <1>1. CASE mr' = mr
    BY <1>1
  <1>2. CASE Claim(r)
    <2>1. mr' = [mr EXCEPT ![r] = WithFinalizer(mr[r])] /\ At(r, "claim")
          /\ (mr[r].finalizer \/ ~work[r].dirty)
      BY <1>2 DEF Claim
    <2>2. WithFinalizer(mr[r]).present = mr[r].present
      BY <1>0, MetadataKept
    <2> QED BY <1>0, <2>1, <2>2 DEF At
  <1>3. ASSUME NEW mark \in CreationMarks, mr' = [mr EXCEPT ![r] = Marked(mr[r], mark)]
        PROVE  mr[r].finalizer /\ mr'[r].present = mr[r].present
    <2>1. /\ Marked(mr[r], mark).finalizer = mr[r].finalizer
          /\ Marked(mr[r], mark).present = mr[r].present
      BY <1>0, MetadataKept, ZenonT(60)
    <2> QED BY <1>0, <1>3, <2>1
  <1>4. CASE MarkPending(r) \/ RecordFailure(r) \/ RecordSuccess(r)
    BY <1>3, <1>4 DEF MarkPending, RecordFailure, RecordSuccess, CreationMarks
  <1>5. CASE Release(r)
    <2>1. mr' = [mr EXCEPT ![r] = WithoutFinalizer(mr[r])]
      BY <1>5 DEF Release
    <2>2. WithoutFinalizer(mr[r]).finalizer = FALSE
      BY <1>0, MetadataKept
    <2> QED BY <1>0, <2>1, <2>2
  <1>6. CASE Begin(r) \/ Conflict(r) \/ Settled(r)
    BY <1>1, <1>6 DEF Begin, Conflict, Settled
  <1> QED BY <1>2, <1>4, <1>5, <1>6 DEF Steps, WorkerSteps

LEMMA StepsFate ==
    ASSUME TypeOK, NEW r \in Resources, Steps(r)
    PROVE  WorkerTypes(WorkerPhases)' /\ \A q \in Resources : Fate(q)
  <1>0. /\ work \in Workers(WorkerPhases) /\ work[r] \in Copies(WorkerPhases)
        /\ mr[r] \in MR /\ Idle.pc = "idle"
    BY TypesOfParts, IdleCopy DEF TypeOK, Workers
  <1>1. /\ WorkerTypes(WorkerPhases)' /\ Elsewhere(r) /\ Moved(r) /\ Metadata(r)
        /\ spec' = spec
    BY WorkerStepEffect DEF TypeOK, Steps
  <1>2. edits' = edits
    BY DEF Steps, WorkerSteps, Begin, Claim, MarkPending, RecordFailure, RecordSuccess,
       Release, Conflict, Settled, boundVars
  <1>3. Fate(r)
    <2>1. mr'[r].finalizer => /\ mr[r].finalizer \/ (~At(r, "idle") /\ ~work[r].dirty)
                              /\ mr'[r].present = mr[r].present
      BY FinalizerGiven
    <2>2. CASE At(r, "idle")
      <3>1. /\ work'[r] = [Idle EXCEPT !.pc = "observe", !.spec = spec[r],
                                       !.deleting = mr[r].deleting]
        BY <1>1, <2>2 DEF Moved
      <3>2. work'[r].pc = "observe" /\ work'[r].spec = spec[r]
        BY <3>1 DEF Idle
      <3>3. mr[r].present /\ mr'[r].present = mr[r].present
        BY <1>1, <2>2, <3>2 DEF Moved, Metadata, At
      <3> QED BY <1>1, <1>2, <2>1, <2>2, <3>2, <3>3 DEF Fate, Metadata, At
    <2>3. CASE ~At(r, "idle") /\ work'[r].pc # "idle"
      <3>1. work'[r] = [work[r] EXCEPT !.pc = work'[r].pc]
        BY <1>0, <1>1, <2>3 DEF Moved
      <3>2. work'[r].spec = work[r].spec /\ work'[r].dirty = work[r].dirty
        BY <1>0, <3>1 DEF Copies
      <3>3. ~At(r, "release")
        BY <1>1, <2>3 DEF Moved, At
      <3>4. work[r].dirty \in BOOLEAN
        BY <1>0 DEF Copies
      <3> QED BY <1>1, <1>2, <2>1, <2>3, <3>2, <3>3, <3>4 DEF Fate, Moved, Metadata, At
    <2>4. CASE work'[r].pc = "idle"
      BY <1>1, <1>2, <2>1, <2>4 DEF Fate, Metadata
    <2> QED BY <2>2, <2>3, <2>4
  <1>4. ASSUME NEW q \in Resources \ {r}
        PROVE  Fate(q)
    <2>1. /\ work'[q] = work[q] /\ mr'[q] = mr[q] /\ work[q].dirty \in BOOLEAN
      BY <1>0, <1>1 DEF Elsewhere, Metadata, Workers, Copies
    <2> QED BY <1>1, <1>2, <2>1 DEF Fate, At
  <1> QED BY <1>1, <1>3, <1>4

LEMMA OrdersFate ==
    ASSUME TypeOK, NEW r \in Resources, Orders(r)
    PROVE  WorkerTypes(WorkerPhases)' /\ \A q \in Resources : Fate(q)
  <1>0. work \in Workers(WorkerPhases) /\ mr \in [Resources -> MR]
    BY TypesOfParts DEF TypeOK
  <1>1. /\ WorkerTypes(WorkerPhases)'
        /\ \A q \in Resources :
              /\ work'[q].pc = work[q].pc /\ work'[q].spec = work[q].spec
              /\ mr'[q].finalizer = mr[q].finalizer
              /\ mr[q].finalizer => mr'[q].present = mr[q].present
        /\ Elsewhere(r)
        /\ \A q \in Resources \ {r} : mr'[q] = mr[q] /\ spec'[q] = spec[q]
        /\ \/ work'[r].dirty = ~At(r, "idle")
           \/ work' = work /\ mr'[r].present = mr[r].present /\ spec' = spec
        /\ \/ spec' = spec /\ edits' = edits
           \/ edits' = edits + 1
    BY UsersEffect DEF Orders, TypeOK
  <1>2. ASSUME NEW q \in Resources
        PROVE  Fate(q)
    <2>1. CASE At(q, "idle")
      BY <1>1, <2>1 DEF Fate, At
    <2>2. CASE ~At(q, "idle")
      <3>1. \/ work'[q].dirty
            \/ ~work[q].dirty /\ (mr[q].present => mr'[q].present)
        <4>1. work[q].dirty \in BOOLEAN
          BY <1>0 DEF Workers, Copies
        <4>2. CASE q = r /\ work'[r].dirty = ~At(r, "idle")
          BY <2>2, <4>2
        <4>3. CASE work'[q] = work[q] /\ mr'[q].present = mr[q].present
          BY <4>1, <4>3
        <4> QED BY <1>1, <4>2, <4>3 DEF Elsewhere
      <3> QED BY <1>1, <2>2, <3>1 DEF Fate, At
    <2> QED BY <2>1, <2>2
  <1> QED BY <1>1, <1>2

LEMMA BreaksFate ==
    ASSUME TypeOK, Breaks
    PROVE  WorkerTypes(WorkerPhases)' /\ \A q \in Resources : Fate(q)
  <1>0. work \in Workers(WorkerPhases)
    BY TypesOfParts DEF TypeOK
  <1>1. WorkerTypes(WorkerPhases)' /\ UNCHANGED <<mr, spec, edits>>
    BY CallFailsEffect, CrashEffect DEF Breaks, TypeOK
  <1>2. ASSUME NEW q \in Resources
        PROVE  \/ work'[q] = work[q] \/ work'[q].pc = "idle"
               \/ /\ ~At(q, "idle") /\ work'[q] = [work[q] EXCEPT !.pc = "createFailed"]
                  /\ work'[q].pc = "createFailed"
    <2>1. CASE Crash
      BY <2>1, CrashEffect DEF TypeOK
    <2>2. ASSUME NEW r \in Resources, CallFails(r, {"create"})
          PROVE  \/ work'[q] = work[q] \/ work'[q].pc = "idle"
                 \/ /\ ~At(q, "idle")
                    /\ work'[q] = [work[q] EXCEPT !.pc = "createFailed"]
                    /\ work'[q].pc = "createFailed"
      BY <2>2, CallFailsEffect DEF Elsewhere, TypeOK
    <2> QED BY <2>1, <2>2 DEF Breaks
  <1>3. ASSUME NEW q \in Resources
        PROVE  Fate(q)
    <2>0. work[q] \in Copies(WorkerPhases)
      BY <1>0 DEF Workers
    <2>1. CASE work'[q].pc = "idle"
      BY <1>1, <2>1 DEF Fate
    <2>2. CASE work'[q].pc # "idle" /\ work'[q] = work[q]
      BY <1>1, <2>0, <2>2 DEF Fate, At, Copies
    <2>3. CASE /\ ~At(q, "idle") /\ work'[q].pc = "createFailed"
               /\ work'[q] = [work[q] EXCEPT !.pc = "createFailed"]
      <3>1. work'[q].spec = work[q].spec /\ work'[q].dirty = work[q].dirty
            /\ work[q].dirty \in BOOLEAN
        BY <2>0, <2>3 DEF Copies
      <3> QED BY <1>1, <2>3, <3>1 DEF Fate, At
    <2> QED BY <1>2, <2>1, <2>2, <2>3
  <1> QED BY <1>1, <1>3

LEMMA OtherEffect ==
    ASSUME TypeOK,
           (\E r \in Resources : Steps(r) \/ Orders(r)) \/ Breaks
    PROVE  TypeOK' /\ UNCHANGED <<acl, public, meddled>> /\ \A r \in Resources : Fate(r)
  <1>1. UNCHANGED <<acl, public, meddled>>
    BY DEF Steps, Orders, Breaks, serverVars
  <1>2. WorkerTypes(WorkerPhases)' /\ \A r \in Resources : Fate(r)
    BY StepsFate, OrdersFate, BreaksFate
  <1> QED BY <1>1, <1>2 DEF TypeOK

LEMMA AdministersEffect ==
    ASSUME TypeOK, Administers
    PROVE  /\ TypeOK' /\ UNCHANGED <<work, mr, spec, edits>> /\ meddled' = TRUE
           /\ ~AdminRevokes =>
                 \A o \in Objects, p \in AllPrivileges :
                     acl'[o][p] = "none" => acl[o][p] = "none"
  <1>0. acl \in Lists /\ faults \in Nat
    BY DEF TypeOK, WorkerTypes, Lists
  <1>1. ASSUME NEW o \in Objects, NEW p, NEW how \in Holdings, Meddle(o, p, how)
        PROVE  /\ TypeOK' /\ UNCHANGED <<work, mr, spec, edits>> /\ meddled' = TRUE
               /\ how # "none" =>
                     \A x \in Objects, y \in AllPrivileges :
                         acl'[x][y] = "none" => acl[x][y] = "none"
    <2>1. /\ acl' = With({o}, {p}, how) /\ faults' \in Nat
          /\ UNCHANGED <<work, mr, spec, edits, public>> /\ meddled' = TRUE
      BY <1>0, <1>1 DEF Meddle, UseCredit, apiVars
    <2>2. acl' \in Lists
      BY <1>0, <2>1, WithTypes
    <2>3. \A x \in Objects, y \in AllPrivileges :
             acl'[x][y] = IF x \in {o} /\ y \in {p} THEN how ELSE acl[x][y]
      BY <1>0, <2>1, WithTypes
    <2>4. TypeOK'
      BY <2>1, <2>2 DEF TypeOK, WorkerTypes, Lists
    <2> QED BY <2>1, <2>3, <2>4
  <1>2. CASE AdminGrants
    <2>1. PICK o \in Objects, how \in {"plain", "grantable"} :
             \E p \in Named(o) : Meddle(o, p, how)
      BY <1>2 DEF AdminGrants
    <2>2. how \in Holdings /\ how # "none"
      BY DEF Holdings
    <2> QED BY <1>1, <2>1, <2>2
  <1>3. CASE AdminRevokes
    <2>1. PICK o \in Objects : \E p \in Named(o) : Meddle(o, p, "none")
      BY <1>3 DEF AdminRevokes
    <2>2. "none" \in Holdings
      BY DEF Holdings
    <2> QED BY <1>1, <1>3, <2>1, <2>2
  <1> QED BY <1>2, <1>3 DEF Administers

LEMMA TypesStep == TypeOK /\ [Next]_vars => TypeOK'
  <1>1. ASSUME TypeOK, UNCHANGED vars
        PROVE  TypeOK'
    BY <1>1 DEF vars, workerVars, apiVars, boundVars, serverVars, TypeOK, WorkerTypes
  <1> QED BY <1>1, NextCases, CallTyped, OtherEffect, AdministersEffect

LEMMA InitTyped == Init => TypeOK
  <1> SUFFICES ASSUME Init PROVE TypeOK
    OBVIOUS
  <1>1. WorkerTypes(WorkerPhases)
    BY InitTypes DEF Init
  <1> QED BY <1>1 DEF Init, TypeOK, Holdings

(* The lists of the role and the workers of its grants are what the types  *)
(* say, for every set of specifications, and whatever ALL stands for.      *)
THEOREM ListsTypeCorrect == Spec => []TypeOK
  BY InitTyped, TypesStep, PTL DEF Spec

(***************************************************************************)
(* Nothing is lost in between.                                             *)
(***************************************************************************)
LEMMA LosesOnlyBy ==
    ASSUME TypeOK, [Next]_vars, NEW o \in Objects, NEW p \in AllPrivileges,
           acl[o][p] # "none", acl'[o][p] = "none", ~AdminRevokes
    PROVE  \E r \in Resources :
              \/ At(r, "delete") /\ At(r, "idle")'
              \/ /\ At(r, "create") /\ At(r, "created")'
                 /\ o \in work[r].spec.objects \cap Defaults
                 /\ p \notin Spelled(work[r].spec)
  <1>0. acl \in Lists
    BY DEF TypeOK, Lists
  <1>1. acl' # acl
    OBVIOUS
  <1>2. PICK r \in Resources : Call(r)
    BY <1>1, NextCases, OtherEffect, AdministersEffect DEF vars, serverVars
  <1> DEFINE s == work[r].spec
  <1>3. s \in Specs
    BY DEF TypeOK, WorkerTypes
  <1>4. Wanted(s) \in Holdings /\ Wanted(s) # "none" /\ "none" \in Holdings
    BY <1>3, SpelledTypes DEF Holdings
  <1>5. CASE /\ At(r, "create") /\ Creates(r)
             /\ acl' = With(s.objects, ExpandPrivileges(s), Wanted(s))
    <2>1. acl'[o][p] = IF o \in s.objects /\ p \in ExpandPrivileges(s)
                       THEN Wanted(s) ELSE acl[o][p]
      BY <1>0, <1>4, <1>5, WithTypes
    <2> QED BY <1>4, <2>1
  <1>6. CASE /\ At(r, "create") /\ Creates(r) /\ Defaulting(r)
             /\ acl' = Only(s.objects, Spelled(s), Wanted(s))
    <2>1. acl'[o][p] = IF o \notin s.objects THEN acl[o][p]
                       ELSE IF p \in Spelled(s) THEN Wanted(s) ELSE "none"
      BY <1>0, <1>4, <1>6, WithTypes
    <2>2. o \in s.objects /\ p \notin Spelled(s)
      BY <1>4, <2>1
    <2>3. s.objects \subseteq Defaults
      BY <1>3, <1>6, GrantAssumption DEF Defaulting, IsDefault
    <2>4. At(r, "created")'
      BY <1>2, <1>6, CallEffect DEF At
    <2> QED BY <1>6, <2>2, <2>3, <2>4
  <1>7. CASE At(r, "delete") /\ Deletes(r)
    BY <1>2, <1>7, CallEffect DEF At
  <1> QED BY <1>1, <1>2, <1>5, <1>6, <1>7, CallLists

(* However the grants of a role overlap and are edited, the REVOKE that    *)
(* starts a Create takes nothing away: only a Delete does, an              *)
(* administrator, or the Create for a default list of what its resource    *)
(* does not ask for (grant and default_privileges, Create and Delete).     *)
THEOREM NothingIsLost == Spec => NoPrivilegeLost
  <1>1. TypeOK /\ [Next]_vars
        => [\A o \in Objects, p \in AllPrivileges :
              acl[o][p] # "none" /\ acl'[o][p] = "none" =>
                  \/ AdminRevokes
                  \/ \E r \in Resources :
                        \/ At(r, "delete") /\ At(r, "idle")'
                        \/ /\ At(r, "create") /\ At(r, "created")'
                           /\ o \in work[r].spec.objects \cap Defaults
                           /\ p \notin Spelled(work[r].spec)]_vars
    BY LosesOnlyBy
  <1> QED BY <1>1, ListsTypeCorrect, PTL DEF Spec, NoPrivilegeLost

(***************************************************************************)
(* Nothing is left behind.                                                 *)
(***************************************************************************)

(* A finalizer is on a resource that is there, a worker whose copy is not  *)
(* stale works on one, and on its own specification; what it creates has a *)
(* type and a finalizer.                                                   *)
Sound(r) ==
    /\ mr[r].finalizer => mr[r].present
    /\ ~At(r, "idle") =>
          /\ mr[r].present \/ work[r].dirty
          /\ edits = 0 => work[r].spec = spec[r]
    /\ work[r].pc \in {"claim", "mark", "create"} => Identified(work[r].spec)
    /\ work[r].pc \in {"mark", "create"} => mr[r].finalizer
AllSound == \A r \in Resources : Sound(r)

LEMMA SoundStep ==
    ASSUME TypeOK, AllSound, [Next]_vars
    PROVE  AllSound'
  <1> SUFFICES ASSUME NEW q \in Resources PROVE Sound(q)'
    BY DEF AllSound
  <1>0. Sound(q) /\ edits \in Nat /\ work[q] \in Copies(WorkerPhases)
    BY TypesOfParts DEF AllSound, TypeOK, WorkerTypes, Copies
  <1>1. CASE UNCHANGED vars
    BY <1>0, <1>1 DEF vars, workerVars, apiVars, boundVars, Sound, At, Identified, IsDefault,
       GrantTypesOf
  <1>2. ASSUME NEW r \in Resources, Call(r)
        PROVE  Sound(q)'
    <2>1. /\ UNCHANGED <<mr, spec, edits>> /\ Elsewhere(r) /\ ~At(r, "idle")
          /\ work'[r].pc \in {"idle", "delete", "release", "claim", "created",
                              "createFailed"}
          /\ work'[r].pc \in {"delete", "release", "claim"} => Identified(work[r].spec)
          /\ work'[r].pc # "idle" => /\ work'[r].spec = work[r].spec
                                     /\ work'[r].dirty = work[r].dirty
      BY <1>2, CallEffect
    <2>2. CASE q = r
      BY <1>0, <2>1, <2>2 DEF Sound, At
    <2>3. CASE q # r
      BY <1>0, <2>1, <2>3 DEF Sound, At, Elsewhere
    <2> QED BY <2>2, <2>3
  <1>3. ASSUME Fate(q)
        PROVE  Sound(q)'
    <2>1. mr'[q].finalizer => mr'[q].present
      BY <1>0, <1>3 DEF Sound, Fate
    <2>2. ~At(q, "idle")' => mr'[q].present \/ work'[q].dirty
      BY <1>0, <1>3 DEF Sound, Fate, At
    <2>3. edits' = 0 => edits = 0 /\ spec'[q] = spec[q]
      BY <1>0, <1>3 DEF Fate
    <2>4. ~At(q, "idle")' /\ edits' = 0 => work'[q].spec = spec'[q]
      BY <1>0, <1>3, <2>3 DEF Sound, Fate, At
    <2>5. work'[q].pc \in {"claim", "mark", "create"} =>
             /\ work'[q].spec = work[q].spec
             /\ work[q].pc \in {"claim", "mark", "create"}
      BY <1>3 DEF Fate, At
    <2>6. work'[q].pc \in {"mark", "create"} => mr'[q].finalizer
      BY <1>0, <1>3 DEF Sound, Fate, At
    <2> QED BY <1>0, <2>1, <2>2, <2>4, <2>5, <2>6 DEF Sound, At
  <1>4. CASE Administers
    BY <1>0, <1>4, AdministersEffect DEF Sound, At
  <1> QED BY <1>1, <1>2, <1>3, <1>4, NextCases, OtherEffect

(* The role holds, of what a specification is about, nothing or exactly    *)
(* what Create has granted.                                                *)
Quiet == ~meddled /\ edits = 0 /\ Disjoint /\ SpelledOut
Bare(s) == \A o \in s.objects, p \in AllPrivileges : acl[o][p] = "none"
Full(s) ==
    /\ Identified(s) /\ Spelled(s) \subseteq ServerPrivileges
    /\ \A o \in s.objects, p \in AllPrivileges :
          acl[o][p] = IF p \in Spelled(s) THEN Wanted(s) ELSE "none"

(* Whatever is held is held for a resource that is not about to be         *)
(* released.                                                               *)
Covered ==
    \A o \in Objects, p \in AllPrivileges :
        acl[o][p] # "none" => \E r \in Resources : o \in spec[r].objects
KeptFor(r) ==
    \/ Bare(spec[r])
    \/ Full(spec[r]) /\ mr[r].finalizer /\ ~At(r, "release")
Accounted == Quiet => Covered /\ \A r \in Resources : KeptFor(r)

LEMMA ObjectsOf ==
    ASSUME NEW s \in Specs
    PROVE  /\ s.objects \subseteq Objects
           /\ IsDefault(s) => /\ s.objects \subseteq Defaults
                              /\ \E o \in Defaults : s.objects = {o}
                              /\ "MemberOf" \notin s.fields
           /\ ~IsDefault(s) => s.objects \cap Defaults = {}
           /\ Defaults \subseteq Objects
           /\ s.privileges \subseteq AllPrivileges \cup {"ALL"}
  BY GrantAssumption DEF GrantParameters, IsDefault

(* What a resource has been granted it also observes.                      *)
LEMMA FullIsSeen ==
    ASSUME TypeOK, Quiet, Covered, NEW r \in Resources, Full(spec[r]), ~Bare(spec[r])
    PROVE  Exists(spec[r])
  <1> DEFINE s == spec[r]
  <1>0. s \in Specs /\ acl \in Lists
    BY DEF TypeOK, WorkerTypes, Lists
  <1>1. /\ Spelled(s) \subseteq AllPrivileges
        /\ Wanted(s) \in {"plain", "grantable"}
    BY <1>0, SpelledTypes
  <1>2. CASE ~IsDefault(s)
    <2>1. Spelled(s) = ExpandPrivileges(s)
      BY <1>0, <1>2, SpelledIsExpanded DEF Full
    <2>2. \A o \in s.objects :
              {p \in AllPrivileges : acl[o][p] = Wanted(s)} = ExpandPrivileges(s)
      BY <1>1, <2>1 DEF Full
    <2> QED BY <1>2, <2>2 DEF Exists, GrantExists, Matched
  <1>3. CASE IsDefault(s)
    <2>1. PICK d \in Defaults : s.objects = {d}
      BY <1>0, <1>3, ObjectsOf
    <2>2. Spelled(s) = s.privileges
      BY <1>0, <1>3, ObjectsOf DEF Quiet, SpelledOut, Spelled, Names
    <2>3. ASSUME NEW o \in Defaults, NEW p \in AllPrivileges, acl[o][p] # "none"
          PROVE  o = d
      <3>1. PICK q \in Resources : o \in spec[q].objects
        BY <1>0, <2>3, ObjectsOf DEF Covered
      <3>2. IsDefault(spec[q])
        BY <2>3, <3>1, ObjectsOf DEF TypeOK, WorkerTypes
      <3>3. q = r
        BY <1>3, <3>2 DEF Quiet, Disjoint
      <3> QED BY <2>1, <3>1, <3>3
    <2>4. DefaultsFound = Spelled(s)
      <3>1. ASSUME NEW p \in DefaultsFound PROVE p \in Spelled(s)
        BY <2>1, <2>3, <3>1 DEF DefaultsFound, Full
      <3>2. ASSUME NEW p \in Spelled(s) PROVE p \in DefaultsFound
        BY <1>1, <2>1, <3>2 DEF DefaultsFound, Full
      <3> QED BY <3>1, <3>2
    <2>5. DefaultsFound # {}
      BY <2>1, <2>4, <1>1 DEF Bare, Full
    <2> QED BY <1>3, <2>2, <2>4, <2>5 DEF Exists, DefaultsExist
  <1> QED BY <1>2, <1>3

(* A call leaves what the other resources are about alone.                 *)
LEMMA CallAccounts ==
    ASSUME TypeOK, AllSound, Accounted, NEW r \in Resources, Call(r)
    PROVE  Accounted'
  <1> DEFINE s == work[r].spec
  <1> SUFFICES ASSUME Quiet' PROVE Covered' /\ \A q \in Resources : KeptFor(q)'
    BY DEF Accounted
  <1>1. /\ UNCHANGED <<mr, spec, edits, meddled>> /\ Elsewhere(r) /\ ~At(r, "idle")
        /\ work'[r].pc = "release" => Observes(r) /\ ~Exists(s)
    BY CallEffect
  <1>2. Quiet
    BY <1>1 DEF Quiet, Disjoint, SpelledOut
  <1>3. /\ s = spec[r] /\ s \in Specs /\ acl \in Lists
        /\ \A q \in Resources : spec[q] \in Specs
    BY <1>1, <1>2 DEF AllSound, Sound, Quiet, TypeOK, WorkerTypes, Lists
  <1>4. Covered /\ \A q \in Resources : KeptFor(q)
    BY <1>2 DEF Accounted
  <1>5. /\ Spelled(s) \subseteq AllPrivileges
        /\ Wanted(s) \in Holdings /\ "none" \in Holdings /\ Wanted(s) # "none"
        /\ s.objects \subseteq Objects
    BY <1>3, SpelledTypes, ObjectsOf DEF Holdings
  (* Only what the resource is about changes.                              *)
  <1>6. ASSUME \A o \in Objects \ s.objects, p \in AllPrivileges : acl'[o][p] = acl[o][p],
               KeptFor(r)'
        PROVE  Covered' /\ \A q \in Resources : KeptFor(q)'
    <2>1. Covered'
      BY <1>1, <1>3, <1>4, <1>6 DEF Covered
    <2>2. ASSUME NEW q \in Resources, q # r
          PROVE  KeptFor(q)'
      <3>1. spec[q].objects \subseteq Objects \ s.objects
        BY <1>2, <1>3, <2>2, ObjectsOf DEF Quiet, Disjoint
      <3>2. /\ Bare(spec[q]) => Bare(spec[q])'
            /\ Full(spec[q]) => Full(spec[q])'
        BY <1>1, <1>6, <3>1 DEF Bare, Full
      <3>3. mr'[q] = mr[q] /\ work'[q] = work[q] /\ spec'[q] = spec[q]
        BY <1>1, <2>2 DEF Elsewhere
      <3> QED BY <1>1, <1>4, <3>2, <3>3 DEF KeptFor, At
    <2> QED BY <1>6, <2>1, <2>2
  <1>7. CASE acl' = acl
    <2>1. CASE work'[r].pc = "release"
      <3>1. Bare(spec[r])
        BY <1>1, <1>2, <1>3, <1>4, <2>1, FullIsSeen DEF KeptFor
      <3>2. Bare(spec[r])'
        BY <1>1, <1>7, <3>1 DEF Bare
      <3> QED BY <1>1, <1>6, <1>7, <3>2 DEF KeptFor
    <2>2. CASE work'[r].pc # "release"
      <3>1. /\ Bare(spec[r]) => Bare(spec[r])'
            /\ Full(spec[r]) => Full(spec[r])'
        BY <1>1, <1>7 DEF Bare, Full
      <3> QED BY <1>1, <1>4, <1>6, <1>7, <2>2, <3>1 DEF KeptFor, At
    <2> QED BY <2>1, <2>2
  <1>8. ASSUME At(r, "create"), Creates(r), Identified(s),
               Spelled(s) \subseteq ServerPrivileges,
               \A o \in Objects, p \in AllPrivileges :
                  acl'[o][p] = IF o \notin s.objects THEN acl[o][p]
                               ELSE IF p \in Spelled(s) THEN Wanted(s) ELSE "none"
        PROVE  Covered' /\ \A q \in Resources : KeptFor(q)'
    <2>1. Full(spec[r])'
      BY <1>1, <1>3, <1>5, <1>8 DEF Full
    <2>2. mr'[r].finalizer /\ ~At(r, "release")'
      <3>1. mr[r].finalizer
        BY <1>8 DEF AllSound, Sound, At
      <3>2. work'[r].pc = "created"
        BY <1>8, CallEffect
      <3> QED BY <1>1, <3>1, <3>2 DEF At
    <2> QED BY <1>1, <1>6, <1>8, <2>1, <2>2 DEF KeptFor
  <1>9. CASE /\ At(r, "create") /\ Grants(r) /\ Accepted(s) /\ Creates(r)
             /\ acl' = With(s.objects, ExpandPrivileges(s), Wanted(s))
    <2>1. Identified(s) /\ ~IsDefault(s)
      BY <1>9 DEF AllSound, Sound, At, Grants
    <2>2. Spelled(s) = ExpandPrivileges(s) /\ Spelled(s) \subseteq ServerPrivileges
      BY <1>3, <1>9, <2>1, SpelledIsExpanded DEF Accepted
    <2>3. \A o \in Objects, p \in AllPrivileges :
             acl'[o][p] = IF o \in s.objects /\ p \in ExpandPrivileges(s)
                          THEN Wanted(s) ELSE acl[o][p]
      BY <1>3, <1>5, <1>9, WithTypes
    <2>4. \A o \in s.objects, p \in AllPrivileges : p \notin Spelled(s) => acl[o][p] = "none"
      BY <1>3, <1>4 DEF KeptFor, Bare, Full
    <2>5. \A o \in Objects, p \in AllPrivileges :
             acl'[o][p] = IF o \notin s.objects THEN acl[o][p]
                          ELSE IF p \in Spelled(s) THEN Wanted(s) ELSE "none"
      BY <2>2, <2>3, <2>4
    <2> QED BY <1>8, <1>9, <2>1, <2>2, <2>5
  <1>10. CASE /\ At(r, "create") /\ Defaulting(r) /\ Accepted(s) /\ Creates(r)
              /\ acl' = Only(s.objects, Spelled(s), Wanted(s))
    <2>1. Identified(s) /\ Spelled(s) \subseteq ServerPrivileges
      BY <1>10 DEF Identified, Defaulting, Accepted
    <2>2. \A o \in Objects, p \in AllPrivileges :
             acl'[o][p] = IF o \notin s.objects THEN acl[o][p]
                          ELSE IF p \in Spelled(s) THEN Wanted(s) ELSE "none"
      BY <1>3, <1>5, <1>10, WithTypes
    <2> QED BY <1>8, <1>10, <2>1, <2>2
  <1>11. CASE /\ At(r, "delete") /\ Deletes(r)
              /\ \/ Grants(r) /\ acl' = With(s.objects, Spelled(s), "none")
                 \/ Defaulting(r) /\ acl' = With(s.objects, ServerPrivileges, "none")
    <2>1. PICK privileges \in {Spelled(s), ServerPrivileges} :
             acl' = With(s.objects, privileges, "none")
      BY <1>11
    <2>2. \A o \in Objects, p \in AllPrivileges :
             acl'[o][p] = IF o \in s.objects /\ p \in privileges
                          THEN "none" ELSE acl[o][p]
      BY <1>3, <1>5, <2>1, WithTypes
    <2>3. \A o \in s.objects, p \in AllPrivileges : acl[o][p] # "none" => p \in privileges
      BY <1>3, <1>4, <2>1 DEF KeptFor, Bare, Full
    <2>4. Bare(spec[r])'
      BY <1>1, <1>3, <1>5, <2>2, <2>3 DEF Bare
    <2> QED BY <1>6, <2>2, <2>4 DEF KeptFor
  <1> QED BY <1>7, <1>9, <1>10, <1>11, CallLists

LEMMA AccountedStep ==
    ASSUME TypeOK, AllSound, Accounted, [Next]_vars
    PROVE  Accounted'
  <1>1. CASE UNCHANGED vars
    BY <1>1 DEF vars, workerVars, apiVars, boundVars, serverVars, Accounted, Quiet, Disjoint,
       SpelledOut, Covered, KeptFor, Bare, Full, At
  <1>2. ASSUME UNCHANGED <<acl, meddled>>, \A r \in Resources : Fate(r),
               NEW x \in Resources
        PROVE  Accounted'
    <2> SUFFICES ASSUME Quiet' PROVE Covered' /\ \A q \in Resources : KeptFor(q)'
      BY DEF Accounted
    <2>1. edits \in Nat /\ edits' = 0
      BY DEF TypeOK, WorkerTypes, Quiet
    <2>2. edits = 0 /\ \A q \in Resources : spec'[q] = spec[q]
      BY <1>2, <2>1 DEF Fate
    <2>3. Quiet
      BY <1>2, <2>2 DEF Quiet, Disjoint, SpelledOut
    <2>4. Covered'
      BY <1>2, <2>2, <2>3 DEF Accounted, Covered
    <2>5. ASSUME NEW q \in Resources PROVE KeptFor(q)'
      <3>1. KeptFor(q) /\ Fate(q) /\ spec'[q] = spec[q]
        BY <1>2, <2>2, <2>3 DEF Accounted
      <3>2. /\ Bare(spec[q]) => Bare(spec[q])'
            /\ Full(spec[q]) => Full(spec[q])'
        BY <1>2, <3>1 DEF Bare, Full
      <3>3. ~At(q, "release") => ~At(q, "release")'
        BY <3>1 DEF Fate, At
      <3> QED BY <3>1, <3>2, <3>3 DEF KeptFor, Fate
    <2> QED BY <2>4, <2>5
  <1>3. CASE Administers
    BY <1>3, AdministersEffect DEF Accounted, Quiet
  <1>4. ASSUME (\E r \in Resources : Steps(r) \/ Orders(r)) \/ Breaks
        PROVE  Accounted'
    <2>1. PICK x \in Resources : TRUE
      BY <1>4 DEF Breaks, Crash
    <2> QED BY <1>2, <1>4, <2>1, OtherEffect
  <1> QED BY <1>1, <1>3, <1>4, CallAccounts, NextCases

(* As long as grants are not edited, share no object and leave default     *)
(* privileges of a type to one resource that spells them out, nothing is   *)
(* granted that no resource is left to revoke: the deferred commit may be  *)
(* lost, calls may fail and the provider may crash at any time (grant and  *)
(* default_privileges, Observe and Delete).                                *)
THEOREM NothingIsLeft == Spec => []NoLeakedPrivilege
  <1> DEFINE IInv == TypeOK /\ AllSound /\ Accounted
  <1>1. Init => IInv
    <2> SUFFICES ASSUME Init PROVE IInv
      OBVIOUS
    <2>1. \A r \in Resources : work[r].pc = "idle" /\ mr[r].finalizer = FALSE
      BY InitTypes DEF Init
    <2>2. TypeOK /\ \A o \in Objects, p \in AllPrivileges : acl[o][p] = "none"
      BY InitTyped DEF Init
    <2>3. AllSound
      BY <2>1 DEF AllSound, Sound, At
    <2>4. ASSUME NEW r \in Resources PROVE Bare(spec[r])
      BY <2>2, ObjectsOf DEF Bare, TypeOK, WorkerTypes
    <2> QED BY <2>2, <2>3, <2>4 DEF Accounted, Covered, KeptFor
  <1>2. IInv /\ [Next]_vars => IInv'
    BY TypesStep, SoundStep, AccountedStep
  <1>3. IInv => NoLeakedPrivilege
    <2> SUFFICES ASSUME IInv, Quiet, NEW o \in Objects, NEW p \in AllPrivileges,
                        acl[o][p] # "none"
                 PROVE  Claimed(o, p)
      BY DEF NoLeakedPrivilege, NoPrivilegeLeft, Quiet
    <2>1. PICK r \in Resources : o \in spec[r].objects
      BY DEF Accounted, Covered
    <2>2. Full(spec[r]) /\ mr[r].finalizer
      BY <2>1 DEF Accounted, KeptFor, Bare
    <2>3. spec[r] \in Specs /\ p \in Spelled(spec[r])
      BY <2>1, <2>2 DEF TypeOK, WorkerTypes, Full
    <2>4. p \in ExpandPrivileges(spec[r])
      <3>1. CASE ~IsDefault(spec[r])
        BY <2>2, <2>3, <3>1, SpelledIsExpanded DEF Full
      <3>2. CASE IsDefault(spec[r])
        BY <2>3, <3>2, ObjectsOf
           DEF Quiet, SpelledOut, Spelled, Names, ExpandPrivileges
      <3> QED BY <3>1, <3>2
    <2>5. mr[r].present
      BY <2>2 DEF AllSound, Sound
    <2> QED BY <2>1, <2>2, <2>4, <2>5 DEF Claimed
  <1> QED BY <1>1, <1>2, <1>3, PTL DEF Spec
=============================================================================
