--------------------------- MODULE SqlObjectsProofs ---------------------------
(***************************************************************************)
(* Theorems about SqlObjects, for any number of databases, schemas and     *)
(* extensions, wherever the latter live, and for every bound on edits and  *)
(* faults.                                                                 *)
(***************************************************************************)
EXTENDS SqlObjects, WorkerProofs

LEMMA PhasesOfWorkers == WorkerPhases \subseteq Phases /\ "alter" \in Phases
  BY DEF Phases

LEMMA FactsAreFields ==
    ASSUME NEW k \in Kinds
    PROVE  /\ Facts[k] \subseteq Fields[k]
           /\ "collation" \in Facts[k] => "charset" \in Fields[k]
           /\ "charset" \in Facts[k] => "collation" \in Fields[k]
           /\ Parameters(k) \subseteq Specs
  <1>1. /\ Facts[k] \subseteq Fields[k]
        /\ "collation" \in Facts[k] => "charset" \in Fields[k]
        /\ "charset" \in Facts[k] => "collation" \in Fields[k]
    BY DEF Kinds, Facts, Fields, DatabaseFields, SchemaFields, ExtensionFields,
           MySQLFields, MSSQLFields
  <1>2. Parameters(k) \subseteq Specs
    BY ObjectsAssumption
  <1> QED BY <1>1, <1>2

(* A specification belongs to the kind that has its fields.                *)
LEMMA KindOfSpec ==
    ASSUME NEW k \in Kinds, NEW s \in Specs, DOMAIN s = Fields[k]
    PROVE  s \in Parameters(k)
  <1>1. PICK j \in Kinds : s \in Parameters(j)
    BY ObjectsAssumption
  <1> QED BY <1>1 DEF Parameters

Objects(k) == {Absent} \cup [origin : Origins, facts : [Facts[k] -> Values]]

(* The types, with those of the copies that the workers hold.              *)
Types ==
    /\ TypeOK
    /\ object = [r \in Resources |-> object[r]]
    /\ todo = [r \in Resources |-> todo[r]]
    /\ wrote = [r \in Resources |-> wrote[r]]
    /\ \A r \in Resources : ~At(r, "idle") => work[r].spec \in Parameters(kind[r])

LEMMA TypesOf ==
    ASSUME Types
    PROVE  /\ kind \in [Resources -> Kinds]
           /\ work \in Workers(Phases) /\ mr \in [Resources -> MR]
           /\ spec \in [Resources -> Specs] /\ edits \in Nat /\ faults \in Nat
           /\ \A r \in Resources :
                 /\ work[r] \in Copies(Phases)
                 /\ spec[r] \in Parameters(kind[r]) /\ object[r] \in Objects(kind[r])
                 /\ Exists(r) => /\ object[r] \in [origin : Origins,
                                                  facts : [Facts[kind[r]] -> Values]]
                                 /\ object[r].facts \in [Facts[kind[r]] -> Values]
  <1>1. kind \in [Resources -> Kinds]
    BY ObjectsAssumption DEF Types, TypeOK
  <1>2. /\ work \in Workers(Phases) /\ mr \in [Resources -> MR]
        /\ spec \in [Resources -> Specs] /\ edits \in Nat /\ faults \in Nat
    BY TypesOfParts DEF Types, TypeOK
  <1>3. ASSUME NEW r \in Resources
        PROVE  /\ work[r] \in Copies(Phases)
               /\ spec[r] \in Parameters(kind[r]) /\ object[r] \in Objects(kind[r])
               /\ Exists(r) => /\ object[r] \in [origin : Origins,
                                                facts : [Facts[kind[r]] -> Values]]
                               /\ object[r].facts \in [Facts[kind[r]] -> Values]
    <2>1. work[r] \in Copies(Phases) /\ spec[r] \in Parameters(kind[r])
      BY <1>2 DEF Types, TypeOK, Workers
    <2>2. \/ object[r] = Absent
          \/ object[r] \in [origin : Origins, facts : [Facts[kind[r]] -> Values]]
      BY DEF Types, TypeOK
    <2>3. object[r] = Absent => ~Exists(r)
      BY DEF Exists, Absent
    <2>4. object[r] \in Objects(kind[r])
      BY <2>2 DEF Objects
    <2>5. object[r] \in [origin : Origins, facts : [Facts[kind[r]] -> Values]]
             => object[r].facts \in [Facts[kind[r]] -> Values]
      OBVIOUS
    <2> QED BY <2>1, <2>2, <2>3, <2>4, <2>5
  <1> QED BY <1>1, <1>2, <1>3

(***************************************************************************)
(* Late initialisation, CREATE and ALTER.                                  *)
(***************************************************************************)
LEMMA LateInitKeeps ==
    ASSUME Types, NEW r \in Resources, Exists(r), NEW s \in Parameters(kind[r])
    PROVE  /\ LateInit(r, s) \in Parameters(kind[r])
           /\ \A f \in Fields[kind[r]] : s[f] # Unset => LateInit(r, s)[f] = s[f]
  <1>1. object[r].facts \in [Facts[kind[r]] -> Values] /\ DOMAIN s = Fields[kind[r]]
    BY TypesOf DEF Parameters
  <1> QED BY <1>1 DEF LateInit, Parameters

LEMMA MadeTypes ==
    ASSUME Types, NEW r \in Resources, NEW s \in Parameters(kind[r])
    PROVE  Made(r, s) \in [Facts[kind[r]] -> Values]
  <1>1. kind[r] \in Kinds
    BY TypesOf
  <1>2. ASSUME NEW f \in Facts[kind[r]]
        PROVE  (IF s[f] # Unset THEN s[f]
                ELSE IF f = "collation" /\ s["charset"] # Unset THEN s["charset"]
                ELSE IF f = "charset" /\ s["collation"] # Unset THEN s["collation"]
                ELSE DefaultValue) \in Values
    BY <1>1, FactsAreFields, ObjectsAssumption DEF Parameters
  <1> QED BY <1>2 DEF Made

LEMMA AlteredTypes ==
    ASSUME Types, NEW r \in Resources, CanAlter(r)
    PROVE  Altered(r) \in [Facts[kind[r]] -> Values]
  <1>1. /\ work[r].spec \in Parameters(kind[r]) /\ kind[r] \in Kinds
        /\ object[r].facts \in [Facts[kind[r]] -> Values]
    BY TypesOf DEF CanAlter, Types, At
  <1> QED BY <1>1, FactsAreFields DEF Altered, Parameters

LEMMA ShortTuples ==
    ASSUME NEW S, NEW a \in S, NEW b \in S
    PROVE  <<a>> \in Seq(S) /\ <<a, b>> \in Seq(S) /\ <<>> \in Seq(S)
  OBVIOUS

LEMMA StatementTypes ==
    ASSUME NEW k \in Kinds
    PROVE  Statements(k) \in Seq(SUBSET Facts[k])
  <1>0. /\ Facts["database"] = DatabaseFields /\ Facts["schema"] = {"owner"}
        /\ Facts["mysqldb"] = MySQLFields
    BY DEF Facts, Fields
  <1>1. CASE k = "database"
    <2>1. {"owner"} \in SUBSET Facts[k] /\ {"template"} \in SUBSET Facts[k]
      BY <1>0, <1>1 DEF DatabaseFields
    <2>2. <<{"owner"}, {"template"}>> \in Seq(SUBSET Facts[k])
      BY <2>1, ShortTuples
    <2> QED BY <1>1, <2>2 DEF Statements, DatabaseStatements
  <1>2. CASE k = "schema"
    <2>1. {"owner"} \in SUBSET Facts[k]
      BY <1>0, <1>2
    <2>2. <<{"owner"}>> \in Seq(SUBSET Facts[k])
      BY <2>1, ShortTuples
    <2> QED BY <1>2, <2>2 DEF Statements, SchemaStatements
  <1>3. CASE k = "mysqldb"
    <2>1. {"charset", "collation"} \in SUBSET Facts[k]
      BY <1>0, <1>3 DEF MySQLFields
    <2>2. <<{"charset", "collation"}>> \in Seq(SUBSET Facts[k])
      BY <2>1, ShortTuples
    <2> QED BY <1>3, <2>2 DEF Statements, MySQLStatements
  <1>4. CASE k \notin {"database", "schema", "mysqldb"}
    <2>1. Statements(k) = <<>>
      BY <1>4 DEF Statements
    <2> QED BY <2>1
  <1> QED BY <1>1, <1>2, <1>3, <1>4

(***************************************************************************)
(* The kinds of steps.                                                     *)
(***************************************************************************)
Call(r) ==
    Resolve(r) \/ Observe(r) \/ WriteLateInit(r) \/ Create(r) \/ UpdateSteps(r)
    \/ Delete(r) \/ LostCommit(r) \/ Unanswered(r)
Steps(r) ==
    /\ WorkerSteps(r) \/ Settled(r)
    /\ UNCHANGED <<serverVars, resolved, memoryVars, wrote>>
Breaks ==
    /\ Crash \/ \E r \in Resources : CallFails(r, {"create"})
    /\ late' = [r \in Resources |-> late[r] /\ ~At(r, "idle")']
    /\ todo' = [r \in Resources |-> IF At(r, "idle")' THEN <<>> ELSE todo[r]]
    /\ UNCHANGED <<serverVars, resolved, wrote>>
Orders(r) ==
    /\ Users(r)
    /\ DOMAIN spec'[r] = DOMAIN spec[r]
    /\ wrote' = [wrote EXCEPT ![r] = IF spec' = spec THEN @ ELSE spec'[r]]
    /\ UNCHANGED <<serverVars, resolved, memoryVars>>
Administers(r) == AdminDrops(r) \/ AdminAlters(r) \/ SessionFillsSchema(r)

LEMMA NextCases ==
    ASSUME Next
    PROVE  \/ \E r \in Resources : Call(r) \/ Steps(r) \/ Orders(r) \/ Administers(r)
           \/ Breaks
  BY DEF Next, Call, Steps, Breaks, Orders, Administers, Reconcile, Failure, Environment

(***************************************************************************)
(* The calls of the controllers.                                           *)
(***************************************************************************)

(* Where a call leaves the worker and the specification.                   *)
LEMMA CallEffect ==
    ASSUME Types, NEW r \in Resources, Call(r)
    PROVE  /\ WorkerTypes(Phases)' /\ UNCHANGED <<mr, kind, wrote>> /\ Elsewhere(r)
           /\ ~At(r, "idle") /\ work'[r].pc \notin {"mark", "create"}
           /\ work'[r].pc = "release" => At(r, "observe") /\ ~Exists(r) /\ object' = object
           /\ work'[r].pc # "idle" =>
                 /\ work'[r].dirty = work[r].dirty
                 /\ \/ work'[r].spec = work[r].spec
                    \/ Exists(r) /\ work'[r].spec = LateInit(r, work[r].spec)
           /\ \/ spec' = spec
              \/ ~work[r].dirty /\ spec' = [spec EXCEPT ![r] = work[r].spec]
  <1> USE DEF apiVars, boundVars, serverVars, memoryVars
  <1>0. /\ work \in Workers(Phases) /\ mr \in [Resources -> MR]
        /\ spec \in [Resources -> Specs] /\ edits \in Nat /\ faults \in Nat
        /\ work[r] \in Copies(Phases) /\ work[r].spec \in Specs
        /\ kind[r] \in Kinds
    BY TypesOf DEF Copies
  <1>n. ~At(r, "idle")
    BY DEF Call, Resolve, Observe, WriteLateInit, Create, UpdateSteps, Update, Alter, CanAlter,
       AlterEnds, Delete, LostCommit, Unanswered, At
  <1>s. work[r].spec \in Parameters(kind[r])
    BY <1>n DEF Types
  <1>t. ASSUME work' \in Workers(Phases), UNCHANGED <<mr, edits>>, faults' \in Nat,
               spec' \in [Resources -> Specs]
        PROVE  WorkerTypes(Phases)'
    BY <1>t, <1>0, TypesKept
  <1>g. ASSUME NEW phase \in {"created", "createFailed", "alter", "publish"}, Goes(r, phase)
        PROVE  /\ work' \in Workers(Phases) /\ Elsewhere(r) /\ work'[r].pc = phase
               /\ work'[r].spec = work[r].spec /\ work'[r].dirty = work[r].dirty
    <2>1. phase \in Phases
      BY PhasesOfWorkers DEF WorkerPhases
    <2>2. /\ work' \in Workers(Phases) /\ Elsewhere(r)
          /\ work'[r] = [work[r] EXCEPT !.pc = phase] /\ work'[r].pc = phase
      BY <1>0, <1>g, <2>1, GoesOne
    <2> QED BY <1>0, <2>2 DEF Copies
  <1>e. ASSUME Ends(r)
        PROVE  work' \in Workers(Phases) /\ Elsewhere(r) /\ work'[r].pc = "idle"
    BY <1>0, <1>e, EndsOne, PhasesOfWorkers
  <1>1. CASE Observe(r)
    <2> DEFINE s == IF Exists(r) THEN LateInit(r, work[r].spec) ELSE work[r].spec
               upToDate == Exists(r) /\ UpToDate(r, LateInit(r, work[r].spec))
               phase == AfterObserve(work[r].deleting, Exists(r))
               w == [work[r] EXCEPT !.spec = s, !.exists = Exists(r),
                                    !.upToDate = upToDate, !.pc = phase]
    <2>1. s \in Specs
      <3>1. s \in Parameters(kind[r])
        BY <1>s, LateInitKeeps
      <3> QED BY <1>0, <3>1, FactsAreFields
    <2>2. /\ phase \in {"delete", "release", "claim"}
          /\ phase = "release" => ~Exists(r)
      BY <1>0 DEF AfterObserve, Copies
    <2>3. phase \in Phases
      BY <2>2, PhasesOfWorkers DEF WorkerPhases
    <2>4. Exists(r) \in BOOLEAN /\ upToDate \in BOOLEAN
      BY DEF Exists
    <2> HIDE DEF s, upToDate, phase
    <2>5. w \in Copies(Phases) /\ w.pc = phase /\ w.dirty = work[r].dirty /\ w.spec = s
      BY <1>0, <2>1, <2>3, <2>4 DEF Copies
    <2>6. work' = [work EXCEPT ![r] = w]
      BY <1>0, <1>1 DEF Observe, Answered, s, upToDate, phase, Workers
    <2>7. work' \in Workers(Phases) /\ work'[r] = w /\ Elsewhere(r)
      BY <1>0, <2>5, <2>6, SetsOne
    <2>8. /\ At(r, "observe") /\ object' = object
          /\ UNCHANGED <<mr, spec, edits, faults, kind, wrote>>
      BY <1>1 DEF Observe, Answered
    <2>9. WorkerTypes(Phases)'
      BY <1>0, <1>t, <2>7, <2>8
    <2> QED BY <1>n, <2>2, <2>5, <2>7, <2>8, <2>9 DEF s
  <1>2. CASE Resolve(r)
    <2>1. /\ UNCHANGED <<mr, spec, edits, faults, kind, wrote>> /\ At(r, "observe")
          /\ work' = work \/ Ends(r)
      BY <1>2 DEF Resolve
    <2>2. CASE work' = work
      BY <1>0, <1>n, <1>t, <2>1, <2>2 DEF Elsewhere, At
    <2>3. CASE Ends(r)
      BY <1>0, <1>e, <1>n, <1>t, <2>1, <2>3
    <2> QED BY <2>1, <2>2, <2>3
  <1>3. CASE WriteLateInit(r)
    <2>1. UNCHANGED <<mr, edits, faults, kind, wrote>> /\ work[r].pc \in {"update", "done"}
      BY <1>3 DEF WriteLateInit
    <2>2. CASE work[r].dirty
      <3>1. Ends(r) /\ spec' = spec
        BY <1>3, <2>2 DEF WriteLateInit
      <3> QED BY <1>0, <1>e, <1>n, <1>t, <2>1, <3>1
    <2>3. CASE ~work[r].dirty
      <3>1. work' = work /\ spec' = [spec EXCEPT ![r] = work[r].spec]
        BY <1>3, <2>3 DEF WriteLateInit
      <3>2. spec' \in [Resources -> Specs]
        BY <1>0, <3>1
      <3> QED BY <1>0, <1>n, <1>t, <2>1, <2>3, <3>1, <3>2 DEF Elsewhere
    <2> QED BY <2>2, <2>3
  <1>4. CASE Create(r) \/ UpdateSteps(r) \/ Delete(r) \/ LostCommit(r) \/ Unanswered(r)
    <2>1. UNCHANGED <<mr, spec, edits, kind, wrote>> /\ faults' \in Nat
      <3>1. CASE Create(r) \/ Delete(r)
        BY <1>0, <3>1 DEF Create, Delete
      <3>2. CASE UpdateSteps(r)
        BY <1>0, <3>2 DEF UpdateSteps, Update, Alter, AlterEnds
      <3>3. CASE LostCommit(r) \/ Unanswered(r)
        BY <1>0, <3>3 DEF LostCommit, Unanswered, UseCredit
      <3> QED BY <1>4, <3>1, <3>2, <3>3
    <2>2. \/ Ends(r) \/ (At(r, "alter") /\ work' = work)
          \/ \E phase \in {"created", "createFailed", "alter", "publish"} : Goes(r, phase)
      <3>1. CASE Create(r) \/ Delete(r)
        BY <3>1 DEF Create, Delete
      <3>2. CASE UpdateSteps(r)
        BY <3>2 DEF UpdateSteps, Update, Alter, AlterEnds, CanAlter
      <3>3. CASE LostCommit(r) \/ Unanswered(r)
        BY <3>3 DEF LostCommit, Unanswered
      <3> QED BY <1>4, <3>1, <3>2, <3>3
    <2>3. CASE At(r, "alter") /\ work' = work
      BY <1>0, <1>n, <1>t, <2>1, <2>3 DEF Elsewhere, At
    <2>4. CASE Ends(r)
      BY <1>0, <1>e, <1>n, <1>t, <2>1, <2>4
    <2>5. ASSUME NEW phase \in {"created", "createFailed", "alter", "publish"},
                 Goes(r, phase)
          PROVE  /\ WorkerTypes(Phases)' /\ Elsewhere(r)
                 /\ work'[r].pc \notin {"idle", "mark", "create", "release"}
                 /\ work'[r].spec = work[r].spec /\ work'[r].dirty = work[r].dirty
      BY <1>0, <1>g, <1>t, <2>1, <2>5
    <2> QED BY <1>n, <2>1, <2>2, <2>3, <2>4, <2>5
  <1> QED BY <1>1, <1>2, <1>3, <1>4 DEF Call
(***************************************************************************)
(* What a call does to the objects.                                        *)
(***************************************************************************)
Listed(f) == f = [r \in Resources |-> f[r]]

LEMMA WritesOne ==
    ASSUME NEW f, NEW g, Listed(f), NEW r \in Resources, NEW x, g = [f EXCEPT ![r] = x]
    PROVE  Listed(g) /\ g[r] = x /\ \A q \in Resources \ {r} : g[q] = f[q]
  <1>1. g = [q \in Resources |-> IF q = r THEN x ELSE f[q]]
    BY DEF Listed
  <1> QED BY <1>1 DEF Listed

(* An object is what it was, gone, or one that Create has made.            *)
ObjectFate(r, creating) ==
    /\ object'[r] \in Objects(kind[r])
    /\ \/ object'[r].origin = object[r].origin
       \/ object'[r].origin = "absent"
       \/ creating /\ At(r, "create") /\ ~Exists(r) /\ object'[r].origin = "provider"

LEMMA NothingThere == \A k : Absent \in Objects(k) /\ Absent.origin = "absent"
  BY DEF Absent, Objects

LEMMA ObjectStays ==
    ASSUME Types, NEW q \in Resources, object'[q] = object[q]
    PROVE  ObjectFate(q, FALSE) /\ ObjectFate(q, TRUE)
  BY TypesOf DEF ObjectFate

LEMMA DroppedEffect ==
    ASSUME Types, NEW r \in Resources, Dropped(r)
    PROVE  /\ Listed(object') /\ \A q \in Resources : ObjectFate(q, FALSE)
           /\ content' \in [Resources -> BOOLEAN] /\ closed' \in SUBSET Resources
  <1>1. /\ Listed(object')
        /\ \A q \in Resources : object'[q] = Absent \/ object'[q] = object[q]
    BY DEF Dropped, Listed
  <1>2. \A q \in Resources : ObjectFate(q, FALSE)
    BY <1>1, NothingThere, ObjectStays DEF ObjectFate
  <1>3. content' \in [Resources -> BOOLEAN]
    BY DEF Dropped, Types, TypeOK
  <1>4. closed' \in SUBSET Resources
    BY DEF Dropped, Types, TypeOK
  <1> QED BY <1>1, <1>2, <1>3, <1>4

LEMMA ClosesEffect ==
    ASSUME Types, NEW r \in Resources, NEW s, Closes(r, s)
    PROVE  closed' \in SUBSET Resources
  BY ObjectsAssumption DEF Closes, Types, TypeOK

LEMMA CreatesEffect ==
    ASSUME Types, NEW r \in Resources, At(r, "create"), Creates(r)
    PROVE  /\ Listed(object') /\ \A q \in Resources : ObjectFate(q, q = r)
           /\ closed' \in SUBSET Resources
  <1> DEFINE new == [origin |-> "provider", facts |-> Made(r, work[r].spec)]
             o == IF Exists(r) THEN object[r] ELSE new
  <1>1. work[r].spec \in Parameters(kind[r])
    BY DEF Types, At
  <1>2. new \in Objects(kind[r]) /\ new.origin = "provider"
    <2>1. Made(r, work[r].spec) \in [Facts[kind[r]] -> Values]
      BY <1>1, MadeTypes
    <2> QED BY <2>1 DEF Objects, Origins
  <1>3. object' = [object EXCEPT ![r] = o]
    BY DEF Creates, Types
  <1> HIDE DEF new, o
  <1>4. Listed(object') /\ object'[r] = o /\ \A q \in Resources \ {r} : object'[q] = object[q]
    <2>1. Listed(object)
      BY DEF Types, Listed
    <2> QED BY <1>3, <2>1, WritesOne DEF Listed
  <1>5. ObjectFate(r, TRUE)
    <2>1. CASE Exists(r)
      BY <1>4, <2>1, ObjectStays DEF o
    <2>2. CASE ~Exists(r)
      BY <1>2, <1>4, <2>2 DEF o, ObjectFate
    <2> QED BY <2>1, <2>2
  <1>6. ASSUME NEW q \in Resources PROVE ObjectFate(q, q = r)
    <2>1. CASE q = r
      BY <1>5, <2>1 DEF ObjectFate
    <2>2. CASE q # r
      BY <1>4, <2>2, ObjectStays DEF ObjectFate
    <2> QED BY <2>1, <2>2
  <1>7. closed' \in SUBSET Resources
    BY ClosesEffect DEF Creates
  <1> QED BY <1>4, <1>6, <1>7

(* An object gets other facts, by a worker or by an administrator.         *)
LEMMA RefactedEffect ==
    ASSUME Types, NEW r \in Resources, Exists(r), NEW facts \in [Facts[kind[r]] -> Values],
           object' = [object EXCEPT ![r].facts = facts]
    PROVE  /\ Listed(object') /\ \A q \in Resources : ObjectFate(q, FALSE)
           /\ \A q \in Resources : object'[q].origin = object[q].origin
  <1> DEFINE o == [object[r] EXCEPT !.facts = facts]
  <1>1. object[r] \in [origin : Origins, facts : [Facts[kind[r]] -> Values]]
    BY TypesOf
  <1>2. o \in Objects(kind[r]) /\ o.origin = object[r].origin
    BY <1>1 DEF Objects
  <1>3. object' = [object EXCEPT ![r] = o]
    BY DEF Types
  <1> HIDE DEF o
  <1>4. Listed(object') /\ object'[r] = o /\ \A q \in Resources \ {r} : object'[q] = object[q]
    <2>1. Listed(object)
      BY DEF Types, Listed
    <2> QED BY <1>3, <2>1, WritesOne DEF Listed
  <1> QED BY <1>2, <1>4, ObjectStays DEF ObjectFate

LEMMA CallData ==
    ASSUME Types, NEW r \in Resources, Call(r)
    PROVE  /\ Listed(object') /\ Listed(todo')
           /\ \A q \in Resources :
                 /\ ObjectFate(q, q = r)
                 /\ todo'[q] \in Seq(SUBSET Facts[kind[q]])
           /\ content' \in [Resources -> BOOLEAN] /\ closed' \in SUBSET Resources
           /\ resolved' \in [Resources -> BOOLEAN] /\ late' \in [Resources -> BOOLEAN]
  <1> USE DEF apiVars, boundVars, serverVars, memoryVars
  <1>0. /\ Listed(object) /\ Listed(todo) /\ content \in [Resources -> BOOLEAN]
        /\ \A q \in Resources : todo[q] \in Seq(SUBSET Facts[kind[q]])
        /\ closed \in SUBSET Resources
        /\ resolved \in [Resources -> BOOLEAN] /\ late \in [Resources -> BOOLEAN]
        /\ kind[r] \in Kinds /\ work[r].deleting \in BOOLEAN
    BY TypesOf DEF Types, TypeOK, Listed, Copies
  <1>1. ASSUME \A q \in Resources : ObjectFate(q, FALSE)
        PROVE  \A q \in Resources : ObjectFate(q, q = r)
    BY <1>1 DEF ObjectFate
  <1>2. ASSUME object' = object
        PROVE  Listed(object') /\ \A q \in Resources : ObjectFate(q, q = r)
    BY <1>0, <1>1, <1>2, ObjectStays
  <1>3. /\ Listed(object') /\ \A q \in Resources : ObjectFate(q, q = r)
        /\ content' \in [Resources -> BOOLEAN] /\ closed' \in SUBSET Resources
    <2>1. CASE Create(r) \/ Unanswered(r)
      <3>1. /\ content' = content /\ At(r, "create")
            /\ Creates(r) \/ UNCHANGED <<object, closed>>
        BY <2>1 DEF Create, Unanswered
      <3> QED BY <1>0, <1>2, <3>1, CreatesEffect
    <2>2. CASE Alter(r)
      <3>1. /\ CanAlter(r) /\ object' = [object EXCEPT ![r].facts = Altered(r)]
            /\ content' = content /\ Closes(r, work[r].spec)
        BY <2>2 DEF Alter
      <3>2. Exists(r)
        BY <3>1 DEF CanAlter
      <3> QED BY <1>0, <1>1, <3>1, <3>2, AlteredTypes, RefactedEffect, ClosesEffect
    <2>3. CASE Delete(r)
      <3>1. Dropped(r) \/ UNCHANGED <<object, content, closed>>
        BY <2>3 DEF Delete
      <3> QED BY <1>0, <1>1, <1>2, <3>1, DroppedEffect
    <2>4. CASE Resolve(r) \/ Observe(r) \/ WriteLateInit(r) \/ Update(r) \/ AlterEnds(r)
               \/ LostCommit(r)
      <3>1. UNCHANGED <<object, content, closed>>
        BY <2>4 DEF Resolve, Observe, Answered, WriteLateInit, Update, AlterEnds, LostCommit
      <3> QED BY <1>0, <1>2, <3>1
    <2> QED BY <2>1, <2>2, <2>3, <2>4 DEF Call, UpdateSteps
  <1>4. Listed(todo') /\ \A q \in Resources : todo'[q] \in Seq(SUBSET Facts[kind[q]])
    <2>1. ASSUME NEW x \in Seq(SUBSET Facts[kind[r]]), todo' = [todo EXCEPT ![r] = x]
          PROVE  Listed(todo') /\ \A q \in Resources : todo'[q] \in Seq(SUBSET Facts[kind[q]])
      <3>1. Listed(todo') /\ todo'[r] = x /\ \A q \in Resources \ {r} : todo'[q] = todo[q]
        BY <1>0, <2>1, WritesOne DEF Listed
      <3> QED BY <1>0, <2>1, <3>1
    <2>2. CASE todo' = todo
      BY <1>0, <2>2
    <2>3. CASE Update(r)
      BY <1>0, <2>1, <2>3, StatementTypes DEF Update
    <2>4. CASE Alter(r)
      <3>1. todo[r] # <<>> /\ todo' = [todo EXCEPT ![r] = Tail(todo[r])]
        BY <1>0, <2>4 DEF Alter, CanAlter, Listed
      <3>2. \A S : \A x \in Seq(S) : x # <<>> => Tail(x) \in Seq(S)
        OBVIOUS
      <3>3. Tail(todo[r]) \in Seq(SUBSET Facts[kind[r]])
        BY <1>0, <3>1, <3>2
      <3> QED BY <2>1, <3>1, <3>3
    <2>5. CASE AlterEnds(r) \/ LostCommit(r)
      <3>1. <<>> \in Seq(SUBSET Facts[kind[r]])
        BY ShortTuples
      <3>2. todo' = todo \/ todo' = [todo EXCEPT ![r] = <<>>]
        BY <2>5 DEF AlterEnds, LostCommit
      <3> QED BY <2>1, <2>2, <3>1, <3>2
    <2>6. CASE Resolve(r) \/ Observe(r) \/ WriteLateInit(r) \/ Create(r) \/ Delete(r)
               \/ Unanswered(r)
      BY <2>2, <2>6 DEF Resolve, Observe, Answered, WriteLateInit, Create, Delete, Unanswered
    <2> QED BY <2>3, <2>4, <2>5, <2>6 DEF Call, UpdateSteps
  <1>5. resolved' \in [Resources -> BOOLEAN] /\ late' \in [Resources -> BOOLEAN]
    <2>1. CASE Observe(r)
      <3>1. \E b \in BOOLEAN : late' = [late EXCEPT ![r] = b]
        BY <1>0, <2>1 DEF Observe, Answered
      <3>2. resolved' = resolved
        BY <2>1 DEF Observe, Answered
      <3> QED BY <1>0, <3>1, <3>2
    <2>2. CASE Resolve(r) \/ WriteLateInit(r)
      BY <1>0, <2>2 DEF Resolve, WriteLateInit
    <2>3. CASE Create(r) \/ UpdateSteps(r) \/ Delete(r)
      BY <1>0, <2>3 DEF Create, UpdateSteps, Update, Alter, AlterEnds, Delete
    <2>4. CASE LostCommit(r) \/ Unanswered(r)
      BY <1>0, <2>4 DEF LostCommit, Unanswered
    <2> QED BY <2>1, <2>2, <2>3, <2>4 DEF Call
  <1> QED BY <1>3, <1>4, <1>5

LEMMA CallTyped ==
    ASSUME Types, NEW r \in Resources, Call(r)
    PROVE  Types'
  <1>0. /\ kind \in [Resources -> Kinds] /\ spec \in [Resources -> Specs]
        /\ kind[r] \in Kinds /\ \A q \in Resources : spec[q] \in Parameters(kind[q])
        /\ \A q \in Resources : ~At(q, "idle") => work[q].spec \in Parameters(kind[q])
        /\ kind \in Placements /\ wrote = [q \in Resources |-> wrote[q]]
        /\ \A q \in Resources : wrote[q] \in Parameters(kind[q])
    BY TypesOf DEF Types, TypeOK
  <1>1. /\ WorkerTypes(Phases)' /\ UNCHANGED <<mr, kind, wrote>> /\ Elsewhere(r)
        /\ ~At(r, "idle")
        /\ work'[r].pc # "idle" =>
              \/ work'[r].spec = work[r].spec
              \/ Exists(r) /\ work'[r].spec = LateInit(r, work[r].spec)
        /\ spec' = spec \/ spec' = [spec EXCEPT ![r] = work[r].spec]
    BY CallEffect
  <1>2. work[r].spec \in Parameters(kind[r])
    BY <1>0, <1>1
  <1>3. \A q \in Resources : spec'[q] \in Parameters(kind[q])
    BY <1>0, <1>1, <1>2
  <1>4. \A q \in Resources : ~At(q, "idle")' => work'[q].spec \in Parameters(kind[q])
    <2>1. work'[r].pc # "idle" => work'[r].spec \in Parameters(kind[r])
      BY <1>1, <1>2, LateInitKeeps
    <2> QED BY <1>0, <1>1, <2>1 DEF Elsewhere, At
  <1>5. /\ Listed(object') /\ Listed(todo')
        /\ \A q \in Resources : /\ object'[q] \in Objects(kind[q])
                                /\ todo'[q] \in Seq(SUBSET Facts[kind[q]])
        /\ content' \in [Resources -> BOOLEAN] /\ closed' \in SUBSET Resources
        /\ resolved' \in [Resources -> BOOLEAN] /\ late' \in [Resources -> BOOLEAN]
    BY CallData DEF ObjectFate
  <1>6. \A q \in Resources :
           \/ object'[q] = Absent
           \/ object'[q] \in [origin : Origins, facts : [Facts[kind[q]] -> Values]]
    BY <1>5 DEF Objects
  <1>7. TypeOK'
    BY <1>0, <1>1, <1>3, <1>5, <1>6 DEF TypeOK
  <1> QED BY <1>0, <1>1, <1>4, <1>5, <1>7 DEF Types, Listed

(***************************************************************************)
(* The other steps.                                                        *)
(***************************************************************************)

(* Where they leave a worker and its resource: at rest, at the start with  *)
(* a fresh copy, or with the copy it had; a copy that is not stale is      *)
(* still of the specification that the users wrote.                        *)
Fate(r) ==
    /\ \/ work'[r].pc = "idle"
       \/ At(r, "idle") /\ At(r, "observe")' /\ work'[r].spec = spec'[r]
       \/ /\ ~At(r, "idle") /\ work'[r].spec = work[r].spec
          /\ work'[r].dirty \/ (~work[r].dirty /\ wrote'[r] = wrote[r])
          /\ \/ work'[r].pc = work[r].pc
             \/ work'[r].pc \in {"mark", "update", "done"} /\ mr'[r].finalizer
             \/ work'[r].pc = "create" /\ At(r, "mark")
             \/ work'[r].pc \in {"publish", "createFailed"}
    /\ At(r, "release") \/ (mr[r].finalizer => mr'[r].finalizer)
    /\ \/ spec'[r] = spec[r] /\ wrote'[r] = wrote[r]
       \/ spec'[r] = wrote'[r] /\ spec'[r] \in Parameters(kind[r])

LEMMA StepsFate ==
    ASSUME Types, NEW r \in Resources, Steps(r)
    PROVE  WorkerTypes(Phases)' /\ Listed(wrote') /\ \A q \in Resources : Fate(q)
  <1>0. /\ work \in Workers(Phases) /\ work[r] \in Copies(Phases)
        /\ mr[r] \in MR /\ Idle.pc = "idle" /\ wrote' = wrote /\ Listed(wrote)
    BY TypesOf, IdleCopy, PhasesOfWorkers DEF Steps, Types, Listed
  <1>1. /\ WorkerTypes(Phases)' /\ Elsewhere(r) /\ Moved(r) /\ Metadata(r) /\ spec' = spec
    BY WorkerStepEffect, PhasesOfWorkers DEF Types, TypeOK, Steps
  <1>2. Fate(r)
    <2>1. CASE At(r, "idle")
      <3>1. work'[r] = [Idle EXCEPT !.pc = "observe", !.spec = spec[r],
                                    !.deleting = mr[r].deleting]
        BY <1>1, <2>1 DEF Moved
      <3>2. work'[r].pc = "observe" /\ work'[r].spec = spec[r]
        BY <3>1 DEF Idle
      <3> QED BY <1>0, <1>1, <2>1, <3>2 DEF Fate, Metadata, At
    <2>2. CASE ~At(r, "idle") /\ work'[r].pc # "idle"
      <3>1. work'[r] = [work[r] EXCEPT !.pc = work'[r].pc]
        BY <1>0, <1>1, <2>2 DEF Moved
      <3>2. /\ work'[r].spec = work[r].spec /\ work'[r].dirty = work[r].dirty
            /\ work[r].dirty \in BOOLEAN
        BY <1>0, <3>1 DEF Copies
      <3> QED BY <1>0, <1>1, <2>2, <3>2 DEF Fate, Moved, Metadata, At
    <2>3. CASE work'[r].pc = "idle"
      BY <1>0, <1>1, <2>3 DEF Fate, Metadata
    <2> QED BY <2>1, <2>2, <2>3
  <1>3. ASSUME NEW q \in Resources \ {r}
        PROVE  Fate(q)
    <2>1. work'[q] = work[q] /\ mr'[q] = mr[q] /\ work[q].dirty \in BOOLEAN
      BY <1>0, <1>1 DEF Elsewhere, Metadata, Workers, Copies
    <2> QED BY <1>0, <1>1, <2>1 DEF Fate, At
  <1> QED BY <1>0, <1>1, <1>2, <1>3

LEMMA OrdersFate ==
    ASSUME Types, NEW r \in Resources, Orders(r)
    PROVE  WorkerTypes(Phases)' /\ Listed(wrote') /\ \A q \in Resources : Fate(q)
  <1> DEFINE x == IF spec' = spec THEN wrote[r] ELSE spec'[r]
  <1>0. work \in Workers(Phases) /\ kind \in [Resources -> Kinds] /\ Listed(wrote)
    BY TypesOf DEF Types, Listed
  <1>1. /\ WorkerTypes(Phases)'
        /\ \A q \in Resources :
              /\ work'[q].pc = work[q].pc /\ work'[q].spec = work[q].spec
              /\ mr'[q].finalizer = mr[q].finalizer
        /\ Elsewhere(r)
        /\ \A q \in Resources \ {r} : mr'[q] = mr[q] /\ spec'[q] = spec[q]
        /\ \/ work'[r].dirty = ~At(r, "idle")
           \/ work' = work /\ mr'[r].present = mr[r].present /\ spec' = spec
    BY UsersEffect, PhasesOfWorkers DEF Orders, Types, TypeOK
  <1>2. wrote' = [wrote EXCEPT ![r] = x]
    BY <1>0 DEF Orders, Listed
  <1> HIDE DEF x
  <1>3. Listed(wrote') /\ wrote'[r] = x /\ \A q \in Resources \ {r} : wrote'[q] = wrote[q]
    BY <1>0, <1>2, WritesOne DEF Listed
  <1>4. spec'[r] \in Parameters(kind[r])
    <2>1. /\ spec'[r] \in Specs
      BY <1>1 DEF WorkerTypes
    <2>2. DOMAIN spec'[r] = Fields[kind[r]]
      BY TypesOf DEF Orders, Parameters
    <2> QED BY <1>0, <2>1, <2>2, KindOfSpec
  <1>5. ASSUME NEW q \in Resources
        PROVE  Fate(q)
    <2>0. work[q].dirty \in BOOLEAN
      BY <1>0 DEF Workers, Copies
    <2>1. \/ spec'[q] = spec[q] /\ wrote'[q] = wrote[q]
          \/ spec'[q] = wrote'[q] /\ spec'[q] \in Parameters(kind[q])
      BY <1>1, <1>3, <1>4 DEF x
    <2>2. CASE At(q, "idle")
      BY <1>1, <2>1, <2>2 DEF Fate, At
    <2>3. CASE ~At(q, "idle")
      <3>1. work'[q].dirty \/ (~work[q].dirty /\ wrote'[q] = wrote[q])
        <4>1. CASE q = r /\ work'[r].dirty = ~At(r, "idle")
          BY <2>3, <4>1
        <4>2. CASE q = r /\ work' = work /\ spec' = spec
          BY <1>3, <2>0, <4>2 DEF x
        <4>3. CASE q # r
          BY <1>1, <1>3, <2>0, <4>3 DEF Elsewhere
        <4> QED BY <1>1, <4>1, <4>2, <4>3
      <3> QED BY <1>1, <2>1, <2>3, <3>1 DEF Fate, At
    <2> QED BY <2>2, <2>3
  <1> QED BY <1>1, <1>3, <1>5

LEMMA BreaksFate ==
    ASSUME Types, Breaks
    PROVE  WorkerTypes(Phases)' /\ Listed(wrote') /\ \A q \in Resources : Fate(q)
  <1>0. work \in Workers(Phases) /\ wrote' = wrote /\ Listed(wrote)
    BY TypesOf DEF Breaks, Types, Listed
  <1>1. WorkerTypes(Phases)' /\ UNCHANGED <<mr, spec, edits>>
    BY CallFailsEffect, CrashEffect, PhasesOfWorkers DEF Breaks, Types, TypeOK
  <1>2. ASSUME NEW q \in Resources
        PROVE  \/ work'[q] = work[q] \/ work'[q].pc = "idle"
               \/ /\ ~At(q, "idle") /\ work'[q] = [work[q] EXCEPT !.pc = "createFailed"]
                  /\ work'[q].pc = "createFailed"
    <2>1. CASE Crash
      BY <2>1, CrashEffect, PhasesOfWorkers DEF Types, TypeOK
    <2>2. ASSUME NEW r \in Resources, CallFails(r, {"create"})
          PROVE  \/ work'[q] = work[q] \/ work'[q].pc = "idle"
                 \/ /\ ~At(q, "idle")
                    /\ work'[q] = [work[q] EXCEPT !.pc = "createFailed"]
                    /\ work'[q].pc = "createFailed"
      BY <2>2, CallFailsEffect, PhasesOfWorkers, ZenonT(60) DEF Elsewhere, Types, TypeOK
    <2> QED BY <2>1, <2>2 DEF Breaks
  <1>3. ASSUME NEW q \in Resources
        PROVE  Fate(q)
    <2>0. work[q] \in Copies(Phases)
      BY <1>0 DEF Workers
    <2>1. CASE work'[q].pc = "idle"
      BY <1>0, <1>1, <2>1 DEF Fate
    <2>2. CASE work'[q].pc # "idle" /\ work'[q] = work[q]
      BY <1>0, <1>1, <2>0, <2>2 DEF Fate, At, Copies
    <2>3. CASE /\ ~At(q, "idle") /\ work'[q].pc = "createFailed"
               /\ work'[q] = [work[q] EXCEPT !.pc = "createFailed"]
      <3>1. /\ work'[q].spec = work[q].spec /\ work'[q].dirty = work[q].dirty
            /\ work[q].dirty \in BOOLEAN
        BY <2>0, <2>3 DEF Copies
      <3> QED BY <1>0, <1>1, <2>3, <3>1 DEF Fate, At
    <2> QED BY <1>2, <2>1, <2>2, <2>3
  <1> QED BY <1>0, <1>1, <1>3

LEMMA OtherEffect ==
    ASSUME Types,
           (\E r \in Resources : Steps(r) \/ Orders(r)) \/ Breaks
    PROVE  Types' /\ UNCHANGED <<object, kind>> /\ \A r \in Resources : Fate(r)
  <1> USE DEF serverVars, memoryVars
  <1>1. /\ WorkerTypes(Phases)' /\ Listed(wrote') /\ \A r \in Resources : Fate(r)
        /\ UNCHANGED <<kind, object, content, closed, resolved>>
    BY StepsFate, OrdersFate, BreaksFate DEF Steps, Orders, Breaks
  <1>2. /\ Listed(todo') /\ late' \in [Resources -> BOOLEAN]
        /\ \A q \in Resources : todo'[q] \in Seq(SUBSET Facts[kind[q]])
    <2>1. CASE UNCHANGED <<late, todo>>
      BY <2>1 DEF Types, TypeOK, Listed
    <2>2. CASE Breaks
      <3>1. /\ late' = [r \in Resources |-> late[r] /\ work'[r].pc # "idle"]
            /\ todo' = [r \in Resources |-> IF work'[r].pc = "idle" THEN <<>> ELSE todo[r]]
        BY <2>2 DEF Breaks, At
      <3>2. \A q \in Resources : <<>> \in Seq(SUBSET Facts[kind[q]])
        OBVIOUS
      <3>3. \A q \in Resources : todo[q] \in Seq(SUBSET Facts[kind[q]])
        BY DEF Types, TypeOK
      <3>4. late' \in [Resources -> BOOLEAN]
        BY <3>1 DEF Types, TypeOK
      <3> QED BY <3>1, <3>2, <3>3, <3>4 DEF Listed
    <2> QED BY <2>1, <2>2 DEF Steps, Orders
  <1>3. \A q \in Resources : spec'[q] \in Parameters(kind[q]) /\ wrote'[q] \in Parameters(kind[q])
    BY <1>1 DEF Fate, Types, TypeOK
  <1>4. \A q \in Resources : ~At(q, "idle")' => work'[q].spec \in Parameters(kind[q])
    BY <1>1, <1>3 DEF Fate, Types, At
  <1>5. TypeOK'
    BY <1>1, <1>2, <1>3 DEF Types, TypeOK
  <1> QED BY <1>1, <1>2, <1>4, <1>5 DEF Types, Listed

LEMMA AdministersEffect ==
    ASSUME Types, NEW r \in Resources, Administers(r)
    PROVE  /\ Types' /\ UNCHANGED <<work, mr, spec, kind, wrote>>
           /\ \A q \in Resources : ObjectFate(q, FALSE)
  <1> USE DEF apiVars, serverVars, memoryVars
  <1>0. faults \in Nat /\ Listed(object)
    BY DEF Types, TypeOK, WorkerTypes, Listed
  <1>1. /\ UNCHANGED <<mr, spec, work, edits, kind, resolved, late, todo, wrote>>
        /\ faults' \in Nat
    BY <1>0 DEF Administers, AdminDrops, AdminAlters, SessionFillsSchema, UseCredit
  <1>2. /\ Listed(object') /\ \A q \in Resources : ObjectFate(q, FALSE)
        /\ content' \in [Resources -> BOOLEAN] /\ closed' \in SUBSET Resources
    <2>1. CASE AdminDrops(r)
      BY <2>1, DroppedEffect DEF AdminDrops
    <2>2. CASE AdminAlters(r)
      <3>1. PICK f \in Facts[kind[r]], v \in Values :
               object' = [object EXCEPT ![r].facts = [object[r].facts EXCEPT ![f] = v]]
        BY <2>2 DEF AdminAlters
      <3>2. Exists(r) /\ object[r].facts \in [Facts[kind[r]] -> Values]
        BY <2>2, TypesOf DEF AdminAlters
      <3>3. [object[r].facts EXCEPT ![f] = v] \in [Facts[kind[r]] -> Values]
        BY <3>2
      <3>4. Listed(object') /\ \A q \in Resources : ObjectFate(q, FALSE)
        BY <3>1, <3>2, <3>3, RefactedEffect
      <3> QED BY <2>2, <3>4 DEF AdminAlters, Types, TypeOK
    <2>3. CASE SessionFillsSchema(r)
      <3>1. object' = object /\ closed' = closed /\ content' \in [Resources -> BOOLEAN]
        BY <2>3 DEF SessionFillsSchema, Types, TypeOK
      <3> QED BY <1>0, <3>1, ObjectStays DEF Types, TypeOK
    <2> QED BY <2>1, <2>2, <2>3 DEF Administers
  <1>3. \A q \in Resources :
           \/ object'[q] = Absent
           \/ object'[q] \in [origin : Origins, facts : [Facts[kind[q]] -> Values]]
    BY <1>2 DEF ObjectFate, Objects
  <1>4. TypeOK'
    BY <1>1, <1>2, <1>3 DEF Types, TypeOK, WorkerTypes
  <1>5. Types'
    BY <1>1, <1>2, <1>4 DEF Types, Listed, At
  <1> QED BY <1>1, <1>2, <1>5

LEMMA TypesStep == Types /\ [Next]_vars => Types'
  <1>1. ASSUME Types, UNCHANGED vars
        PROVE  Types'
    BY <1>1 DEF vars, workerVars, apiVars, boundVars, serverVars, memoryVars, Types, TypeOK,
                WorkerTypes, At
  <1> QED BY <1>1, NextCases, CallTyped, OtherEffect, AdministersEffect

LEMMA InitTyped == Init => Types
  <1> SUFFICES ASSUME Init PROVE Types
    OBVIOUS
  <1>1. WorkerTypes(Phases) /\ \A r \in Resources : At(r, "idle")
    BY InitTypes, PhasesOfWorkers DEF Init, At
  <1>2. kind \in Placements /\ kind \in [Resources -> Kinds] /\ wrote = spec
    BY ObjectsAssumption DEF Init
  <1>3. ASSUME NEW r \in Resources
        PROVE  spec[r] \in Parameters(kind[r])
    BY <1>1, <1>2, KindOfSpec DEF Init, WorkerTypes
  <1>4. PICK there \in SUBSET Resources :
           object = [r \in Resources |->
              IF r \in there
              THEN [origin |-> "other", facts |-> [f \in Facts[kind[r]] |-> DefaultValue]]
              ELSE Absent]
    BY DEF Init
  <1>5. ASSUME NEW r \in Resources
        PROVE  \/ object[r] = Absent
               \/ object[r] \in [origin : Origins, facts : [Facts[kind[r]] -> Values]]
    <2>1. [f \in Facts[kind[r]] |-> DefaultValue] \in [Facts[kind[r]] -> Values]
      BY ObjectsAssumption
    <2>2. CASE r \in there
      BY <1>4, <2>1, <2>2 DEF Origins
    <2>3. CASE r \notin there
      BY <1>4, <2>3
    <2> QED BY <2>2, <2>3
  <1>6. /\ object = [r \in Resources |-> object[r]] /\ todo = [r \in Resources |-> todo[r]]
        /\ wrote = [r \in Resources |-> wrote[r]]
    BY <1>1, <1>2, <1>4 DEF Init, WorkerTypes
  <1>7. \A r \in Resources : todo[r] \in Seq(SUBSET Facts[kind[r]])
    BY ShortTuples DEF Init
  <1>8. TypeOK
    BY <1>1, <1>2, <1>3, <1>5, <1>7 DEF Init, TypeOK
  <1> QED BY <1>1, <1>6, <1>8 DEF Types

(* The objects, the statements that are left and the copies of the workers *)
(* are what the types say, whatever is placed where.                       *)
THEOREM ObjectsTypeCorrect == Spec => []TypeOK
  <1>1. Types => TypeOK
    BY DEF Types
  <1> QED BY <1>1, InitTyped, TypesStep, PTL DEF Spec

(***************************************************************************)
(* No edit is lost.                                                        *)
(***************************************************************************)

(* A specification says what the users wrote where they wrote anything,    *)
(* and so does every copy that is not stale.                               *)
Says(s, w) == \A f \in DOMAIN w : w[f] # Unset => s[f] = w[f]
Faithful(r) ==
    /\ Says(spec[r], wrote[r])
    /\ ~At(r, "idle") /\ ~work[r].dirty => Says(work[r].spec, wrote[r])
AllFaithful == \A r \in Resources : Faithful(r)

LEMMA FaithfulStep ==
    ASSUME Types, AllFaithful, [Next]_vars
    PROVE  AllFaithful'
  <1> SUFFICES ASSUME NEW q \in Resources PROVE Faithful(q)'
    BY DEF AllFaithful
  <1>0. /\ Faithful(q) /\ spec[q] \in Parameters(kind[q]) /\ wrote[q] \in Parameters(kind[q])
        /\ ~At(q, "idle") => work[q].spec \in Parameters(kind[q])
    BY TypesOf DEF AllFaithful, Types, TypeOK
  <1>1. CASE UNCHANGED vars
    BY <1>0, <1>1 DEF vars, workerVars, apiVars, Faithful, Says, At
  <1>2. ASSUME NEW r \in Resources, Call(r)
        PROVE  Faithful(q)'
    <2>1. /\ UNCHANGED <<mr, kind, wrote>> /\ Elsewhere(r) /\ ~At(r, "idle")
          /\ work'[r].pc # "idle" =>
                /\ work'[r].dirty = work[r].dirty
                /\ \/ work'[r].spec = work[r].spec
                   \/ Exists(r) /\ work'[r].spec = LateInit(r, work[r].spec)
          /\ \/ spec' = spec
             \/ ~work[r].dirty /\ spec' = [spec EXCEPT ![r] = work[r].spec]
          /\ spec \in [Resources -> Specs]
      BY <1>2, CallEffect, TypesOf
    <2>2. CASE q = r
      <3>1. Says(spec'[q], wrote[q])
        BY <1>0, <2>1, <2>2 DEF Faithful
      <3>2. ASSUME work'[q].pc # "idle", ~work'[q].dirty
            PROVE  Says(work'[q].spec, wrote[q])
        <4>1. Says(work[q].spec, wrote[q]) /\ work[q].spec \in Parameters(kind[q])
          BY <1>0, <2>1, <2>2, <3>2 DEF Faithful
        <4>2. CASE work'[q].spec = work[q].spec
          BY <4>1, <4>2
        <4>3. CASE Exists(q) /\ work'[q].spec = LateInit(q, work[q].spec)
          <5>1. \A f \in Fields[kind[q]] :
                   work[q].spec[f] # Unset => work'[q].spec[f] = work[q].spec[f]
            BY <4>1, <4>3, LateInitKeeps
          <5>2. DOMAIN wrote[q] = Fields[kind[q]]
            BY <1>0 DEF Parameters
          <5> QED BY <4>1, <5>1, <5>2 DEF Says
        <4> QED BY <2>1, <2>2, <3>2, <4>2, <4>3
      <3> QED BY <2>1, <3>1, <3>2 DEF Faithful, Says, At
    <2>3. CASE q # r
      BY <1>0, <2>1, <2>3 DEF Faithful, Says, At, Elsewhere
    <2> QED BY <2>2, <2>3
  <1>3. ASSUME Fate(q)
        PROVE  Faithful(q)'
    <2>1. Says(spec'[q], wrote'[q])
      BY <1>0, <1>3 DEF Fate, Faithful, Says
    <2>2. work'[q].pc # "idle" /\ ~work'[q].dirty => Says(work'[q].spec, wrote'[q])
      BY <1>0, <1>3, <2>1 DEF Fate, Faithful, At
    <2> QED BY <2>1, <2>2 DEF Faithful, Says, At
  <1>4. ASSUME NEW r \in Resources, Administers(r)
        PROVE  Faithful(q)'
    BY <1>0, <1>4, AdministersEffect DEF Faithful, Says, At
  <1> QED BY <1>1, <1>2, <1>3, <1>4, NextCases, OtherEffect

(* What the users wrote into a specification stays what they wrote,        *)
(* however late initialisation, edits, lost calls and crashes interleave   *)
(* (lateInit in the Observe of database, schema and extension, and the     *)
(* write that follows it).                                                 *)
THEOREM EditsAreKept == Spec => []NoLostEdit
  <1> DEFINE IInv == Types /\ AllFaithful
  <1>1. Init => IInv
    BY InitTyped, InitTypes, PhasesOfWorkers DEF Init, AllFaithful, Faithful, Says, At
  <1>2. IInv /\ [Next]_vars => IInv'
    BY TypesStep, FaithfulStep
  <1>3. IInv => NoLostEdit
    BY DEF AllFaithful, Faithful, Says, NoLostEdit
  <1> QED BY <1>1, <1>2, <1>3, PTL DEF Spec

(***************************************************************************)
(* The life cycle.                                                         *)
(***************************************************************************)

(* Create runs under the finalizer, and only its own worker brings an      *)
(* object back that Observe has seen to be gone.                           *)
Guarded(r) ==
    /\ work[r].pc \in {"mark", "create"} => mr[r].finalizer
    /\ At(r, "release") => ~Exists(r)
Claims == \A r \in Resources : Guarded(r)
LifecycleStep(r) ==
    Lifecycle(r)!ANext \/ UNCHANGED <<mr[r].finalizer, object[r].origin>>

(* What is not a creation: the finalizer comes or stays, or goes after the *)
(* object; the object stays or goes.                                       *)
LEMMA Steady ==
    ASSUME Types, Types', NEW r \in Resources,
           \/ object'[r].origin = object[r].origin
           \/ object'[r].origin = "absent" /\ mr'[r].finalizer = mr[r].finalizer,
           mr[r].finalizer => mr'[r].finalizer \/ ~Exists(r)
    PROVE  LifecycleStep(r)
  <1>0. mr[r].finalizer \in BOOLEAN /\ mr'[r].finalizer \in BOOLEAN
    BY DEF Types, TypeOK, WorkerTypes, MR
  <1>1. CASE object'[r].origin # object[r].origin
    BY <1>1 DEF LifecycleStep, Lifecycle!ANext, Lifecycle!Vanish
  <1>2. CASE object'[r].origin = object[r].origin /\ mr[r].finalizer /\ ~mr'[r].finalizer
    BY <1>0, <1>2 DEF LifecycleStep, Lifecycle!ANext, Lifecycle!Release, Exists
  <1>3. CASE object'[r].origin = object[r].origin /\ ~mr[r].finalizer /\ mr'[r].finalizer
    BY <1>0, <1>3 DEF LifecycleStep, Lifecycle!ANext, Lifecycle!Claim
  <1> QED BY <1>0, <1>1, <1>2, <1>3 DEF LifecycleStep

LEMMA ClaimsStep ==
    ASSUME Types, Claims, Next, NEW q \in Resources
    PROVE  Guarded(q)' /\ LifecycleStep(q)
  <1>0. Types' /\ Guarded(q)
    BY TypesStep DEF Claims
  <1>1. ASSUME NEW r \in Resources, Call(r), r # q
        PROVE  Guarded(q)' /\ LifecycleStep(q)
    <2>1. mr' = mr /\ work'[q] = work[q] /\ ObjectFate(q, q = r)
      BY <1>1, CallEffect, CallData DEF Elsewhere
    <2>2. object'[q].origin = object[q].origin \/ object'[q].origin = "absent"
      BY <1>1, <2>1 DEF ObjectFate
    <2>3. Guarded(q)'
      BY <1>0, <2>1, <2>2 DEF Guarded, At, Exists
    <2> QED BY <1>0, <2>1, <2>2, <2>3, Steady
  <1>2. ASSUME Call(q)
        PROVE  Guarded(q)' /\ LifecycleStep(q)
    <2>1. /\ mr' = mr /\ work'[q].pc \notin {"mark", "create"} /\ ObjectFate(q, q = q)
          /\ work'[q].pc = "release" => ~Exists(q) /\ object' = object
      BY <1>2, CallEffect, CallData
    <2>2. Guarded(q)'
      BY <2>1 DEF Guarded, At, Exists
    <2>3. CASE object'[q].origin = object[q].origin \/ object'[q].origin = "absent"
      BY <1>0, <2>1, <2>2, <2>3, Steady
    <2>4. CASE At(q, "create") /\ ~Exists(q) /\ object'[q].origin = "provider"
      <3>1. mr[q].finalizer = TRUE
        BY <1>0, <2>4 DEF Guarded, At, Types, TypeOK, WorkerTypes, MR
      <3> QED BY <2>1, <2>2, <2>4, <3>1
           DEF LifecycleStep, Lifecycle!ANext, Lifecycle!Create, Exists
    <2> QED BY <2>1, <2>3, <2>4 DEF ObjectFate
  <1>3. ASSUME Fate(q), object' = object
        PROVE  Guarded(q)' /\ LifecycleStep(q)
    <2>1. Guarded(q)'
      BY <1>0, <1>3 DEF Fate, Guarded, At, Exists
    <2>2. mr[q].finalizer => mr'[q].finalizer \/ ~Exists(q)
      BY <1>0, <1>3 DEF Fate, Guarded
    <2> QED BY <1>0, <1>3, <2>1, <2>2, Steady
  <1>4. ASSUME NEW r \in Resources, Administers(r)
        PROVE  Guarded(q)' /\ LifecycleStep(q)
    <2>1. /\ UNCHANGED <<work, mr>>
          /\ object'[q].origin = object[q].origin \/ object'[q].origin = "absent"
      BY <1>4, AdministersEffect DEF ObjectFate
    <2>2. Guarded(q)'
      BY <1>0, <2>1 DEF Guarded, At, Exists
    <2> QED BY <1>0, <2>1, <2>2, Steady
  <1> QED BY <1>1, <1>2, <1>3, <1>4, NextCases, OtherEffect

(* A database, schema or extension goes through the abstract life cycle,   *)
(* wherever it lives and in whatever order it and its database are made    *)
(* and dropped, and a release never comes before its object is gone        *)
(* (Observe, Create and Delete of database, schema and extension).         *)
THEOREM ObjectsImplementLifecycle == Spec => ObjectLifecycle
  <1>1. Init => Types /\ Claims /\ \A r \in Resources : Lifecycle(r)!AInit
    <2> SUFFICES ASSUME Init, NEW r \in Resources
                 PROVE  Guarded(r) /\ Lifecycle(r)!AInit
      BY InitTyped DEF Claims
    <2>1. work[r].pc = "idle" /\ mr[r].finalizer = FALSE
      BY InitTypes, PhasesOfWorkers DEF Init
    <2>2. object[r].origin \in {"absent", "other"}
      <3>1. PICK there \in SUBSET Resources :
               object = [q \in Resources |->
                  IF q \in there
                  THEN [origin |-> "other", facts |-> [f \in Facts[kind[q]] |-> DefaultValue]]
                  ELSE Absent]
        BY DEF Init
      <3> QED BY <3>1 DEF Absent
    <2> QED BY <2>1, <2>2 DEF Guarded, At, Lifecycle!AInit
  <1>2. Types /\ Claims /\ [Next]_vars
          => /\ Types' /\ Claims'
             /\ [\A r \in Resources : Lifecycle(r)!ANext
                   \/ UNCHANGED <<mr[r].finalizer, object[r].origin>>]_<<mr, object>>
    <2>1. ASSUME Types, Claims, UNCHANGED vars
          PROVE  Claims' /\ UNCHANGED <<mr, object>>
      BY <2>1 DEF vars, workerVars, apiVars, serverVars, Claims, Guarded, At, Exists
    <2>2. ASSUME Types, Claims, Next
          PROVE  Claims' /\ \A r \in Resources : LifecycleStep(r)
      BY <2>2, ClaimsStep DEF Claims
    <2> QED BY <2>1, <2>2, TypesStep DEF LifecycleStep
  <1> QED BY <1>1, <1>2, PTL DEF Spec, ObjectLifecycle

(***************************************************************************)
(* What lives in a database.                                               *)
(***************************************************************************)

(* An object in a database lives no longer than that; a resource that has  *)
(* looked at its object, or has made it, has the name of its database.     *)
Nested(r) == Lives(r) /\ Exists(r) => Exists(Home[r])
Named(r) ==
    /\ Lives(r) => work[r].pc \in {"idle", "observe"} \/ resolved[r]
    /\ Lives(r) /\ object[r].origin = "provider" => resolved[r]
Claimed(r) == object[r].origin = "provider" => mr[r].finalizer

AllNested == \A r \in Resources : Nested(r)
AllNamed == \A r \in Resources : Named(r)
AllClaimed == \A r \in Resources : Claimed(r)
AllBacked == \A r \in Resources : Backed(r)

(* A database lives in no other.                                           *)
LEMMA HomesAreDatabases ==
    ASSUME Types, NEW r \in Resources, Lives(r)
    PROVE  Home[r] \in Resources /\ ~Lives(Home[r]) /\ Home[r] # r
  BY ObjectsAssumption DEF Types, TypeOK, Lives, InDatabase

(* The steps that bring an object or take one away.                        *)
LEMMA Comings ==
    ASSUME Types, NEW r \in Resources, Call(r) \/ Administers(r)
    PROVE  \/ \A q \in Resources : object'[q].origin = object[q].origin
           \/ Dropped(r)
           \/ At(r, "create") /\ Connects(r) /\ Creates(r)
  <1> USE DEF serverVars
  <1>1. CASE Alter(r)
    BY <1>1, AlteredTypes, RefactedEffect DEF Alter, CanAlter
  <1>2. CASE AdminAlters(r)
    <2>1. PICK f \in Facts[kind[r]], v \in Values :
             object' = [object EXCEPT ![r].facts = [object[r].facts EXCEPT ![f] = v]]
      BY <1>2 DEF AdminAlters
    <2>2. Exists(r) /\ object[r].facts \in [Facts[kind[r]] -> Values]
      BY <1>2, TypesOf DEF AdminAlters
    <2>3. [object[r].facts EXCEPT ![f] = v] \in [Facts[kind[r]] -> Values]
      BY <2>2
    <2> QED BY <2>1, <2>2, <2>3, RefactedEffect
  <1>3. CASE Create(r) \/ Unanswered(r)
    BY <1>3 DEF Create, Unanswered
  <1>4. CASE Delete(r) \/ AdminDrops(r)
    BY <1>4 DEF Delete, AdminDrops
  <1>5. CASE Resolve(r) \/ Observe(r) \/ WriteLateInit(r) \/ Update(r) \/ AlterEnds(r)
             \/ LostCommit(r) \/ SessionFillsSchema(r)
    BY <1>5 DEF Resolve, Observe, Answered, WriteLateInit, Update, AlterEnds, LostCommit,
                SessionFillsSchema
  <1> QED BY <1>1, <1>2, <1>3, <1>4, <1>5 DEF Call, UpdateSteps, Administers

LEMMA NestedStep ==
    ASSUME Types, AllNested, kind' = kind, NEW r \in Resources,
           \/ \A q \in Resources : object'[q].origin = object[q].origin
           \/ Dropped(r)
           \/ At(r, "create") /\ Connects(r) /\ Creates(r)
    PROVE  AllNested'
  <1> SUFFICES ASSUME NEW q \in Resources, Lives(q), Exists(q)'
               PROVE  Exists(Home[q])'
    BY DEF AllNested, Nested, Lives
  <1>0. Home[q] \in Resources /\ ~Lives(Home[q]) /\ Home[q] # q
    BY HomesAreDatabases
  <1>1. CASE \A s \in Resources : object'[s].origin = object[s].origin
    BY <1>0, <1>1 DEF AllNested, Nested, Exists
  <1>2. CASE Dropped(r)
    <2>1. \A s \in Resources :
             object'[s] = IF s = r \/ s \in Inside(r) THEN Absent ELSE object[s]
      BY <1>2 DEF Dropped
    <2>2. q # r /\ q \notin Inside(r) /\ object'[q] = object[q]
      BY <2>1 DEF Exists, Absent
    <2>3. Home[q] # r /\ Home[q] \notin Inside(r)
      BY <1>0, <2>2 DEF Inside
    <2> QED BY <1>0, <2>1, <2>2, <2>3 DEF AllNested, Nested, Exists
  <1>3. CASE At(r, "create") /\ Connects(r) /\ Creates(r)
    <2>1. \A s \in Resources \ {r} : object'[s] = object[s]
      BY <1>3 DEF Creates, Types
    <2>2. Exists(r)'
      BY <1>3 DEF Creates, Types, Exists
    <2>3. Exists(Home[q])
      BY <1>3, <2>1 DEF AllNested, Nested, Connects, Exists
    <2> QED BY <1>0, <2>1, <2>2, <2>3 DEF Exists
  <1> QED BY <1>1, <1>2, <1>3

(* The name of a database is resolved once, before a call is made there.   *)
LEMMA CallNames ==
    ASSUME Types, NEW r \in Resources, Call(r)
    PROVE  /\ \A q \in Resources : resolved[q] => resolved'[q]
           /\ At(r, "observe") /\ Lives(r) => work'[r].pc \in {"idle", "observe"} \/ resolved[r]
  <1>0. resolved \in [Resources -> BOOLEAN] /\ work \in Workers(Phases)
    BY TypesOf DEF Types, TypeOK
  <1>1. CASE Resolve(r)
    <2>1. resolved' = resolved \/ resolved' = [resolved EXCEPT ![r] = TRUE]
      BY <1>1 DEF Resolve
    <2>2. work'[r] = work[r] \/ work'[r].pc = "idle"
      BY <1>0, <1>1, EndsOne, PhasesOfWorkers DEF Resolve
    <2> QED BY <1>0, <2>1, <2>2 DEF At
  <1>2. CASE ~Resolve(r)
    <2>1. resolved' = resolved
      BY <1>2 DEF Call, Observe, Answered, WriteLateInit, Create, UpdateSteps, Update, Alter,
                  AlterEnds, Delete, LostCommit, Unanswered
    <2>2. At(r, "observe") => (Lives(r) => resolved[r])
      BY <1>2 DEF Call, Observe, WriteLateInit, Create, UpdateSteps, Update, Alter, CanAlter,
                  AlterEnds, Delete, LostCommit, Unanswered, At
    <2> QED BY <2>1, <2>2
  <1> QED BY <1>1, <1>2

LEMMA NamedStep ==
    ASSUME Types, AllNamed, Next
    PROVE  AllNamed'
  <1> SUFFICES ASSUME NEW q \in Resources
               PROVE  Named(q)'
    BY DEF AllNamed
  <1> USE DEF serverVars, memoryVars
  <1>0. Named(q) /\ WorkerTypes(Phases)
    BY DEF AllNamed, Types, TypeOK
  <1>k. ASSUME kind' = kind, resolved' = resolved, object' = object,
               \/ work'[q].pc \in {"idle", "observe"}
               \/ work[q].pc \notin {"idle", "observe"}
        PROVE  Named(q)'
    BY <1>0, <1>k DEF Named, Lives
  <1>1. ASSUME NEW r \in Resources, Call(r)
        PROVE  Named(q)'
    <2>1. /\ kind' = kind /\ Elsewhere(r) /\ ObjectFate(q, q = r) /\ ~At(r, "idle")
          /\ resolved[q] => resolved'[q]
          /\ At(r, "observe") /\ Lives(r) => work'[r].pc \in {"idle", "observe"} \/ resolved[r]
      BY <1>1, CallEffect, CallData, CallNames
    <2>2. Lives(q) => work'[q].pc \in {"idle", "observe"} \/ resolved'[q]
      <3>1. CASE q = r
        BY <1>0, <2>1, <3>1 DEF Named, At
      <3>2. CASE q # r
        BY <1>0, <2>1, <3>2 DEF Named, Elsewhere
      <3> QED BY <3>1, <3>2
    <2>3. Lives(q) /\ object'[q].origin = "provider" => resolved'[q]
      BY <1>0, <2>1 DEF Named, ObjectFate, At
    <2> QED BY <2>1, <2>2, <2>3 DEF Named, Lives
  <1>2. ASSUME NEW r \in Resources, Steps(r)
        PROVE  Named(q)'
    <2>1. Elsewhere(r) /\ Moved(r) /\ UNCHANGED <<kind, object, resolved>>
      BY <1>0, <1>2, WorkerStepEffect, PhasesOfWorkers DEF Steps
    <2>2. CASE q = r
      BY <1>k, <2>1, <2>2 DEF Moved, At
    <2>3. CASE q # r
      BY <1>k, <2>1, <2>3 DEF Elsewhere
    <2> QED BY <2>2, <2>3
  <1>3. ASSUME NEW r \in Resources, Orders(r)
        PROVE  Named(q)'
    BY <1>0, <1>3, <1>k, UsersEffect, PhasesOfWorkers DEF Orders
  <1>4. CASE Breaks
    <2>1. UNCHANGED <<kind, object, resolved>>
      BY <1>4 DEF Breaks
    <2>2. CASE Crash
      BY <1>0, <1>k, <2>1, <2>2, CrashEffect, PhasesOfWorkers
    <2>3. ASSUME NEW r \in Resources, CallFails(r, {"create"})
          PROVE  Named(q)'
      <3>1. /\ Elsewhere(r)
            /\ work'[r].pc = "idle" \/ work[r].pc \in {"create"}
        BY <1>0, <2>3, CallFailsEffect, PhasesOfWorkers, Zenon
      <3>2. q = r \/ work'[q] = work[q]
        BY <3>1 DEF Elsewhere
      <3> QED BY <1>k, <2>1, <3>1, <3>2
    <2> QED BY <1>4, <2>2, <2>3 DEF Breaks
  <1>5. ASSUME NEW r \in Resources, Administers(r)
        PROVE  Named(q)'
    <2>1. UNCHANGED <<work, kind, resolved>> /\ ObjectFate(q, FALSE)
      BY <1>5, AdministersEffect DEF Administers, AdminDrops, AdminAlters, SessionFillsSchema
    <2> QED BY <1>0, <2>1 DEF Named, Lives, ObjectFate
  <1> QED BY <1>1, <1>2, <1>3, <1>4, <1>5, NextCases

LEMMA AllBackedStep ==
    ASSUME Types, AllBacked, Next
    PROVE  AllBacked'
  <1> SUFFICES ASSUME NEW q \in Resources
               PROVE  Backed(q)'
    BY DEF AllBacked
  <1>0. Backed(q) /\ WorkerTypes(Phases) /\ mr \in [Resources -> MR]
    BY TypesOf DEF AllBacked, Types, TypeOK
  <1>1. ASSUME NEW r \in Resources, Call(r)
        PROVE  Backed(q)'
    <2>1. /\ mr' = mr /\ Elsewhere(r) /\ ~At(r, "idle")
          /\ work'[r].pc # "idle" => work'[r].dirty = work[r].dirty
      BY <1>1, CallEffect
    <2> QED BY <1>0, <2>1, BackedKept DEF Elsewhere, At
  <1>2. ASSUME NEW r \in Resources, Administers(r)
        PROVE  Backed(q)'
    BY <1>0, <1>2, AdministersEffect, BackedKept DEF At
  <1>3. CASE Breaks \/ \E r \in Resources : Steps(r) \/ Orders(r)
    BY <1>0, <1>3, BackedStep, PhasesOfWorkers DEF Breaks, Steps, Orders
  <1> QED BY <1>1, <1>2, <1>3, NextCases

(* What Create has made can always be dropped again: the resource is there *)
(* and claimed, it has the name of its database, which is not resolved any *)
(* more once the resource is deleted, and that database exists             *)
(* (ResolveReferences, Connect, Delete).                                   *)
THEOREM NoOrphan == Spec => []NoOrphanedObject
  <1> DEFINE IInv == /\ Types /\ Claims /\ AllClaimed /\ AllBacked
                     /\ AllNamed /\ AllNested
  <1>1. Init => IInv
    <2> SUFFICES ASSUME Init
                 PROVE  IInv
      OBVIOUS
    <2>1. Types /\ \A r \in Resources : At(r, "idle") /\ mr[r].finalizer = FALSE
      BY InitTyped, InitTypes, PhasesOfWorkers DEF Init, At
    <2>2. PICK there \in SUBSET Resources :
             /\ \A r \in there : Lives(r) => Home[r] \in there
             /\ object = [r \in Resources |->
                   IF r \in there
                   THEN [origin |-> "other", facts |-> [f \in Facts[kind[r]] |-> DefaultValue]]
                   ELSE Absent]
      BY DEF Init
    <2>3. \A r \in Resources : object[r].origin = IF r \in there THEN "other" ELSE "absent"
      BY <2>2 DEF Absent
    <2>4. Claims /\ AllClaimed /\ AllBacked /\ AllNamed
      BY <2>1, <2>3 DEF Claims, Guarded, AllClaimed, Claimed, AllBacked, Backed, AllNamed,
                        Named, At
    <2>5. AllNested
      BY <2>1, <2>2, <2>3, HomesAreDatabases DEF AllNested, Nested, Exists
    <2> QED BY <2>1, <2>4, <2>5
  <1>2. IInv /\ [Next]_vars => IInv'
    <2>1. ASSUME IInv, UNCHANGED vars
          PROVE  IInv'
      BY <2>1, TypesStep DEF vars, workerVars, apiVars, serverVars, Claims, Guarded, AllClaimed,
         Claimed, AllBacked, Backed, AllNamed, Named, AllNested, Nested, Exists, Lives, At
    <2>2. ASSUME IInv, Next
          PROVE  IInv'
      <3>1. Types' /\ Claims' /\ \A r \in Resources : LifecycleStep(r)
        BY <2>2, TypesStep, ClaimsStep DEF Claims
      <3>2. AllClaimed'
        BY <2>2, <3>1 DEF AllClaimed, Claimed, LifecycleStep, Lifecycle!ANext, Lifecycle!Claim,
                          Lifecycle!Create, Lifecycle!Vanish, Lifecycle!Release
      <3>3. AllNested'
        <4>1. ASSUME NEW r \in Resources, Call(r) \/ Administers(r)
              PROVE  AllNested'
          BY <2>2, <4>1, CallEffect, AdministersEffect, Comings, NestedStep
        <4>2. CASE Breaks \/ \E r \in Resources : Steps(r) \/ Orders(r)
          <5>1. UNCHANGED <<object, kind>>
            BY <2>2, <4>2, OtherEffect
          <5> QED BY <2>2, <5>1 DEF AllNested, Nested, Exists, Lives
        <4> QED BY <2>2, <4>1, <4>2, NextCases
      <3> QED BY <2>2, <3>1, <3>2, <3>3, NamedStep, AllBackedStep
    <2> QED BY <2>1, <2>2
  <1>3. IInv => NoOrphanedObject
    BY DEF AllClaimed, Claimed, AllBacked, Backed, AllNamed, Named, AllNested, Nested, Exists,
           NoOrphanedObject
  <1> QED BY <1>1, <1>2, <1>3, PTL DEF Spec
=============================================================================
