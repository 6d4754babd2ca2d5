---------------------------- MODULE WorkerProofs ----------------------------
(***************************************************************************)
(* What the steps of Worker do, whatever phases a component adds to the    *)
(* managed reconciler's.  The proofs about the components rest on it.      *)
(***************************************************************************)
EXTENDS Worker, TLAPS

Copies(phases) == [pc : phases, spec : Specs, deleting : BOOLEAN,
                   exists : BOOLEAN, upToDate : BOOLEAN, dirty : BOOLEAN]
Workers(phases) == [Resources -> Copies(phases)]

(* No other worker moves.                                                  *)
Elsewhere(r) == \A q \in Resources \ {r} : work'[q] = work[q]

(***************************************************************************)
(* What a step does to what the workers hold.                              *)
(***************************************************************************)

(* A worker at rest holds a well-typed record.                             *)
LEMMA IdleCopy ==
    ASSUME NEW phases, WorkerPhases \subseteq phases, NEW r \in Resources
    PROVE  Idle \in Copies(phases) /\ Idle.pc = "idle" /\ Idle.dirty = FALSE
  <1>1. \E s \in Specs : TRUE
    BY WorkerAssumption
  <1>2. (CHOOSE s \in Specs : TRUE) \in Specs
    BY <1>1
  <1> QED BY <1>2 DEF Idle, Copies, WorkerPhases

(* A step that gives one worker a new record.                              *)
LEMMA SetsOne ==
    ASSUME NEW phases, work \in Workers(phases), NEW r \in Resources,
           NEW w \in Copies(phases), work' = [work EXCEPT ![r] = w]
    PROVE  work' \in Workers(phases) /\ work'[r] = w /\ Elsewhere(r)
  BY DEF Workers, Elsewhere

(* A step that moves one worker to a phase.                                *)
LEMMA GoesOne ==
    ASSUME NEW phases, work \in Workers(phases), NEW r \in Resources,
           NEW phase \in phases, Goes(r, phase)
    PROVE  /\ work' \in Workers(phases) /\ Elsewhere(r)
           /\ work'[r] = [work[r] EXCEPT !.pc = phase] /\ work'[r].pc = phase
  BY DEF Goes, Workers, Copies, Elsewhere

(* A step that ends the reconcile of one worker.                           *)
LEMMA EndsOne ==
    ASSUME NEW phases, WorkerPhases \subseteq phases, work \in Workers(phases),
           NEW r \in Resources, Ends(r)
    PROVE  /\ work' \in Workers(phases) /\ Elsewhere(r)
           /\ work'[r] = Idle /\ work'[r].pc = "idle"
  BY IdleCopy DEF Ends, Workers, Elsewhere

(* A step that takes in what Observe has answered.                         *)
LEMMA ObservesOne ==
    ASSUME NEW phases, WorkerPhases \subseteq phases, work \in Workers(phases),
           NEW r \in Resources, NEW exists \in BOOLEAN, NEW upToDate \in BOOLEAN,
           Observed(r, exists, upToDate)
    PROVE  /\ work' \in Workers(phases) /\ Elsewhere(r)
           /\ work'[r].pc = AfterObserve(work[r].deleting, exists)
           /\ work'[r].pc \in {"delete", "release", "claim"}
           /\ work'[r].pc = "release" => ~exists
           /\ work'[r].spec = work[r].spec /\ work'[r].dirty = work[r].dirty
           /\ work'[r].deleting = work[r].deleting
           /\ work'[r].exists = exists /\ work'[r].upToDate = upToDate
  <1>1. /\ AfterObserve(work[r].deleting, exists) \in {"delete", "release", "claim"}
        /\ AfterObserve(work[r].deleting, exists) = "release" => ~exists
    BY DEF AfterObserve, Workers, Copies
  <1>2. AfterObserve(work[r].deleting, exists) \in phases
    BY <1>1 DEF WorkerPhases
  <1>3. work[r] \in Copies(phases)
    BY DEF Workers
  <1> DEFINE w == [work[r] EXCEPT !.exists = exists, !.upToDate = upToDate,
                       !.pc = AfterObserve(work[r].deleting, exists)]
  <1>4. w \in Copies(phases)
    BY <1>2, <1>3 DEF Copies
  <1>5. /\ w.pc = AfterObserve(work[r].deleting, exists) /\ w.spec = work[r].spec
        /\ w.dirty = work[r].dirty /\ w.deleting = work[r].deleting
        /\ w.exists = exists /\ w.upToDate = upToDate
    BY <1>3 DEF Copies
  <1>6. work' = [work EXCEPT ![r] = w]
    BY DEF Observed, Workers
  <1>7. work' \in Workers(phases) /\ Elsewhere(r) /\ work'[r] = w
    BY <1>4, <1>6, SetsOne
  <1> QED BY <1>1, <1>5, <1>7

(* Marking a copy as stale moves no worker.                                *)
LEMMA StalesOne ==
    ASSUME NEW phases, work \in Workers(phases), NEW r \in Resources,
           work' = [work EXCEPT ![r].dirty = ~At(r, "idle")]
    PROVE  /\ work' \in Workers(phases) /\ Elsewhere(r)
           /\ \A q \in Resources : /\ work'[q].pc = work[q].pc
                                   /\ work'[q].spec = work[q].spec
                                   /\ work'[q].deleting = work[q].deleting
                                   /\ work'[q].exists = work[q].exists
                                   /\ work'[q].upToDate = work[q].upToDate
           /\ work'[r].dirty = ~At(r, "idle")
  BY DEF At, Workers, Copies, Elsewhere

(* The metadata stays metadata, and keeps a finalizer that is not removed. *)
LEMMA MetadataKept ==
    ASSUME NEW m \in MR
    PROVE  /\ WithFinalizer(m) \in MR /\ WithFinalizer(m).finalizer = TRUE
           /\ WithFinalizer(m).present = m.present
           /\ WithoutFinalizer(m) \in MR
           /\ WithoutFinalizer(m).finalizer = FALSE
           /\ Deleted(m) \in MR /\ Deleted(m).finalizer = m.finalizer
           /\ m.finalizer => Deleted(m).present = m.present
           /\ \A mark \in CreationMarks :
                 /\ Marked(m, mark) \in MR
                 /\ Marked(m, mark).finalizer = m.finalizer
                 /\ Marked(m, mark).present = m.present
  BY DEF MR, WithFinalizer, WithoutFinalizer, Deleted, Marked, GoneMR,
         CreationMarks

(* The types are those of the parts.                                       *)
LEMMA TypesOfParts ==
    ASSUME NEW phases
    PROVE  WorkerTypes(phases) <=>
              /\ mr \in [Resources -> MR] /\ spec \in [Resources -> Specs]
              /\ work \in Workers(phases) /\ edits \in Nat /\ faults \in Nat
  BY DEF WorkerTypes, Workers, Copies

LEMMA TypesKept ==
    ASSUME NEW phases, work' \in Workers(phases), mr' \in [Resources -> MR],
           spec' \in [Resources -> Specs], edits' \in Nat, faults' \in Nat
    PROVE  WorkerTypes(phases)'
  BY DEF WorkerTypes, Workers, Copies

LEMMA InitTypes ==
    ASSUME NEW phases, WorkerPhases \subseteq phases, WorkerInit
    PROVE  /\ WorkerTypes(phases)
           /\ \A r \in Resources : /\ work[r] = Idle /\ work[r].pc = "idle"
                                   /\ mr[r].finalizer = FALSE
  <1>1. work \in Workers(phases)
    BY IdleCopy DEF WorkerInit, Workers
  <1>2. NewMR \in MR /\ NewMR.finalizer = FALSE
    BY DEF NewMR, MR, CreationMarks
  <1> QED BY <1>1, <1>2, IdleCopy, TypesOfParts DEF WorkerInit

(***************************************************************************)
(* The steps of the managed reconciler.                                    *)
(***************************************************************************)

(* A worker takes a fresh copy, goes on with the one it has, or rests; it  *)
(* goes on only from the phases it is in, and to the calls that change     *)
(* anything only under a finalizer.                                        *)
Moved(r) ==
    /\ IF At(r, "idle")
       THEN work'[r] = [Idle EXCEPT !.pc = "observe", !.spec = spec[r],
                                    !.deleting = mr[r].deleting]
       ELSE work'[r] = Idle \/ work'[r] = [work[r] EXCEPT !.pc = work'[r].pc]
    /\ work'[r].pc \in {"idle", "observe", "mark", "update", "done", "create",
                        "publish"}
    /\ work[r].pc \in {"idle", "claim", "mark", "createFailed", "created",
                       "publish", "release", "done"}
    /\ work'[r].pc = "observe" => At(r, "idle") /\ mr[r].present
    /\ work'[r].pc = "mark" => At(r, "claim") /\ ~work[r].exists
    /\ work'[r].pc \in {"update", "done"} => At(r, "claim") /\ work[r].exists
    /\ work'[r].pc = "update" => ~work[r].upToDate
    /\ work'[r].pc = "create" => At(r, "mark")
    /\ work'[r].pc = "publish" => At(r, "created")
    /\ At(r, "release") => At(r, "idle")'

Metadata(r) ==
    /\ \A q \in Resources \ {r} : mr'[q] = mr[q]
    /\ At(r, "release") \/ (mr[r].finalizer => mr'[r].finalizer)
    /\ At(r, "release") \/ mr'[r].present = mr[r].present
    /\ At(r, "claim") /\ ~At(r, "idle")' => mr'[r].finalizer
    /\ mr'[r].finalizer =>
          \/ mr[r].finalizer /\ mr'[r].present = mr[r].present
          \/ At(r, "claim") /\ ~work[r].dirty

LEMMA WorkerStepEffect ==
    ASSUME NEW phases, WorkerPhases \subseteq phases, WorkerTypes(phases),
           NEW r \in Resources, WorkerSteps(r) \/ Settled(r)
    PROVE  /\ WorkerTypes(phases)' /\ spec' = spec
           /\ Elsewhere(r) /\ Moved(r) /\ Metadata(r)
  <1> USE DEF At, apiVars, boundVars
  <1>0. /\ work \in Workers(phases) /\ mr \in [Resources -> MR] /\ mr[r] \in MR
        /\ spec \in [Resources -> Specs] /\ edits \in Nat /\ faults \in Nat
        /\ work[r] \in Copies(phases)
    BY TypesOfParts DEF Workers
  <1>c. \A x : [work[r] EXCEPT !.pc = x].pc = x
    BY <1>0 DEF Copies
  <1>w. ASSUME work' \in Workers(phases), mr' \in [Resources -> MR],
               UNCHANGED <<spec, edits, faults>>
        PROVE  WorkerTypes(phases)'
    BY <1>0, <1>w, TypesKept
  <1>m. ASSUME NEW m \in MR, mr' = [mr EXCEPT ![r] = m]
        PROVE  /\ mr' \in [Resources -> MR] /\ mr'[r] = m
               /\ \A q \in Resources \ {r} : mr'[q] = mr[q]
    BY <1>0, <1>m
  <1>g. ASSUME NEW phase \in WorkerPhases, Goes(r, phase)
        PROVE  /\ work' \in Workers(phases) /\ Elsewhere(r)
               /\ work'[r] = [work[r] EXCEPT !.pc = phase]
               /\ work'[r].pc = phase
    BY <1>0, <1>g, GoesOne
  <1>e. ASSUME Ends(r)
        PROVE  /\ work' \in Workers(phases) /\ Elsewhere(r)
               /\ work'[r] = Idle /\ work'[r].pc = "idle"
    BY <1>0, <1>e, EndsOne
  <1>k. ASSUME NEW mark \in CreationMarks, mr' = [mr EXCEPT ![r] = Marked(@, mark)]
        PROVE  /\ mr' \in [Resources -> MR]
               /\ mr'[r].finalizer = mr[r].finalizer
               /\ mr'[r].present = mr[r].present
               /\ \A q \in Resources \ {r} : mr'[q] = mr[q]
    <2>1. /\ Marked(mr[r], mark) \in MR
          /\ Marked(mr[r], mark).finalizer = mr[r].finalizer
          /\ Marked(mr[r], mark).present = mr[r].present
      BY <1>0, MetadataKept
    <2>2. mr' = [mr EXCEPT ![r] = Marked(mr[r], mark)]
      BY <1>k
    <2> QED BY <2>1, <2>2, <1>m
  <1>1. CASE Begin(r)
    <2> DEFINE w == [Idle EXCEPT !.pc = "observe", !.spec = spec[r],
                                 !.deleting = mr[r].deleting]
    <2>1. w \in Copies(phases) /\ w.pc = "observe"
      BY <1>0, IdleCopy DEF Copies, WorkerPhases, MR
    <2>2. /\ work' \in Workers(phases) /\ Elsewhere(r) /\ work'[r] = w
      BY <1>0, <1>1, <2>1, SetsOne DEF Begin
    <2>3. mr[r].present /\ work[r].pc = "idle" /\ mr' = mr
          /\ UNCHANGED <<spec, edits, faults>>
      BY <1>1 DEF Begin, Reconcilable
    <2> QED BY <1>0, <1>w, <2>1, <2>2, <2>3 DEF Moved, Metadata
  <1>2. CASE Claim(r)
    <2>1. /\ AfterClaim(work[r].exists, work[r].upToDate)
                \in {"mark", "update", "done"}
          /\ (AfterClaim(work[r].exists, work[r].upToDate) = "mark")
                = ~work[r].exists
          /\ AfterClaim(work[r].exists, work[r].upToDate) = "update" => ~work[r].upToDate
      BY <1>0 DEF AfterClaim, Copies
    <2>2. /\ work' \in Workers(phases) /\ Elsewhere(r)
          /\ work'[r] = [work[r] EXCEPT !.pc = work'[r].pc]
          /\ work'[r].pc \in {"mark", "update", "done"}
          /\ (work'[r].pc = "mark") = ~work[r].exists
          /\ work'[r].pc = "update" => ~work[r].upToDate
      BY <1>2, <1>g, <2>1 DEF Claim, WorkerPhases
    <2>3. /\ mr' \in [Resources -> MR] /\ mr'[r].finalizer
          /\ mr'[r].present = mr[r].present
          /\ \A q \in Resources \ {r} : mr'[q] = mr[q]
      <3>1. /\ WithFinalizer(mr[r]) \in MR /\ WithFinalizer(mr[r]).finalizer
            /\ WithFinalizer(mr[r]).present = mr[r].present
        BY <1>0, MetadataKept
      <3>2. mr' = [mr EXCEPT ![r] = WithFinalizer(mr[r])]
        BY <1>2 DEF Claim
      <3> QED BY <3>1, <3>2, <1>m
    <2>4. /\ work[r].pc = "claim" /\ UNCHANGED <<spec, edits, faults>>
          /\ mr[r].finalizer \/ ~work[r].dirty
      BY <1>2 DEF Claim
    <2> QED BY <1>w, <2>2, <2>3, <2>4 DEF Moved, Metadata
  <1>3. CASE MarkPending(r)
    <2>1. /\ work[r].pc = "mark" /\ UNCHANGED <<spec, edits, faults>>
          /\ Goes(r, "create") /\ mr' = [mr EXCEPT ![r] = Marked(@, "pending")]
      BY <1>3 DEF MarkPending
    <2> QED BY <1>g, <1>k, <1>w, <2>1 DEF Moved, Metadata, WorkerPhases, CreationMarks
  <1>4. CASE RecordFailure(r)
    <2>1. /\ work[r].pc = "createFailed" /\ UNCHANGED <<spec, edits, faults>>
          /\ Ends(r) /\ mr' = [mr EXCEPT ![r] = Marked(@, "failed")]
      BY <1>4 DEF RecordFailure
    <2> QED BY <1>e, <1>k, <1>w, <2>1 DEF Moved, Metadata, CreationMarks
  <1>5. CASE RecordSuccess(r)
    <2>1. /\ work[r].pc = "created" /\ UNCHANGED <<spec, edits, faults>>
          /\ Goes(r, "publish") /\ mr' = [mr EXCEPT ![r] = Marked(@, "succeeded")]
      BY <1>5 DEF RecordSuccess
    <2> QED BY <1>g, <1>k, <1>w, <2>1 DEF Moved, Metadata, WorkerPhases, CreationMarks
  <1>6. CASE Release(r)
    <2>1. /\ work[r].pc = "release" /\ UNCHANGED <<spec, edits, faults>>
          /\ Ends(r) /\ mr' = [mr EXCEPT ![r] = WithoutFinalizer(mr[r])]
      BY <1>6 DEF Release
    <2>2. WithoutFinalizer(mr[r]) \in MR /\ WithoutFinalizer(mr[r]).finalizer = FALSE
      BY <1>0, MetadataKept
    <2> QED BY <1>e, <1>m, <1>w, <2>1, <2>2 DEF Moved, Metadata
  <1>7. CASE Conflict(r) \/ Settled(r)
    <2>1. /\ work[r].pc \in {"claim", "mark", "release", "publish", "done"}
          /\ Ends(r) /\ mr' = mr /\ UNCHANGED <<spec, edits, faults>>
      BY <1>7 DEF Conflict, Settled
    <2> QED BY <1>0, <1>e, <1>w, <2>1 DEF Moved, Metadata
  <1> QED BY <1>1, <1>2, <1>3, <1>4, <1>5, <1>6, <1>7 DEF WorkerSteps

(***************************************************************************)
(* Failures and users.                                                     *)
(***************************************************************************)

(* A call that fails leaves a worker at rest, or in the failure of Create. *)
LEMMA CallFailsEffect ==
    ASSUME NEW phases, WorkerPhases \subseteq phases, WorkerTypes(phases),
           NEW createPhases, NEW r \in Resources, CallFails(r, createPhases)
    PROVE  /\ WorkerTypes(phases)' /\ spec' = spec /\ mr' = mr /\ edits' = edits
           /\ Elsewhere(r)
           /\ \/ work'[r] = Idle /\ work'[r].pc = "idle"
              \/ /\ work'[r] = [work[r] EXCEPT !.pc = "createFailed"]
                 /\ work'[r].pc = "createFailed" /\ ~At(r, "idle")
                 /\ work[r].pc \in createPhases
  <1>0. /\ work \in Workers(phases) /\ mr \in [Resources -> MR]
        /\ spec \in [Resources -> Specs] /\ edits \in Nat /\ faults \in Nat
    BY TypesOfParts
  <1>1. UNCHANGED <<spec, mr, edits>> /\ faults' \in Nat /\ ~At(r, "idle")
    BY <1>0 DEF CallFails, UseCredit, apiVars
  <1>2. CASE Ends(r)
    BY <1>0, <1>1, <1>2, EndsOne, TypesKept
  <1>3. CASE work[r].pc \in createPhases /\ Goes(r, "createFailed")
    <2>1. "createFailed" \in phases
      BY DEF WorkerPhases
    <2> QED BY <1>0, <1>1, <1>3, <2>1, GoesOne, TypesKept
  <1> QED BY <1>2, <1>3 DEF CallFails

LEMMA CrashEffect ==
    ASSUME NEW phases, WorkerPhases \subseteq phases, WorkerTypes(phases), Crash
    PROVE  /\ WorkerTypes(phases)' /\ spec' = spec /\ mr' = mr /\ edits' = edits
           /\ \A q \in Resources : work'[q] = Idle /\ work'[q].pc = "idle"
  <1>0. /\ work \in Workers(phases) /\ mr \in [Resources -> MR]
        /\ spec \in [Resources -> Specs] /\ edits \in Nat /\ faults \in Nat
    BY TypesOfParts
  <1>1. UNCHANGED <<spec, mr, edits>> /\ faults' \in Nat
    BY <1>0 DEF Crash, UseCredit, apiVars
  <1>2. \A q \in Resources : work'[q] = Idle /\ work'[q].pc = "idle"
    BY IdleCopy DEF Crash
  <1>3. work' \in Workers(phases)
    BY IdleCopy DEF Crash, Workers
  <1> QED BY <1>0, <1>1, <1>2, <1>3, TypesKept

(* Users edit, delete and clear a mark: a copy becomes stale, no worker    *)
(* moves, no finalizer comes or goes, and what has one stays.              *)
LEMMA UsersEffect ==
    ASSUME NEW phases, WorkerPhases \subseteq phases, WorkerTypes(phases),
           NEW r \in Resources, Users(r)
    PROVE  /\ WorkerTypes(phases)' /\ faults' = faults
           /\ \A q \in Resources :
                 /\ work'[q].pc = work[q].pc /\ work'[q].spec = work[q].spec
                 /\ work'[q].deleting = work[q].deleting
                 /\ work'[q].exists = work[q].exists
                 /\ work'[q].upToDate = work[q].upToDate
                 /\ mr'[q].finalizer = mr[q].finalizer
                 /\ mr[q].finalizer => mr'[q].present = mr[q].present
           /\ Elsewhere(r)
           /\ \A q \in Resources \ {r} : mr'[q] = mr[q] /\ spec'[q] = spec[q]
           /\ \/ work'[r].dirty = ~At(r, "idle")
              \/ work' = work /\ mr'[r].present = mr[r].present /\ spec' = spec
           /\ \/ spec' = spec /\ edits' = edits
              \/ /\ mr[r].present /\ mr' = mr
                 /\ spec'[r] \in Choices[r] /\ edits' = edits + 1
  <1>0. /\ work \in Workers(phases) /\ mr \in [Resources -> MR]
        /\ spec \in [Resources -> Specs] /\ edits \in Nat /\ faults \in Nat
        /\ mr[r] \in MR
    BY TypesOfParts
  <1> USE DEF apiVars, boundVars
  <1>s. ASSUME work' = [work EXCEPT ![r].dirty = ~At(r, "idle")]
        PROVE  /\ work' \in Workers(phases) /\ Elsewhere(r)
               /\ \A q \in Resources :
                     /\ work'[q].pc = work[q].pc /\ work'[q].spec = work[q].spec
                     /\ work'[q].deleting = work[q].deleting
                     /\ work'[q].exists = work[q].exists
                     /\ work'[q].upToDate = work[q].upToDate
               /\ work'[r].dirty = ~At(r, "idle")
    BY <1>0, <1>s, StalesOne
  <1>1. CASE UserEdits(r)
    <2>1. PICK s \in Choices[r] \ {spec[r]} : spec' = [spec EXCEPT ![r] = s]
      BY <1>1 DEF UserEdits
    <2>2. s \in Specs
      BY <2>1, WorkerAssumption
    <2>3. /\ mr[r].present /\ mr' = mr /\ faults' = faults /\ edits' = edits + 1
          /\ work' = [work EXCEPT ![r].dirty = ~At(r, "idle")]
      BY <1>1 DEF UserEdits
    <2>4. /\ spec' \in [Resources -> Specs] /\ spec'[r] = s
          /\ \A q \in Resources \ {r} : spec'[q] = spec[q]
      BY <1>0, <2>1, <2>2
    <2>5. edits' \in Nat /\ faults' \in Nat /\ mr' \in [Resources -> MR]
      BY <1>0, <2>3
    <2>6. WorkerTypes(phases)'
      BY <1>s, <2>3, <2>4, <2>5, TypesKept
    <2> QED BY <1>s, <2>1, <2>3, <2>4, <2>6
  <1>2. CASE DeleteMR(r)
    <2>1. /\ UNCHANGED <<spec, edits, faults>>
          /\ work' = [work EXCEPT ![r].dirty = ~At(r, "idle")]
          /\ mr' = [mr EXCEPT ![r] = Deleted(mr[r])]
      BY <1>2 DEF DeleteMR
    <2>d. /\ Deleted(mr[r]) \in MR
          /\ Deleted(mr[r]).finalizer = mr[r].finalizer
          /\ mr[r].finalizer => Deleted(mr[r]).present = mr[r].present
      BY <1>0, MetadataKept
    <2>2. /\ mr' \in [Resources -> MR] /\ mr'[r] = Deleted(mr[r])
          /\ \A q \in Resources \ {r} : mr'[q] = mr[q]
      BY <1>0, <2>1, <2>d
    <2>3. WorkerTypes(phases)'
      BY <1>0, <1>s, <2>1, <2>2, TypesKept
    <2>4. \A q \in Resources :
             /\ mr'[q].finalizer = mr[q].finalizer
             /\ mr[q].finalizer => mr'[q].present = mr[q].present
      BY <2>d, <2>2
    <2> QED BY <1>s, <2>1, <2>2, <2>3, <2>4
  <1>3. CASE ClearPendingMark(r)
    <2>1. /\ UNCHANGED <<spec, work, edits, faults>>
          /\ mr' = [mr EXCEPT ![r] = Marked(mr[r], "none")]
      BY <1>3 DEF ClearPendingMark
    <2>d. /\ Marked(mr[r], "none") \in MR
          /\ Marked(mr[r], "none").finalizer = mr[r].finalizer
          /\ Marked(mr[r], "none").present = mr[r].present
      BY <1>0, MetadataKept DEF CreationMarks
    <2>2. /\ mr' \in [Resources -> MR] /\ mr'[r] = Marked(mr[r], "none")
          /\ \A q \in Resources \ {r} : mr'[q] = mr[q]
      BY <1>0, <2>1, <2>d
    <2>3. \A q \in Resources :
             /\ mr'[q].finalizer = mr[q].finalizer
             /\ mr'[q].present = mr[q].present
      BY <2>d, <2>2
    <2>4. WorkerTypes(phases)'
      BY <1>0, <2>1, <2>2, TypesKept
    <2> QED BY <2>1, <2>2, <2>3, <2>4 DEF Elsewhere
  <1> QED BY <1>1, <1>2, <1>3 DEF Users

(***************************************************************************)
(* A resource is there as long as a worker holds a fresh copy of it, and   *)
(* as long as it has a finalizer.                                          *)
(***************************************************************************)
Backed(r) ==
    mr[r].finalizer \/ (~At(r, "idle") /\ ~work[r].dirty) => mr[r].present

(* A step that leaves the metadata alone, and the worker with its copy.    *)
LEMMA BackedKept ==
    ASSUME NEW r \in Resources, Backed(r), mr'[r] = mr[r],
           \/ At(r, "idle")'
           \/ ~At(r, "idle") /\ work'[r].dirty = work[r].dirty
    PROVE  Backed(r)'
  BY DEF Backed, At

LEMMA BackedStep ==
    ASSUME NEW phases, WorkerPhases \subseteq phases, WorkerTypes(phases),
           NEW q \in Resources, Backed(q), NEW createPhases,
           \/ Crash
           \/ \E r \in Resources : WorkerSteps(r) \/ Settled(r) \/ Users(r)
                                   \/ CallFails(r, createPhases)
    PROVE  Backed(q)'
  <1>0. work \in Workers(phases) /\ mr \in [Resources -> MR]
    BY TypesOfParts
  <1>1. CASE Crash
    BY <1>1, CrashEffect, BackedKept DEF At
  <1>2. ASSUME NEW r \in Resources, CallFails(r, createPhases) PROVE Backed(q)'
    <2>1. /\ mr'[q] = mr[q]
          /\ \/ At(q, "idle")' \/ work'[q] = work[q]
             \/ ~At(q, "idle") /\ work'[q] = [work[q] EXCEPT !.pc = "createFailed"]
      BY <1>2, CallFailsEffect DEF Elsewhere, At
    <2>2. [work[q] EXCEPT !.pc = "createFailed"].dirty = work[q].dirty
      BY <1>0 DEF Workers, Copies
    <2> QED BY <2>1, <2>2 DEF Backed, At
  <1>3. ASSUME NEW r \in Resources, Users(r) PROVE Backed(q)'
    <2>1. CASE q # r
      BY <1>3, <2>1, UsersEffect DEF Elsewhere, Backed, At
    <2>2. CASE q = r
      BY <1>3, <2>2, UsersEffect DEF Backed, At
    <2> QED BY <2>1, <2>2
  <1>4. ASSUME NEW r \in Resources, WorkerSteps(r) \/ Settled(r) PROVE Backed(q)'
    <2>1. Elsewhere(r) /\ Moved(r) /\ Metadata(r)
      BY <1>4, WorkerStepEffect
    <2>2. CASE q # r
      BY <2>1, <2>2 DEF Elsewhere, Metadata, Backed, At
    <2>3. CASE q = r
      <3>1. \A x : [work[q] EXCEPT !.pc = x].dirty = work[q].dirty
        BY <1>0 DEF Workers, Copies
      <3>2. ~At(q, "idle")' => mr[q].present \/ work'[q].dirty = work[q].dirty
        BY <2>1, <2>3, <3>1, IdleCopy, ZenonT(60) DEF Moved, At
      <3>3. ASSUME mr'[q].finalizer PROVE mr'[q].present
        BY <2>1, <2>3, <3>3 DEF Metadata, Backed, At
      <3>4. ASSUME ~At(q, "idle")', ~work'[q].dirty PROVE mr'[q].present
        <4>1. mr[q].present
          BY <2>1, <2>3, <3>2, <3>4 DEF Moved, Backed, At
        <4> QED BY <2>1, <2>3, <3>4, <4>1 DEF Moved, Metadata, At
      <3> QED BY <3>3, <3>4 DEF Backed
    <2> QED BY <2>2, <2>3
  <1> QED BY <1>1, <1>2, <1>3, <1>4
=============================================================================
