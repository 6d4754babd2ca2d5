-------------------------- MODULE DiffGrantProofs --------------------------
(***************************************************************************)
(* Theorems about DiffGrant, for every set of grants, targets and          *)
(* privileges, on any of the servers, and for every bound on edits and     *)
(* faults.                                                                 *)
(***************************************************************************)
EXTENDS DiffGrant, WorkerProofs

LEMMA PhasesOfWorkers == WorkerPhases \subseteq Phases
  BY DEF Phases

(***************************************************************************)
(* The sets of privileges.                                                 *)
(***************************************************************************)
Holdable == Privileges \cup {Option}

(* What names mean can be held, and is a matter of the names alone unless  *)
(* ALL is one of them.                                                     *)
LEMMA MeaningHoldable ==
    ASSUME NEW names \in SUBSET Names
    PROVE  /\ Meaning(names) \subseteq Holdable
           /\ All \notin names => Meaning(names) = names
  BY DEF Meaning, Names, Holdable

(* A server shows something of whoever holds something.                    *)
LEMMA ShownNames ==
    ASSUME NEW privileges \in SUBSET Holdable
    PROVE  /\ Shown(privileges) \in SUBSET Names
           /\ Shown(privileges) = {} => privileges = {}
  BY DEF Shown, Holdable, Names

LEMMA DifferenceNames ==
    ASSUME NEW desired \in SUBSET Names, NEW observed \in SUBSET Names
    PROVE  /\ Difference(desired, observed) \in Plans
           /\ Difference(desired, observed).revoke \cap desired = {}
  BY DEF Difference, Plans

(***************************************************************************)
(* The calls of the controller.                                            *)
(***************************************************************************)
Call(r) == Observe(r) \/ Create(r) \/ CreateUnanswered(r) \/ UpdateSteps(r) \/ Delete(r)

(* What they leave alone, and where they go.                               *)
LEMMA CallEffect ==
    ASSUME TypeOK, NEW r \in Resources, Call(r)
    PROVE  /\ WorkerTypes(Phases)' /\ UNCHANGED <<mr, placeVars, user, foreign>>
           /\ Elsewhere(r) /\ ~At(r, "mark")' /\ ~At(r, "create")'
           /\ At(r, "release")' => At(r, "observe") /\ Listed(r) = {}
           /\ At(r, "update")' => FALSE
  <1> USE DEF apiVars, boundVars, serverVars, memoryVars
  <1>0. /\ work \in Workers(Phases) /\ mr \in [Resources -> MR]
        /\ spec \in [Resources -> Specs] /\ edits \in Nat /\ faults \in Nat
    BY TypesOfParts DEF TypeOK
  <1>p. {"created", "createFailed", "revoke", "grant", "publish"} \subseteq Phases
    BY DEF Phases, WorkerPhases
  <1>u. UNCHANGED <<mr, spec, edits, placeVars, user, foreign>> /\ faults' \in Nat
    BY <1>0 DEF Call, Observe, Create, CreateUnanswered, UpdateSteps, Update, Revoke,
                Grant, Delete, UseCredit
  <1>t. ASSUME work' \in Workers(Phases)
        PROVE  WorkerTypes(Phases)'
    BY <1>0, <1>t, <1>u, TypesKept
  <1>g. ASSUME NEW phase \in {"created", "createFailed", "revoke", "grant", "publish"},
               Goes(r, phase)
        PROVE  work' \in Workers(Phases) /\ Elsewhere(r) /\ work'[r].pc = phase
    BY <1>0, <1>g, <1>p, GoesOne
  <1>e. ASSUME Ends(r)
        PROVE  work' \in Workers(Phases) /\ Elsewhere(r) /\ work'[r].pc = "idle"
    BY <1>0, <1>e, EndsOne, PhasesOfWorkers
  <1>1. CASE Observe(r)
    <2>1. Observed(r, Listed(r) # {}, Difference(work[r].spec, Listed(r)) = NoPlan)
      BY <1>1 DEF Observe
    <2>2. /\ work' \in Workers(Phases) /\ Elsewhere(r)
          /\ work'[r].pc \in {"delete", "release", "claim"}
          /\ work'[r].pc = "release" => ~(Listed(r) # {})
      BY <1>0, <2>1, ObservesOne, PhasesOfWorkers
    <2> QED BY <1>1, <1>t, <1>u, <2>2 DEF Observe, At
  <1>2. CASE Create(r) \/ CreateUnanswered(r)
    <2>1. Goes(r, "created") \/ Goes(r, "createFailed")
      BY <1>2 DEF Create, CreateUnanswered
    <2> QED BY <1>g, <1>t, <1>u, <2>1 DEF At
  <1>3. CASE UpdateSteps(r)
    <2>1. \/ Ends(r)
          \/ \E phase \in {"revoke", "grant", "publish"} : Goes(r, phase)
      BY <1>3 DEF UpdateSteps, Update, Revoke, Grant, NextStatement
    <2> QED BY <1>e, <1>g, <1>t, <1>u, <2>1 DEF At
  <1>4. CASE Delete(r)
    BY <1>e, <1>4, <1>t, <1>u DEF Delete, At
  <1> QED BY <1>1, <1>2, <1>3, <1>4 DEF Call

(* The steps of the managed reconciler, of a worker or a call that breaks  *)
(* off, and of the users.                                                  *)
Steps(r) ==
    /\ WorkerSteps(r) \/ Settled(r)
    /\ UNCHANGED <<placeVars, serverVars, memoryVars, foreign>>
Breaks ==
    /\ Crash \/ \E r \in Resources : CallFails(r, {"create"})
    /\ plan' = [r \in Resources |-> IF At(r, "idle")' THEN NoPlan ELSE plan[r]]
    /\ seen' = [r \in Resources |-> IF At(r, "idle")' THEN {} ELSE seen[r]]
    /\ UNCHANGED <<placeVars, serverVars, foreign>>
Orders(r) ==
    Users(r) /\ UNCHANGED <<placeVars, serverVars, memoryVars, foreign>>
Administers == AdminGrants \/ UserGoes \/ UserComes

LEMMA NextCases ==
    ASSUME Next
    PROVE  \/ \E r \in Resources : Call(r) \/ Steps(r) \/ Orders(r)
           \/ Breaks \/ Administers
  BY DEF Next, Call, Steps, Breaks, Orders, Administers, Reconcile, Failure, Changes,
         Environment

(***************************************************************************)
(* Types.                                                                  *)
(***************************************************************************)
LEMMA CallTyped ==
    ASSUME TypeOK, NEW r \in Resources, Call(r)
    PROVE  TypeOK'
  <1> USE DEF serverVars, memoryVars, placeVars
  <1>0. /\ work[r].spec \in SUBSET Names /\ target[r] \in Targets
        /\ held \in [Targets -> SUBSET Holdable] /\ held[target[r]] \in SUBSET Holdable
        /\ seen \in [Resources -> SUBSET Names] /\ plan \in [Resources -> Plans]
        /\ plan[r] \in Plans
    BY GrantAssumption DEF TypeOK, WorkerTypes, Holdable
  <1>1. WorkerTypes(Phases)' /\ UNCHANGED <<server, target, user, foreign>>
    BY CallEffect
  <1>g. ASSUME NEW names \in SUBSET Names
        PROVE  /\ Granted(names, target[r]) \in [Targets -> SUBSET Holdable]
               /\ Revoked(names, target[r]) \in [Targets -> SUBSET Holdable]
    BY <1>0, <1>g, MeaningHoldable DEF Granted, Revoked
  <1>l. Listed(r) \in SUBSET Names
    BY <1>0, ShownNames DEF Listed
  <1>p. plan[r].revoke \in SUBSET Names /\ plan[r].grant \in SUBSET Names
        /\ NoPlan \in Plans
    BY <1>0 DEF Plans, NoPlan
  <1>2. held' \in [Targets -> SUBSET Holdable]
    BY <1>0, <1>g, <1>p DEF Call, Observe, Create, CreateUnanswered, UpdateSteps, Update,
       Revoke, Grant, Delete
  <1>3. seen' \in [Resources -> SUBSET Names]
    BY <1>0, <1>l DEF Call, Observe, Notes, Create, CreateUnanswered, UpdateSteps, Update,
       Revoke, Grant, Delete
  <1>4. plan' \in [Resources -> Plans]
    <2>1. CASE Update(r)
      <3> DEFINE p == Difference(work[r].spec, IF server = "mysql" THEN seen[r]
                                               ELSE Listed(r))
      <3>1. p \in Plans
        BY <1>0, <1>l, DifferenceNames
      <3>2. plan' = [plan EXCEPT ![r] = p]
        BY <2>1 DEF Update
      <3> QED BY <1>0, <3>1, <3>2
    <2>2. CASE Revoke(r)
      <3> DEFINE p == [plan[r] EXCEPT !.revoke = {}]
      <3>1. p \in Plans
        BY <1>0 DEF Plans
      <3>2. plan' = [plan EXCEPT ![r] = p] \/ plan' = [plan EXCEPT ![r] = NoPlan]
        BY <1>0, <2>2 DEF Revoke
      <3> QED BY <1>0, <1>p, <3>1, <3>2
    <2>3. CASE ~Update(r) /\ ~Revoke(r)
      BY <1>0, <1>p, <2>3 DEF Call, Observe, Create, CreateUnanswered, UpdateSteps,
         Grant, Delete
    <2> QED BY <2>1, <2>2, <2>3
  <1> QED BY <1>1, <1>2, <1>3, <1>4 DEF TypeOK, Holdable

(* Where such a step leaves a worker and the finalizer of its resource.    *)
Fate(r) ==
    /\ \/ /\ work'[r].pc = work[r].pc /\ work'[r].spec = work[r].spec
          /\ mr'[r].finalizer = mr[r].finalizer
       \/ /\ work'[r].pc = "idle"
          /\ At(r, "release") \/ (mr[r].finalizer => mr'[r].finalizer)
       \/ /\ work'[r].pc \in {"observe", "createFailed", "create", "publish"}
          /\ work'[r].pc = "create" => At(r, "mark")
          /\ mr[r].finalizer => mr'[r].finalizer
       \/ work'[r].pc \in {"mark", "update", "done"} /\ mr'[r].finalizer
    /\ plan'[r] = plan[r] \/ work'[r].pc = "idle"

LEMMA OtherEffect ==
    ASSUME TypeOK,
           (\E r \in Resources : Steps(r) \/ Orders(r)) \/ Breaks
    PROVE  /\ TypeOK' /\ UNCHANGED <<target, held, foreign>>
           /\ \A r \in Resources : Fate(r)
  <1> USE DEF apiVars, boundVars, workerVars, serverVars, memoryVars, placeVars
  <1>0. WorkerTypes(Phases) /\ NoPlan \in Plans
    BY DEF TypeOK, NoPlan, Plans
  <1>1. ASSUME NEW r \in Resources, Steps(r)
        PROVE  /\ TypeOK' /\ UNCHANGED <<target, held, foreign>>
               /\ \A q \in Resources : Fate(q)
    <2>1. WorkerTypes(Phases)' /\ Elsewhere(r) /\ Moved(r) /\ Metadata(r)
      BY <1>0, <1>1, PhasesOfWorkers, WorkerStepEffect DEF Steps
    <2>2. UNCHANGED <<placeVars, serverVars, memoryVars, foreign>>
      BY <1>1 DEF Steps
    <2>3. Fate(r)
      BY <2>1, <2>2 DEF Moved, Metadata, Fate, At
    <2>4. \A q \in Resources \ {r} : Fate(q)
      BY <2>1, <2>2 DEF Elsewhere, Metadata, Fate
    <2> QED BY <2>1, <2>2, <2>3, <2>4 DEF TypeOK
  <1>2. ASSUME NEW r \in Resources, Orders(r)
        PROVE  /\ TypeOK' /\ UNCHANGED <<target, held, foreign>>
               /\ \A q \in Resources : Fate(q)
    <2>1. /\ WorkerTypes(Phases)'
          /\ \A q \in Resources :
                /\ work'[q].pc = work[q].pc /\ work'[q].spec = work[q].spec
                /\ mr'[q].finalizer = mr[q].finalizer
      BY <1>0, <1>2, UsersEffect, PhasesOfWorkers DEF Orders
    <2>2. UNCHANGED <<placeVars, serverVars, memoryVars, foreign>>
      BY <1>2 DEF Orders
    <2> QED BY <2>1, <2>2 DEF TypeOK, Fate
  <1>3. CASE Breaks
    <2>1. WorkerTypes(Phases)' /\ mr' = mr
      BY <1>0, <1>3, CallFailsEffect, CrashEffect, PhasesOfWorkers DEF Breaks
    <2>2. ASSUME NEW q \in Resources
          PROVE  work'[q] = work[q] \/ work'[q].pc \in {"idle", "createFailed"}
      <3>1. CASE Crash
        BY <1>0, <3>1, CrashEffect, PhasesOfWorkers
      <3>2. ASSUME NEW r \in Resources, CallFails(r, {"create"})
            PROVE  work'[q] = work[q] \/ work'[q].pc \in {"idle", "createFailed"}
        BY <1>0, <3>2, CallFailsEffect, PhasesOfWorkers DEF Elsewhere
      <3> QED BY <1>3, <3>1, <3>2 DEF Breaks
    <2>3. /\ plan' \in [Resources -> Plans] /\ seen' \in [Resources -> SUBSET Names]
          /\ \A q \in Resources : plan'[q] = plan[q] \/ work'[q].pc = "idle"
      BY <1>0, <1>3 DEF Breaks, TypeOK, At
    <2>4. UNCHANGED <<placeVars, serverVars, foreign>>
      BY <1>3 DEF Breaks
    <2> QED BY <2>1, <2>2, <2>3, <2>4 DEF TypeOK, Fate
  <1> QED BY <1>1, <1>2, <1>3

LEMMA AdministersEffect ==
    ASSUME TypeOK, Administers
    PROVE  /\ TypeOK' /\ UNCHANGED <<work, mr, server, target, seen, plan>>
           /\ \/ UNCHANGED <<held, foreign, faults>>
              \/ foreign' = TRUE
              \/ /\ foreign' = foreign /\ faults' # 0
                 /\ \A t \in Targets : held'[t] = {}
  <1> USE DEF apiVars, boundVars, workerVars, serverVars, memoryVars, placeVars
  <1>0. /\ held \in [Targets -> SUBSET Holdable] /\ faults \in Nat
    BY DEF TypeOK, WorkerTypes, Holdable
  <1>5. ASSUME UNCHANGED <<work, mr, spec, edits, target, server, seen, plan>>,
               faults' \in Nat, foreign' \in BOOLEAN, user' \in BOOLEAN,
               held' \in [Targets -> SUBSET Holdable]
        PROVE  TypeOK'
    BY <1>5 DEF TypeOK, WorkerTypes, Holdable
  <1>6. CASE AdminGrants
    <2>1. held' \in [Targets -> SUBSET Holdable]
      BY <1>0, <1>6 DEF AdminGrants, Holdable
    <2>2. /\ UNCHANGED <<work, mr, spec, edits, target, server, seen, plan, user>>
          /\ faults' \in Nat /\ foreign' = TRUE
      BY <1>0, <1>6 DEF AdminGrants, UseCredit
    <2> QED BY <1>5, <2>1, <2>2 DEF TypeOK
  <1>7. CASE UserGoes
    <2>1. held' \in [Targets -> SUBSET Holdable] /\ \A t \in Targets : held'[t] = {}
      BY <1>7 DEF UserGoes
    <2>2. /\ UNCHANGED <<work, mr, spec, edits, target, server, seen, plan, foreign>>
          /\ faults' \in Nat /\ faults' # 0 /\ user' = FALSE
      BY <1>0, <1>7 DEF UserGoes, UseCredit
    <2> QED BY <1>5, <2>1, <2>2 DEF TypeOK
  <1>8. CASE UserComes
    <2>1. /\ UNCHANGED <<work, mr, spec, edits, faults, target, server, seen, plan, held,
                         foreign>>
          /\ user' = TRUE
      BY <1>8 DEF UserComes
    <2> QED BY <1>0, <1>5, <2>1 DEF TypeOK
  <1> QED BY <1>6, <1>7, <1>8 DEF Administers

LEMMA TypesStep == TypeOK /\ [Next]_vars => TypeOK'
  <1>1. ASSUME TypeOK, UNCHANGED vars
        PROVE  TypeOK'
    BY <1>1 DEF vars, workerVars, apiVars, boundVars, placeVars, serverVars, memoryVars,
                TypeOK, WorkerTypes
  <1> QED BY <1>1, NextCases, CallTyped, OtherEffect, AdministersEffect

LEMMA InitTyped == Init => TypeOK
  <1> SUFFICES ASSUME Init PROVE TypeOK
    OBVIOUS
  <1>1. WorkerTypes(Phases)
    BY InitTypes, PhasesOfWorkers DEF Init
  <1>2. server \in Servers /\ target \in [Resources -> Targets]
    BY GrantAssumption DEF Init
  <1>3. plan \in [Resources -> Plans]
    BY DEF Init, NoPlan, Plans
  <1> QED BY <1>1, <1>2, <1>3 DEF Init, TypeOK

(* What a grant observes, plans and leaves in the server is what the types *)
(* say, for every server, set of privileges and placement of grants.       *)
THEOREM GrantTypeCorrect == Spec => []TypeOK
  BY InitTyped, TypesStep, PTL DEF Spec

(***************************************************************************)
(* Somebody answers for what is held.                                      *)
(***************************************************************************)

(* Nothing is changed for a resource without a finalizer.                  *)
Claims ==
    \A r \in Resources :
        work[r].pc \in {"mark", "create", "update", "revoke", "grant"}
        => mr[r].finalizer

(* ... and a grant about to be released is not the one that answers.       *)
Answers(t, r) == target[r] = t /\ mr[r].finalizer /\ ~At(r, "release")
Answered == ~foreign => \A t \in Targets : held[t] # {} => \E r \in Resources : Answers(t, r)

LEMMA ClaimsStep == TypeOK /\ Claims /\ [Next]_vars => Claims'
  <1> SUFFICES ASSUME TypeOK, Claims, [Next]_vars PROVE Claims'
    OBVIOUS
  <1>1. CASE UNCHANGED vars
    BY <1>1 DEF vars, workerVars, apiVars, Claims
  <1>2. ASSUME NEW r \in Resources, Call(r)
        PROVE  Claims'
    <2>1. /\ mr' = mr /\ Elsewhere(r) /\ ~At(r, "mark")' /\ ~At(r, "create")'
          /\ ~At(r, "update")'
      BY <1>2, CallEffect
    <2>2. CASE UpdateSteps(r)
      BY <2>1, <2>2 DEF UpdateSteps, Update, Revoke, Grant, At, Claims, Elsewhere
    <2>3. CASE ~UpdateSteps(r)
      <3>1. work'[r].pc \notin {"revoke", "grant"}
        <4>0. work \in Workers(Phases)
          BY TypesOfParts DEF TypeOK
        <4>p. {"created", "createFailed"} \subseteq Phases
          BY DEF Phases, WorkerPhases
        <4>1. CASE Observe(r)
          <5>1. Observed(r, Listed(r) # {}, Difference(work[r].spec, Listed(r)) = NoPlan)
            BY <4>1 DEF Observe
          <5> QED BY <4>0, <5>1, ObservesOne, PhasesOfWorkers
        <4>2. ASSUME NEW phase \in {"created", "createFailed"}, Goes(r, phase)
              PROVE  work'[r].pc \notin {"revoke", "grant"}
          <5>1. work'[r].pc = phase
            BY <4>0, <4>2, <4>p, GoesOne
          <5> QED BY <4>2, <5>1
        <4>3. CASE Ends(r)
          BY <4>0, <4>3, EndsOne, PhasesOfWorkers
        <4>4. CASE Create(r) \/ CreateUnanswered(r)
          BY <4>2, <4>4 DEF Create, CreateUnanswered
        <4>5. CASE Delete(r)
          BY <4>3, <4>5 DEF Delete
        <4> QED BY <1>2, <2>3, <4>1, <4>4, <4>5 DEF Call
      <3> QED BY <2>1, <3>1 DEF Claims, At, Elsewhere
    <2> QED BY <2>2, <2>3
  <1>3. ASSUME \A r \in Resources : Fate(r)
        PROVE  Claims'
    BY <1>3 DEF Fate, Claims, At
  <1>4. CASE Administers
    BY <1>4, AdministersEffect DEF Claims
  <1> QED BY <1>1, <1>2, <1>3, <1>4, NextCases, OtherEffect

LEMMA AnsweredStep == TypeOK /\ Claims /\ Answered /\ [Next]_vars => Answered'
  <1> SUFFICES ASSUME TypeOK, Claims, Answered, [Next]_vars PROVE Answered'
    OBVIOUS
  <1>0. held \in [Targets -> SUBSET Holdable] /\ target \in [Resources -> Targets]
    BY DEF TypeOK, Holdable
  <1>1. CASE UNCHANGED vars
    BY <1>1 DEF vars, workerVars, apiVars, placeVars, serverVars, Answered, Answers, At
  <1>2. ASSUME NEW r \in Resources, Call(r)
        PROVE  Answered'
    <2>1. /\ mr' = mr /\ Elsewhere(r) /\ target' = target /\ foreign' = foreign
          /\ At(r, "release")' => Listed(r) = {}
      BY <1>2, CallEffect DEF placeVars
    <2>2. \A t \in Targets, q \in Resources \ {r} : Answers(t, q) => Answers(t, q)'
      BY <2>1 DEF Answers, At, Elsewhere
    <2>3. /\ \A t \in Targets \ {target[r]} : held'[t] = held[t]
          /\ \/ mr[r].finalizer /\ ~At(r, "release")'
             \/ held'[target[r]] \subseteq held[target[r]]
      <3>1. CASE Observe(r)
        BY <3>1 DEF Observe, serverVars
      <3>2. CASE Create(r) \/ CreateUnanswered(r)
        BY <1>0, <2>1, <3>2, CallEffect, <1>2
           DEF Create, CreateUnanswered, Granted, Claims, At
      <3>3. CASE Update(r) \/ Revoke(r)
        BY <1>0, <3>3 DEF Update, Revoke, Revoked, serverVars
      <3>4. CASE Grant(r)
        BY <1>0, <2>1, <3>4, CallEffect, <1>2 DEF Grant, Granted, Claims, At
      <3>5. CASE Delete(r)
        BY <1>0, <3>5 DEF Delete, Revoked
      <3> QED BY <1>2, <3>1, <3>2, <3>3, <3>4, <3>5 DEF Call, UpdateSteps
    <2>4. held[target[r]] # {} => ~At(r, "release")'
      BY <1>0, <2>1, ShownNames DEF Listed
    <2>5. ASSUME ~foreign, NEW t \in Targets, held'[t] # {}
          PROVE  \E q \in Resources : Answers(t, q)'
      <3>1. CASE t = target[r] /\ mr[r].finalizer /\ ~At(r, "release")'
        BY <2>1, <3>1 DEF Answers
      <3>2. CASE held[t] # {}
        <4>1. PICK q \in Resources : Answers(t, q)
          BY <2>5, <3>2 DEF Answered
        <4> QED BY <2>1, <2>2, <2>4, <3>2, <4>1 DEF Answers
      <3> QED BY <1>0, <2>3, <2>5, <3>1, <3>2
    <2> QED BY <2>1, <2>5 DEF Answered
  <1>3. ASSUME UNCHANGED <<target, held, foreign>>, \A r \in Resources : Fate(r)
        PROVE  Answered'
    <2>1. ASSUME NEW t \in Targets, NEW r \in Resources, Answers(t, r)
          PROVE  Answers(t, r)'
      BY <1>3, <2>1 DEF Answers, Fate, At
    <2> QED BY <1>3, <2>1 DEF Answered
  <1>4. CASE Administers
    <2>1. UNCHANGED <<work, mr, target>>
      BY <1>4, AdministersEffect
    <2>2. \A t \in Targets, r \in Resources : Answers(t, r) => Answers(t, r)'
      BY <2>1 DEF Answers, At
    <2>3. \/ UNCHANGED <<held, foreign>>
          \/ foreign' = TRUE
          \/ foreign' = foreign /\ \A t \in Targets : held'[t] = {}
      BY <1>4, AdministersEffect
    <2> QED BY <2>2, <2>3 DEF Answered
  <1> QED BY <1>1, <1>2, <1>3, <1>4, NextCases, OtherEffect

(* What a user holds on a target answers to a grant that is still there to *)
(* revoke it, however grants share targets, are edited, fail half-way and  *)
(* are deleted, as long as nobody else grants: Observe calls a grant gone  *)
(* only when nothing is held (grant, Observe and Delete).                  *)
THEOREM PrivilegesAreAnswered == Spec => []NoOrphanedPrivilege
  <1> DEFINE IInv == TypeOK /\ Claims /\ Answered
  <1>1. Init => IInv
    <2>1. ASSUME Init
          PROVE  /\ \A r \in Resources : work[r].pc = "idle"
                 /\ \A t \in Targets : held[t] = {}
      BY <2>1, InitTypes, PhasesOfWorkers DEF Init
    <2> QED BY <2>1, InitTyped DEF Claims, Answered
  <1>2. IInv /\ [Next]_vars => IInv'
    BY TypesStep, ClaimsStep, AnsweredStep
  <1>3. IInv => NoOrphanedPrivilege
    BY DEF Answered, Answers, NoOrphanedPrivilege
  <1> QED BY <1>1, <1>2, <1>3, PTL DEF Spec

(***************************************************************************)
(* What an Update delivers.                                                *)
(***************************************************************************)

(* Whatever the user holds, to revoke and grant the difference to what the *)
(* server shows leaves exactly what the specification means.               *)
LEMMA DifferenceDelivers ==
    ASSUME server \in Servers, NEW desired \in SUBSET Names, Canonical(desired),
           NEW h \in SUBSET Holdable
    PROVE  LET p == Difference(desired, Shown(h))
           IN  (h \ Meaning(p.revoke)) \cup Meaning(p.grant) = Meaning(desired)
  <1> DEFINE rev == Shown(h) \ desired
             new == desired \ Shown(h)
  <1>0. /\ All \notin Privileges /\ Option \notin Privileges /\ All # Option
        /\ Shown(Meaning(desired)) = desired
        /\ All \notin h /\ h \subseteq Privileges \cup {Option}
    BY GrantAssumption DEF All, Option, Canonical, Holdable
  <1>1. SUFFICES (h \ Meaning(rev)) \cup Meaning(new) = Meaning(desired)
    BY DEF Difference
  <1>2. CASE All \in desired
    <2>1. /\ server = "mysql"
          /\ desired \subseteq {All, Option}
      BY <1>0, <1>2 DEF Shown, Meaning, Names
    <2>2. Shown(h) = IF Privileges \subseteq h THEN {All} \cup (h \ Privileges) ELSE h
      BY <2>1 DEF Shown
    <2>3. Meaning(desired) = Privileges \cup (desired \cap {Option})
      BY <1>0, <1>2, <2>1 DEF Meaning
    <2>4. CASE Privileges \subseteq h
      BY <1>0, <1>2, <2>1, <2>2, <2>3, <2>4 DEF Meaning
    <2>5. CASE ~(Privileges \subseteq h)
      BY <1>0, <1>2, <2>1, <2>2, <2>3, <2>5 DEF Meaning
    <2> QED BY <2>4, <2>5
  <1>3. CASE All \notin desired
    <2>1. Meaning(desired) = desired /\ Meaning(new) = new
      BY <1>3 DEF Meaning
    <2>2. CASE server = "mysql" /\ Privileges \subseteq h
      <3>1. Shown(h) = {All} \cup (h \ Privileges) /\ All \in rev
        BY <1>3, <2>2 DEF Shown
      <3>2. Meaning(rev) = ((h \ Privileges) \ desired) \cup Privileges
        BY <1>0, <3>1 DEF Meaning
      <3> QED BY <1>0, <1>3, <2>1, <3>1, <3>2 DEF Names
    <2>3. CASE ~(server = "mysql" /\ Privileges \subseteq h)
      <3>1. Shown(h) = h
        BY <2>3 DEF Shown
      <3>2. Meaning(rev) = rev
        BY <1>0, <3>1 DEF Meaning
      <3> QED BY <2>1, <3>1, <3>2
    <2> QED BY <2>2, <2>3
  <1> QED BY <1>2, <1>3

(* The listing an Update starts from, and what its statements still have   *)
(* to do, lead to what the specification means, or to less of it when the  *)
(* user has lost everything meanwhile.                                     *)
Near(h, wanted) == h \subseteq wanted /\ (faults = 0 => h = wanted)

Noted(r) ==
    /\ At(r, "update") => work[r].exists /\ ~work[r].upToDate
    /\ /\ work[r].pc \in {"claim", "update"} /\ work[r].exists /\ ~work[r].upToDate
       /\ server = "mysql"
       => \E h \in SUBSET Holdable : seen[r] = Shown(h) /\ Near(held[target[r]], h)
Left(r) == (held[target[r]] \ Meaning(plan[r].revoke)) \cup Meaning(plan[r].grant)
Underway(r) ==
    /\ work[r].pc \in {"revoke", "grant"} /\ Canonical(work[r].spec)
          => Near(Left(r), Meaning(work[r].spec))
    /\ At(r, "grant") => plan[r].revoke = {}

OnCourse(r) == Apart(r) /\ ~foreign => Noted(r) /\ Underway(r)
AllOnCourse == \A r \in Resources : OnCourse(r)

LEMMA MeaningOfNothing == Meaning({}) = {}
  BY DEF Meaning

(* Where nothing happens to a worker and what it knows, and the user loses *)
(* privileges at most, and those to a failure.                             *)
LEMMA OnCourseKept ==
    ASSUME NEW r \in Resources, OnCourse(r), UNCHANGED <<server, target>>,
           foreign => foreign', faults' = 0 => faults = 0,
           held'[target[r]] \subseteq held[target[r]],
           faults' = 0 => held'[target[r]] = held[target[r]],
           \/ work'[r].pc \notin {"claim", "update", "revoke", "grant"}
           \/ /\ UNCHANGED <<work[r].pc, work[r].spec, work[r].exists, work[r].upToDate>>
              /\ seen'[r] = seen[r] /\ plan'[r] = plan[r]
    PROVE  OnCourse(r)'
  <1> SUFFICES ASSUME Apart(r), ~foreign, Noted(r), Underway(r)
               PROVE  (Noted(r) /\ Underway(r))'
    BY DEF OnCourse, Apart
  <1>1. CASE work'[r].pc \notin {"claim", "update", "revoke", "grant"}
    BY <1>1 DEF Noted, Underway, At
  <1>2. CASE /\ UNCHANGED <<work[r].pc, work[r].spec, work[r].exists, work[r].upToDate>>
             /\ seen'[r] = seen[r] /\ plan'[r] = plan[r]
    <2>1. \A x : Meaning(x)' = Meaning(x) /\ Shown(x)' = Shown(x)
      BY DEF Meaning, Shown
    <2>2. Noted(r)'
      BY <1>2, <2>1 DEF Noted, Near, At
    <2>3. Left(r)' \subseteq Left(r) /\ (faults' = 0 => Left(r)' = Left(r))
      BY <1>2, <2>1 DEF Left
    <2>4. /\ Canonical(work[r].spec)' = Canonical(work[r].spec)
          /\ Meaning(work[r].spec)' = Meaning(work[r].spec)
      BY <1>2, <2>1 DEF Canonical
    <2>5. Underway(r)'
      BY <1>2, <2>3, <2>4 DEF Underway, Near, At
    <2> QED BY <2>2, <2>5
  <1> QED BY <1>1, <1>2

(* The two statements bring what is held closer to what is wanted.         *)
LEMMA StatementDelivers ==
    ASSUME TypeOK, NEW r \in Resources, Underway(r), Revoke(r) \/ Grant(r)
    PROVE  /\ Canonical(work[r].spec) =>
                 /\ work'[r].pc = "grant" =>
                       Near(held'[target[r]] \cup Meaning(plan'[r].grant),
                            Meaning(work[r].spec))
                 /\ work'[r].pc = "publish" =>
                       Near(held'[target[r]], Meaning(work[r].spec))
           /\ work'[r].pc = "grant" => plan'[r].revoke = {} /\ work'[r].spec = work[r].spec
           /\ work'[r].pc \in {"idle", "grant", "publish"} /\ faults' = faults
  <1>0. /\ work \in Workers(Phases) /\ plan \in [Resources -> Plans] /\ plan[r] \in Plans
        /\ held \in [Targets -> SUBSET Holdable] /\ target[r] \in Targets
        /\ {"grant", "publish"} \subseteq Phases
    BY TypesOfParts DEF TypeOK, Holdable, Phases, WorkerPhases
  <1>e. Ends(r) => work'[r].pc = "idle"
    BY <1>0, EndsOne, PhasesOfWorkers
  <1>g. ASSUME NEW phase \in {"grant", "publish"}, Goes(r, phase)
        PROVE  work'[r].pc = phase /\ work'[r].spec = work[r].spec
    <2>1. work'[r] = [work[r] EXCEPT !.pc = phase]
      BY <1>0, <1>g, GoesOne
    <2> QED BY <1>0, <2>1 DEF Workers, Copies
  <1>n. Canonical(work[r].spec) => Near(Left(r), Meaning(work[r].spec))
    BY DEF Underway, Revoke, Grant, At
  <1>1. CASE Revoke(r)
    <2>1. faults' = faults
      BY <1>1 DEF Revoke, boundVars
    <2>2. CASE ~RevokeAccepted(plan[r].revoke, target[r])
      BY <1>1, <1>e, <2>1, <2>2 DEF Revoke
    <2>3. CASE RevokeAccepted(plan[r].revoke, target[r])
      <3> DEFINE p == [plan[r] EXCEPT !.revoke = {}]
      <3>1. p.revoke = {} /\ p.grant = plan[r].grant
        BY <1>0 DEF Plans
      <3>2. /\ held' = [held EXCEPT ![target[r]] = @ \ Meaning(plan[r].revoke)]
            /\ plan' = [plan EXCEPT ![r] = p] /\ Goes(r, NextStatement(p))
        BY <1>0, <1>1, <2>3 DEF Revoke, Revoked
      <3>3. /\ held'[target[r]] = held[target[r]] \ Meaning(plan[r].revoke)
            /\ plan'[r] = p
        BY <1>0, <3>2
      <3>4. NextStatement(p) = IF plan[r].grant # {} THEN "grant" ELSE "publish"
        BY <3>1 DEF NextStatement
      <3> HIDE DEF p
      <3>5. held'[target[r]] \cup Meaning(plan'[r].grant) = Left(r)
        BY <3>1, <3>3 DEF Left
      <3>6. plan[r].grant = {} => held'[target[r]] = Left(r)
        BY <3>1, <3>3, <3>5, MeaningOfNothing
      <3>7. /\ work'[r].pc = NextStatement(p) /\ work'[r].spec = work[r].spec
            /\ NextStatement(p) \in {"grant", "publish"}
        BY <1>g, <3>2, <3>4
      <3> QED BY <1>n, <2>1, <3>1, <3>3, <3>4, <3>5, <3>6, <3>7
    <2> QED BY <2>2, <2>3
  <1>2. CASE Grant(r)
    <2>1. faults' = faults
      BY <1>2 DEF Grant, boundVars
    <2>2. CASE ~GrantAccepted(plan[r].grant)
      BY <1>2, <1>e, <2>1, <2>2 DEF Grant
    <2>3. CASE GrantAccepted(plan[r].grant)
      <3>1. /\ held' = [held EXCEPT ![target[r]] = @ \cup Meaning(plan[r].grant)]
            /\ Goes(r, "publish") /\ plan[r].revoke = {}
        BY <1>2, <2>3 DEF Grant, Granted, Underway
      <3>2. held'[target[r]] = Left(r)
        BY <1>0, <3>1, MeaningOfNothing DEF Left
      <3>3. work'[r].pc = "publish"
        BY <1>g, <3>1
      <3> QED BY <1>n, <2>1, <3>2, <3>3
    <2> QED BY <2>2, <2>3
  <1> QED BY <1>1, <1>2

(* Observe, or the listing of MSSQL, is where an Update starts.            *)
LEMMA UpdateStarts ==
    ASSUME TypeOK, NEW r \in Resources, Noted(r), Update(r)
    PROVE  /\ Canonical(work[r].spec)
                 => Near((held[target[r]] \ Meaning(plan'[r].revoke))
                            \cup Meaning(plan'[r].grant), Meaning(work[r].spec))
           /\ work'[r].pc = "grant" => plan'[r].revoke = {}
           /\ work'[r].pc \in {"revoke", "grant", "publish"}
           /\ work'[r].spec = work[r].spec /\ UNCHANGED <<held, faults>>
  <1> DEFINE observed == IF server = "mysql" THEN seen[r] ELSE Listed(r)
             p == Difference(work[r].spec, observed)
  <1>0. /\ work \in Workers(Phases) /\ plan \in [Resources -> Plans]
        /\ held \in [Targets -> SUBSET Holdable] /\ held[target[r]] \in SUBSET Holdable
        /\ server \in Servers /\ work[r].spec \in SUBSET Names
        /\ {"revoke", "grant", "publish"} \subseteq Phases
    BY TypesOfParts, GrantAssumption
       DEF TypeOK, WorkerTypes, Holdable, Phases, WorkerPhases
  <1>1. plan' = [plan EXCEPT ![r] = p] /\ Goes(r, NextStatement(p)) /\ At(r, "update")
        /\ UNCHANGED <<held, faults>>
    BY DEF Update, serverVars, boundVars
  <1>2. \E h \in SUBSET Holdable : observed = Shown(h) /\ Near(held[target[r]], h)
    <2>1. CASE server = "mysql"
      BY <1>1, <2>1 DEF Noted, At
    <2>2. CASE server # "mysql"
      BY <1>0, <2>2 DEF Listed, Near
    <2> QED BY <2>1, <2>2
  <1>3. PICK h \in SUBSET Holdable : observed = Shown(h) /\ Near(held[target[r]], h)
    BY <1>2
  <1>4. plan'[r] = p
    BY <1>0, <1>1
  <1>5. NextStatement(p) \in {"revoke", "grant", "publish"}
        /\ (NextStatement(p) = "grant" => p.revoke = {})
    BY DEF NextStatement
  <1>6. work'[r].pc = NextStatement(p) /\ work'[r].spec = work[r].spec
    <2>1. work'[r] = [work[r] EXCEPT !.pc = NextStatement(p)]
      BY <1>0, <1>1, <1>5, GoesOne
    <2> QED BY <1>0, <1>5, <2>1 DEF Workers, Copies
  <1>7. Canonical(work[r].spec)
           => (h \ Meaning(p.revoke)) \cup Meaning(p.grant) = Meaning(work[r].spec)
    BY <1>0, <1>3, DifferenceDelivers
  <1> HIDE DEF p, observed
  <1>8. Canonical(work[r].spec)
           => Near((held[target[r]] \ Meaning(p.revoke)) \cup Meaning(p.grant),
                   Meaning(work[r].spec))
    BY <1>3, <1>7 DEF Near
  <1> QED BY <1>1, <1>4, <1>5, <1>6, <1>8

LEMMA OnCourseCall ==
    ASSUME TypeOK, NEW q \in Resources, OnCourse(q), NEW r \in Resources, Call(r)
    PROVE  OnCourse(q)'
  <1>0. /\ work \in Workers(Phases) /\ UNCHANGED <<server, target, foreign>> /\ Elsewhere(r)
        /\ held \in [Targets -> SUBSET Holdable] /\ target \in [Resources -> Targets]
        /\ seen \in [Resources -> SUBSET Names] /\ plan \in [Resources -> Plans]
        /\ faults \in Nat
    BY TypesOfParts, CallEffect DEF TypeOK, placeVars, Holdable
  <1> SUFFICES ASSUME Apart(q), ~foreign
               PROVE  OnCourse(q)'
    BY <1>0 DEF OnCourse, Apart
  <1>f. faults' = faults \/ faults' = faults + 1
    BY DEF Call, Observe, Create, CreateUnanswered, UpdateSteps, Update, Revoke, Grant, Delete,
           UseCredit, boundVars
  <1>1. CASE q # r
    <2>1. held'[target[q]] = held[target[q]]
      <3>1. target[q] # target[r]
        BY <1>1 DEF Apart
      <3>2. \/ held' = held
            \/ \E x : held' = [held EXCEPT ![target[r]] = x]
        BY DEF Call, Observe, Create, CreateUnanswered, UpdateSteps, Update, Revoke, Grant,
               Delete, Granted, Revoked, serverVars
      <3> QED BY <1>0, <3>1, <3>2
    <2>2. seen'[q] = seen[q] /\ plan'[q] = plan[q]
      BY <1>0, <1>1 DEF Call, Observe, Notes, Create, CreateUnanswered, UpdateSteps, Update,
         Revoke, Grant, Delete, memoryVars
    <2> QED BY <1>0, <1>1, <1>f, <2>1, <2>2, OnCourseKept DEF Elsewhere
  <1>2. CASE q = r
    <2>0. Noted(r) /\ Underway(r) /\ Apart(r)
      BY <1>2 DEF OnCourse
    <2>m. \A x : Meaning(x)' = Meaning(x) /\ Shown(x)' = Shown(x) /\ Canonical(x)' = Canonical(x)
      BY <1>0 DEF Meaning, Shown, Canonical
    <2>1. CASE Observe(r)
      <3>1. Observed(r, Listed(r) # {}, Difference(work[r].spec, Listed(r)) = NoPlan)
        BY <2>1 DEF Observe
      <3>2. /\ work'[r].pc = AfterObserve(work[r].deleting, Listed(r) # {})
            /\ work'[r].pc \in {"delete", "release", "claim"}
            /\ work'[r].upToDate = (Difference(work[r].spec, Listed(r)) = NoPlan)
        BY <1>0, <3>1, ObservesOne, PhasesOfWorkers
      <3>3. ASSUME At(r, "claim")', ~work'[r].upToDate, server = "mysql"
            PROVE  seen'[r] = Shown(held[target[r]])
        <4>1. ~work[r].deleting
          BY <1>0, <3>2, <3>3 DEF AfterObserve, At, Workers, Copies
        <4>2. Listed(r) # work[r].spec
          BY <3>2, <3>3 DEF Difference, NoPlan
        <4> QED BY <1>0, <2>1, <3>3, <4>1, <4>2 DEF Observe, Notes, Listed
      <3>4. held' = held /\ held[target[r]] \in SUBSET Holdable
        BY <1>0, <2>1 DEF Observe, serverVars
      <3>5. Noted(r)'
        BY <1>0, <2>m, <3>2, <3>3, <3>4 DEF Noted, Near, At
      <3>6. Underway(r)'
        BY <3>2 DEF Underway, At
      <3> QED BY <1>2, <3>5, <3>6 DEF OnCourse
    <2>2. CASE Update(r)
      <3>1. Underway(r)'
        <4>1. /\ Canonical(work[r].spec)
                    => Near((held[target[r]] \ Meaning(plan'[r].revoke))
                               \cup Meaning(plan'[r].grant), Meaning(work[r].spec))
              /\ work'[r].pc = "grant" => plan'[r].revoke = {}
              /\ work'[r].spec = work[r].spec /\ UNCHANGED <<held, faults>>
          BY <2>0, <2>2, UpdateStarts
        <4>2. Left(r)' = (held[target[r]] \ Meaning(plan'[r].revoke))
                            \cup Meaning(plan'[r].grant)
          BY <1>0, <2>m, <4>1 DEF Left
        <4>3. Near(Left(r), Meaning(work[r].spec))'
                = Near((held[target[r]] \ Meaning(plan'[r].revoke))
                          \cup Meaning(plan'[r].grant), Meaning(work[r].spec))
          BY <2>m, <4>1, <4>2 DEF Near
        <4>4. Canonical(work[r].spec)' = Canonical(work[r].spec)
          BY <2>m, <4>1
        <4> QED BY <4>1, <4>3, <4>4 DEF Underway, At
      <3>2. Noted(r)'
        BY <2>0, <2>2, UpdateStarts DEF Noted, At
      <3> QED BY <1>2, <3>1, <3>2 DEF OnCourse
    <2>3. CASE Revoke(r) \/ Grant(r)
      <3>1. Noted(r)'
        BY <2>0, <2>3, StatementDelivers DEF Noted, At
      <3>2. ASSUME At(r, "grant")', Canonical(work[r].spec)'
            PROVE  Near(Left(r), Meaning(work[r].spec))'
        <4>1. /\ Near(held'[target[r]] \cup Meaning(plan'[r].grant), Meaning(work[r].spec))
              /\ plan'[r].revoke = {} /\ work'[r].spec = work[r].spec /\ faults' = faults
          BY <2>0, <2>3, <2>m, <3>2, StatementDelivers DEF At
        <4>2. Left(r)' = held'[target[r]] \cup Meaning(plan'[r].grant)
          BY <1>0, <2>m, <4>1, MeaningOfNothing DEF Left
        <4> QED BY <2>m, <4>1, <4>2 DEF Near
      <3>3. Underway(r)'
        BY <2>0, <2>3, <3>2, StatementDelivers DEF Underway, At
      <3> QED BY <1>2, <3>1, <3>3 DEF OnCourse
    <2>4. CASE Create(r) \/ CreateUnanswered(r) \/ Delete(r)
      <3>1. Ends(r) \/ \E phase \in {"created", "createFailed"} : Goes(r, phase)
        BY <2>4 DEF Create, CreateUnanswered, Delete
      <3>2. {"created", "createFailed"} \subseteq Phases
        BY DEF Phases, WorkerPhases
      <3>3. work'[r].pc \in {"idle", "created", "createFailed"}
        BY <1>0, <3>1, <3>2, EndsOne, GoesOne, PhasesOfWorkers
      <3> QED BY <1>2, <3>3 DEF OnCourse, Noted, Underway, At
    <2> QED BY <2>1, <2>2, <2>3, <2>4 DEF Call, UpdateSteps
  <1> QED BY <1>1, <1>2

LEMMA OnCourseOther ==
    ASSUME TypeOK, NEW q \in Resources, OnCourse(q),
           (\E r \in Resources : Steps(r) \/ Orders(r)) \/ Breaks \/ Administers
    PROVE  OnCourse(q)'
  <1>0. WorkerTypes(Phases) /\ work \in Workers(Phases) /\ faults \in Nat
    BY TypesOfParts DEF TypeOK
  <1>k. ASSUME UNCHANGED <<server, target, held>>, foreign => foreign',
               faults' = 0 => faults = 0,
               \/ work'[q].pc \notin {"claim", "update", "revoke", "grant"}
               \/ /\ UNCHANGED <<work[q].pc, work[q].spec, work[q].exists, work[q].upToDate>>
                  /\ seen'[q] = seen[q] /\ plan'[q] = plan[q]
        PROVE  OnCourse(q)'
    BY <1>k, OnCourseKept
  <1> USE DEF placeVars, serverVars, memoryVars
  <1>1. ASSUME NEW r \in Resources, Steps(r)
        PROVE  OnCourse(q)'
    <2>1. /\ UNCHANGED <<server, target, held, seen, plan, foreign, faults>>
          /\ Elsewhere(r) /\ Moved(r)
      BY <1>0, <1>1, WorkerStepEffect, PhasesOfWorkers DEF Steps, WorkerSteps, Settled, Begin,
         Claim, MarkPending, RecordFailure, RecordSuccess, Release, Conflict, boundVars
    <2>2. CASE q # r
      BY <1>k, <2>1, <2>2 DEF Elsewhere
    <2>3. CASE q = r /\ work'[r].pc # "update"
      BY <1>k, <2>1, <2>3 DEF Moved
    <2>4. CASE q = r /\ work'[r].pc = "update"
      <3>1. /\ At(r, "claim") /\ work[r].exists /\ ~work[r].upToDate
            /\ work'[r] = [work[r] EXCEPT !.pc = work'[r].pc]
        BY <2>1, <2>4, IdleCopy, PhasesOfWorkers DEF Moved, At
      <3>2. work'[r].exists = work[r].exists /\ work'[r].upToDate = work[r].upToDate
        BY <1>0, <3>1 DEF Workers, Copies
      <3>3. Apart(r) /\ ~foreign => Noted(r)'
        <4>1. \A x : Shown(x)' = Shown(x)
          BY <2>1 DEF Shown
        <4> QED BY <2>1, <2>4, <3>1, <3>2, <4>1 DEF OnCourse, Noted, Near, At
      <3>4. Underway(r)'
        BY <2>4 DEF Underway, At
      <3> QED BY <2>1, <2>4, <3>3, <3>4 DEF OnCourse, Apart
    <2> QED BY <2>2, <2>3, <2>4
  <1>2. ASSUME NEW r \in Resources, Orders(r)
        PROVE  OnCourse(q)'
    <2>1. /\ UNCHANGED <<server, target, held, seen, plan, foreign, faults>>
          /\ UNCHANGED <<work[q].pc, work[q].spec, work[q].exists, work[q].upToDate>>
      BY <1>0, <1>2, UsersEffect, PhasesOfWorkers DEF Orders
    <2> QED BY <1>k, <2>1
  <1>3. CASE Breaks
    <2>1. /\ UNCHANGED <<server, target, held, foreign>>
          /\ work'[q].pc # "idle" => plan'[q] = plan[q] /\ seen'[q] = seen[q]
      BY <1>3 DEF Breaks, At
    <2>2. faults' = 0 => faults = 0
      BY <1>0, <1>3 DEF Breaks, Crash, CallFails, UseCredit
    <2>3. work'[q] = work[q] \/ work'[q].pc \in {"idle", "createFailed"}
      <3>1. CASE Crash
        BY <1>0, <3>1, CrashEffect, PhasesOfWorkers
      <3>2. ASSUME NEW r \in Resources, CallFails(r, {"create"})
            PROVE  work'[q] = work[q] \/ work'[q].pc \in {"idle", "createFailed"}
        BY <1>0, <3>2, CallFailsEffect, PhasesOfWorkers DEF Elsewhere
      <3> QED BY <1>3, <3>1, <3>2 DEF Breaks
    <2> QED BY <1>k, <2>1, <2>2, <2>3
  <1>4. CASE Administers
    <2>1. UNCHANGED <<work, server, target, seen, plan>>
      BY <1>4, AdministersEffect
    <2>2. CASE UNCHANGED <<held, foreign, faults>>
      BY <1>k, <2>1, <2>2
    <2>3. CASE foreign' = TRUE
      BY <2>3 DEF OnCourse
    <2>4. CASE /\ foreign' = foreign /\ faults' # 0
               /\ \A t \in Targets : held'[t] = {}
      <3>1. held'[target[q]] = {}
        BY <2>4 DEF TypeOK
      <3> QED BY <2>1, <2>4, <3>1, OnCourseKept
    <2> QED BY <1>4, <2>2, <2>3, <2>4, AdministersEffect
  <1> QED BY <1>1, <1>2, <1>3, <1>4

LEMMA OnCourseStep == TypeOK /\ AllOnCourse /\ [Next]_vars => AllOnCourse'
  <1> SUFFICES ASSUME TypeOK, AllOnCourse, [Next]_vars, NEW q \in Resources
               PROVE  OnCourse(q)'
    BY DEF AllOnCourse
  <1>0. OnCourse(q)
    BY DEF AllOnCourse
  <1>1. CASE UNCHANGED vars
    <2>1. UNCHANGED <<server, target, held, foreign, faults, work, seen, plan>>
      BY <1>1 DEF vars, workerVars, boundVars, placeVars, serverVars, memoryVars
    <2> QED BY <1>0, <2>1, OnCourseKept
  <1> QED BY <1>0, <1>1, NextCases, OnCourseCall, OnCourseOther

(* Only an Update that has run to its end reports its success.             *)
LEMMA PublishedByStatement ==
    ASSUME TypeOK, [Next]_vars, NEW r \in Resources,
           work[r].pc \in {"revoke", "grant"}, work'[r].pc = "publish"
    PROVE  Revoke(r) \/ Grant(r)
  <1>0. WorkerTypes(Phases)
    BY DEF TypeOK
  <1>1. ~UNCHANGED vars
    BY DEF vars, workerVars
  <1>2. ASSUME NEW q \in Resources, Call(q)
        PROVE  Revoke(r) \/ Grant(r)
    <2>1. q = r
      BY <1>2, CallEffect DEF Elsewhere
    <2> QED BY <1>2, <2>1 DEF Call, Observe, Create, CreateUnanswered, UpdateSteps, Update,
               Delete, At
  <1>3. ASSUME NEW q \in Resources, Steps(q)
        PROVE  FALSE
    <2>1. Elsewhere(q) /\ Moved(q)
      BY <1>0, <1>3, WorkerStepEffect, PhasesOfWorkers DEF Steps
    <2>2. q = r
      BY <2>1 DEF Elsewhere
    <2> QED BY <2>1, <2>2 DEF Moved
  <1>4. ASSUME NEW q \in Resources, Orders(q)
        PROVE  FALSE
    BY <1>0, <1>4, UsersEffect, PhasesOfWorkers DEF Orders
  <1>5. ~Breaks
    <2>1. ~Crash
      BY <1>0, CrashEffect, PhasesOfWorkers
    <2>2. ASSUME NEW q \in Resources, CallFails(q, {"create"})
          PROVE  FALSE
      BY <1>0, <2>2, CallFailsEffect, PhasesOfWorkers DEF Elsewhere
    <2> QED BY <2>1, <2>2 DEF Breaks
  <1>6. ~Administers
    BY AdministersEffect
  <1> QED BY <1>1, <1>2, <1>3, <1>4, <1>5, <1>6, NextCases

(* An Update that reports success leaves the user no more than what the    *)
(* specification means, and when nothing failed in between exactly that,   *)
(* whatever was held, however it is shown, and from whichever reconcile    *)
(* the note in the status is; that is for a grant with a target of its own *)
(* (Observe, Update and diffPermissions).                                  *)
THEOREM UpdateDeliversWanted == Spec => UpdateDelivers
  <1> DEFINE IInv == TypeOK /\ AllOnCourse
  <1>1. Init => IInv
    <2>1. ASSUME Init
          PROVE  \A r \in Resources : work[r].pc = "idle"
      BY <2>1, InitTypes, PhasesOfWorkers DEF Init
    <2> QED BY <2>1, InitTyped DEF AllOnCourse, OnCourse, Noted, Underway, At
  <1>2. IInv /\ [Next]_vars => IInv'
    BY TypesStep, OnCourseStep
  <1>3. IInv /\ [Next]_vars
        => [\A r \in Resources :
              /\ work[r].pc \in {"revoke", "grant"} /\ work'[r].pc = "publish"
              /\ Apart(r) /\ ~foreign /\ Canonical(work[r].spec)
              => /\ held'[target[r]] \subseteq Meaning(work[r].spec)
                 /\ faults = 0 => held'[target[r]] = Meaning(work[r].spec)]_vars
    <2> SUFFICES ASSUME IInv, [Next]_vars, NEW r \in Resources,
                        work[r].pc \in {"revoke", "grant"}, work'[r].pc = "publish",
                        Apart(r), ~foreign, Canonical(work[r].spec)
                 PROVE  /\ held'[target[r]] \subseteq Meaning(work[r].spec)
                        /\ faults = 0 => held'[target[r]] = Meaning(work[r].spec)
      OBVIOUS
    <2>1. Underway(r) /\ (Revoke(r) \/ Grant(r))
      BY PublishedByStatement DEF AllOnCourse, OnCourse
    <2> QED BY <2>1, StatementDelivers DEF Near
  <1> QED BY <1>1, <1>2, <1>3, PTL DEF Spec, UpdateDelivers
=============================================================================
