---------------------------- MODULE ProviderProofs ----------------------------
(***************************************************************************)
(* Theorems about Provider, for every set of processes, resources and      *)
(* configurations, for every deployment, and for every bound on edits,     *)
(* rotations and faults.                                                   *)
(***************************************************************************)
EXTENDS Provider, TLAPS

(***************************************************************************)
(* What a step does to the workers.                                        *)
(***************************************************************************)
Worked == [pc : Phases, ca : 0..MaxVersion, cert : 0..MaxVersion,
           key : 0..MaxVersion]
Workers == [Processes -> [Resources -> Worked]]

(* Every other worker is where it was.                                     *)
Others(p, r) ==
    \A q \in Processes, s \in Resources :
        q # p \/ s # r => work'[q][s] = work[q][s]

(* A worker at rest, and one that has its connection.                      *)
LEMMA IdleWorked ==
    /\ Idle \in Worked /\ Idle.pc = "idle"
    /\ [Idle EXCEPT !.pc = "connected"] \in Worked
    /\ [Idle EXCEPT !.pc = "connected"].pc = "connected"
  BY ProviderAssumption DEF Idle, Worked, Phases

(* What a worker has read is a copy of its material.                      *)
LEMMA ReadWorked ==
    ASSUME NEW w \in Worked, NEW v \in 1..MaxVersion
    PROVE  /\ [w EXCEPT !.pc = "cert", !.ca = v] \in Worked
           /\ [w EXCEPT !.pc = "key", !.cert = v] \in Worked
           /\ [w EXCEPT !.pc = "register", !.key = v] \in Worked
  <1>1. v \in 0..MaxVersion
    BY ProviderAssumption
  <1>2. {"cert", "key", "register"} \subseteq Phases
    BY DEF Phases
  <1> HIDE DEF Phases
  <1> QED BY <1>1, <1>2 DEF Worked

(* One worker gets a new record.                                           *)
LEMMA SetEffect ==
    ASSUME work \in Workers, NEW p \in Processes, NEW r \in Resources,
           NEW w \in Worked, work' = [work EXCEPT ![p][r] = w]
    PROVE  work' \in Workers /\ work'[p][r] = w /\ Others(p, r)
  BY DEF Workers, Others

(* One worker goes to a phase, or to rest.                                 *)
LEMMA GoesEffect ==
    ASSUME work \in Workers, NEW p \in Processes, NEW r \in Resources,
           NEW phase \in Phases, Goes(p, r, phase)
    PROVE  /\ work' \in Workers /\ Others(p, r)
           /\ work'[p][r] = [work[p][r] EXCEPT !.pc = phase]
           /\ work'[p][r].pc = phase
  <1>1. work[p][r] \in Worked
    BY DEF Workers
  <1>2. /\ [work[p][r] EXCEPT !.pc = phase] \in Worked
        /\ [work[p][r] EXCEPT !.pc = phase].pc = phase
    BY <1>1 DEF Worked
  <1>3. work' = [work EXCEPT ![p][r] = [work[p][r] EXCEPT !.pc = phase]]
    BY DEF Goes, Workers
  <1> QED BY <1>2, <1>3, SetEffect

LEMMA EndsEffect ==
    ASSUME work \in Workers, NEW p \in Processes, NEW r \in Resources, Ends(p, r)
    PROVE  work' \in Workers /\ work'[p][r] = Idle /\ Others(p, r)
  BY IdleWorked, SetEffect DEF Ends

(***************************************************************************)
(* The invariant.                                                          *)
(***************************************************************************)
Custom(c) == FlavourOf[c] \in WithTLS /\ deployment.tls[c] = "custom"

(* What the phase of a worker says about it.                               *)
ReadsInOrder(p, r) ==
    /\ work[p][r].pc \in {"cert", "key", "register"} => work[p][r].ca # 0
    /\ work[p][r].pc \in {"key", "register"} => work[p][r].cert # 0
    /\ work[p][r].pc \in {"ca", "cert", "key", "register"} => Custom(Uses(r))

OwnRegistration(p, r) ==
    work[p][r].pc = "connected" /\ ~Clash(Uses(r)) /\ Custom(Uses(r))
    => /\ registry[p][Key(Uses(r))] # None
       /\ registry[p][Key(Uses(r))].config = Uses(r)

(* A worker that goes on has recorded its use.                             *)
Tracked(p, r) ==
    mr[r] # "gone" /\ work[p][r].pc \notin {"idle", "track"} => r \in used

Reads == \A p \in Processes, r \in Resources : ReadsInOrder(p, r)
OwnRegistrations == \A p \in Processes, r \in Resources : OwnRegistration(p, r)
AllTracked == \A p \in Processes, r \in Resources : Tracked(p, r)

(* A resource that was given a configuration which had its finalizer and   *)
(* was not deleted keeps it by its use: no process has counted the uses of *)
(* this configuration and found none.                                      *)
Kept(r) ==
    /\ r \in used
    /\ config[Uses(r)] \notin {"new", "gone"}
    /\ \A p \in Processes : Uses(r) \notin counted[p]

ServedKept == \A r \in served : mr[r] # "gone" => Kept(r)

(* What exists has its resource, and what is counted is deleted.           *)
ObjectsOwned == \A r \in object : mr[r] # "gone"
CountedDeleted ==
    \A p \in Processes, c \in Configs :
        c \in counted[p] => config[c] \in {"deleting", "gone"}

(***************************************************************************)
(* Types.                                                                  *)
(***************************************************************************)
Typed == TypeOK /\ deployment \in Deployment /\ work \in Workers

LEMMA TypedIsTypeOK == TypeOK => Typed
  BY ProviderAssumption DEF Typed, TypeOK, Workers, Worked

(* The first worker step of a reconcile to the last: what is typed stays   *)
(* typed, and only one worker moves.                                       *)
LEMMA ReconcileTyped ==
    ASSUME Typed, Reads, NEW p \in Processes, NEW r \in Resources, Reconcile(p, r)
    PROVE  TypeOK' /\ Others(p, r)
  <1> USE DEF Local, apiVars, holdVars
  <1>0. work \in Workers /\ work[p][r] \in Worked /\ Uses(r) \in Configs
    BY DEF Typed, Workers, Uses, Deployment
  <1>w. ASSUME work' \in Workers, Local, registry' = registry, apiVars' = apiVars,
               object' = object
        PROVE  TypeOK'
    BY <1>w DEF Typed, TypeOK, Workers, Worked
  <1>p. {"track", "config", "ca", "cert", "key", "register", "connected"}
          \subseteq Phases
    BY DEF Phases
  <1>g. ASSUME NEW phase \in Phases, Goes(p, r, phase)
        PROVE  work' \in Workers /\ Others(p, r)
    BY <1>0, <1>g, GoesEffect
  <1>e. ASSUME Ends(p, r)
        PROVE  work' \in Workers /\ Others(p, r)
    BY <1>0, <1>e, EndsEffect
  <1>s. ASSUME NEW w \in Worked, work' = [work EXCEPT ![p][r] = w]
        PROVE  work' \in Workers /\ Others(p, r)
    BY <1>0, <1>s, SetEffect
  <1>v. secret[Uses(r)] \in 1..MaxVersion
    BY <1>0 DEF Typed, TypeOK
  <1>1. CASE Begin(p, r)
    BY <1>1, <1>g, <1>p, <1>w DEF Begin
  <1>2. CASE Track(p, r)
    <2>1. work' \in Workers /\ Others(p, r)
      BY <1>2, <1>g, <1>p DEF Track
    <2>2. used' \in SUBSET Resources
      BY <1>2 DEF Track, Typed, TypeOK
    <2> QED BY <1>2, <2>1, <2>2 DEF Track, Typed, TypeOK, Workers, Worked
  <1>3. CASE GetProviderConfig(p, r)
    <2>1. work' \in Workers /\ Others(p, r)
      BY <1>3, <1>g, <1>e, <1>p DEF GetProviderConfig
    <2>2. served' \in SUBSET Resources
      BY <1>3 DEF GetProviderConfig, Typed, TypeOK
    <2> QED BY <1>3, <2>1, <2>2 DEF GetProviderConfig, Typed, TypeOK, Workers, Worked
  <1>4. CASE GetCACert(p, r)
    <2>1. [work[p][r] EXCEPT !.pc = "cert", !.ca = secret[Uses(r)]] \in Worked
      BY <1>0, <1>v, ReadWorked
    <2>2. work' = [work EXCEPT ![p][r] =
                     [work[p][r] EXCEPT !.pc = "cert", !.ca = secret[Uses(r)]]]
      BY <1>0, <1>4 DEF GetCACert, Workers
    <2> QED BY <1>4, <1>s, <1>w, <2>1, <2>2 DEF GetCACert
  <1>5. CASE GetClientCert(p, r)
    <2>1. [work[p][r] EXCEPT !.pc = "key", !.cert = secret[Uses(r)]] \in Worked
      BY <1>0, <1>v, ReadWorked
    <2>2. work' = [work EXCEPT ![p][r] =
                     [work[p][r] EXCEPT !.pc = "key", !.cert = secret[Uses(r)]]]
      BY <1>0, <1>5 DEF GetClientCert, Workers
    <2> QED BY <1>5, <1>s, <1>w, <2>1, <2>2 DEF GetClientCert
  <1>6. CASE GetClientKey(p, r)
    <2>1. [work[p][r] EXCEPT !.pc = "register", !.key = secret[Uses(r)]] \in Worked
      BY <1>0, <1>v, ReadWorked
    <2>2. work' = [work EXCEPT ![p][r] =
                     [work[p][r] EXCEPT !.pc = "register", !.key = secret[Uses(r)]]]
      BY <1>0, <1>6 DEF GetClientKey, Workers
    <2> QED BY <1>6, <1>s, <1>w, <2>1, <2>2 DEF GetClientKey
  <1>7. CASE Register(p, r)
    <2>1. work' \in Workers /\ Others(p, r)
      BY <1>7, <1>e, <1>s, IdleWorked DEF Register, Registered
    <2>a. work[p][r].pc = "register" /\ work[p][r].ca # 0 /\ work[p][r].cert # 0
      BY <1>7 DEF Register, Registered, Works, Reads, ReadsInOrder
    <2>b. /\ work[p][r].ca \in 1..MaxVersion
          /\ work[p][r].cert \in 1..MaxVersion
      BY <1>0, <2>a, ProviderAssumption DEF Worked
    <2>2. Loaded(p, r) \in Material
      BY <1>0, <2>b DEF Loaded, Material
    <2>3. registry' \in [Processes -> [Keys -> Material \cup {None}]]
      <3> DEFINE new == [k \in Keys |-> IF k \in {Key(Uses(r))} THEN Loaded(p, r)
                                        ELSE registry[p][k]]
      <3>1. registry \in [Processes -> [Keys -> Material \cup {None}]]
        BY DEF Typed, TypeOK
      <3>2. new \in [Keys -> Material \cup {None}]
        BY <2>2, <3>1
      <3>3. registry' = registry \/ registry' = [registry EXCEPT ![p] = new]
        BY <1>7 DEF Register, Registered
      <3> QED BY <3>1, <3>2, <3>3
    <2>4. Local /\ UNCHANGED <<apiVars, object>>
      BY <1>7 DEF Register, Registered
    <2> QED BY <2>1, <2>3, <2>4 DEF Typed, TypeOK, Workers, Worked
  <1>8. CASE Query(p, r)
    <2>1. Others(p, r)
      BY <1>8 DEF Query, Others
    <2>2. object' \in SUBSET Resources
      BY <1>8 DEF Query, Typed, TypeOK
    <2> QED BY <1>8, <2>1, <2>2 DEF Query, Typed, TypeOK
  <1>9. CASE Finish(p, r)
    <2>1. work' \in Workers /\ Others(p, r)
      BY <1>9, <1>e DEF Finish
    <2>2. mr' \in [Resources -> States] /\ used' \in SUBSET Resources
      BY <1>9 DEF Finish, Typed, TypeOK, States
    <2> QED BY <1>9, <2>1, <2>2 DEF Finish, Typed, TypeOK, Workers, Worked
  <1> QED BY <1>1, <1>2, <1>3, <1>4, <1>5, <1>6, <1>7, <1>8, <1>9
          DEF Reconcile, Connect

(* The steps that are no worker's.                                         *)
LEMMA OtherTyped ==
    ASSUME Typed,
           \/ \E p \in Processes : StartUp(p) \/ Crash(p)
           \/ \E p \in Processes, r \in Resources : CallFails(p, r)
           \/ \E p \in Processes, c \in Configs : ReconcileConfig(p, c)
           \/ \E c \in Configs : Rotate(c) \/ DeleteConfig(c)
           \/ \E r \in Resources : DeleteResource(r)
    PROVE  TypeOK'
  <1> USE DEF apiVars, holdVars
  <1>0. work \in Workers /\ \A r \in Resources : Uses(r) \in Configs
    BY DEF Typed, Uses, Deployment
  <1>t. TypeOK
    BY DEF Typed
  <1>1. ASSUME NEW p \in Processes, Setup(p)
        PROVE  TypeOK'
    <2> DEFINE next == Cardinality(process[p].controls) + 1
    <2> DEFINE flavour == deployment.flavours[p][next]
    <2>1. \/ process' = [process EXCEPT ![p].pc = "elect"]
          \/ process' = [process EXCEPT ![p].pc = "exited"]
          \/ /\ flavour \in Flavours
             /\ process' = [process EXCEPT ![p].controls = @ \cup {flavour}]
      BY <1>1 DEF Setup, SetsUp
    <2>2. UNCHANGED <<deployment, lease, registry, secret, apiVars, object, work,
                      edits, faults>>
      BY <1>1 DEF Setup, SetsUp
    <2> HIDE DEF flavour
    <2> DEFINE Process == [pc : {"setup", "elect", "running", "exited"},
                           controls : SUBSET Flavours]
    <2>p. process \in [Processes -> Process] /\ process[p] \in Process
      BY <1>t DEF TypeOK
    <2>a. CASE process' = [process EXCEPT ![p].pc = "elect"]
      BY <1>t, <2>2, <2>p, <2>a DEF TypeOK
    <2>b. CASE process' = [process EXCEPT ![p].pc = "exited"]
      BY <1>t, <2>2, <2>p, <2>b DEF TypeOK
    <2>c. CASE /\ flavour \in Flavours
               /\ process' = [process EXCEPT ![p].controls = @ \cup {flavour}]
      <3>1. process[p].controls \cup {flavour} \in SUBSET Flavours
        BY <2>c, <2>p
      <3>2. process' \in [Processes -> Process]
        BY <2>c, <2>p, <3>1
      <3> QED BY <1>t, <2>2, <3>2 DEF TypeOK
    <2> QED BY <2>1, <2>a, <2>b, <2>c
  <1>2. ASSUME NEW p \in Processes, Start(p)
        PROVE  TypeOK'
    <2>1. lease' \in Processes \cup {None}
      BY <1>t, <1>2 DEF Start, TypeOK
    <2>a. process' = [process EXCEPT ![p].pc = "running"]
      BY <1>2 DEF Start
    <2>2. process' \in [Processes ->
                [pc : {"setup", "elect", "running", "exited"},
                 controls : SUBSET Flavours]]
      BY <1>t, <2>a DEF TypeOK
    <2>3. UNCHANGED <<deployment, registry, secret, apiVars, object, work, edits,
                      faults>>
      BY <1>2 DEF Start
    <2> QED BY <1>t, <2>1, <2>2, <2>3 DEF TypeOK
  <1>3. ASSUME NEW p \in Processes, Crash(p)
        PROVE  TypeOK'
    <2>a. process' = [process EXCEPT ![p] = [pc |-> "setup", controls |-> {}]]
      BY <1>3 DEF Crash
    <2>1. process' \in [Processes ->
                [pc : {"setup", "elect", "running", "exited"},
                 controls : SUBSET Flavours]]
      BY <1>t, <2>a DEF TypeOK
    <2>2. lease' \in Processes \cup {None}
      BY <1>t, <1>3 DEF Crash, TypeOK
    <2>b. registry' = [registry EXCEPT ![p] = [k \in Keys |-> None]]
      BY <1>3 DEF Crash
    <2>3. registry' \in [Processes -> [Keys -> Material \cup {None}]]
      BY <1>t, <2>b DEF TypeOK
    <2>c. work' = [work EXCEPT ![p] = [r \in Resources |-> Idle]]
      BY <1>3 DEF Crash
    <2>4. work' \in Workers
      BY <1>0, <2>c, IdleWorked DEF Workers
    <2>5. faults' \in 0..MaxFaults
      BY <1>t, <1>3, ProviderAssumption DEF Crash, TypeOK
    <2>6. UNCHANGED <<deployment, secret, config, served, mr, used, object, edits>>
      BY <1>3 DEF Crash
    <2>7. counted' \in [Processes -> SUBSET Configs]
      BY <1>t, <1>3 DEF Crash, TypeOK
    <2> QED BY <1>t, <2>1, <2>2, <2>3, <2>4, <2>5, <2>6, <2>7
            DEF TypeOK, Workers, Worked
  <1>4. ASSUME NEW p \in Processes, NEW r \in Resources, CallFails(p, r)
        PROVE  TypeOK'
    <2>1. work' \in Workers
      BY <1>0, <1>4, EndsEffect DEF CallFails
    <2>2. faults' \in 0..MaxFaults
      BY <1>t, <1>4, ProviderAssumption DEF CallFails, TypeOK
    <2>3. UNCHANGED <<deployment, process, lease, registry, secret, apiVars, object,
                      edits>>
      BY <1>4 DEF CallFails
    <2> QED BY <1>t, <2>1, <2>2, <2>3 DEF TypeOK, Workers, Worked
  <1>5. ASSUME NEW p \in Processes, NEW c \in Configs, ReconcileConfig(p, c)
        PROVE  TypeOK'
    <2>1. config' \in [Configs -> ConfigStates]
      BY <1>t, <1>5 DEF ReconcileConfig, ClaimConfig, CountUses, ReleaseConfig, TypeOK,
                        ConfigStates, States
    <2>2. counted' \in [Processes -> SUBSET Configs]
      <3>1. counted \in [Processes -> SUBSET Configs]
        BY <1>t DEF TypeOK
      <3>2. \/ counted' = counted
            \/ counted' = [counted EXCEPT ![p] = counted[p] \cup {c}]
            \/ counted' = [counted EXCEPT ![p] = counted[p] \ {c}]
        BY <1>5, <3>1 DEF ReconcileConfig, ClaimConfig, CountUses, ReleaseConfig
      <3> QED BY <3>1, <3>2
    <2>3. ElseSame
      BY <1>5 DEF ReconcileConfig, ClaimConfig, CountUses, ReleaseConfig
    <2> QED BY <1>t, <2>1, <2>2, <2>3 DEF ElseSame, TypeOK
  <1>6. ASSUME NEW c \in Configs, Edit(c)
        PROVE  /\ edits' \in 0..MaxEdits
               /\ UNCHANGED <<deployment, process, lease, registry, used, object,
                              work, faults>>
    BY <1>t, <1>6, ProviderAssumption DEF Edit, TypeOK
  <1>7. ASSUME NEW c \in Configs, Rotate(c)
        PROVE  TypeOK'
    <2>1. secret' \in [Configs -> 1..MaxVersion]
      BY <1>t, <1>7, ProviderAssumption DEF Rotate, TypeOK
    <2>2. Edit(c) /\ UNCHANGED <<mr, holdVars>>
      BY <1>7 DEF Rotate
    <2> QED BY <1>t, <1>6, <2>1, <2>2 DEF TypeOK
  <1>8. ASSUME NEW c \in Configs, DeleteConfig(c)
        PROVE  TypeOK'
    <2>1. config' \in [Configs -> ConfigStates]
      BY <1>t, <1>8 DEF DeleteConfig, TypeOK, ConfigStates, States
    <2>2. Edit(c) /\ UNCHANGED <<secret, counted, served, mr>>
      BY <1>8 DEF DeleteConfig
    <2> QED BY <1>t, <1>6, <2>1, <2>2 DEF TypeOK
  <1>9. ASSUME NEW r \in Resources, DeleteResource(r)
        PROVE  TypeOK'
    <2>1. mr' \in [Resources -> States]
      BY <1>t, <1>9 DEF DeleteResource, TypeOK, States
    <2>2. Edit(Uses(r)) /\ UNCHANGED <<secret, holdVars>>
      BY <1>9 DEF DeleteResource
    <2> QED BY <1>0, <1>t, <1>6, <2>1, <2>2 DEF TypeOK
  <1> QED BY <1>1, <1>2, <1>3, <1>4, <1>5, <1>7, <1>8, <1>9 DEF StartUp

(* A worker step is one of these, each with what it does to the workers.   *)
LEMMA NextCases ==
    ASSUME Next
    PROVE  \/ \E p \in Processes, r \in Resources : Reconcile(p, r)
           \/ \E p \in Processes : StartUp(p) \/ Crash(p)
           \/ \E p \in Processes, r \in Resources : CallFails(p, r)
           \/ \E p \in Processes, c \in Configs : ReconcileConfig(p, c)
           \/ \E c \in Configs : Rotate(c) \/ DeleteConfig(c)
           \/ \E r \in Resources : DeleteResource(r)
  BY DEF Next

LEMMA TypedStep ==
    ASSUME Typed, Reads, [Next]_vars
    PROVE  Typed' /\ deployment' = deployment
  <1>1. CASE UNCHANGED vars
    BY <1>1 DEF vars, apiVars, holdVars, Typed, TypeOK, Workers, Worked
  <1>2. CASE Next
    <2>1. TypeOK'
      BY <1>2, NextCases, ReconcileTyped, OtherTyped
    <2>2. ASSUME NEW p \in Processes, NEW r \in Resources, Reconcile(p, r)
          PROVE  Local
      BY <2>2 DEF Reconcile, Begin, Connect, Track, GetProviderConfig, GetCACert,
           GetClientCert, GetClientKey, Register, Registered, Query, Finish
    <2>3. ASSUME NEW p \in Processes, StartUp(p) \/ Crash(p)
          PROVE  deployment' = deployment
      BY <2>3 DEF StartUp, Setup, SetsUp, Start, Crash
    <2>4. ASSUME NEW c \in Configs, Rotate(c) \/ DeleteConfig(c)
          PROVE  deployment' = deployment
      BY <2>4 DEF Rotate, DeleteConfig, Edit
    <2>c. ASSUME NEW p \in Processes, NEW c \in Configs, ReconcileConfig(p, c)
          PROVE  deployment' = deployment
      BY <2>c DEF ReconcileConfig, ClaimConfig, CountUses, ReleaseConfig, ElseSame
    <2>5. deployment' = deployment
      BY <1>2, <2>2, <2>3, <2>4, <2>c, NextCases DEF Local, CallFails, DeleteResource, Edit
    <2> QED BY <2>1, <2>5 DEF Typed, TypeOK, Workers, Worked
  <1> QED BY <1>1, <1>2

(* The workers of one process are at rest after a crash.                   *)
LEMMA CrashEffect ==
    ASSUME Typed, NEW p \in Processes, Crash(p)
    PROVE  \A q \in Processes, s \in Resources :
               \/ work'[q][s] = work[q][s] /\ registry'[q] = registry[q]
               \/ work'[q][s] = Idle
  BY DEF Crash, Typed, TypeOK, Workers

(* A step that is no worker's: every worker is where it was, with the      *)
(* registry of its process, or at rest.                                    *)
LEMMA OtherEffect ==
    ASSUME Typed,
           \/ \E p \in Processes : StartUp(p) \/ Crash(p)
           \/ \E p \in Processes, r \in Resources : CallFails(p, r)
           \/ \E p \in Processes, c \in Configs : ReconcileConfig(p, c)
           \/ \E c \in Configs : Rotate(c) \/ DeleteConfig(c)
           \/ \E r \in Resources : DeleteResource(r)
    PROVE  \A q \in Processes, s \in Resources :
               \/ work'[q][s] = work[q][s] /\ registry'[q] = registry[q]
               \/ work'[q][s] = Idle
  <1>1. ASSUME NEW p \in Processes, NEW r \in Resources, CallFails(p, r)
        PROVE  \A q \in Processes, s \in Resources :
                   \/ work'[q][s] = work[q][s] /\ registry'[q] = registry[q]
                   \/ work'[q][s] = Idle
    <2>1. work'[p][r] = Idle /\ Others(p, r) /\ registry' = registry
      BY <1>1, EndsEffect DEF CallFails, Typed
    <2> QED BY <2>1 DEF Others
  <1>2. ASSUME NEW p \in Processes, StartUp(p)
        PROVE  UNCHANGED <<work, registry>>
    BY <1>2 DEF StartUp, Setup, SetsUp, Start
  <1>3. ASSUME NEW c \in Configs, Rotate(c) \/ DeleteConfig(c)
        PROVE  UNCHANGED <<work, registry>>
    BY <1>3 DEF Rotate, DeleteConfig, Edit
  <1>5. ASSUME NEW p \in Processes, NEW c \in Configs, ReconcileConfig(p, c)
        PROVE  UNCHANGED <<work, registry>>
    BY <1>5 DEF ReconcileConfig, ClaimConfig, CountUses, ReleaseConfig, ElseSame
  <1>4. ASSUME NEW r \in Resources, DeleteResource(r)
        PROVE  UNCHANGED <<work, registry>>
    BY <1>4 DEF DeleteResource, Edit
  <1> QED BY <1>1, <1>2, <1>3, <1>4, <1>5, CrashEffect

(***************************************************************************)
(* What the phases say is kept by every step.                              *)
(***************************************************************************)
LEMMA ReadsStep ==
    ASSUME Typed, Reads, [Next]_vars
    PROVE  Reads'
  <1>0. work \in Workers /\ deployment' = deployment
    BY TypedStep DEF Typed
  <1>u. \A r \in Resources : Uses(r)' = Uses(r) /\ Custom(Uses(r))' = Custom(Uses(r))
    BY <1>0 DEF Uses, Custom
  <1>i. ASSUME NEW p \in Processes, NEW r \in Resources, work'[p][r] = Idle
        PROVE  ReadsInOrder(p, r)'
    BY <1>i DEF ReadsInOrder, Idle
  <1>k. ASSUME NEW p \in Processes, NEW r \in Resources, work'[p][r] = work[p][r]
        PROVE  ReadsInOrder(p, r)'
    BY <1>k, <1>u DEF ReadsInOrder, Reads
  <1>1. CASE UNCHANGED vars
    BY <1>1, <1>k DEF vars, Reads
  <1>2. ASSUME NEW p \in Processes, NEW r \in Resources, Reconcile(p, r)
        PROVE  Reads'
    <2>w. work[p][r] \in Worked /\ Uses(r) \in Configs
      BY <1>0 DEF Workers, Typed, Uses, Deployment
    <2>v. secret[Uses(r)] \in 1..MaxVersion /\ secret[Uses(r)] # 0
      BY <2>w, ProviderAssumption DEF Typed, TypeOK
    <2>o. Others(p, r)
      BY <1>2, ReconcileTyped
    <2>s. ReadsInOrder(p, r)' => Reads'
      BY <2>o, <1>k DEF Reads, Others
    <2>g. ASSUME NEW phase \in Phases \ {"ca", "cert", "key", "register"},
                 Goes(p, r, phase)
          PROVE  ReadsInOrder(p, r)'
      BY <1>0, <2>g, GoesEffect DEF ReadsInOrder
    <2>e. ASSUME Ends(p, r)
          PROVE  ReadsInOrder(p, r)'
      BY <1>0, <2>e, <1>i, EndsEffect
    <2>p. {"track", "config", "connected"} \subseteq
              Phases \ {"ca", "cert", "key", "register"}
      BY DEF Phases
    <2>1. CASE Begin(p, r) \/ Track(p, r)
      BY <2>1, <2>g, <2>p, <2>s DEF Begin, Track
    <2>2. CASE GetProviderConfig(p, r)
      <3>1. CASE Ends(p, r) \/ Goes(p, r, "connected")
        BY <3>1, <2>e, <2>g, <2>p, <2>s
      <3>2. CASE Custom(Uses(r)) /\ Goes(p, r, "ca")
        <4>1. work'[p][r].pc = "ca"
          BY <1>0, <3>2, GoesEffect DEF Phases
        <4> QED BY <4>1, <3>2, <1>u, <2>s DEF ReadsInOrder
      <3> QED BY <2>2, <3>1, <3>2 DEF GetProviderConfig, Custom
    <2>3. CASE GetCACert(p, r)
      <3> DEFINE w == [work[p][r] EXCEPT !.pc = "cert", !.ca = secret[Uses(r)]]
      <3>1. work'[p][r] = w
        BY <1>0, <2>3 DEF GetCACert, Workers
      <3>2. w.pc = "cert" /\ w.ca = secret[Uses(r)]
        BY <2>w DEF Worked
      <3>3. Custom(Uses(r))
        BY <2>3 DEF GetCACert, Works, Reads, ReadsInOrder
      <3> QED BY <3>1, <3>2, <3>3, <2>v, <1>u, <2>s DEF ReadsInOrder
    <2>4. CASE GetClientCert(p, r)
      <3> DEFINE w == [work[p][r] EXCEPT !.pc = "key", !.cert = secret[Uses(r)]]
      <3>1. work'[p][r] = w
        BY <1>0, <2>4 DEF GetClientCert, Workers
      <3>2. w.pc = "key" /\ w.cert = secret[Uses(r)] /\ w.ca = work[p][r].ca
        BY <2>w DEF Worked
      <3>3. Custom(Uses(r)) /\ work[p][r].ca # 0
        BY <2>4 DEF GetClientCert, Works, Reads, ReadsInOrder
      <3> QED BY <3>1, <3>2, <3>3, <2>v, <1>u, <2>s DEF ReadsInOrder
    <2>5. CASE GetClientKey(p, r)
      <3> DEFINE w == [work[p][r] EXCEPT !.pc = "register", !.key = secret[Uses(r)]]
      <3>1. work'[p][r] = w
        BY <1>0, <2>5 DEF GetClientKey, Workers
      <3>2. w.pc = "register" /\ w.cert = work[p][r].cert /\ w.ca = work[p][r].ca
        BY <2>w DEF Worked
      <3>3. Custom(Uses(r)) /\ work[p][r].ca # 0 /\ work[p][r].cert # 0
        BY <2>5 DEF GetClientKey, Works, Reads, ReadsInOrder
      <3> QED BY <3>1, <3>2, <3>3, <1>u, <2>s DEF ReadsInOrder
    <2>6. CASE Register(p, r)
      <3>1. \/ Ends(p, r)
            \/ work' = [work EXCEPT ![p][r] = [Idle EXCEPT !.pc = "connected"]]
        BY <2>6 DEF Register, Registered
      <3>2. Ends(p, r) \/ work'[p][r].pc = "connected"
        <4>1. ASSUME NEW w \in Worked, w.pc = "connected",
                     work' = [work EXCEPT ![p][r] = w]
              PROVE  work'[p][r].pc = "connected"
          BY <1>0, <4>1, SetEffect
        <4> QED BY <3>1, <4>1, IdleWorked
      <3> QED BY <3>2, <2>e, <2>s DEF ReadsInOrder
    <2>7. CASE Query(p, r)
      BY <2>7, <1>k, <2>s DEF Query
    <2>8. CASE Finish(p, r)
      BY <2>8, <2>e, <2>s DEF Finish
    <2> QED BY <1>2, <2>1, <2>2, <2>3, <2>4, <2>5, <2>6, <2>7, <2>8
            DEF Reconcile, Connect
  <1> QED BY <1>1, <1>2, <1>i, <1>k, NextCases, OtherEffect DEF Reads

(* Every state is typed.                                                   *)
LEMMA InitTyped == Init => Typed /\ Reads
  <1> SUFFICES ASSUME Init
               PROVE  Typed /\ Reads
    OBVIOUS
  <1>1. work \in Workers
    BY IdleWorked DEF Init, Workers
  <1>2. 1 \in 1..MaxVersion /\ 0 \in 0..MaxEdits /\ 0 \in 0..MaxFaults
    BY ProviderAssumption
  <1>c. config \in [Configs -> ConfigStates]
    BY DEF Init, ConfigStates, States
  <1>3. TypeOK
    BY <1>1, <1>2, <1>c DEF Init, TypeOK, Workers, Worked, States
  <1> QED BY <1>1, <1>3, ProviderAssumption DEF Init, Typed, Reads, ReadsInOrder, Idle,
                                                TypeOK

(* What a process does is typed, whatever is deployed: phases, registered  *)
(* material, leases and uses stay what they are said to be.                *)
THEOREM ProviderTyped == Spec => []TypeOK
  <1>1. Typed /\ Reads /\ [Next]_vars => (Typed /\ Reads)'
    BY TypedStep, ReadsStep
  <1>2. Typed => TypeOK
    BY DEF Typed
  <1> QED BY <1>1, <1>2, InitTyped, PTL DEF Spec

(***************************************************************************)
(* The material of the own configuration.                                  *)
(***************************************************************************)
Inv == Typed /\ Reads

LEMMA InvStep == Inv /\ [Next]_vars => Inv' /\ deployment' = deployment
  BY TypedStep, ReadsStep DEF Inv

LEMMA OwnRegistrationsStep ==
    ASSUME Inv, OwnRegistrations, [Next]_vars
    PROVE  OwnRegistrations'
  <1>0. work \in Workers /\ deployment' = deployment /\ Typed /\ Reads
    BY InvStep DEF Inv, Typed
  <1>u. \A r \in Resources :
            /\ Uses(r)' = Uses(r) /\ Custom(Uses(r))' = Custom(Uses(r))
            /\ Clash(Uses(r))' = Clash(Uses(r)) /\ Key(Uses(r))' = Key(Uses(r))
    BY <1>0 DEF Uses, Custom, Clash, Key
  <1>i. ASSUME NEW p \in Processes, NEW r \in Resources, work'[p][r].pc # "connected"
        PROVE  OwnRegistration(p, r)'
    BY <1>i DEF OwnRegistration
  <1>j. Idle.pc # "connected"
    BY DEF Idle
  <1>k. ASSUME NEW p \in Processes, NEW r \in Resources, work'[p][r] = work[p][r],
               registry'[p] = registry[p]
        PROVE  OwnRegistration(p, r)'
    BY <1>k, <1>u DEF OwnRegistration, OwnRegistrations
  <1>1. CASE UNCHANGED vars
    BY <1>1, <1>k DEF vars, OwnRegistrations
  <1>2. ASSUME NEW p \in Processes, NEW r \in Resources, Reconcile(p, r)
        PROVE  OwnRegistrations'
    <2>o. Others(p, r)
      BY <1>0, <1>2, ReconcileTyped
    <2>s. ASSUME registry' = registry, OwnRegistration(p, r)'
          PROVE  OwnRegistrations'
      BY <2>s, <2>o, <1>k DEF OwnRegistrations, Others
    <2>g. ASSUME NEW phase \in Phases \ {"connected"}, Goes(p, r, phase)
          PROVE  OwnRegistration(p, r)'
      <3>1. work'[p][r].pc = phase
        BY <1>0, <2>g, GoesEffect
      <3> QED BY <1>i, <2>g, <3>1
    <2>e. ASSUME Ends(p, r)
          PROVE  OwnRegistration(p, r)'
      BY <1>0, <1>i, <1>j, <2>e, EndsEffect
    <2>w. work[p][r] \in Worked
      BY <1>0 DEF Workers
    <2>p. {"track", "config", "ca"} \subseteq Phases \ {"connected"}
          /\ "connected" \in Phases
      BY DEF Phases
    <2>1. CASE Begin(p, r) \/ Track(p, r)
      BY <2>1, <2>g, <2>p, <2>s DEF Begin, Track
    <2>2. CASE GetProviderConfig(p, r)
      <3>1. CASE ~Custom(Uses(r)) /\ Goes(p, r, "connected")
        BY <3>1, <1>u, <2>2, <2>s DEF GetProviderConfig, OwnRegistration
      <3>2. CASE Ends(p, r) \/ Goes(p, r, "ca")
        BY <3>2, <2>e, <2>g, <2>p, <2>2, <2>s DEF GetProviderConfig
      <3> QED BY <2>2, <3>1, <3>2 DEF GetProviderConfig, Custom
    <2>3. CASE GetCACert(p, r) \/ GetClientCert(p, r) \/ GetClientKey(p, r)
      <3> DEFINE ca == [work[p][r] EXCEPT !.pc = "cert", !.ca = secret[Uses(r)]]
                 cert == [work[p][r] EXCEPT !.pc = "key", !.cert = secret[Uses(r)]]
                 key == [work[p][r] EXCEPT !.pc = "register", !.key = secret[Uses(r)]]
      <3>1. work'[p][r] = ca \/ work'[p][r] = cert \/ work'[p][r] = key
        BY <1>0, <2>3 DEF GetCACert, GetClientCert, GetClientKey, Workers
      <3>2. ca.pc # "connected" /\ cert.pc # "connected" /\ key.pc # "connected"
        BY <2>w DEF Worked
      <3>3. OwnRegistration(p, r)'
        BY <3>1, <3>2, <1>i
      <3> QED BY <2>3, <2>s, <3>3 DEF GetCACert, GetClientCert, GetClientKey
    <2>4. CASE Register(p, r)
      <3>1. CASE Ends(p, r) /\ UNCHANGED registry
        BY <3>1, <2>e, <2>s
      <3>2. CASE registry' = [registry EXCEPT ![p] =
                    [k \in Keys |-> IF k \in {Key(Uses(r))} THEN Loaded(p, r) ELSE @[k]]]
        <4>1. work[p][r].pc = "register" /\ Custom(Uses(r))
          BY <2>4, <1>0 DEF Register, Registered, Works, Reads, ReadsInOrder
        <4>2. work[p][r].ca # 0 /\ work[p][r].cert # 0
          BY <4>1, <1>0 DEF Reads, ReadsInOrder
        <4>3. Uses(r) \in Configs /\ Loaded(p, r) \in Material
          BY <1>0, <2>w, <4>2, ProviderAssumption
             DEF Worked, Loaded, Material, Typed, Uses, Deployment
        <4>4. Loaded(p, r) # None /\ Loaded(p, r).config = Uses(r)
          BY <4>3, ProviderAssumption DEF Loaded
        <4>5. ASSUME NEW s \in Resources, ~Clash(Uses(s)), Custom(Uses(s)),
                     Key(Uses(s)) = Key(Uses(r))
              PROVE  Uses(s) = Uses(r)
          BY <4>1, <4>3, <4>5 DEF Clash, Custom
        <4>6. registry \in [Processes -> [Keys -> Material \cup {None}]]
          BY <1>0 DEF Typed, TypeOK
        <4>7. \A s \in Resources : Key(Uses(s)) \in Keys
          BY <1>0 DEF Typed, Uses, Deployment, Key
        <4>8. \A q \in Processes \ {p} : registry'[q] = registry[q]
          BY <3>2, <4>6
        <4>9. \A k \in Keys : registry'[p][k] =
                  IF k = Key(Uses(r)) THEN Loaded(p, r) ELSE registry[p][k]
          BY <3>2, <4>6
        <4>10. ASSUME NEW s \in Resources
               PROVE  OwnRegistration(p, s)'
          <5>1. CASE ~Clash(Uses(s)) /\ Custom(Uses(s)) /\ Key(Uses(s)) = Key(Uses(r))
            BY <5>1, <1>u, <4>4, <4>5, <4>7, <4>9 DEF OwnRegistration
          <5>2. CASE Key(Uses(s)) # Key(Uses(r))
            <6>1. CASE s = r
              BY <5>2, <6>1
            <6>2. CASE s # r
              BY <5>2, <6>2, <1>u, <2>o, <4>7, <4>9
                 DEF OwnRegistration, OwnRegistrations, Others
            <6> QED BY <6>1, <6>2
          <5> QED BY <5>1, <5>2, <1>u DEF OwnRegistration
        <4> QED BY <1>k, <2>o, <4>8, <4>10 DEF OwnRegistrations, Others
      <3> QED BY <2>4, <3>1, <3>2 DEF Register, Registered
    <2>5. CASE Query(p, r)
      BY <2>5, <1>k DEF Query, OwnRegistrations
    <2>6. CASE Finish(p, r)
      BY <2>6, <2>e, <2>s DEF Finish
    <2> QED BY <1>2, <2>1, <2>2, <2>3, <2>4, <2>5, <2>6 DEF Reconcile, Connect
  <1>3. ASSUME \A q \in Processes, s \in Resources :
                   \/ work'[q][s] = work[q][s] /\ registry'[q] = registry[q]
                   \/ work'[q][s] = Idle
        PROVE  OwnRegistrations'
    BY <1>3, <1>i, <1>j, <1>k DEF OwnRegistrations
  <1> QED BY <1>0, <1>1, <1>2, <1>3, NextCases, OtherEffect

(* A reconcile that has its connection connects with a matched pair of its *)
(* own configuration, whatever other workers register meanwhile, and       *)
(* whenever the process was started, as long as no two configurations have *)
(* one name (LoadConfig, registerTLS).                                     *)
THEOREM OwnMaterial == Spec => []ConnectsAsConfigured
  <1>1. Init => Inv /\ OwnRegistrations
    BY InitTyped DEF Init, Inv, OwnRegistrations, OwnRegistration, Idle
  <1>2. Inv /\ OwnRegistrations /\ [Next]_vars => (Inv /\ OwnRegistrations)'
    BY InvStep, OwnRegistrationsStep
  <1>3. OwnRegistrations => ConnectsAsConfigured
    BY DEF OwnRegistrations, OwnRegistration, ConnectsAsConfigured, Works, Custom
  <1> QED BY <1>1, <1>2, <1>3, PTL DEF Spec

(***************************************************************************)
(* The uses that hold a configuration.                                     *)
(***************************************************************************)
Held == AllTracked /\ ServedKept /\ ObjectsOwned /\ CountedDeleted

(* A step that gives no resource a configuration, takes no use of a        *)
(* resource that is there, and neither counts nor releases a configuration *)
(* that is used, leaves what is held.                                      *)
LEMMA StillHeld ==
    ASSUME Inv, Held, deployment' = deployment,
           served' = served, object' \subseteq object,
           \A r \in Resources : mr[r] = "gone" => mr'[r] = "gone",
           \A r \in object' : mr'[r] # "gone",
           \A r \in Resources : mr'[r] # "gone" /\ r \in used => r \in used',
           \A c \in Configs :
               /\ config[c] \notin {"new", "gone"}
               /\ \E r \in used : Uses(r) = c
               /\ \A p \in Processes : c \notin counted[p]
               => /\ config'[c] \notin {"new", "gone"}
                  /\ \A p \in Processes : c \notin counted'[p],
           CountedDeleted'
    PROVE  /\ \A p \in Processes, r \in Resources :
                  work'[p][r] = work[p][r] \/ work'[p][r] = Idle => Tracked(p, r)'
           /\ ServedKept' /\ ObjectsOwned' /\ CountedDeleted'
  <1>0. /\ \A r \in Resources : Uses(r) \in Configs /\ Uses(r)' = Uses(r)
        /\ served \subseteq Resources
    BY DEF Inv, Typed, TypeOK, Uses, Deployment
  <1>1. ASSUME NEW p \in Processes, NEW r \in Resources,
               work'[p][r] = work[p][r] \/ work'[p][r] = Idle
        PROVE  Tracked(p, r)'
    <2>1. CASE work'[p][r] = Idle
      BY <2>1 DEF Tracked, Idle
    <2>2. CASE work'[p][r] = work[p][r]
      BY <2>2 DEF Tracked, Held, AllTracked
    <2> QED BY <1>1, <2>1, <2>2
  <1>2. ASSUME NEW r \in served, mr'[r] # "gone"
        PROVE  Kept(r)'
    <2>1. r \in Resources /\ mr[r] # "gone"
      BY <1>0, <1>2
    <2>2. Kept(r)
      BY <2>1 DEF Held, ServedKept
    <2> QED BY <1>0, <1>2, <2>1, <2>2 DEF Kept
  <1> QED BY <1>1, <1>2 DEF ServedKept, ObjectsOwned

(* What a reconcile of a configuration does to all of them.                *)
LEMMA ConfigStep ==
    ASSUME Inv, Held, NEW p \in Processes, NEW c \in Configs, ReconcileConfig(p, c)
    PROVE  /\ UNCHANGED <<deployment, served, object, mr, used>>
           /\ CountedDeleted'
           /\ \A d \in Configs :
                  /\ config[d] \notin {"new", "gone"}
                  /\ \E r \in used : Uses(r) = d
                  /\ \A q \in Processes : d \notin counted[q]
                  => /\ config'[d] \notin {"new", "gone"}
                     /\ \A q \in Processes : d \notin counted'[q]
  <1>0. /\ counted \in [Processes -> SUBSET Configs]
        /\ config \in [Configs -> ConfigStates]
    BY DEF Inv, Typed, TypeOK
  <1>1. UNCHANGED <<deployment, served, object, mr, used>>
    BY DEF ReconcileConfig, ClaimConfig, CountUses, ReleaseConfig, ElseSame
  <1>2. CASE ClaimConfig(p, c)
    BY <1>0, <1>1, <1>2 DEF ClaimConfig, Held, CountedDeleted
  <1>3. CASE CountUses(p, c)
    BY <1>0, <1>1, <1>3 DEF CountUses, Held, CountedDeleted
  <1>4. CASE ReleaseConfig(p, c)
    BY <1>0, <1>1, <1>4 DEF ReleaseConfig, Held, CountedDeleted
  <1> QED BY <1>2, <1>3, <1>4 DEF ReconcileConfig

LEMMA HeldStep ==
    ASSUME Inv, Held, [Next]_vars
    PROVE  Held'
  <1>0. /\ work \in Workers /\ deployment' = deployment /\ Typed /\ Reads
        /\ mr \in [Resources -> States] /\ config \in [Configs -> ConfigStates]
        /\ counted \in [Processes -> SUBSET Configs]
        /\ object \subseteq Resources /\ used \subseteq Resources
        /\ served \subseteq Resources
    BY InvStep DEF Inv, Typed, TypeOK
  <1>u. \A r \in Resources : Uses(r) \in Configs /\ Uses(r)' = Uses(r)
    BY <1>0 DEF Typed, Uses, Deployment
  <1>o. ObjectsOwned /\ CountedDeleted
    BY DEF Held
  <1>f. ASSUME UNCHANGED <<config, counted, served, mr>>, used \subseteq used',
               object' \subseteq object
        PROVE  /\ \A p \in Processes, r \in Resources :
                      work'[p][r] = work[p][r] \/ work'[p][r] = Idle => Tracked(p, r)'
               /\ ServedKept' /\ ObjectsOwned' /\ CountedDeleted'
    <2>1. CountedDeleted' /\ ObjectsOwned'
      BY <1>f, <1>o DEF CountedDeleted, ObjectsOwned
    <2> QED BY <1>0, <1>f, <2>1, StillHeld DEF ObjectsOwned
  <1>1. CASE UNCHANGED vars
    BY <1>1, <1>f DEF vars, apiVars, holdVars, Held, AllTracked
  <1>2. ASSUME NEW p \in Processes, NEW r \in Resources, Reconcile(p, r)
        PROVE  Held'
    <2>o. Others(p, r)
      BY <1>0, <1>2, ReconcileTyped
    <2>t. ASSUME UNCHANGED <<config, counted, served, mr>>, used \subseteq used',
                 object' \subseteq object, Tracked(p, r)'
          PROVE  Held'
      BY <2>t, <2>o, <1>f DEF Held, AllTracked, Others
    <2>e. ASSUME UNCHANGED <<apiVars, object>>, Ends(p, r)
          PROVE  Held'
      BY <1>0, <1>f, <2>e, <2>t, EndsEffect DEF apiVars, holdVars
    <2>g. ASSUME NEW phase \in Phases, Goes(p, r, phase)
          PROVE  work'[p][r].pc = phase
      BY <1>0, <2>g, GoesEffect
    <2>p. {"track", "config", "ca", "connected"} \subseteq Phases
      BY DEF Phases
    <2>1. CASE Begin(p, r)
      <3>1. work'[p][r].pc = "track"
        BY <2>1, <2>g, <2>p DEF Begin
      <3> QED BY <2>1, <2>t, <3>1 DEF Begin, apiVars, holdVars, Tracked
    <2>2. CASE Track(p, r)
      <3>1. /\ used' = (IF mr[r] = "gone" THEN used ELSE used \cup {r})
            /\ UNCHANGED <<config, counted, served, mr, object>>
        BY <2>2 DEF Track, holdVars
      <3>2. Tracked(p, r)'
        BY <3>1 DEF Tracked
      <3> QED BY <2>t, <3>1, <3>2
    <2>3. CASE GetProviderConfig(p, r)
      <3>1. /\ UNCHANGED <<config, counted, mr, used, object>>
            /\ served' = (IF config[Uses(r)] = "present" THEN served \cup {r}
                          ELSE served)
        BY <2>3 DEF GetProviderConfig
      <3>2. mr[r] # "gone" => r \in used
        BY <2>3 DEF GetProviderConfig, Works, Held, AllTracked, Tracked
      <3>3. AllTracked'
        <4>1. \A q \in Processes, s \in Resources \ {r} : Tracked(q, s)'
          <5>1. ASSUME NEW q \in Processes, NEW s \in Resources \ {r}
                PROVE  work'[q][s] = work[q][s] /\ Tracked(q, s)
            BY <2>o DEF Others, Held, AllTracked
          <5> QED BY <3>1, <5>1 DEF Tracked
        <4>2. \A q \in Processes : Tracked(q, r)'
          BY <3>1, <3>2 DEF Tracked
        <4> QED BY <4>1, <4>2 DEF AllTracked
      <3>4. ServedKept'
        <4>1. ASSUME NEW s \in served', mr[s] # "gone"
              PROVE  Kept(s)
          <5>1. CASE s \in served
            BY <4>1, <5>1 DEF Held, ServedKept
          <5>2. CASE s = r /\ config[Uses(r)] = "present"
            BY <1>o, <1>u, <3>2, <4>1, <5>2 DEF Kept, CountedDeleted
          <5> QED BY <3>1, <5>1, <5>2
        <4>2. \A s \in served' : s \in Resources
          BY <1>0, <3>1
        <4> QED BY <1>u, <3>1, <4>1, <4>2 DEF ServedKept, Kept
      <3>5. ObjectsOwned' /\ CountedDeleted'
        BY <1>o, <3>1 DEF ObjectsOwned, CountedDeleted
      <3> QED BY <3>3, <3>4, <3>5 DEF Held
    <2>4. CASE GetCACert(p, r) \/ GetClientCert(p, r) \/ GetClientKey(p, r)
               \/ Register(p, r) \/ Query(p, r)
      <3>1. mr[r] # "gone" => r \in used
        BY <2>4 DEF GetCACert, GetClientCert, GetClientKey, Register, Registered, Query,
                    Works, Held, AllTracked, Tracked
      <3>2. UNCHANGED <<config, counted, served, mr, used>>
        BY <2>4 DEF GetCACert, GetClientCert, GetClientKey, Register, Registered, Query,
                    apiVars, holdVars
      <3>3. Tracked(p, r)'
        BY <3>1, <3>2 DEF Tracked
      <3>4. CASE ~Query(p, r)
        BY <2>4, <2>t, <3>2, <3>3, <3>4
           DEF GetCACert, GetClientCert, GetClientKey, Register, Registered
      <3>5. CASE Query(p, r)
        <4>1. object' \subseteq IF mr[r] = "present" THEN object \cup {r} ELSE object
          BY <3>5 DEF Query
        <4>2. ObjectsOwned'
          BY <1>o, <3>2, <4>1 DEF ObjectsOwned
        <4>3. AllTracked'
          BY <3>2, <3>5 DEF Query, AllTracked, Tracked, Held
        <4>4. ServedKept' /\ CountedDeleted'
          BY <1>0, <1>u, <1>o, <3>2 DEF ServedKept, Kept, CountedDeleted, Held
        <4> QED BY <4>2, <4>3, <4>4 DEF Held
      <3> QED BY <3>4, <3>5
    <2>5. CASE Finish(p, r)
      <3>1. CASE mr[r] # "deleting"
        BY <2>5, <2>e, <3>1 DEF Finish, apiVars
      <3>2. CASE mr[r] = "deleting"
        <4>1. /\ mr' = [mr EXCEPT ![r] = "gone"] /\ used' = used \ {r}
              /\ UNCHANGED <<config, counted, served, object>>
              /\ r \notin object /\ Ends(p, r)
          BY <2>5, <3>2 DEF Finish, holdVars
        <4>2. mr'[r] = "gone" /\ \A s \in Resources \ {r} : mr'[s] = mr[s]
          BY <1>0, <4>1
        <4>3. CountedDeleted' /\ \A s \in object' : mr'[s] # "gone"
          BY <1>0, <1>o, <4>1, <4>2 DEF CountedDeleted, ObjectsOwned
        <4>4. /\ \A q \in Processes, s \in Resources :
                     work'[q][s] = work[q][s] \/ work'[q][s] = Idle => Tracked(q, s)'
              /\ ServedKept' /\ ObjectsOwned' /\ CountedDeleted'
          BY <1>0, <4>1, <4>2, <4>3, StillHeld
        <4>5. work'[p][r] = Idle
          BY <1>0, <4>1, EndsEffect
        <4> QED BY <2>o, <4>4, <4>5 DEF Held, AllTracked, Others
      <3> QED BY <3>1, <3>2
    <2> QED BY <1>2, <2>1, <2>2, <2>3, <2>4, <2>5 DEF Reconcile, Connect
  <1>3. ASSUME \/ \E p \in Processes : StartUp(p) \/ Crash(p)
               \/ \E p \in Processes, r \in Resources : CallFails(p, r)
               \/ \E p \in Processes, c \in Configs : ReconcileConfig(p, c)
               \/ \E c \in Configs : Rotate(c) \/ DeleteConfig(c)
               \/ \E r \in Resources : DeleteResource(r)
        PROVE  Held'
    <2>w. \A q \in Processes, s \in Resources :
              work'[q][s] = work[q][s] \/ work'[q][s] = Idle
      BY <1>0, <1>3, OtherEffect
    <2>f. ASSUME UNCHANGED <<apiVars, object>>
          PROVE  Held'
      BY <2>w, <2>f, <1>f DEF Held, AllTracked, apiVars, holdVars
    <2>1. ASSUME NEW p \in Processes, StartUp(p)
          PROVE  Held'
      BY <2>1, <2>f DEF StartUp, Setup, SetsUp, Start
    <2>2. ASSUME NEW p \in Processes, NEW r \in Resources, CallFails(p, r)
          PROVE  Held'
      BY <2>2, <2>f DEF CallFails
    <2>c. ASSUME NEW p \in Processes, Crash(p)
          PROVE  Held'
      <3>1. /\ UNCHANGED <<config, served, mr, used, object>>
            /\ counted' = [counted EXCEPT ![p] = {}]
        BY <2>c DEF Crash
      <3>2. \A q \in Processes : counted'[q] \subseteq counted[q]
        BY <1>0, <3>1
      <3>3. CountedDeleted'
        BY <1>o, <3>1, <3>2 DEF CountedDeleted
      <3>4. /\ \A q \in Processes, s \in Resources :
                   work'[q][s] = work[q][s] \/ work'[q][s] = Idle => Tracked(q, s)'
            /\ ServedKept' /\ ObjectsOwned' /\ CountedDeleted'
        BY <1>0, <1>o, <3>1, <3>2, <3>3, StillHeld DEF ObjectsOwned
      <3> QED BY <2>w, <3>4 DEF Held, AllTracked
    <2>3. ASSUME NEW p \in Processes, NEW c \in Configs, ReconcileConfig(p, c)
          PROVE  Held'
      <3>1. /\ \A q \in Processes, s \in Resources :
                   work'[q][s] = work[q][s] \/ work'[q][s] = Idle => Tracked(q, s)'
            /\ ServedKept' /\ ObjectsOwned' /\ CountedDeleted'
        BY <1>0, <1>o, <2>3, ConfigStep, StillHeld DEF ObjectsOwned
      <3> QED BY <2>w, <3>1 DEF Held, AllTracked
    <2>4. ASSUME NEW c \in Configs, Rotate(c)
          PROVE  Held'
      BY <2>4, <2>f DEF Rotate, Edit, apiVars
    <2>5. ASSUME NEW c \in Configs, DeleteConfig(c)
          PROVE  Held'
      <3>1. /\ config[c] \in {"new", "present"}
            /\ config' = [config EXCEPT ![c] = IF config[c] = "new" THEN "gone"
                                               ELSE "deleting"]
            /\ UNCHANGED <<counted, served, mr, used, object>>
        BY <2>5, <1>0 DEF DeleteConfig, Edit
      <3>2. /\ config'[c] = (IF config[c] = "new" THEN "gone" ELSE "deleting")
            /\ \A d \in Configs \ {c} : config'[d] = config[d]
        BY <1>0, <3>1
      <3>3. CountedDeleted'
        BY <1>o, <3>1, <3>2 DEF CountedDeleted
      <3>4. \A d \in Configs : config[d] \notin {"new", "gone"}
                                  => config'[d] \notin {"new", "gone"}
        BY <3>2
      <3>5. /\ \A q \in Processes, s \in Resources :
                   work'[q][s] = work[q][s] \/ work'[q][s] = Idle => Tracked(q, s)'
            /\ ServedKept' /\ ObjectsOwned' /\ CountedDeleted'
        BY <1>0, <1>o, <3>1, <3>3, <3>4, StillHeld DEF ObjectsOwned
      <3> QED BY <2>w, <3>5 DEF Held, AllTracked
    <2>6. ASSUME NEW r \in Resources, DeleteResource(r)
          PROVE  Held'
      <3>1. /\ mr[r] = "present" /\ mr' = [mr EXCEPT ![r] = "deleting"]
            /\ UNCHANGED <<config, counted, served, used, object>>
        BY <2>6 DEF DeleteResource, Edit, holdVars
      <3>2. \A s \in Resources : mr'[s] = "gone" <=> mr[s] = "gone"
        BY <1>0, <3>1
      <3>3. CountedDeleted' /\ \A s \in object' : mr'[s] # "gone"
        BY <1>0, <1>o, <3>1, <3>2 DEF CountedDeleted, ObjectsOwned
      <3>4. /\ \A q \in Processes, s \in Resources :
                   work'[q][s] = work[q][s] \/ work'[q][s] = Idle => Tracked(q, s)'
            /\ ServedKept' /\ ObjectsOwned' /\ CountedDeleted'
        BY <1>0, <3>1, <3>2, <3>3, StillHeld
      <3> QED BY <2>w, <3>4 DEF Held, AllTracked
    <2> QED BY <1>3, <2>1, <2>2, <2>c, <2>3, <2>4, <2>5, <2>6
  <1> QED BY <1>1, <1>2, <1>3, NextCases

(* A ProviderConfig outlives the objects that can only be dropped with its *)
(* credentials, if their resources have been given it while it had its     *)
(* finalizer and was not deleted: their uses were recorded before that, so *)
(* that whoever counts the uses of the deleted configuration finds them,   *)
(* however late it acts upon the count (Connect: the use is tracked before *)
(* the configuration is read).                                             *)
THEOREM ConfigKept == Spec => []ConfigOutlivesObjects
  <1>1. Init => Inv /\ Held
    BY InitTyped DEF Init, Inv, Held, AllTracked, Tracked, ServedKept, ObjectsOwned,
                     CountedDeleted, Idle
  <1>2. Inv /\ Held /\ [Next]_vars => (Inv /\ Held)'
    BY InvStep, HeldStep
  <1>3. Held => ConfigOutlivesObjects
    BY DEF Held, ServedKept, Kept, ObjectsOwned, ConfigOutlivesObjects
  <1> QED BY <1>1, <1>2, <1>3, PTL DEF Spec
===============================================================================
