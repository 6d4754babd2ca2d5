------------------------------- MODULE Provider -------------------------------
(***************************************************************************)
(* The processes of the provider and the way a reconcile gets its          *)
(* connection: cmd/provider/main.go, pkg/controller/sql.go, the Connect of *)
(* the controllers, the ProviderConfig look-up of                          *)
(* pkg/controller/namespaced/*/provider and the TLS registration of        *)
(* pkg/controller/*/{mysql,singlestore}/tls.                               *)
(*                                                                         *)
(* A process sets up the controllers of the flavours it was started with,  *)
(* one after the other, and runs them once it holds the lease, if it is to *)
(* elect a leader.  Every reconcile tracks its use of the ProviderConfig,  *)
(* reads the configuration, and registers the TLS material that the        *)
(* configuration refers to in a registry of the whole process.  Every      *)
(* query then opens a connection of its own, with what the registry holds  *)
(* under the configuration's name by that time.                            *)
(*                                                                         *)
(* The controller of the ProviderConfigs gives each a finalizer some time  *)
(* after it was written, and takes it back from a deleted one in a step of *)
(* its own after it has counted no uses.                                   *)
(***************************************************************************)
EXTENDS Naturals, Sequences, FiniteSets

CONSTANTS
    Processes, Resources, Configs,
    Deployments,  \* how the processes may be started
    FlavourOf,    \* FlavourOf[c]: the flavour of ProviderConfig c
    ClusterKind,  \* the configurations that are ClusterProviderConfigs
    Keys,         \* the names TLS configurations are registered under
    MaxVersion,   \* bound on rotations of TLS material
    MaxEdits, MaxFaults,
    None

Flavours == {"mysql", "postgresql", "mssql", "singlestore"}
WithTLS  == {"mysql", "singlestore"}

(* What the processes are started with, the flavours as they are written   *)
(* and whether they elect a leader; the ProviderConfig of every resource,  *)
(* the tls field of every ProviderConfig, and those that have had their    *)
(* finalizer since before.  Names gives the key that the name of a         *)
(* ProviderConfig makes: configurations of one name in different           *)
(* namespaces, scopes or flavours have the same.                           *)
Deployment == [flavours : [Processes -> Seq(STRING)], elects : BOOLEAN,
               uses : [Resources -> Configs],
               tls : [Configs -> {"plain", "custom", "invalid"}],
               claimed : SUBSET Configs,
               names : [Configs -> Keys]]

(* What is registered: a CA, and a certificate with its key, of a          *)
(* ProviderConfig.                                                         *)
Material == [config : Configs, ca : 1..MaxVersion, pair : 1..MaxVersion]

ASSUME ProviderAssumption ==
    /\ \A d \in Deployments : d \in Deployment
    /\ FlavourOf \in [Configs -> Flavours] /\ ClusterKind \subseteq Configs
    /\ MaxVersion \in Nat \ {0} /\ MaxEdits \in Nat /\ MaxFaults \in Nat
    /\ None \notin Processes \cup Material

VARIABLES
    deployment,  \* never changes
    process,     \* process[p]: what p is doing, and the controllers it has
    lease,       \* the process that holds the lease
    registry,    \* registry[p][k]: the TLS configuration p has under k
    secret,      \* secret[c]: the version of the TLS material of c
    config,      \* config[c]: the ProviderConfig in the API server
    counted,     \* counted[p]: the configurations of which p has counted no use
    served,      \* history: the resources that have got a configuration that
                 \* had its finalizer and was not deleted
    mr,          \* mr[r]: the managed resource in the API server
    used,        \* the resources whose use of their ProviderConfig is tracked
    object,      \* the resources that exist in their databases
    work,        \* work[p][r]: what the worker of p holds that reconciles r
    edits, faults

holdVars == <<config, counted, served>>
apiVars == <<holdVars, mr, used>>
vars == <<deployment, process, lease, registry, secret, apiVars, object, work,
          edits, faults>>

States   == {"present", "deleting", "gone"}
ConfigStates == States \cup {"new"}  \* a new one has no finalizer yet
Phases   == {"idle", "track", "config", "ca", "cert", "key", "register", "connected"}
Idle     == [pc |-> "idle", ca |-> 0, cert |-> 0, key |-> 0]

TypeOK ==
    /\ deployment \in Deployments
    /\ process \in [Processes -> [pc : {"setup", "elect", "running", "exited"},
                                  controls : SUBSET Flavours]]
    /\ lease \in Processes \cup {None}
    /\ registry \in [Processes -> [Keys -> Material \cup {None}]]
    /\ secret \in [Configs -> 1..MaxVersion]
    /\ config \in [Configs -> ConfigStates]
    /\ counted \in [Processes -> SUBSET Configs] /\ served \in SUBSET Resources
    /\ mr \in [Resources -> States]
    /\ used \in SUBSET Resources /\ object \in SUBSET Resources
    /\ work \in [Processes -> [Resources -> [pc : Phases, ca : 0..MaxVersion,
                                   cert : 0..MaxVersion, key : 0..MaxVersion]]]
    /\ edits \in 0..MaxEdits /\ faults \in 0..MaxFaults

Uses(r) == deployment.uses[r]
Key(c)  == deployment.names[c]
Clash(c) == \E d \in Configs \ {c} : Key(d) = Key(c) /\ FlavourOf[d] \in WithTLS

-------------------------------------------------------------------------------
(* The next step of SetupSelected, given when it is done.                  *)
SetsUp(p, done) ==
    LET todo == deployment.flavours[p]
        next == Cardinality(process[p].controls) + 1
    IN  /\ process[p].pc = "setup"
        /\ IF done THEN process' = [process EXCEPT ![p].pc = "elect"]
           ELSE IF todo[next] \in Flavours \ process[p].controls
           THEN process' = [process EXCEPT ![p].controls = @ \cup {todo[next]}]
           ELSE process' = [process EXCEPT ![p].pc = "exited"]
        /\ UNCHANGED <<deployment, lease, registry, secret, apiVars, object, work,
                       edits, faults>>

AllSetUp(p) == Cardinality(process[p].controls) = Len(deployment.flavours[p])

(* Mutant of Setup: the first flavour is the last.                         *)
SetupFirst(p) == SetsUp(p, process[p].controls # {})

(* SetupSelected sets up the controllers of one name after the other.  A   *)
(* name that is not known and a controller that is there already end the   *)
(* process.                                                                *)
Setup(p) == SetsUp(p, AllSetUp(p))

(* Manager.Start.  The lease has one name, whatever the flavours are.      *)
Start(p) ==
    /\ process[p].pc = "elect"
    /\ IF deployment.elects THEN lease = None /\ lease' = p ELSE UNCHANGED lease
    /\ process' = [process EXCEPT ![p].pc = "running"]
    /\ UNCHANGED <<deployment, registry, secret, apiVars, object, work, edits, faults>>

(* A process ends, and is started again; its lease expires.                *)
Crash(p) ==
    /\ process[p].pc # "exited"
    /\ faults < MaxFaults /\ faults' = faults + 1
    /\ process' = [process EXCEPT ![p] = [pc |-> "setup", controls |-> {}]]
    /\ lease' = IF lease = p THEN None ELSE lease
    /\ registry' = [registry EXCEPT ![p] = [k \in Keys |-> None]]
    /\ work' = [work EXCEPT ![p] = [r \in Resources |-> Idle]]
    /\ counted' = [counted EXCEPT ![p] = {}]
    /\ UNCHANGED <<deployment, secret, config, served, mr, used, object, edits>>

-------------------------------------------------------------------------------
Controls(p, f) == process[p].pc = "running" /\ f \in process[p].controls
Works(p, r, phase) == work[p][r].pc = phase
Goes(p, r, phase)  == work' = [work EXCEPT ![p][r].pc = phase]
Ends(p, r)         == work' = [work EXCEPT ![p][r] = Idle]
Local == UNCHANGED <<deployment, process, lease, secret, edits, faults>>

Begin(p, r) ==
    /\ Controls(p, FlavourOf[Uses(r)])
    /\ Works(p, r, "idle") /\ mr[r] # "gone"
    /\ Goes(p, r, "track")
    /\ Local /\ UNCHANGED <<registry, apiVars, object>>

(* Mutant of Track: that the use could not be recorded is ignored.         *)
TrackIgnored(p, r) ==
    /\ Works(p, r, "track")
    /\ used' \in {used, used \cup {r}}
    /\ Goes(p, r, "config")
    /\ Local /\ UNCHANGED <<registry, holdVars, mr, object>>

(* Connect: the use of the ProviderConfig is tracked before it is read.    *)
Track(p, r) ==
    /\ Works(p, r, "track")
    /\ used' = IF mr[r] = "gone" THEN used ELSE used \cup {r}
    /\ Goes(p, r, "config")
    /\ Local /\ UNCHANGED <<registry, holdVars, mr, object>>

(* The configuration is there, deleted or not, and its tls field is one    *)
(* that validateTLSConfig takes.                                           *)
Found(c)    == config[c] # "gone"
ValidTLS(c) == deployment.tls[c] # "invalid"

(* Mutant of GetProviderConfig: a configuration that is deleted is refused.*)
GetUndeletedConfig(p, r) ==
    /\ Works(p, r, "config")
    /\ IF config[Uses(r)] \in {"deleting", "gone"}
       THEN Ends(p, r) ELSE Goes(p, r, "connected")
    /\ Local /\ UNCHANGED <<registry, apiVars, object>>

(* Connect, GetProviderConfig and LoadConfig up to the first secret.       *)
GetProviderConfig(p, r) ==
    LET c == Uses(r)
    IN  /\ Works(p, r, "config")
        /\ IF ~Found(c) \/ ~ValidTLS(c)
           THEN Ends(p, r)
           ELSE Goes(p, r, IF FlavourOf[c] \in WithTLS /\ deployment.tls[c] = "custom"
                           THEN "ca" ELSE "connected")
        /\ served' = IF config[c] = "present" THEN served \cup {r} ELSE served
        /\ Local /\ UNCHANGED <<registry, config, counted, mr, used, object>>

(* registerTLS and getClientKeyPair read the three secrets one by one.     *)
GetCACert(p, r) ==
    /\ Works(p, r, "ca")
    /\ work' = [work EXCEPT ![p][r] = [@ EXCEPT !.pc = "cert", !.ca = secret[Uses(r)]]]
    /\ Local /\ UNCHANGED <<registry, apiVars, object>>

GetClientCert(p, r) ==
    /\ Works(p, r, "cert")
    /\ work' = [work EXCEPT ![p][r] = [@ EXCEPT !.pc = "key", !.cert = secret[Uses(r)]]]
    /\ Local /\ UNCHANGED <<registry, apiVars, object>>

GetClientKey(p, r) ==
    /\ Works(p, r, "key")
    /\ work' = [work EXCEPT ![p][r] = [@ EXCEPT !.pc = "register", !.key = secret[Uses(r)]]]
    /\ Local /\ UNCHANGED <<registry, apiVars, object>>

(* What is registered of a worker's copies.                                *)
Loaded(p, r) == [config |-> Uses(r), ca |-> work[p][r].ca, pair |-> work[p][r].cert]

Registered(p, r, names, loaded) ==
    /\ Works(p, r, "register")
    /\ IF work[p][r].cert = work[p][r].key
       THEN /\ registry' = [registry EXCEPT ![p] =
                               [k \in Keys |-> IF k \in names THEN loaded ELSE @[k]]]
            /\ work' = [work EXCEPT ![p][r] = [Idle EXCEPT !.pc = "connected"]]
       ELSE Ends(p, r) /\ UNCHANGED registry
    /\ Local /\ UNCHANGED <<apiVars, object>>

(* Mutants of Register: what was registered once is kept; a registration   *)
(* has the name of any configuration.                                      *)
RegisterOnce(p, r) ==
    Registered(p, r, {k \in {Key(Uses(r))} : registry[p][k] = None}, Loaded(p, r))
RegisterAnyName(p, r) == Registered(p, r, Keys, Loaded(p, r))

(* A certificate and a key that do not match are an error, and any CA will *)
(* do; RegisterTLSConfig replaces what is there.                           *)
Register(p, r) == Registered(p, r, {Key(Uses(r))}, Loaded(p, r))

(* A query of the controller, on a connection of its own: the object is    *)
(* created, or dropped when the resource is deleted.                       *)
Query(p, r) ==
    /\ Works(p, r, "connected")
    /\ object' = IF mr[r] = "present" THEN object \cup {r} ELSE object \ {r}
    /\ Local /\ UNCHANGED <<registry, apiVars, work>>

(* The reconcile ends, and releases a deleted resource that is not there.  *)
Finish(p, r) ==
    /\ Works(p, r, "connected")
    /\ mr[r] = "present" <=> r \in object
    /\ Ends(p, r)
    /\ IF mr[r] = "deleting"
       THEN mr' = [mr EXCEPT ![r] = "gone"] /\ used' = used \ {r}
       ELSE UNCHANGED <<mr, used>>
    /\ Local /\ UNCHANGED <<registry, holdVars, object>>

CallFails(p, r) ==
    /\ ~Works(p, r, "idle")
    /\ faults < MaxFaults /\ faults' = faults + 1
    /\ Ends(p, r)
    /\ UNCHANGED <<deployment, process, lease, registry, secret, apiVars, object, edits>>

(* The kinds of configurations that have a controller: of the namespaced   *)
(* flavours mysql alone sets one up for ClusterProviderConfigs.            *)
Watched(c) == c \notin ClusterKind \/ FlavourOf[c] = "mysql"
Holds(p, c) == Controls(p, FlavourOf[c]) /\ Watched(c)
ElseSame == UNCHANGED <<deployment, process, lease, registry, secret, served, mr, used,
                        object, work, edits, faults>>

(* A reconcile of a ProviderConfig adds the finalizer, or lists the uses   *)
(* of a deleted one and removes it if there are none.                      *)
ClaimConfig(p, c) ==
    /\ Holds(p, c) /\ config[c] = "new"
    /\ config' = [config EXCEPT ![c] = "present"]
    /\ ElseSame /\ UNCHANGED counted

CountUses(p, c) ==
    /\ Holds(p, c) /\ config[c] = "deleting" /\ c \notin counted[p]
    /\ \A r \in used : Uses(r) # c
    /\ counted' = [counted EXCEPT ![p] = @ \cup {c}]
    /\ ElseSame /\ UNCHANGED config

(* By now there may be uses again: Connect takes a deleted configuration.  *)
ReleaseConfig(p, c) ==
    /\ c \in counted[p]
    /\ config' = [config EXCEPT ![c] = "gone"]
    /\ counted' = [counted EXCEPT ![p] = @ \ {c}]
    /\ ElseSame

ReconcileConfig(p, c) == ClaimConfig(p, c) \/ CountUses(p, c) \/ ReleaseConfig(p, c)

-------------------------------------------------------------------------------
(* The users of the API server.                                            *)
Edit(c) ==
    /\ \E r \in Resources : Uses(r) = c
    /\ edits < MaxEdits /\ edits' = edits + 1
    /\ UNCHANGED <<deployment, process, lease, registry, used, object, work, faults>>

Rotate(c) ==
    /\ deployment.tls[c] = "custom" /\ secret[c] < MaxVersion
    /\ secret' = [secret EXCEPT ![c] = @ + 1]
    /\ Edit(c) /\ UNCHANGED <<mr, holdVars>>

DeleteResource(r) ==
    /\ mr[r] = "present"
    /\ mr' = [mr EXCEPT ![r] = "deleting"]
    /\ Edit(Uses(r)) /\ UNCHANGED <<secret, holdVars>>

(* Nothing holds a configuration that has no finalizer.                    *)
DeleteConfig(c) ==
    /\ config[c] \in {"new", "present"}
    /\ config' = [config EXCEPT ![c] = IF @ = "new" THEN "gone" ELSE "deleting"]
    /\ Edit(c) /\ UNCHANGED <<secret, counted, served, mr>>

(* The ProviderConfigs that resources refer to are there.                  *)
Init ==
    /\ deployment \in Deployments
    /\ process = [p \in Processes |-> [pc |-> "setup", controls |-> {}]]
    /\ lease = None
    /\ registry = [p \in Processes |-> [k \in Keys |-> None]]
    /\ secret = [c \in Configs |-> 1]
    /\ config = [c \in Configs |->
                    IF \A r \in Resources : Uses(r) # c THEN "gone"
                    ELSE IF c \in deployment.claimed THEN "present" ELSE "new"]
    /\ counted = [p \in Processes |-> {}] /\ served = {}
    /\ mr = [r \in Resources |-> "present"]
    /\ used = {} /\ object = {}
    /\ work = [p \in Processes |-> [r \in Resources |-> Idle]]
    /\ edits = 0 /\ faults = 0

Connect(p, r) ==
    \/ Track(p, r) \/ GetProviderConfig(p, r)
    \/ GetCACert(p, r) \/ GetClientCert(p, r) \/ GetClientKey(p, r) \/ Register(p, r)

Reconcile(p, r) == Begin(p, r) \/ Connect(p, r) \/ Query(p, r) \/ Finish(p, r)
StartUp(p) == Setup(p) \/ Start(p)

Next ==
    \/ \E p \in Processes : StartUp(p) \/ Crash(p)
    \/ \E p \in Processes, r \in Resources : Reconcile(p, r) \/ CallFails(p, r)
    \/ \E p \in Processes, c \in Configs : ReconcileConfig(p, c)
    \/ \E c \in Configs : Rotate(c) \/ DeleteConfig(c)
    \/ \E r \in Resources : DeleteResource(r)

Spec == Init /\ [][Next]_vars

(* A process that was started goes on; a resource is reconciled again, and *)
(* its reconcile, which has finitely many queries, ends.                   *)
FairSpec ==
    /\ Spec
    /\ \A p \in Processes : WF_vars(StartUp(p))
    /\ \A p \in Processes, r \in Resources :
          /\ WF_vars(Begin(p, r) \/ Connect(p, r))
          /\ WF_vars(Query(p, r)) /\ WF_vars(Finish(p, r))
    /\ \A p \in Processes, c \in Configs : WF_vars(ReconcileConfig(p, c))

-------------------------------------------------------------------------------
(* A reconcile that has its connection connects with a matched pair of its *)
(* own configuration, whatever other workers register meanwhile and        *)
(* whenever the process was started, as long as no two configurations have *)
(* one name (LoadConfig, registerTLS).                                     *)
ConnectsAsConfigured ==
    \A p \in Processes, r \in Resources :
        /\ Works(p, r, "connected") /\ ~Clash(Uses(r))
        /\ FlavourOf[Uses(r)] \in WithTLS /\ deployment.tls[Uses(r)] = "custom"
        => /\ registry[p][Key(Uses(r))] # None
           /\ registry[p][Key(Uses(r))].config = Uses(r)

(* A ProviderConfig outlives the objects that can only be dropped with its *)
(* credentials, if their resources have been given it while it had its     *)
(* finalizer and was not deleted.  A resource that was only ever given it  *)
(* before or after may lose it: its use may be recorded, and the deleted   *)
(* configuration read, between the count of the uses and the release       *)
(* (Connect: the use is tracked before the configuration is read).         *)
ConfigOutlivesObjects ==
    \A r \in object \cap served : config[Uses(r)] # "gone"

(* Every flavour that a process was started for, and did not refuse to     *)
(* start for, is in the end reconciled by some process for good            *)
(* (SetupSelected, main).                                                  *)
FlavoursRun ==
    \A f \in Flavours, p \in Processes :
        <>[](\/ process[p].pc = "exited"
             \/ \A i \in DOMAIN deployment.flavours[p] :
                   deployment.flavours[p][i] = f =>
                       \E q \in Processes : Controls(q, f))

(* Once rotations end, the registry of a process that reconciles resources *)
(* of a configuration holds its current material for good, though workers  *)
(* that read the material before a rotation may register it after one that *)
(* read the new (registerTLS).                                             *)
RegistryIsFresh ==
    \A p \in Processes, r \in Resources :
        <>[](LET c == Uses(r)
             IN  \/ ~Controls(p, FlavourOf[c]) \/ Clash(c) \/ mr[r] = "gone"
                 \/ FlavourOf[c] \notin WithTLS \/ deployment.tls[c] # "custom"
                 \/ config[c] = "gone"
                 \/ registry[p][Key(c)] =
                       [config |-> c, ca |-> secret[c], pair |-> secret[c]])

(* What is deleted goes away for good: a resource if its configuration     *)
(* lets it connect, a configuration once nothing uses it.                  *)
DeletionCompletes ==
    \A r \in Resources :
        LET c == Uses(r)
        IN  /\ <>[](mr[r] = "deleting" =>
                      \/ ~Found(c) \/ ~ValidTLS(c)
                      \/ \A p \in Processes : ~Controls(p, FlavourOf[c]))
            /\ <>[](config[c] = "deleting" =>
                      \/ \E q \in used : Uses(q) = c
                      \/ \A p \in Processes : ~Controls(p, FlavourOf[c]))
===============================================================================
