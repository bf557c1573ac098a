-------------------------- MODULE SmbShareManager --------------------------
(***************************************************************************)
(* The SmbShare controller: the reconciler of internal/resources/          *)
(* smbshare.go and getters.go, run by controllers/smbshare_controller.go   *)
(* against a Kubernetes API server it writes to directly and reads through *)
(* a cache that lags.                                                      *)
(*                                                                         *)
(* A pass (Process) fetches an SmbShare and walks a fixed list of steps;   *)
(* the first step that has something to write writes it and ends the pass, *)
(* and the share is queued again.  Every pass so makes AT MOST ONE write,  *)
(* and the model has one action for each way a pass can end, whose guard   *)
(* Past...(n) says that the steps before it had nothing to do.  The        *)
(* objects a pass reads are cached one by one and each may lag by itself,  *)
(* so a pass that reads them at different moments is a pass too.           *)
(*                                                                         *)
(* The API server, the cache, the work queue, the garbage collector and    *)
(* the users are external: they are modelled from how the code uses them.  *)
(* One namespace; the cluster is plain Kubernetes (the OpenShift steps and *)
(* the metrics step of Update return Done at once there).                  *)
(***************************************************************************)
EXTENDS Naturals, FiniteSets, OwnerRefs

CONSTANTS
    Names,          \* SmbShare resource names
    Groups,         \* server group names: the names and what specs may ask for
    Keys,           \* share names SMB clients see: the names and spec.shareName
    Claims,         \* PersistentVolumeClaim names users choose
    Confs,          \* SmbSecurityConfig names
    ADConfs,        \* the ones in active-directory mode
    SpecsOf,        \* the specs users give each SmbShare
    ClusterSupport, \* whether the operator may create clusters (MayCluster)
    Lagging,        \* the kinds of object whose cache may lag the server
    MaxLives,       \* bound: how often users create a share of each name
    MaxEdits,       \* bound: user edits other than creating and deleting shares
    MaxSize,        \* bound: largest minClusterSize and replica count
    None,           \* no such object
    NoConf, NoKey, NoGroup, NoBackend, NoShare, NoSection, NoCustom

VARIABLES
    share,     \* SmbShares on the API server
    obj,       \* the objects the operator creates, on the API server
    confs,     \* the SmbSecurityConfigs that exist
    seenShare, \* the operator's cached SmbShares
    seenObj,   \* the operator's cached objects
    queue,     \* names in the work queue (a set: it drops duplicates)
    lives,     \* how many shares have borne each name so far
    edits      \* user edits left

server == <<share, obj, confs>>
cache == <<seenShare, seenObj>>
user == <<lives, edits>>
vars == <<share, obj, confs, seenShare, seenObj, queue, lives, edits>>

-----------------------------------------------------------------------------
(* Data *)

(* The uid of the k-th share of a name is k: a uid is never used again, and *)
(* wherever the code compares one the names are at hand.                   *)
Uids == UNION {1 .. MaxLives[n] : n \in Names}

(* A share's directory is mounted by its uid, or by the name of the group  *)
(* its spec asks for (Paths.ShareMountPath).                               *)
MountPaths == ({"uid"} \X Names \X Uids) \cup ({"group"} \X (Groups \cup {NoGroup}))

INSTANCE ContainerConfig WITH Realms <- Confs, NoRealm <- NoConf, Paths <- MountPaths

(* Claims named by a user, after a share (pvcName) and after a group       *)
(* (sharedStatePVCName).                                                   *)
NoPvc == <<"unset">>
DataPvcNames == ({"named"} \X Claims) \cup ({"share"} \X Names)
PvcNames == DataPvcNames \cup ({"state"} \X Groups)

SmbShareSpec == [groupMode : {"never", "explicit"}, group : Groups \cup {NoGroup},
          clustered : BOOLEAN, size : 0 .. MaxSize,
          pvc : DataPvcNames \cup {NoPvc}, needsPvc : BOOLEAN,
          conf : Confs \cup {NoConf}, key : Keys \cup {NoKey},
          readOnly : YesNo, custom : YesNo \cup {NoCustom}]

Backends == {"clustered", "standard"}

SmbShare == [uid : Uids, spec : SmbShareSpec, deleting : BOOLEAN, fin : BOOLEAN,
             group : Groups \cup {NoGroup}, backend : Backends \cup {NoBackend}]

OwnedKinds == {"Deployment", "StatefulSet", "Service"}
Ids == ({"ConfigMap"} \X Groups) \cup (OwnedKinds \X Groups) \cup ({"PVC"} \X PvcNames)
Kinds == {"SmbShare", "ConfigMap", "PVC"} \cup OwnedKinds

(* The pods of a Deployment or StatefulSet: replicas, the claim they mount *)
(* and where they mount it.                                                *)
Workload == [replicas : 0 .. MaxSize, pvc : DataPvcNames \cup {NoPvc}, mount : MountPaths]

Body(kind) ==
    IF kind = "ConfigMap" THEN Config
    ELSE IF kind \in {"Deployment", "StatefulSet"} THEN Workload
    ELSE {None}

Object(kind) == [refs : Seq(OwnerRef(Names, Uids)), body : Body(kind)]

ASSUME NamesAssumption == Names \subseteq Groups /\ Names \subseteq Keys
ASSUME ConfsAssumption == ADConfs \subseteq Confs
ASSUME SpecsAssumption == \A n \in Names : SpecsOf[n] \subseteq SmbShareSpec
ASSUME LaggingAssumption == Lagging \subseteq Kinds
ASSUME NoneAssumption ==
    None \notin SmbShare /\ \A kind \in Kinds : None \notin Object(kind)
ASSUME SentinelsAssumption == NoGroup \notin Groups /\ NoBackend \notin Backends
ASSUME ConfigAssumption == NoShare \notin ShareConfig /\ NoSection \notin ConfigSection
ASSUME BoundsAssumption ==
    MaxLives \in [Names -> Nat] /\ MaxEdits \in Nat /\ MaxSize \in Nat \ {0}

TypeOK ==
    /\ share \in [Names -> SmbShare \cup {None}]
    /\ seenShare \in [Names -> SmbShare \cup {None}]
    /\ \A o \in Ids : obj[o] \in Object(o[1]) \cup {None}
    /\ \A o \in Ids : seenObj[o] \in Object(o[1]) \cup {None}
    /\ DOMAIN obj = Ids /\ DOMAIN seenObj = Ids
    /\ confs \subseteq Confs
    /\ queue \subseteq Names
    /\ lives \in [Names -> Nat]
    /\ \A n \in Names : lives[n] <= MaxLives[n]
    /\ edits \in 0 .. MaxEdits

Init ==
    /\ share = [n \in Names |-> None]
    /\ seenShare = share
    /\ obj = [o \in Ids |-> None]
    /\ seenObj = obj
    /\ confs = Confs
    /\ queue = {}
    /\ lives = [n \in Names |-> 0]
    /\ edits = MaxEdits

-----------------------------------------------------------------------------
(* The API server, the cache and the work queue *)

(* Whom an event about an object wakes: its controlling owners, before and *)
(* after (Owns enqueues no other owner).                                   *)
Woken(old, new) ==
    (IF old = None THEN {} ELSE ControllersOf(old.refs))
        \cup (IF new = None THEN {} ELSE ControllersOf(new.refs))

(* Object o becomes new on the server.  A kind that does not lag is in the *)
(* cache, its event delivered, at once.                                    *)
ChangeObject(o, new) ==
    /\ obj' = [obj EXCEPT ![o] = new]
    /\ IF o[1] \in Lagging \/ new = seenObj[o]
       THEN UNCHANGED <<seenObj, queue>>
       ELSE /\ seenObj' = [seenObj EXCEPT ![o] = new]
            /\ queue' = queue \cup Woken(seenObj[o], new)

(* The same of SmbShare n, whose event wakes n itself. *)
ChangeShare(n, new) ==
    /\ share' = [share EXCEPT ![n] = new]
    /\ IF "SmbShare" \in Lagging
       THEN UNCHANGED <<seenShare, queue>>
       ELSE /\ seenShare' = [seenShare EXCEPT ![n] = new]
            /\ queue' = queue \cup {n}

(* A write by the operator is based on the copy it read: the server takes  *)
(* it only when that copy is current (resourceVersion; a Create finds no   *)
(* object), and otherwise the pass ends with an error that queues it again.*)
(* A write that goes through returns Requeue: n stays queued either way.   *)
WriteObject(o, new) ==
    /\ IF seenObj[o] = obj[o]
       THEN ChangeObject(o, new)
       ELSE UNCHANGED <<obj, seenObj, queue>>
    /\ UNCHANGED <<share, seenShare, confs, user>>

WriteShare(n, new) ==
    /\ IF seenShare[n] = share[n]
       THEN ChangeShare(n, new)
       ELSE UNCHANGED <<share, seenShare, queue>>
    /\ UNCHANGED <<obj, seenObj, confs, user>>

(* The cache catches up with the server, and the event is handled. *)
SyncObject(o) ==
    /\ seenObj[o] # obj[o]
    /\ seenObj' = [seenObj EXCEPT ![o] = obj[o]]
    /\ queue' = queue \cup Woken(seenObj[o], obj[o])
    /\ UNCHANGED <<server, seenShare, user>>

SyncShare(n) ==
    /\ seenShare[n] # share[n]
    /\ seenShare' = [seenShare EXCEPT ![n] = share[n]]
    /\ queue' = queue \cup {n}
    /\ UNCHANGED <<server, seenObj, user>>

(* A periodic resync, or a status change of a controlled object. *)
Trigger(n) ==
    /\ seenShare[n] # None
    /\ n \notin queue
    /\ queue' = queue \cup {n}
    /\ UNCHANGED <<server, cache, user>>

(* The operator restarts, or another replica takes the lease over: a fresh *)
(* cache, and an event for every object in it.                             *)
Restart ==
    /\ seenShare' = share
    /\ seenObj' = obj
    /\ queue' = {n \in Names : share[n] # None}
                    \cup UNION {Woken(None, obj[o]) : o \in Ids}
    /\ UNCHANGED <<server, user>>

-----------------------------------------------------------------------------
(* What a pass derives from the share it fetched *)

IsLive(s) == s # None /\ ~s.deleting

(* setServerGroup: the group a spec asks for, NoGroup where it is refused. *)
RequestedGroup(n, spec) ==
    IF spec.groupMode = "explicit" THEN spec.group
    ELSE IF spec.group = NoGroup THEN n ELSE NoGroup

(* shareName *)
ShareKey(n, spec) == IF spec.key = NoKey THEN n ELSE spec.key

(* pvcName *)
PvcName(n, spec) == IF spec.pvc = NoPvc THEN <<"share", n>> ELSE spec.pvc

(* The claim name in memory once updatePVC is past: what buildDeployment   *)
(* and buildStatefulSet mount, and what updateBackend saves.               *)
PvcInMemory(n, spec) == IF spec.needsPvc THEN PvcName(n, spec) ELSE spec.pvc

(* Paths.ShareMountPath *)
ShareMountPath(n, s) ==
    IF s.spec.groupMode = "explicit" THEN <<"group", s.spec.group>> ELSE <<"uid", n, s.uid>>

BackendOf(spec) == IF spec.clustered THEN "clustered" ELSE "standard"

PlanOf(n, s) ==
    [key |-> ShareKey(n, s.spec), path |-> ShareMountPath(n, s),
     readOnly |-> s.spec.readOnly, custom |-> s.spec.custom,
     realm |-> IF s.spec.conf \in ADConfs THEN s.spec.conf ELSE NoConf,
     clustered |-> s.spec.clustered]

(* getShareInstance fails when the config the spec names does not exist. *)
HasInstance(spec) == spec.conf = NoConf \/ spec.conf \in confs

(* CheckCompatible *)
Compatible(spec, other) == spec.pvc = other.pvc /\ spec.conf = other.conf

ConfigMap(s) == <<"ConfigMap", s.group>>
Deployment(s) == <<"Deployment", s.group>>
StatefulSet(s) == <<"StatefulSet", s.group>>
Service(s) == <<"Service", s.group>>
StatePvc(s) == <<"PVC", <<"state", s.group>>>>
DataPvc(n, s) == <<"PVC", PvcName(n, s.spec)>>

Exists(o) == o \in Ids /\ seenObj[o] # None

(* Mutation of Create: the controller reference is forgotten. *)
CreateUnowned(o, n, body) ==
    /\ ~Exists(o)
    /\ WriteObject(o, [refs |-> <<>>, body |-> body])

(* getOrCreate...: a new object is owned and controlled by its creator. *)
Create(o, n, body) ==
    /\ ~Exists(o)
    /\ WriteObject(o, [refs |-> <<ControllerRef(n, seenShare[n].uid)>>, body |-> body])

(* claimOwnership *)
Claimed(o, n) == Exists(o) /\ HasOwnerNamed(seenObj[o].refs, n)

(* Mutation of Claim: the share takes the object over from its owners. *)
ClaimAlone(o, n) ==
    /\ Exists(o) /\ ~Claimed(o, n)
    /\ WriteObject(o, [seenObj[o] EXCEPT !.refs = <<PlainRef(n, seenShare[n].uid)>>])

Claim(o, n) ==
    /\ Exists(o) /\ ~Claimed(o, n)
    /\ WriteObject(o, [seenObj[o] EXCEPT !.refs = Append(@, PlainRef(n, seenShare[n].uid))])

(* The body of the workload a pass of share n creates. *)
NewWorkload(n, replicas) ==
    [replicas |-> replicas,
     pvc      |-> PvcInMemory(n, seenShare[n].spec),
     mount    |-> ShareMountPath(n, seenShare[n])]

-----------------------------------------------------------------------------
(* Process: a share that is gone, or deleted and finalized, needs nothing. *)

NothingToDo(n) ==
    /\ n \in queue
    /\ seenShare[n] # None => seenShare[n].deleting /\ ~seenShare[n].fin
    /\ queue' = queue \ {n}
    /\ UNCHANGED <<server, cache, user>>

-----------------------------------------------------------------------------
(* Update: one action per step that writes *)

AddFinalizer(n) ==
    /\ n \in queue /\ IsLive(seenShare[n]) /\ ~seenShare[n].fin
    /\ WriteShare(n, [seenShare[n] EXCEPT !.fin = TRUE])

(* Mutation of PastFinalizer: the finalizer is not waited for. *)
PastFinalizerUnchecked(n) == n \in queue /\ IsLive(seenShare[n])

PastFinalizer(n) == n \in queue /\ IsLive(seenShare[n]) /\ seenShare[n].fin

SetServerGroup(n) ==
    LET group == RequestedGroup(n, seenShare[n].spec)
    IN  /\ PastFinalizer(n)
        /\ seenShare[n].group = NoGroup
        /\ group # NoGroup
        /\ WriteShare(n, [seenShare[n] EXCEPT !.group = group])

PastServerGroup(n) == PastFinalizer(n) /\ seenShare[n].group # NoGroup

CreateConfigMap(n) ==
    PastServerGroup(n) /\ Create(ConfigMap(seenShare[n]), n, EmptyConfig)

ClaimConfigMap(n) == PastServerGroup(n) /\ Claim(ConfigMap(seenShare[n]), n)

PastConfigMapClaim(n) == PastServerGroup(n) /\ Claimed(ConfigMap(seenShare[n]), n)

(* updateConfiguration's sanity checks: the share's own config exists, and *)
(* the FIRST other owner of the ConfigMap exists and is compatible.        *)
MayConfigure(n) ==
    LET s      == seenShare[n]
        refs   == seenObj[ConfigMap(s)].refs
        others == OtherRefs(refs, n, s.uid)
        other  == seenShare[refs[First(others)].name]
    IN  /\ HasInstance(s.spec)
        /\ others # {} => /\ other # None
                          /\ HasInstance(other.spec)
                          /\ Compatible(s.spec, other.spec)

ConfigSeenBy(n) == seenObj[ConfigMap(seenShare[n])].body

UpdateConfiguration(n) ==
    LET plan == PlanOf(n, seenShare[n])
    IN  /\ PastConfigMapClaim(n)
        /\ MayConfigure(n)
        /\ UpdateReportsChange(ConfigSeenBy(n), plan)
        /\ WriteObject(ConfigMap(seenShare[n]),
               [seenObj[ConfigMap(seenShare[n])] EXCEPT !.body = Updated(@, plan)])

PastConfigMap(n) ==
    /\ PastConfigMapClaim(n)
    /\ MayConfigure(n)
    /\ ~UpdateReportsChange(ConfigSeenBy(n), PlanOf(n, seenShare[n]))

CreateDataPvc(n) ==
    /\ PastConfigMap(n)
    /\ seenShare[n].spec.needsPvc
    /\ Create(DataPvc(n, seenShare[n]), n, None)

PastDataPvc(n) ==
    /\ PastConfigMap(n)
    /\ seenShare[n].spec.needsPvc => Exists(DataPvc(n, seenShare[n]))

(* Mutation of UpdateBackend: a backend on record is recorded anew. *)
UpdateBackendAgain(n) ==
    /\ PastDataPvc(n)
    /\ seenShare[n].backend # BackendOf(seenShare[n].spec)
    /\ WriteShare(n, [seenShare[n] EXCEPT !.backend = BackendOf(seenShare[n].spec)])

(* updateBackend saves the whole share, a claim name set in memory too. *)
UpdateBackend(n) ==
    /\ PastDataPvc(n)
    /\ seenShare[n].backend = NoBackend
    /\ WriteShare(n, [seenShare[n] EXCEPT
                         !.backend = BackendOf(seenShare[n].spec),
                         !.spec.pvc = PvcInMemory(n, seenShare[n].spec)])

(* Mutation of PastBackend: nothing is validated. *)
PastBackendUnchecked(n) == PastDataPvc(n)

(* validateBackend *)
PastBackend(n) ==
    PastDataPvc(n) /\ seenShare[n].backend = BackendOf(seenShare[n].spec)

MayCluster(n) == PastBackend(n) /\ seenShare[n].spec.clustered /\ ClusterSupport

CreateStatePvc(n) == MayCluster(n) /\ Create(StatePvc(seenShare[n]), n, None)

PastStatePvc(n) == MayCluster(n) /\ Exists(StatePvc(seenShare[n]))

CreateStatefulSet(n) ==
    /\ PastStatePvc(n)
    /\ Create(StatefulSet(seenShare[n]), n, NewWorkload(n, seenShare[n].spec.size))

ClaimStatefulSet(n) == PastStatePvc(n) /\ Claim(StatefulSet(seenShare[n]), n)

(* Mutation of TooSmall: the comparison turned round. *)
TooLarge(n) == seenObj[StatefulSet(seenShare[n])].body.replicas > seenShare[n].spec.size

(* updateStatefulSetSize only grows. *)
TooSmall(n) == seenObj[StatefulSet(seenShare[n])].body.replicas < seenShare[n].spec.size

UpdateStatefulSetSize(n) ==
    LET o == StatefulSet(seenShare[n])
    IN  /\ PastStatePvc(n) /\ Claimed(o, n) /\ TooSmall(n)
        /\ WriteObject(o, [seenObj[o] EXCEPT !.body.replicas = seenShare[n].spec.size])

PastStandard(n) == PastBackend(n) /\ ~seenShare[n].spec.clustered

CreateDeployment(n) ==
    PastStandard(n) /\ Create(Deployment(seenShare[n]), n, NewWorkload(n, 1))

ClaimDeployment(n) == PastStandard(n) /\ Claim(Deployment(seenShare[n]), n)

UpdateDeploymentSize(n) ==
    LET o == Deployment(seenShare[n])
    IN  /\ PastStandard(n) /\ Claimed(o, n) /\ seenObj[o].body.replicas # 1
        /\ WriteObject(o, [seenObj[o] EXCEPT !.body.replicas = 1])

PastServer(n) ==
    \/ /\ PastStatePvc(n) /\ Claimed(StatefulSet(seenShare[n]), n)
       /\ ~TooSmall(n)
    \/ /\ PastStandard(n) /\ Claimed(Deployment(seenShare[n]), n)
       /\ seenObj[Deployment(seenShare[n])].body.replicas = 1

CreateService(n) == PastServer(n) /\ Create(Service(seenShare[n]), n, None)

ClaimService(n) == PastServer(n) /\ Claim(Service(seenShare[n]), n)

UpdateDone(n) ==
    /\ PastServer(n) /\ Claimed(Service(seenShare[n]), n)
    /\ queue' = queue \ {n}
    /\ UNCHANGED <<server, cache, user>>

(* A pass refused by one of Update's checks returns an error: the share    *)
(* stays queued and nothing else changes.                                  *)
UpdateError(n) ==
    /\ \/ /\ PastFinalizer(n) /\ seenShare[n].group = NoGroup
          /\ RequestedGroup(n, seenShare[n].spec) = NoGroup
       \/ PastConfigMapClaim(n) /\ ~MayConfigure(n)
       \/ PastDataPvc(n) /\ seenShare[n].backend \notin {NoBackend, BackendOf(seenShare[n].spec)}
       \/ PastBackend(n) /\ seenShare[n].spec.clustered /\ ~ClusterSupport
    /\ UNCHANGED vars

Update(n) ==
    \/ AddFinalizer(n) \/ SetServerGroup(n)
    \/ CreateConfigMap(n) \/ ClaimConfigMap(n) \/ UpdateConfiguration(n)
    \/ CreateDataPvc(n) \/ UpdateBackend(n)
    \/ CreateStatePvc(n) \/ CreateStatefulSet(n) \/ ClaimStatefulSet(n)
    \/ UpdateStatefulSetSize(n)
    \/ CreateDeployment(n) \/ ClaimDeployment(n) \/ UpdateDeploymentSize(n)
    \/ CreateService(n) \/ ClaimService(n)
    \/ UpdateDone(n) \/ UpdateError(n)

-----------------------------------------------------------------------------
(* Finalize: one action per step that writes *)

Finalizing(n) ==
    /\ n \in queue
    /\ seenShare[n] # None
    /\ seenShare[n].deleting /\ seenShare[n].fin

(* transferOwnership: where no other owner controls o, the first other     *)
(* owner whose share is there and not being deleted is made to.            *)
Heirs(o, n) ==
    {i \in OtherRefs(seenObj[o].refs, n, seenShare[n].uid) :
        IsLive(seenShare[seenObj[o].refs[i].name])}

(* Mutation of NeedsTransfer: the leaving share's own reference counts. *)
NeedsTransferUnlessControlled(o, n) ==
    /\ Exists(o)
    /\ \A i \in DOMAIN seenObj[o].refs : ~seenObj[o].refs[i].controller
    /\ Heirs(o, n) # {}

NeedsTransfer(o, n) ==
    /\ Exists(o)
    /\ \A i \in OtherRefs(seenObj[o].refs, n, seenShare[n].uid) :
            ~seenObj[o].refs[i].controller
    /\ Heirs(o, n) # {}

TransferOwnership(o, n) ==
    /\ NeedsTransfer(o, n)
    /\ WriteObject(o, [seenObj[o] EXCEPT
                          !.refs = ChangeControllerOwnerTo(@, First(Heirs(o, n)))])

TransferConfigMap(n) ==
    Finalizing(n) /\ TransferOwnership(ConfigMap(seenShare[n]), n)

(* Mutation of PruneNeeded: a config that is found is taken for changed. *)
PruneAlways(n) == Exists(ConfigMap(seenShare[n]))

PruneNeeded(n) ==
    /\ Exists(ConfigMap(seenShare[n]))
    /\ PruneReportsChange(ConfigSeenBy(n), ShareKey(n, seenShare[n].spec))

(* Mutation of PruneConfiguration: it fetches the share's config first. *)
PruneConfigurationFetching(n) ==
    LET o == ConfigMap(seenShare[n])
    IN  /\ Finalizing(n)
        /\ ~NeedsTransfer(o, n)
        /\ PruneNeeded(n)
        /\ HasInstance(seenShare[n].spec)
        /\ WriteObject(o, [seenObj[o] EXCEPT
                              !.body = Pruned(@, ShareKey(n, seenShare[n].spec))])

PruneConfiguration(n) ==
    LET o == ConfigMap(seenShare[n])
    IN  /\ Finalizing(n)
        /\ ~NeedsTransfer(o, n)
        /\ PruneNeeded(n)
        /\ WriteObject(o, [seenObj[o] EXCEPT
                              !.body = Pruned(@, ShareKey(n, seenShare[n].spec))])

(* Mutation of ConfigMapFinalized: finalization does not wait for pruning. *)
ConfigMapFinalizedUnpruned(n) ==
    Finalizing(n) /\ ~NeedsTransfer(ConfigMap(seenShare[n]), n)

ConfigMapFinalized(n) ==
    Finalizing(n) /\ ~NeedsTransfer(ConfigMap(seenShare[n]), n) /\ ~PruneNeeded(n)

(* What finalizeServerResources and finalizeDataPVC hand over, in order;   *)
(* which workload is a matter of the spec, not of the recorded backend.    *)
ServerResources(n) ==
    LET s == seenShare[n]
    IN  (IF s.spec.clustered THEN <<StatefulSet(s), StatePvc(s)>> ELSE <<Deployment(s)>>)
            \o (IF s.spec.needsPvc THEN <<DataPvc(n, s)>> ELSE <<>>)

TransferServerResources(n) ==
    LET todo == {i \in DOMAIN ServerResources(n) : NeedsTransfer(ServerResources(n)[i], n)}
    IN  /\ ConfigMapFinalized(n)
        /\ todo # {}
        /\ TransferOwnership(ServerResources(n)[First(todo)], n)

ServerResourcesFinalized(n) ==
    /\ ConfigMapFinalized(n)
    /\ \A i \in DOMAIN ServerResources(n) : ~NeedsTransfer(ServerResources(n)[i], n)

(* The last finalizer gone, the server removes the deleted share. *)
RemoveFinalizer(n) ==
    /\ ServerResourcesFinalized(n)
    /\ IF seenShare[n] # share[n]
       THEN UNCHANGED <<share, seenShare, queue>>
       ELSE /\ share' = [share EXCEPT ![n] = None]
            /\ IF "SmbShare" \in Lagging
               THEN queue' = queue \ {n} /\ UNCHANGED seenShare
               ELSE seenShare' = share' /\ UNCHANGED queue
    /\ UNCHANGED <<obj, seenObj, confs, user>>

Finalize(n) ==
    \/ TransferConfigMap(n) \/ PruneConfiguration(n)
    \/ TransferServerResources(n) \/ RemoveFinalizer(n)

Reconcile(n) == NothingToDo(n) \/ Update(n) \/ Finalize(n)

-----------------------------------------------------------------------------
(* The garbage collector: external *)

OwnerAlive(ref) == share[ref.name] # None /\ share[ref.name].uid = ref.uid

(* An object none of whose owners exists is deleted. *)
Collect(o) ==
    /\ obj[o] # None /\ obj[o].refs # <<>>
    /\ \A i \in DOMAIN obj[o].refs : ~OwnerAlive(obj[o].refs[i])
    /\ ChangeObject(o, None)
    /\ UNCHANGED <<share, seenShare, confs, user>>

(* Of an object with an owner left, references to others are dropped. *)
DropDangling(o) ==
    /\ obj[o] # None
    /\ \E i \in DOMAIN obj[o].refs : OwnerAlive(obj[o].refs[i])
    /\ \E i \in DOMAIN obj[o].refs :
        /\ ~OwnerAlive(obj[o].refs[i])
        /\ ChangeObject(o, [obj[o] EXCEPT !.refs = WithoutRef(@, i)])
    /\ UNCHANGED <<share, seenShare, confs, user>>

-----------------------------------------------------------------------------
(* The users: external *)

CreateShare(n) ==
    /\ lives[n] < MaxLives[n]
    /\ share[n] = None
    /\ \E spec \in SpecsOf[n] :
        ChangeShare(n, [uid |-> lives[n] + 1, spec |-> spec, deleting |-> FALSE, fin |-> FALSE,
                        group |-> NoGroup, backend |-> NoBackend])
    /\ lives' = [lives EXCEPT ![n] = @ + 1]
    /\ UNCHANGED <<obj, seenObj, confs, edits>>

(* Deleting a share that has a finalizer only marks it. *)
DeleteShare(n) ==
    /\ IsLive(share[n])
    /\ ChangeShare(n, IF share[n].fin THEN [share[n] EXCEPT !.deleting = TRUE] ELSE None)
    /\ UNCHANGED <<obj, seenObj, confs, user>>

EditSpec(n) ==
    /\ edits > 0 /\ share[n] # None
    /\ \E spec \in SpecsOf[n] \ {share[n].spec} :
        ChangeShare(n, [share[n] EXCEPT !.spec = spec])
    /\ edits' = edits - 1
    /\ UNCHANGED <<obj, seenObj, confs, lives>>

(* kubectl scale *)
ScaleWorkload(o) ==
    /\ edits > 0
    /\ o[1] \in {"Deployment", "StatefulSet"} /\ obj[o] # None
    /\ \E k \in 0 .. MaxSize :
        /\ k # obj[o].body.replicas
        /\ ChangeObject(o, [obj[o] EXCEPT !.body.replicas = k])
    /\ edits' = edits - 1
    /\ UNCHANGED <<share, seenShare, confs, lives>>

(* kubectl delete of an object of the operator's *)
DeleteObject(o) ==
    /\ edits > 0 /\ obj[o] # None
    /\ ChangeObject(o, None)
    /\ edits' = edits - 1
    /\ UNCHANGED <<share, seenShare, confs, lives>>

(* An SmbSecurityConfig is deleted, or created again; no share is queued. *)
ToggleConf(c) ==
    /\ edits > 0
    /\ confs' = IF c \in confs THEN confs \ {c} ELSE confs \cup {c}
    /\ edits' = edits - 1
    /\ UNCHANGED <<share, obj, cache, queue, lives>>

-----------------------------------------------------------------------------

Users ==
    \/ \E n \in Names : CreateShare(n) \/ DeleteShare(n) \/ EditSpec(n)
    \/ \E o \in Ids : ScaleWorkload(o) \/ DeleteObject(o)
    \/ \E c \in Confs : ToggleConf(c)

Next ==
    \/ \E n \in Names : Reconcile(n) \/ SyncShare(n) \/ Trigger(n)
    \/ \E o \in Ids : SyncObject(o) \/ Collect(o) \/ DropDangling(o)
    \/ Restart
    \/ Users

Spec == Init /\ [][Next]_vars

(* The worker takes every queued name in turn (a rate-limited retry comes  *)
(* back in the end), watches deliver every change in the end, and the      *)
(* collector gets to every object.  Users, resyncs and restarts owe        *)
(* nothing.                                                                *)
Fairness ==
    /\ \A n \in Names : WF_vars(Reconcile(n)) /\ WF_vars(SyncShare(n))
    /\ \A o \in Ids : WF_vars(SyncObject(o)) /\ WF_vars(Collect(o)) /\ WF_vars(DropDangling(o))

FairSpec == Spec /\ Fairness
=============================================================================
