------------------------------ MODULE SmbPods ------------------------------
(***************************************************************************)
(* The pods of one samba server coming up, failing and coming up again.    *)
(* What a pod does is laid down by the operator when it creates the        *)
(* Deployment or StatefulSet (PodSpecs): its init containers run one after *)
(* the other, then all its daemons.  The operator never changes the pods'  *)
(* template; it only grows a cluster (updateStatefulSetSize).              *)
(*                                                                         *)
(* Kubernetes, the containers of samba-container and CTDB are external.    *)
(* Of what they do the model keeps what the operator's arguments and       *)
(* volumes decide: who joins the domain, where the machine account is      *)
(* kept, who registers as a node of the cluster and who waits for that.    *)
(* Pods are numbered from 0.  Every plan in active-directory mode has a    *)
(* user join.                                                              *)
(***************************************************************************)
EXTENDS PodSpecs

CONSTANTS
    Plans,     \* what the planner may have said when the server was created
    MaxPods,   \* bound: largest cluster
    MaxFaults  \* bound: pods lost or restarted

VARIABLES
    plan,     \* the plan the server was created with
    template, \* the pod template made of it, which its pods follow
    size,     \* replicas of the Deployment or StatefulSet
    at,       \* where each pod is: 0 no pod, i its i-th init container, ...
    state,    \* the machine account in each pod's samba state directory:
              \* which join it is of, 0 if none
    db,       \* the machine account in each pod's CTDB database, likewise
    nodes,    \* the pods in the cluster's nodes file, on the shared claim
    joins,    \* how often the instance has joined the domain
    faults    \* faults left

vars == <<plan, template, size, at, state, db, nodes, joins, faults>>

Pods == 0 .. (MaxPods - 1)

ASSUME PlansAssumption ==
    \A p \in Plans : p \in PodPlan /\ (p.ad => TRUE \in Values(p.joins))
ASSUME PodBoundsAssumption == MaxPods \in Nat \ {0} /\ MaxFaults \in Nat

InitSteps == Len(template.init)
Starting == InitSteps + 1   \* the init containers are done
Running == InitSteps + 2    \* the daemons serve

Up(p) == at[p] = Running

(* The machine account pod p serves with: a cluster's is in CTDB. *)
Membership(p) == IF plan.clustered THEN db[p] ELSE state[p]

(* A Deployment has one pod: see updateDeploymentSize. *)
Sizes(p) == IF p.clustered THEN 1 .. MaxPods ELSE {1}

PodsTypeOK ==
    /\ plan \in Plans
    /\ template = PodSpec(plan)
    /\ size \in Sizes(plan)
    /\ at \in [Pods -> 0 .. Running]
    /\ joins \in Nat
    /\ state \in [Pods -> 0 .. joins]
    /\ db \in [Pods -> 0 .. joins]
    /\ nodes \subseteq Pods
    /\ faults \in 0 .. MaxFaults

Init ==
    /\ plan \in Plans
    /\ template = PodSpec(plan)
    /\ size \in Sizes(plan)
    /\ at = [p \in Pods |-> 0]
    /\ state = [p \in Pods |-> 0]
    /\ db = [p \in Pods |-> 0]
    /\ nodes = {}
    /\ joins = 0
    /\ faults = MaxFaults

-----------------------------------------------------------------------------
(* Kubernetes *)

(* The StatefulSet leaves podManagementPolicy alone: a pod is started when *)
(* all before it serve.                                                    *)
StartPod(p) ==
    /\ p < size /\ at[p] = 0
    /\ \A q \in Pods : q < p => Up(q)
    /\ at' = [at EXCEPT ![p] = 1]
    /\ UNCHANGED <<plan, template, size, state, db, nodes, joins, faults>>

(* A pod is evicted or its node lost: another takes its place, with the    *)
(* same claims and empty directories.                                      *)
LosePod(p) ==
    /\ faults > 0 /\ at[p] # 0
    /\ at' = [at EXCEPT ![p] = 0]
    /\ state' = IF SambaState \in EmptyDirs THEN [state EXCEPT ![p] = 0] ELSE state
    /\ db' = IF CTDBPersistent \in EmptyDirs THEN [db EXCEPT ![p] = 0] ELSE db
    /\ faults' = faults - 1
    /\ UNCHANGED <<plan, template, size, nodes, joins>>

(* The containers of a pod are started over, its volumes kept. *)
RestartPod(p) ==
    /\ faults > 0 /\ at[p] > 1
    /\ at' = [at EXCEPT ![p] = 1]
    /\ faults' = faults - 1
    /\ UNCHANGED <<plan, template, size, state, db, nodes, joins>>

(* Mutation of Grow: a Deployment is grown too. *)
GrowEither ==
    /\ size < MaxPods
    /\ size' = size + 1
    /\ UNCHANGED <<plan, template, at, state, db, nodes, joins, faults>>

(* updateStatefulSetSize *)
Grow ==
    /\ plan.clustered /\ size < MaxPods
    /\ size' = size + 1
    /\ UNCHANGED <<plan, template, at, state, db, nodes, joins, faults>>

-----------------------------------------------------------------------------
(* The init containers of pod p *)

(* p is at the container called name, which mounts the volumes and reads   *)
(* the files the operator gave it.                                         *)
AtContainer(p, name) ==
    at[p] \in 1 .. InitSteps /\ template.init[at[p]].name = name

Mounts(p) == Values(template.init[at[p]].mounts)
Reads(p) == template.init[at[p]].reads

Skips(p) ==
    /\ Skippable(plan, template.init[at[p]].name)
    /\ CTDBShared \in Mounts(p)
    /\ nodes # {}

Done(p) == at' = [at EXCEPT ![p] = @ + 1]

(* init and must-join of a pod whose cluster has a nodes file *)
SkipInitializer(p) ==
    /\ AtContainer(p, "init") \/ AtContainer(p, "must-join")
    /\ Skips(p)
    /\ Done(p)
    /\ UNCHANGED <<plan, template, size, state, db, nodes, joins, faults>>

(* samba-container init: the configuration is imported. *)
Initialize(p) ==
    /\ AtContainer(p, "init") /\ ~Skips(p)
    /\ SambaConfig \in Mounts(p)
    /\ Done(p)
    /\ UNCHANGED <<plan, template, size, state, db, nodes, joins, faults>>

EnsureSharePaths(p) ==
    /\ AtContainer(p, "ensure-share-paths")
    /\ Data \in Mounts(p)
    /\ Done(p)
    /\ UNCHANGED <<plan, template, size, state, db, nodes, joins, faults>>

(* Joining puts a new password on the one account of the instance: what    *)
(* an earlier join left elsewhere is worth nothing from then on.           *)
MustJoin(p) ==
    /\ AtContainer(p, "must-join") /\ ~Skips(p)
    /\ Reads(p) \cap JoinFiles(plan) \cap Mounts(p) # {}
    /\ SambaState \in Mounts(p)
    /\ joins' = joins + 1
    /\ state' = [state EXCEPT ![p] = joins + 1]
    /\ Done(p)
    /\ UNCHANGED <<plan, template, size, db, nodes, faults>>

(* ctdb-migrate --dest-dir: a machine account in the state directory is    *)
(* copied to the database.                                                 *)
Migrate(p) ==
    /\ AtContainer(p, "ctdb-migrate")
    /\ {SambaState, CTDBPersistent} \subseteq Mounts(p)
    /\ db' = IF state[p] # 0 THEN [db EXCEPT ![p] = state[p]] ELSE db
    /\ Done(p)
    /\ UNCHANGED <<plan, template, size, state, nodes, joins, faults>>

SetNode(p) ==
    /\ AtContainer(p, "ctdb-set-node")
    /\ CTDBShared \in Mounts(p)
    /\ nodes' = nodes \cup {p}
    /\ Done(p)
    /\ UNCHANGED <<plan, template, size, state, db, joins, faults>>

(* ctdb-must-have-node waits. *)
MustHaveNode(p) ==
    /\ AtContainer(p, "ctdb-must-have-node")
    /\ CTDBShared \in Mounts(p)
    /\ p \in nodes
    /\ Done(p)
    /\ UNCHANGED <<plan, template, size, state, db, nodes, joins, faults>>

(* The daemons start.  CTDB brings its database in step with a node that   *)
(* serves.                                                                 *)
StartDaemons(p) ==
    /\ at[p] = Starting
    /\ LET peers == {q \in Pods : Up(q)}
       IN  IF plan.clustered /\ peers # {}
           THEN \E q \in peers : db' = [db EXCEPT ![p] = db[q]]
           ELSE db' = db
    /\ Done(p)
    /\ UNCHANGED <<plan, template, size, state, nodes, joins, faults>>

-----------------------------------------------------------------------------

InitContainer(p) ==
    \/ SkipInitializer(p) \/ Initialize(p) \/ EnsureSharePaths(p) \/ MustJoin(p)
    \/ Migrate(p) \/ SetNode(p) \/ MustHaveNode(p)

ComeUp(p) == StartPod(p) \/ InitContainer(p) \/ StartDaemons(p)

Next ==
    \/ \E p \in Pods : ComeUp(p) \/ LosePod(p) \/ RestartPod(p)
    \/ Grow

Spec == Init /\ [][Next]_vars

(* Kubernetes goes on with every pod, and every container with its work.   *)
(* Faults and growth owe nothing.                                          *)
FairSpec == Spec /\ \A p \in Pods : WF_vars(ComeUp(p))

-----------------------------------------------------------------------------
(* What the pods promise *)

Containers == Values(template.init) \cup Values(template.containers)

Named(name) == {c \in Containers : c.name = name}

(* The daemons that talk over sockets in a volume. *)
Talking(vol) ==
    IF vol = WbSockets THEN UNION {Named(n) : n \in {"winbind", "smbd", "dns-register"}}
    ELSE UNION {Named(n) : n \in {"ctdb", "ctdb-manage-nodes", "smbd", "winbind"}}

(* The volumes and mounts the builders put together, list by list, fit:    *)
(* no volume twice (volKeeper.mustValidate would panic), each mount one of *)
(* the pod's volumes, and every file a container is told of in one that it *)
(* mounts.  The one exception is ensure-share-paths of a standard pod,     *)
(* which is told of a users' file it does not get (buildUserPodSpec).      *)
PodsWellBuilt ==
    /\ Valid(template.volumes)
    /\ \A c \in Containers :
        /\ Valid(c.mounts)
        /\ Values(c.mounts) \subseteq Values(template.volumes)
        /\ c.reads \ Values(c.mounts)
              \subseteq IF c.name = "ensure-share-paths" /\ ~plan.clustered
                        THEN {UsersConfig} ELSE {}
    /\ \A vol \in {WbSockets, CTDBSockets} \cap Values(template.volumes) :
        \A c \in Talking(vol) : vol \in Values(c.mounts)

(* A pod that joins the domain puts no serving pod out of it: of a cluster *)
(* only the pod that finds no nodes file joins, whatever pods are lost or  *)
(* started over meanwhile (Initializer's --skip-if-file, and the order of  *)
(* the init containers).                                                   *)
NoServerOusted ==
    \A p \in Pods : Up(p) /\ Membership(p) # 0 => Membership(p) = joins

(* Once faults and growth are over every pod serves: no init container     *)
(* waits for ever for what a later one, or another pod, would do.          *)
EventuallyUp == \A p \in Pods : <>[](p < size => Up(p))

(* Initializer's comment: in a cluster the init containers are skipped "if *)
(* certain things have already been initialized".  So a pod that serves in *)
(* a domain is a member of it.                                             *)
NoneServesUnjoined ==
    \A p \in Pods : Up(p) /\ plan.ad => Membership(p) # 0
=============================================================================
