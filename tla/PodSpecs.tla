------------------------------ MODULE PodSpecs ------------------------------
(***************************************************************************)
(* The pods of a samba server: which volumes a pod has, which containers   *)
(* run in it and in what order, and what each container mounts and is told *)
(* to read (internal/resources/pods.go and volumes.go, and the arguments   *)
(* of internal/planner/args.go).  All of it is a function of the plan.     *)
(*                                                                         *)
(* A volume is <<what it holds, index>>; the index tells join secrets      *)
(* apart.  Volume names and mount paths follow from that one to one, so    *)
(* they are left out, as are images, ports, probes and debug levels.  A    *)
(* file is known by the volume it is in.                                   *)
(***************************************************************************)
EXTENDS Naturals, Sequences

(* What the planner has to say about a pod.  dns is the security config's  *)
(* dns.register, which need not be a value the operator knows; joins tells *)
(* for each join source whether it is a user join.                         *)
PodPlan == [ad : BOOLEAN, clustered : BOOLEAN, usersSecret : BOOLEAN,
            joins : Seq(BOOLEAN), dns : STRING, metrics : BOOLEAN]

Values(seq) == {seq[i] : i \in DOMAIN seq}

-----------------------------------------------------------------------------
(* Volumes *)

Volume(holds) == <<holds, 0>>

Data == Volume("data")              \* the share's claim
SambaConfig == Volume("config")     \* the ConfigMap
UsersConfig == Volume("users")      \* the users' secret
SambaState == Volume("state")       \* /var/lib/samba
OSRun == Volume("run")
WbSockets == Volume("wb-sockets")
SvcWatch == Volume("svcwatch")
JoinJSON(i) == <<"join-data", i>>   \* the i-th join source's secret

CTDBConfig == Volume("ctdb-config")
CTDBPersistent == Volume("ctdb-persistent")
CTDBVolatile == Volume("ctdb-volatile")
CTDBSockets == Volume("ctdb-sockets")
CTDBShared == Volume("ctdb-shared") \* the group's state claim, with the nodes file

(* The volumes of a pod that go with the pod: every emptyDir. *)
EmptyDirs == {SambaState, OSRun, WbSockets, SvcWatch,
              CTDBConfig, CTDBPersistent, CTDBVolatile, CTDBSockets}

(* volKeeper.validate: no volume twice. *)
Valid(vols) == \A i, j \in DOMAIN vols : vols[i] = vols[j] => i = j

(* What seq has at those of its first n positions that are in I, in order. *)
PickedUpTo(seq, I) ==
    LET upTo[n \in 0 .. Len(seq)] ==
            IF n = 0 THEN <<>>
            ELSE IF n \in I THEN Append(upTo[n - 1], seq[n])
            ELSE upTo[n - 1]
    IN  upTo

Picked(seq, I) == PickedUpTo(seq, I)[Len(seq)]

(* volKeeper.exclude(tagData) *)
WithoutData(vols) == Picked(vols, {i \in DOMAIN vols : vols[i] # Data})

-----------------------------------------------------------------------------
(* What is in the plan *)

HasUsersConfig(plan) == ~plan.ad /\ plan.usersSecret

(* DNSRegister # never: what is neither of two values is taken for never. *)
RegistersDNS(plan) == plan.ad /\ plan.dns \in {"external-ip", "cluster-ip"}

(* getJoinSources: the volumes and, by index too, the files in them. *)
JoinVolumes(plan) ==
    LET all == [i \in DOMAIN plan.joins |-> JoinJSON(i)]
    IN  Picked(all, {i \in DOMAIN all : plan.joins[i]})

(* Mutation of JoinFiles: the files are counted without the sources that   *)
(* are skipped.                                                            *)
JoinFilesRenumbered(plan) == {JoinJSON(i) : i \in DOMAIN JoinVolumes(plan)}

JoinFiles(plan) == {JoinJSON(i) : i \in {j \in DOMAIN plan.joins : plan.joins[j]}}

(* defaultPodEnv: SAMBACC_CONFIG *)
PodEnv(plan) ==
    {SambaConfig} \cup (IF HasUsersConfig(plan) THEN {UsersConfig} ELSE {})

UsersVolume(plan) == IF HasUsersConfig(plan) THEN <<UsersConfig>> ELSE <<>>

-----------------------------------------------------------------------------
(* Containers: what each mounts and the files its environment and its      *)
(* arguments name.                                                         *)

Container(name, reads, mounts) == [name |-> name, reads |-> reads, mounts |-> mounts]

(* buildSmbdCtrs *)
SmbdContainers(plan, mounts) ==
    <<Container("smbd", PodEnv(plan), mounts),
      Container("watch-update-config", PodEnv(plan), mounts)>>
    \o (IF plan.metrics THEN <<Container("metrics", {}, WithoutData(mounts))>> ELSE <<>>)

(* buildSvcWatchCtr, buildDNSRegCtr *)
DNSContainers(plan, mounts) ==
    IF RegistersDNS(plan)
    THEN <<Container("svc-watch", {SvcWatch}, <<SvcWatch>>),
           Container("dns-register", PodEnv(plan) \cup {SvcWatch}, Append(mounts, SvcWatch))>>
    ELSE <<>>

DNSVolume(plan) == IF RegistersDNS(plan) THEN <<SvcWatch>> ELSE <<>>

(* Mutation of CTDBInitContainers: the pod waits before it registers. *)
CTDBInitWaitsFirst(plan, config) ==
    LET base == config \o <<SambaState, CTDBShared, CTDBConfig>>
    IN  <<Container("ctdb-migrate", PodEnv(plan), Append(base, CTDBPersistent)),
          Container("ctdb-must-have-node", PodEnv(plan), base),
          Container("ctdb-set-node", PodEnv(plan), base)>>

(* The last three init containers of every clustered pod. *)
CTDBInitContainers(plan, config) ==
    LET base == config \o <<SambaState, CTDBShared, CTDBConfig>>
    IN  <<Container("ctdb-migrate", PodEnv(plan), Append(base, CTDBPersistent)),
          Container("ctdb-set-node", PodEnv(plan), base),
          Container("ctdb-must-have-node", PodEnv(plan), base)>>

CTDBVolumes == <<CTDBConfig, CTDBPersistent, CTDBVolatile, CTDBSockets, CTDBShared>>

CTDBContainers(plan, config) ==
    <<Container("ctdb", PodEnv(plan), config \o CTDBVolumes),
      Container("ctdb-manage-nodes", PodEnv(plan),
                config \o <<CTDBConfig, CTDBSockets, CTDBShared>>)>>

-----------------------------------------------------------------------------
(* Pods *)

(* buildADPodSpec *)
ADPodSpec(plan) ==
    LET base   == <<SambaConfig, SambaState>>
        server == Append(base, WbSockets)
        smbd   == Append(server, Data)
    IN  [volumes    |-> smbd \o JoinVolumes(plan) \o DNSVolume(plan),
         init       |-> <<Container("init", PodEnv(plan), base),
                          Container("ensure-share-paths", PodEnv(plan), smbd),
                          Container("must-join", PodEnv(plan) \cup JoinFiles(plan),
                                    base \o JoinVolumes(plan))>>,
         containers |-> SmbdContainers(plan, smbd)
                        \o <<Container("winbind", PodEnv(plan), server)>>
                        \o DNSContainers(plan, server)]

(* buildUserPodSpec: ensure-share-paths is built before the users' secret  *)
(* is added.                                                               *)
UserPodSpec(plan) ==
    LET base == <<Data, SambaState, SambaConfig>>
        all  == Append(base, OSRun) \o UsersVolume(plan)
    IN  [volumes    |-> all,
         init       |-> <<Container("ensure-share-paths", PodEnv(plan), base)>>,
         containers |-> SmbdContainers(plan, all)]

(* buildClusteredUserPodSpec *)
ClusteredUserPodSpec(plan) ==
    LET config == <<SambaConfig>> \o UsersVolume(plan)
        all    == <<Data, SambaConfig, SambaState>> \o CTDBVolumes \o UsersVolume(plan)
    IN  [volumes    |-> all,
         init       |-> <<Container("init", PodEnv(plan), config \o <<SambaState, CTDBShared>>),
                          Container("ensure-share-paths", PodEnv(plan),
                                    config \o <<SambaState, Data>>)>>
                        \o CTDBInitContainers(plan, config),
         containers |-> CTDBContainers(plan, config) \o SmbdContainers(plan, all)]

(* Mutation of ClusteredADPodSpec: must-join does not mount the claim with *)
(* the nodes file.                                                         *)
ClusteredADPodSpecUnshared(plan) ==
    LET config  == <<SambaConfig>>
        all     == <<Data, SambaConfig, SambaState>> \o CTDBVolumes
                   \o <<WbSockets>> \o JoinVolumes(plan)
    IN  [volumes    |-> all,
         init       |-> <<Container("init", PodEnv(plan), config \o <<SambaState, CTDBShared>>),
                          Container("must-join", JoinFiles(plan),
                                    config \o <<SambaState>> \o JoinVolumes(plan))>>
                        \o CTDBInitContainers(plan, config),
         containers |-> CTDBContainers(plan, config) \o SmbdContainers(plan, all)]

(* buildClusteredADPodSpec: must-join is told of the join files alone, and *)
(* smbd's mounts are taken before the service watch's volume is added.     *)
ClusteredADPodSpec(plan) ==
    LET config  == <<SambaConfig>>
        all     == <<Data, SambaConfig, SambaState>> \o CTDBVolumes
                   \o <<WbSockets>> \o JoinVolumes(plan)
        winbind == config \o <<SambaState, WbSockets>> \o CTDBVolumes
    IN  [volumes    |-> all \o DNSVolume(plan),
         init       |-> <<Container("init", PodEnv(plan), config \o <<SambaState, CTDBShared>>),
                          Container("ensure-share-paths", PodEnv(plan),
                                    config \o <<SambaState, Data>>),
                          Container("must-join", JoinFiles(plan),
                                    config \o <<SambaState, CTDBShared>> \o JoinVolumes(plan))>>
                        \o CTDBInitContainers(plan, config),
         containers |-> CTDBContainers(plan, config)
                        \o <<Container("winbind", PodEnv(plan), winbind)>>
                        \o SmbdContainers(plan, all)
                        \o DNSContainers(plan, winbind)]

(* buildPodSpec, buildClusteredPodSpec *)
PodSpec(plan) ==
    IF plan.clustered
    THEN IF plan.ad THEN ClusteredADPodSpec(plan) ELSE ClusteredUserPodSpec(plan)
    ELSE IF plan.ad THEN ADPodSpec(plan) ELSE UserPodSpec(plan)

(* Args.Initializer: in a cluster, --skip-if-file=<the nodes file>.        *)
Skippable(plan, name) == plan.clustered /\ name \in {"init", "must-join"}
=============================================================================
