# A TLA+ model of the samba-operator

The samba-operator runs Samba servers in a Kubernetes cluster. A user declares
an `SmbShare`; the operator creates what serves it: a ConfigMap with the
samba-container configuration, a PersistentVolumeClaim, a Deployment (or, for
a CTDB cluster, a StatefulSet and a claim for its shared state) and a Service.
Shares may be *grouped*: members of a group use the same ConfigMap, workload
and Service, so reconciliations of different shares rewrite the same objects.

This directory models that part of the operator in TLA+: the reconciler of
`SmbShare`, the sharing of objects between members of a group, the
configuration it writes, what it adds on OpenShift, and the pods it lays down,
coming up and failing. TLC checks small instances; TLAPS proves every safety
property that the passing runs check, and a refinement, for every instance (some
of them under hypotheses about what users do and what lags: section 5).

Paths below are relative to the repository.

## 1. Inventory

| Component | Source | State | Operations |
|---|---|---|---|
| SmbShare reconciler | `internal/resources/smbshare.go` | none of its own: all of it is in API objects | `Process`, `Update`, `Finalize` and their steps |
| Getters and creators | `internal/resources/getters.go` | API objects | `getOrCreate*`, `getExisting*`, `getShareInstance` |
| Ownership | `internal/resources/ownership.go`, `smbshare.go:883-1001` | `ownerReferences` of shared objects | `claimOwnership`, `transferOwnership`, `changeControllerOwnerTo` |
| Planner: configuration | `internal/planner/configuration.go` | the group's configuration, in memory | `Update`, `Prune` |
| Planner: compatibility | `internal/planner/compatible.go` | none | `CheckCompatible` |
| samba-container configuration | `internal/smbcc/container_config.go`, `resources/configmap.go` | JSON in a ConfigMap | encode, decode |
| Controller | `controllers/smbshare_controller.go` | work queue, watches | `Reconcile`, `SetupWithManager` |
| Workloads | `resources/deployments.go`, `statefulsets.go` | none | build a Deployment or StatefulSet around a pod template |
| Pods | `resources/pods.go`, `volumes.go`, `planner/args.go`, `misc.go` | none here; a running pod has a samba state directory, a CTDB database, and a nodes file on a shared claim | build a pod template from a plan; then init containers and daemons follow it |
| OpenShift | `resources/openshift.go` | cached cluster type; roles of the namespace | `updateForOpenshift`, `finalizeForOpenshift` |
| Metrics | `resources/metrics.go` | a Service and a ServiceMonitor, on OpenShift only | `getOrCreateMetrics*` |
| Other controllers | `controllers/smbsecurityconfig_controller.go`, `smbcommonconfig_controller.go` | none | none (`Reconcile` returns at once) |
| Start-up | `main.go`, `internal/conf` | the operator's configuration | read once |

**How they interact.** The controller takes a share's name from its work queue
and calls `Process`, which fetches the share from the informer cache and runs
`Update` (the share lives) or `Finalize` (it is being deleted and carries the
finalizer). Both walk a fixed list of steps. A step reads objects from the
cache; if it has something to write it writes it and returns `Requeue`, which
ends the pass. So a pass makes at most one write, and everything it learned is
read again in the next. The API server refuses a write based on a stale copy.
An event on a share wakes the share; an event on an object wakes the *controlling*
owner alone (`SetupWithManager` watches ConfigMaps, claims, Deployments,
StatefulSets and Services; `Woken` in the model). The garbage
collector deletes objects whose owners have all gone.

A pod template is built once, when the workload is created, and afterwards only
the number of pods changes. From then on Kubernetes runs the init containers in
the order of the template, pod after pod, and what they find in the volumes
decides what they do.

**What is hard here.** The members of a group are reconciled independently, on
copies that may be stale, and interleave write by write; users create, edit
and delete at any moment; the operator may stop between any two writes; a name
may be used again by a new share while the previous share's references are
still about. Pods of one cluster share a machine account and a nodes file, and
come up and fail on their own. `PROJECT.json` lists each of these hazards at the line where it
bites, with the properties that would catch it.

**What makes each component correct.**

* Reconciler: nothing is owned by a share without a finalizer; the group and
  backend on record never change; what it deploys has the recorded backend;
  members do not undo each other's work, each share that lives is served in the
  end; each deletion completes; nothing is left behind.
* Ownership: at most one controlling owner, no name listed twice; control is
  handed over before the controlling share goes.
* OpenShift: what belongs to the namespace is made only under a finalizer; a
  share that stays gets all of it; shares that leave do leave.
* Pods: the lists of volumes, mounts and files fit; a pod that joins the domain
  puts no serving pod out of it; every pod serves in the end.
* Configuration: the table of shares and the section agree; one member never
  takes another's export away; an export does not outlive its share; the exports
  of one server are compatible.

## 2. Modules

| Module | Models |
|---|---|
| `OwnerRefs` | owner reference lists: the operators of `ownership.go` |
| `ContainerConfig` | the samba-container configuration, `Planner.Update` and `Planner.Prune` as functions on it |
| `SmbShareManager` | the reconciler, with the API server, cache, queue, garbage collector and users it runs against; EXTENDS `OwnerRefs`, instantiates `ContainerConfig` |
| `SmbShareProperties` | the properties, and the refinement mapping to `ShareLifecycle` |
| `ShareLifecycle` | the abstract specification: how the record of a share grows, and which lives of shares may come to own an object; no passes, cache, events or configurations |
| `MCSmbShare` | the instances for TLC; the `MC*.cfg` files choose among them |
| `OpenShift` | `openshift.go` and `metrics.go`: the account, roles and bindings of a namespace, which every share's `Update` creates and every share's `Finalize` deletes; with its properties |
| `MCOpenShift` | its instance for TLC |
| `PodSpecs` | `pods.go`, `volumes.go` and `planner/args.go`: the four kinds of pod as functions of the plan |
| `SmbPods` | the pods of one server: coming up container by container, lost, restarted, added; with its properties; EXTENDS `PodSpecs` |
| `MCSmbPods` | its instances for TLC |
| `SmbPodsProofs` | the theorems about `SmbPods` and the templates of `PodSpecs` |
| `OpenShiftProofs` | the theorems about `OpenShift` |
| `OwnerRefsProofs` | lemmas about the operators of `OwnerRefs` |
| `SmbShareManagerProofs` | theorems about the reconciler |
| `ConfigProofs`, `LifecycleProofs` | further theorems about it: the configuration, and the refinement |
| `GroupProofs` | what the members of a group do to each other: exports, compatibility, handing over |

Operators called a "mutation" of another in their comment are plausible
mistakes in the code; nothing uses them. Substituting one shows that a
property can fail.

## 3. State and actions

| Variable | Is |
|---|---|
| `share[n]` | the `SmbShare` named `n` on the API server: uid, the fields of its spec that decide something, whether it is being deleted and has the finalizer, `status.serverGroup`, the backend annotation |
| `obj[<<kind, name>>]` | an object the operator creates: its owner references and the part of its body that matters |
| `confs` | the `SmbSecurityConfig`s that exist |
| `seenShare`, `seenObj` | the informer cache |
| `queue` | the work queue |
| `lives`, `edits` | how often a name has been used; user edits left (bounds) |

Each way in which a pass can end is one action. `PastX(n)` says that every
step of `Update` up to X finds nothing to do for `n`, so the guard of an
action is the path through `Update` that leads to its write:

| Code | Actions |
|---|---|
| `Process` | `NothingToDo` |
| `addFinalizer`, `setServerGroup` | `AddFinalizer`, `SetServerGroup` |
| `updateConfigMap` | `CreateConfigMap`, `ClaimConfigMap`, `UpdateConfiguration` |
| `updatePVC` | `CreateDataPvc` |
| `updateBackend`, `validateBackend` | `UpdateBackend`; `PastBackend`, `UpdateError` |
| `updateClusteredState` | `CreateStatePvc`, `CreateStatefulSet`, `ClaimStatefulSet`, `UpdateStatefulSetSize` |
| `updateNonClusteredState` | `CreateDeployment`, `ClaimDeployment`, `UpdateDeploymentSize` |
| `updateSmbService` | `CreateService`, `ClaimService` |
| a pass with nothing to write, or an error | `UpdateDone`, `UpdateError` |
| `Finalize` | `TransferConfigMap`, `PruneConfiguration`, `TransferServerResources`, `RemoveFinalizer` |

Abstractions, and why they lose nothing the properties tell apart:

* *A pass is one step.* It reads several objects and makes at most one write
  at the end. Each object is cached by itself and lags by itself, so a pass
  that reads them at different times is a pass over some cache the model also
  reaches.
* *`resourceVersion` is content.* The server takes a write if the copy it was
  based on equals the object's present content. Where content returns to an
  earlier value the model takes a write the server would refuse: more
  behaviours, never fewer.
* *The cache skips versions.* `SyncShare` and `SyncObject` bring in the present
  version. Passes on a version in between are lost for objects that change
  twice between two syncs, but a sync after the first change is a behaviour too.
* *`Lagging`* names the kinds whose cache lags. Other kinds are seen at once.
  Lag in every kind is the code's reality; the proofs assume nothing about
  `Lagging`, and each run says which kinds it lags.
* *Errors* of the API server (other than not-found and a refused write) end a
  pass with nothing written and the share queued: a stutter step.
* *Bodies* keep what decides something: replicas, the claim mounted and the
  mount path of a workload; the tables of a configuration. Of a share's smb.conf
  options one is kept, `read only`, standing for `browseable` too; global,
  realm and idmap values are not told apart. Labels, annotations and ports are
  left out; pods are in `PodSpecs`.
* `CheckCompatible` compares names and then uids of the security config; a
  security config is its name here.
* The deletion of a claim by a user or the collector is at once and for good
  (a claim in use lingers in a real cluster but is lost all the same).

External parts are modelled from how the code uses them: the API server
(`ChangeShare`, `ChangeObject`, `WriteShare`, `WriteObject`), the cache
(`SyncShare`, `SyncObject`), the resync (`Trigger`), a restart or change of
leader (`Restart`: fresh cache, everything queued), the garbage collector
(`Collect`, `DropDangling`) and the users.

**OpenShift.** The module `OpenShift` is a model of its own, over the same
kind of pass, cache and queue. What the rest of `Update` does between
`updateForOpenshift` and the metrics steps is one step there (`Deploy`), which
fixes the account the pods run as. The account, the two roles and the two
bindings are the numbers `1..RoleCount` in the order of their creation: `CreateRole`
makes the first that the cache does not show, `DeleteRole` takes the last that
it shows. The cached type of cluster, and reads that fail, are in the model
(`Resolve`, `Fail`): a failed read of the operator's own pod means plain Kubernetes to
the code, and a failed read in `Finalize` is passed over. Shares are ungrouped.

**The life cycle.** `ShareLifecycle` has three variables: the record of each
name (uid, deleting, finalizer, group, backend), the lives that own each object,
and how often a name has been borne. `SmbShareProperties` maps the model to it:
`Records` forgets the spec of a share, `Members` forgets the order of an owner
list, its controller and the object's body, `lives` is `born`. `Adopt` is what
`addFinalizer` does, `Assign` `setServerGroup`, `Commit` `updateBackend`,
`Depart` the end of `Finalize`, `Enlist` any creation or claim, and `Discharge`
the collector dropping one owner. Its point is what it does *not* allow: an
entry of a record that changes or comes out of order, an owner that lives and
lacks the record the object needs, and a living owner struck off an object that
stays.

**Pods.** A volume in `PodSpecs` is what it holds and an index; a container is
its name, its mounts and the files it is told to read. Names and mount paths
follow from these one to one. The four builders are one operator each, and the
lists they put together keep the code's order and its moments: `ensure-share-paths`
of a standard user's pod is built before the users' secret is added, the
daemons of a clustered AD pod before the service watch's volume is.

| Variable of `SmbPods` | Is |
|---|---|
| `plan`, `template`, `size` | what the workload was created from, the pod template made of it, and its replicas |
| `at[p]` | the init container pod `p` is at; 0: no pod; after the last: starting, running |
| `state[p]`, `db[p]` | the machine account in the samba state directory and in the CTDB database: the number of the join it is of, or 0 |
| `nodes` | the cluster's nodes file |
| `joins`, `faults` | joins so far; faults left (bound) |

| Code | Actions |
|---|---|
| `updateStatefulSetSize`, `updateDeploymentSize` | `Grow`, `Sizes` |
| `buildInitCtr`, `buildMustJoinCtr`, `Initializer` | `Initialize`, `MustJoin`, `SkipInitializer` |
| `buildEnsureShareCtr` | `EnsureSharePaths` |
| `buildCTDBMigrateCtr`, `...SetNodeCtr`, `...MustHaveNodeCtr` | `Migrate`, `SetNode`, `MustHaveNode` |
| daemons | `StartDaemons` |
| Kubernetes | `StartPod`, `LosePod`, `RestartPod` |

The containers' programs are not in this repository. The model takes from their
names, arguments and mounts that: an initializer with `--skip-if-file` exits when the
file exists; joining puts a new password on the one account, so that earlier
copies of it are worthless; `ctdb-migrate` copies an account from the state
directory to the database; `ctdb-must-have-node` waits for this pod's entry;
CTDB copies the database from a node that serves. `LosePod` empties what is in an
emptyDir, `RestartPod` does not. Each action requires the mounts and files the
program needs: a builder that left one out would leave the pod waiting.

**Fairness.** `FairSpec` adds weak fairness of `Reconcile(n)` (the queue serves
every name in turn; a pass that fails is retried after a back-off), of
`SyncShare` and `SyncObject` (a watch delivers in the end), and of the
collector. Nothing is assumed of users, of resyncs or of restarts, so a
property that needs a lucky event fails. `SmbPods` has weak fairness of `ComeUp(p)`:
Kubernetes starts pods and containers that can start. Faults are not fair and are
bounded, growth is not fair: `EventuallyUp` speaks of the time after the last.

## 4. Runs

`Names` are the shares, `Groups` the names and one group that is no share's
name; `MaxLives` is how often a user creates each share, `MaxEdits` how many
other edits users make, `MaxSize` the largest cluster.

| Run | Instance | Shows |
|---|---|---|
| `MCGroupedLag` | two members; shares, ConfigMap and Deployment lag | `TypeOK`, `OneController`, `OwnersAreFinalized`, `RecordedBackend`, `ConfigIntegrity`, `LiveExportKept`, `NothingUndone`, `RefinesLifecycle` |
| `MCCamps` | three members, one of them incompatible with the others | `GroupCompatible`, `HandsOver` |
| `MCAlone` | one share with an embedded claim, two lives, one edit of any kind; shares, ConfigMap and Deployment lag | `EventuallyServed`, `DeletionCompletes`, `EventuallyCleaned` |
| `MCRestless` | one share, two lives; its mode and grouping are edited, its security config deleted and created, its objects scaled and deleted, twice in all; clustering refused | `RecordedBackend`, `GroupAndBackendFixed`, `DeletionCompletes` |
| `MCCluster` | two members of a cluster, sizes 1 and 2, shares lag | `RecordedBackend`, `NoOrphanExport`, `NothingUndone`, `EventuallyServed` |
| `MCOpenShift` | two shares in one namespace, each created twice, everything lags, one Get fails | `OpenShiftTypeOK`, `CreatorsAreFinalized`, `EventuallyReady`, `LeavingTogether` |
| `MCPods` | servers of every kind: domain or users, alone or clustered, with and without metrics, DNS, users' secret and a join source of an unknown kind; up to three pods, two faults | `PodsTypeOK`, `PodsWellBuilt`, `NoServerOusted`, `EventuallyUp` |

*Why these bounds.* Ownership, claims and pruning involve the pass of one share
and at most one other owner at a time, so two members show every interference
of two; the one place where more matter is the choice of the *first* other
owner, for `CheckCompatible` and for the heir: `MCCamps` has three, and
`MCTwoPairs` four, which it takes to break `GroupCompatible`. A second
life of a name is needed for stale references and for passes on a copy of the
previous share. One edit is enough to make a written object differ from what a
share wants; two edits take a spec away and back again. In `MCOpenShift` two
ordered objects stand for the five: each step compares an object with those
before it, and any two neighbours behave as these do. In `MCPods` two faults
lose a pod that serves and interrupt the one that takes its place; the third pod
starts after, and copies from, either of the others.

*What holds only without lag.* `NoOrphanExport` needs current reads of the
ConfigMap: if `Finalize` reads a copy older than the share's own last
`UpdateConfiguration`, it prunes nothing, and the export stays.
`HandsOver` fails in the same way. `EventuallyServed` of two members fails when
one is deleted and created again under its name: `claimOwnership` takes the old
reference for its own, the collector drops it, and no event reaches the new
share. `GroupCompatible` fails with it: the new share is not compared with the one
that took its place as first owner. These are limits of the code; the runs, and the
hypotheses of the theorems, state the conditions under which the properties
hold.

*OpenShift.* Three stronger statements were tried and do not hold, so none is
claimed. (1) That nothing is left in the namespace when the last share has gone:
`Finalize` reads the roles from a cache and passes over what it does not see.
(2) That a share's pods keep their account: another share's `Finalize` deletes it,
and no watch tells the first. (3) That a deletion completes while another
share is being set up: each pass of one undoes the last pass of the other, for
ever. `EventuallyReady` is therefore stated for the time in which none leaves and
no Get fails, and `LeavingTogether` for shares that all leave.

*Names.* `SmbShare.md:80` says that an ungrouped share is always hosted by a server
of its own. Its group has its own name, which another share may ask for
explicitly (`setServerGroup` compares nothing), and then both are on one server. No
run claims that property.

**Findings.** Five runs expect a violation: each checks what a document or a
comment says, and TLC shows a behaviour of the code that breaks it.

| Run | Property | What happens |
|---|---|---|
| `MCEmbeddedClaim` | `MountedClaimKept` | `Finalize` means to hand over a claim that a share of a group embeds, but no other member is ever an owner of it (`updatePVC` does not claim), so it is collected under the others' pods |
| `MCBackendWindow` | `ClusteredHasCtdb` | the section's CTDB flag is set before the backend is on record; an edit in between gives a StatefulSet a configuration without CTDB |
| `MCTwoPairs` | `GroupCompatible` | a share that was refused stays an owner of the ConfigMap; when it becomes the first, the next share is compared with it alone, and exported beside one with another security config |
| `MCCustom` | `CustomShareConfigApplied` | a custom option that the spec also sets is written and undone in each pass, for ever |
| `MCClusterForgets` | `NoneServesUnjoined` | the machine account is in emptyDirs, the file that makes `init` and `must-join` skip is on a claim: when the last pod is lost, the cluster comes up without an account and never joins |

## 5. Proofs

`Spec` is meant with any constants that satisfy the assumptions of
`SmbShareManager`: the share names are group names and keys, specs are typed,
and the markers for "no group" and "no backend" are none of the groups and
backends. Unless the table says more, nothing is assumed about the number of
shares, what lags, or what users do; `SmbPods` is meant with any plans, any
number of join sources, pods and faults.

| Theorem | States |
|---|---|
| `TypeCorrect` | `Spec => []TypeOK` |
| `OneControllerHolds` | `Spec => []OneController` |
| `GroupAndBackendAreFixed` | `Spec => GroupAndBackendFixed` |
| `OwnersHaveFinalizers` | `Spec => []OwnersAreFinalized` |
| `BackendIsRecorded` | `Spec => []RecordedBackend` |
| `OpenShiftTypeCorrect` (of `OpenShift`) | `Spec => []OpenShiftTypeOK` |
| `ConfigKeepsIntegrity` | `Spec => []ConfigIntegrity` |
| `LifecycleRefined` | `Spec => RefinesLifecycle` |
| `RolesHaveAFinalizer` (of `OpenShift`) | `Spec => CreatorsAreFinalized` |
| `PodsTypeCorrect` (of `SmbPods`) | `Spec => []PodsTypeOK` |
| `NoneOusted` (of `SmbPods`) | `Spec => []NoServerOusted` |
| `PodsAreWellBuilt` (of `SmbPods`) | `Spec => []PodsWellBuilt` |
| `LiveExportIsKept` | `Spec => LiveExportKept`, if `KeysApart` |
| `NothingIsUndone` | `Spec => NothingUndone`, if `KeysApart` |
| `NoExportIsOrphaned` | `Spec => []NoOrphanExport`, if `KeysFixed` and the ConfigMap does not lag |
| `LeaversHandOver` | `Spec => HandsOver`, if `ModeFixed` and neither the ConfigMap nor the workloads lag |
| `ExportsAreCompatible` | `Spec => []GroupCompatible`, if `NamesOnce`, `KeysApart`, `KeysFixed`, `ClaimsNamed` and `OneMisfit` |

**The hypotheses** of the last five (operators of `GroupProofs`) are about users and
the cache. Each excludes a behaviour of the code that the proof cannot live with:

| Hypothesis | Says | Without it |
|---|---|---|
| `KeysApart` | shares that may ask for one group bear different names | the `Finalize` of one share prunes the export of its namesake |
| `KeysFixed` | `spec.shareName` is not edited | `Prune` takes the new key away, the old one stays |
| `ModeFixed` | the availability mode is not edited | `Finalize` hands over the kind of workload that the spec asks for, not the one there is |
| `NamesOnce` | no name is used for a second share | the new share takes its predecessor's reference for its own, and is compared with the wrong share |
| `ClaimsNamed` | an embedded claim is named | two unnamed claims are equal to `CheckCompatible`, and get different names later |
| `OneMisfit` | claims and security configs are not edited, and one share at most is incompatible with the rest | an edit changes what is exported already; with two of either kind, `MCTwoPairs` |
| ConfigMap current | `"ConfigMap" \notin Lagging` | `Finalize` reads a copy without the export, or without the other owners |
| workloads current | likewise | `Finalize` sees no other owner of the workload, or no workload |

All of them but the last two hold of the specs of `MCCamps` (where there is one
misfit), `MCGroupedLag`, `MCCluster` and `MCEmbeddedClaim`; `MCTwoPairs` fails
`OneMisfit` alone. The copies of the shares themselves may always lag.

The argument. Nearly every step writes one share or one object. The lemma
`PassCases` sums up the ways a pass can end in abstract step predicates
(`WritesShare`, `WritesObject`, `OnlyQueues`), so that an invariant is proved
against a handful of cases and not against thirty actions.

* *Type correctness* follows from lemmas on the operators: what `Update` and
  `Prune` of a configuration return, and what the operators of `OwnerRefs` do to
  a list (`OwnerRefsProofs`).
* *`OneController`* is inductive with `TypeOK`: a write replaces the reference
  list the server has (it is refused otherwise) by one of `Created`, `Appended`,
  `Changed`, `Dropped`, and each of these keeps a list well formed.
* *The cache is behind, never elsewhere.* A pass acts on `seenShare`, which may
  be of an earlier moment or of an earlier share of the name. The invariant
  `CacheBehind` says that the cached share *is followed by* the one on the
  server: if both have one uid, the finalizer, group and backend that the cached
  one has are those of the real one; if not, the cached one is the older. From this
  `GroupAndBackendFixed` follows at once, although no guard in the code compares
  with the server's copy.
* *`OwnersAreFinalized` and `RecordedBackend`* are not inductive: references
  are added by passes on stale copies, on behalf of shares that may have gone. The
  inductive form (`OwnersSound`, of `RefSound`) speaks of every reference, its
  owner alive or not: its uid is of a life the name has had, and *if* it is the
  uid of the share now there, the share has the finalizer, the group and the
  backend that the object stands for. It needs `CacheBehind`, and that a uid is
  not used again (`lives` only grows).
* *`CreatorsAreFinalized`* speaks of the server while the pass that creates a
  role has only its cached copy. The invariant `CacheBacked` relates them: a
  cached share that lives and has the finalizer still exists and has it. It is
  inductive because only `RemoveFinalizer` takes such a share away, and only
  after the cache has shown that it is being deleted.
* *`ConfigKeepsIntegrity`.* `Updated` and `Pruned` each keep a configuration
  whose tables agree (`UpdatedIntact`, `PrunedIntact`), and what a pass writes to a
  ConfigMap is the empty configuration, the body it read, or one of the two
  applied to it (`PassWritesConfig`). The copy was current, or the write refused. The
  markers for "no share" and "no section" must not be values of either kind
  (`ConfigAssumption`).
* *`LifecycleRefined`.* Steps that write a share map to one entry of its record
  (`ShareStepMaps`), steps that write an object to `Enlist` or nothing
  (`ObjectStepMaps`), the collector's to `Discharge` and `Close`. That an owner that
  lives is entitled comes from `RefSound`, which was proved of every reference.
* *`NoneOusted`.* The invariant is `OneAccount`. Only pod 0 can join, and only
  while there is no nodes file (`FirstPodJoins`): the initializers of a cluster come
  before `ctdb-set-node` and mount the shared claim (`Ordered`, proved of both
  clustered builders), and a pod that is not the first starts only when pod 0
  serves, so when there is a nodes file (`Registered`, `FirstAlone`). Hence every
  account in a state directory is the last one (`Fresh`), and so is one in a
  database, except before `ctdb-migrate` in a pod that has a newer one to copy
  (`Migrated`); without that exception the invariant would not be inductive, for
  a first pod may join, migrate and be restarted before it registers.
* *`PodsWellBuilt`.* Each list of volumes and mounts is shown to list a set: its
  members, no more, none twice (`Lists`). Appending, concatenating and picking
  positions keep that (`ListsAppend`, `ListsConcat`, `ListsPicked`), so that each
  of the four builders gets a set of volumes, and what a container may be told
  of and must mount is a matter of sets (`Suits`). What `getJoinSources` and
  `exclude` return depends on all positions of a list of any length. That takes
  induction, and the library's induction theorems take an operator, so it is done on a set
  of numbers, with a least counterexample (`SetInduction`).
* *The lives of a share* (`GroupProofs`). What a pass does to an object depends on
  what it read, which is of an earlier moment of its share. `ShareMoves` says all
  that one step does to a share and its cached copy, and the invariant
  `CacheAlong` that the cached copy, if it is of the life there now, is on its way to the
  real one, and that all they have on record was asked for by some spec.
* *`LiveExportKept`.* An export is dropped in a pass of `Finalize`, by the key of a share
  that the cache shows deleting; with keys apart no other member reaches that
  key, and the real share is deleting too.
* *`NothingUndone`* is the safety half of `EventuallyServed`: passes do not undo
  each other for ever. A config that stays is rewritten by an `Update` or a
  `Prune` on its present body (`ConfigMovesNext`). Where `Update` reports no change it
  makes none (`SettledIsFixed`), so a member's own pass, which has its present spec,
  leaves the config as it is; and the `Update` and `Prune` of another key leave
  nothing to report (`SettledUpdated`, `SettledPruned`). The member's own `Finalize`
  cannot run, as a cached copy that is being deleted is of a share that is
  (`CacheAlong`). The size of a cluster is only ever raised by passes
  (`PassNeverShrinks`): a lower one is a user's doing.
* *`NoOrphanExport`* is inductive beside `CacheAlong` and `CacheCurrent` (what does
  not lag is seen as it is). A pass adds a key for a share whose finalizer it has seen on
  record, so that share still exists, with the group and the key the pass saw
  (`AddedExportReached`); the share goes only by `RemoveFinalizer`, which finds nothing
  left to prune in a ConfigMap that is current (`EndsPruned`).
* *`HandsOver`.* A member that stays and owns what the leaver controls is in the
  owner list, hence, by its finalizer, an heir in the cache as well; with a current
  workload and `ModeFixed`, `NeedsTransfer` holds, and `RemoveFinalizer` is not
  enabled.
* *`GroupCompatible`.* If all shares fit there is nothing to show. Else there is one
  odd share, and the invariant (`MisfitAlone`) says that while it is exported, it
  is the first owner and the only one exported. To be first it must stay first: a
  living owner is never struck off and never moves back
  (`RefsStay`), for with `NamesOnce` a name in the list is of the one share of that
  name. So a newcomer is compared with the odd share itself, and refused; and the odd
  one, to be exported, must have found no other owner, or a first one like itself,
  of which there is none. That exporters own the config (`ExportersListed`) and that an
  export is the doing of its one key's share (`ExportsMade`) needs `KeysApart` and
  `KeysFixed`.

Only model-checked: liveness (`EventuallyServed`, `DeletionCompletes`,
`EventuallyCleaned`, `EventuallyReady`, `LeavingTogether`, `EventuallyUp`, which
need fairness and `ENABLED`, out of the prover's reach). Every other property of a
passing run is a theorem.

## 6. Not modelled

* The composition of OpenShift with groups: `SmbShareManager` is on plain
  Kubernetes, where the OpenShift and metrics steps return at once, and `OpenShift`
  has ungrouped shares. The Namespace's other metadata, which
  `getOrUpdateNamespaceOf` overwrites, is in neither.
* Of pods: ports, probes, images, privileges, debug levels, node selectors and
  affinity. Of a plan in active-directory mode the model wants at least one user
  join; without one, `must-join` has nothing to try.
* `must-join` of a clustered AD pod is told of the join files alone, not of the
  configuration or the container's identity, unlike that of a standard AD pod
  (`pods.go:314`). `PodSpecs` has it so; what the program makes of it is not in this
  repository.
* The composition of `SmbPods` with the reconciler: a template is fixed once, so
  all that passes between them is the plan and the size.
* The security and common config controllers, which do nothing.
* Two members of a group that embed a claim and leave its name unset are equal
  to `CheckCompatible` and get different claims, of which the pods mount one.
  The model has this behaviour; no property speaks of it yet.
* `spec.shareName` edited during a share's life, and mixed groups of clustered
  and standard members, are in the model but in no run.
* A spec without `storage.pvc`: parts of the code dereference it; a panic ends a
  pass with nothing written.

## 7. Plan

Done: sections 2 to 5. Next, in this order:

1. Groups on OpenShift: metrics objects have one owner, the member that created
   them, and go with it. Property: the members that stay have metrics again
   after some event of their own. Bounds: two members.
2. The planner in detail: custom globals, realm and idmap options, an edited
   `shareName`, and several `Update`s and `Prune`s in any order against a
   reference definition of the configuration a set of shares should have.
3. Proofs: the safety half of liveness, such as that a deletion that has begun
   never turns back and that whatever is left of it is some share's to do.
