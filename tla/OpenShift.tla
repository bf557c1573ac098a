----------------------------- MODULE OpenShift -----------------------------
(***************************************************************************)
(* What the operator does on OpenShift besides: internal/resources/        *)
(* openshift.go and metrics.go.  The ServiceAccount, roles and bindings    *)
(* belong to the NAMESPACE: every share's Update creates what is missing   *)
(* of them, and every share's Finalize deletes them, whoever else's pods   *)
(* use them.  They have no owner, and no watch tells a share of them.      *)
(*                                                                         *)
(* The rest of a share's life is SmbShareManager's and is cut down here:   *)
(* the steps of Update between updateForOpenshift and the metrics are one  *)
(* step, which creates the workload; those of Finalize before              *)
(* finalizeForOpenshift have nothing to do; shares are ungrouped, and what *)
(* the collector deletes for want of an owner goes with the share.  The    *)
(* shares and the namespace's roles are read through a cache that lags.    *)
(***************************************************************************)
EXTENDS Naturals, FiniteSets

CONSTANTS
    Names,       \* SmbShare resource names, in one namespace
    Actual,      \* what the annotations of the operator's own pod say
    Configured,  \* the option cluster-type, "unset" by default
    RoleCount,   \* how many account, role and binding objects: five in the code
    MaxLives,    \* bound: how often users create a share of each name
    MaxFailures, \* bound: how often a Get fails other than by "not found"
    None         \* no such object

VARIABLES
    share,       \* SmbShares on the API server
    roles,       \* the namespace's account, roles and bindings that exist
    labelled,    \* the Namespace has the operator's labels
    workload,    \* the account each share's pods run as, None without pods
    metrics,     \* the metrics objects of each share
    seen,        \* the operator's cached SmbShares
    seenRoles,   \* the operator's cached account, roles and bindings
    clusterType, \* OperatorConfig.ClusterType, in the operator's memory
    queue,       \* names in the work queue
    lives,       \* how many shares have borne each name so far
    failures     \* Gets that have failed so far

operator == <<seen, seenRoles, clusterType, queue>>
vars == <<share, roles, labelled, workload, metrics, operator, lives, failures>>

Types == {"openshift", "default"}

(* In the order in which updateForOpenshift creates them: 1 ServiceAccount, *)
(* 2 SCC Role, 3 SCC RoleBinding, 4 metrics Role, 5 metrics RoleBinding.    *)
Roles == 1 .. RoleCount

MetricsKinds == {"service", "monitor"}

Uids == 1 .. MaxLives

SmbShare == [uid : Uids, deleting : BOOLEAN, fin : BOOLEAN]

ASSUME ActualAssumption == Actual \in Types
ASSUME ConfiguredAssumption == Configured \in Types \cup {"unset"}
ASSUME BoundsAssumption == RoleCount \in Nat /\ MaxLives \in Nat /\ MaxFailures \in Nat
ASSUME NoneAssumption == None \notin SmbShare

OpenShiftTypeOK ==
    /\ share \in [Names -> SmbShare \cup {None}]
    /\ seen \in [Names -> SmbShare \cup {None}]
    /\ roles \subseteq Roles /\ seenRoles \subseteq Roles
    /\ labelled \in BOOLEAN
    /\ workload \in [Names -> {"samba", "default", None}]
    /\ metrics \in [Names -> SUBSET MetricsKinds]
    /\ clusterType \in Types \cup {"unset"}
    /\ queue \subseteq Names
    /\ lives \in [Names -> 0 .. MaxLives]
    /\ failures \in 0 .. MaxFailures

Init ==
    /\ share = [n \in Names |-> None] /\ seen = share
    /\ roles = {} /\ seenRoles = {}
    /\ labelled = FALSE
    /\ workload = [n \in Names |-> None]
    /\ metrics = [n \in Names |-> {}]
    /\ clusterType = Configured
    /\ queue = {}
    /\ lives = [n \in Names |-> 0]
    /\ failures = 0

-----------------------------------------------------------------------------
(* Which kind of cluster is this? *)

(* IsOpenShiftCluster answers t after f failed Gets of the operator's pod:  *)
(* a pod that cannot be read means a default cluster.                       *)
Answers(t, f) == (t = Actual /\ f = 0) \/ (t = "default" /\ f = 1)

(* updateClusterType: the first answer is kept for the life of the process. *)
Resolve(t, f) ==
    IF clusterType = "unset"
    THEN Answers(t, f) /\ clusterType' = t
    ELSE t = clusterType /\ f = 0 /\ UNCHANGED clusterType

Fail(f) == failures + f <= MaxFailures /\ failures' = failures + f

-----------------------------------------------------------------------------
(* Update *)

IsLive(s) == s # None /\ ~s.deleting

(* The server takes a write to n that is based on its present content. *)
WriteShare(n, new) ==
    share' = IF seen[n] = share[n] THEN [share EXCEPT ![n] = new] ELSE share

AddFinalizer(n) ==
    /\ n \in queue /\ IsLive(seen[n]) /\ ~seen[n].fin
    /\ WriteShare(n, [seen[n] EXCEPT !.fin = TRUE])
    /\ UNCHANGED <<roles, labelled, workload, metrics, operator, lives, failures>>

(* Mutation of Updating: the finalizer is not waited for. *)
UpdatingAtOnce(n) == n \in queue /\ IsLive(seen[n])

Updating(n) == n \in queue /\ IsLive(seen[n]) /\ seen[n].fin

(* getOrUpdateNamespaceOf *)
LabelNamespace(n) ==
    /\ Updating(n) /\ Resolve("openshift", 0)
    /\ ~labelled
    /\ labelled' = TRUE
    /\ UNCHANGED <<share, roles, workload, metrics, seen, seenRoles, queue, lives, failures>>

(* Mutation of CreateRole: the pass ends Done, not Requeue. *)
CreateRoleDone(n) ==
    /\ Updating(n) /\ Resolve("openshift", 0)
    /\ labelled
    /\ \E i \in Roles \ seenRoles :
        /\ 1 .. (i - 1) \subseteq seenRoles
        /\ roles' = roles \cup {i}
    /\ queue' = queue \ {n}
    /\ UNCHANGED <<share, labelled, workload, metrics, seen, seenRoles, lives, failures>>

(* getOrCreate...Of: the first one missing in the cache is created; one    *)
(* that is there all the same is left alone and the pass fails.            *)
CreateRole(n) ==
    /\ Updating(n) /\ Resolve("openshift", 0)
    /\ labelled
    /\ \E i \in Roles \ seenRoles :
        /\ 1 .. (i - 1) \subseteq seenRoles
        /\ roles' = roles \cup {i}
    /\ UNCHANGED <<share, labelled, workload, metrics, seen, seenRoles, queue, lives, failures>>

(* updateForOpenshift finds nothing to do. *)
PastOpenShift(n, t, f) ==
    /\ Updating(n) /\ Resolve(t, f)
    /\ t = "openshift" => labelled /\ seenRoles = Roles

(* Mutation of Account: the type of cluster is taken for the account. *)
AccountOfType(t) == t

(* podServiceAccount *)
Account(t) == IF t = "openshift" THEN "samba" ELSE "default"

(* The steps up to the metrics, cut down to one: the pod template with its *)
(* account is fixed when the workload is created.                          *)
Deploy(n) ==
    /\ workload[n] = None
    /\ \E t \in Types, f \in 0 .. 1 :
        /\ PastOpenShift(n, t, f) /\ Fail(f)
        /\ workload' = [workload EXCEPT ![n] = Account(t)]
    /\ UNCHANGED <<share, roles, labelled, metrics, seen, seenRoles, queue, lives>>

(* getOrCreateMetrics...: this answer is not kept, and "not OpenShift" is  *)
(* a reason to do nothing.                                                 *)
NoMetricsStep(n, k, f) ==
    Answers("default", f) \/ (Answers("openshift", f) /\ k \in metrics[n])

CreateMetricsService(n) ==
    /\ workload[n] # None
    /\ "service" \notin metrics[n] /\ Answers("openshift", 0)
    /\ \E t \in Types, f \in 0 .. 1 : PastOpenShift(n, t, f) /\ Fail(f)
    /\ metrics' = [metrics EXCEPT ![n] = @ \cup {"service"}]
    /\ UNCHANGED <<share, roles, labelled, workload, seen, seenRoles, queue, lives>>

CreateServiceMonitor(n) ==
    /\ workload[n] # None
    /\ "monitor" \notin metrics[n] /\ Answers("openshift", 0)
    /\ \E t \in Types, f, f1 \in 0 .. 1 :
        PastOpenShift(n, t, f) /\ NoMetricsStep(n, "service", f1) /\ Fail(f + f1)
    /\ metrics' = [metrics EXCEPT ![n] = @ \cup {"monitor"}]
    /\ UNCHANGED <<share, roles, labelled, workload, seen, seenRoles, queue, lives>>

UpdateDone(n) ==
    /\ workload[n] # None
    /\ \E t \in Types, f, f1, f2 \in 0 .. 1 :
        /\ PastOpenShift(n, t, f)
        /\ NoMetricsStep(n, "service", f1) /\ NoMetricsStep(n, "monitor", f2)
        /\ Fail(f + f1 + f2)
    /\ queue' = queue \ {n}
    /\ UNCHANGED <<share, roles, labelled, workload, metrics, seen, seenRoles, lives>>

-----------------------------------------------------------------------------
(* Finalize *)

Finalizing(n) == n \in queue /\ seen[n] # None /\ seen[n].deleting /\ seen[n].fin

(* Mutation of DeleteRole: the pass ends Done, not Requeue. *)
DeleteRoleDone(n) ==
    /\ Finalizing(n) /\ Resolve("openshift", 0)
    /\ \E unread \in SUBSET Roles :
        /\ Fail(Cardinality(unread))
        /\ \E i \in seenRoles \ unread :
            /\ \A j \in seenRoles \ unread : j <= i
            /\ roles' = roles \ {i}
    /\ queue' = queue \ {n}
    /\ UNCHANGED <<share, labelled, workload, metrics, seen, seenRoles, lives>>

(* finalizeForOpenshift deletes the last one it can read; a Get that fails *)
(* is logged, and the one it was for is passed over.                       *)
DeleteRole(n) ==
    /\ Finalizing(n) /\ Resolve("openshift", 0)
    /\ \E unread \in SUBSET Roles :
        /\ Fail(Cardinality(unread))
        /\ \E i \in seenRoles \ unread :
            /\ \A j \in seenRoles \ unread : j <= i
            /\ roles' = roles \ {i}
    /\ UNCHANGED <<share, labelled, workload, metrics, seen, seenRoles, queue, lives>>

(* The last finalizer gone, the server removes the share, and the          *)
(* collector what it owns.                                                 *)
RemoveFinalizer(n) ==
    /\ Finalizing(n)
    /\ \E t \in Types, f \in 0 .. 1, unread \in SUBSET Roles :
        /\ Resolve(t, f)
        /\ IF t = "openshift" THEN seenRoles \subseteq unread ELSE unread = {}
        /\ Fail(f + Cardinality(unread))
    /\ WriteShare(n, None)
    /\ IF seen[n] = share[n]
       THEN /\ queue' = queue \ {n}
            /\ workload' = [workload EXCEPT ![n] = None]
            /\ metrics' = [metrics EXCEPT ![n] = {}]
       ELSE UNCHANGED <<queue, workload, metrics>>
    /\ UNCHANGED <<roles, labelled, seen, seenRoles, lives>>

(* Process: a share that is gone, or deleted without finalizer. *)
NothingToDo(n) ==
    /\ n \in queue
    /\ seen[n] # None => seen[n].deleting /\ ~seen[n].fin
    /\ queue' = queue \ {n}
    /\ UNCHANGED <<share, roles, labelled, workload, metrics, seen, seenRoles, clusterType, lives,
                   failures>>

Reconcile(n) ==
    \/ NothingToDo(n) \/ AddFinalizer(n)
    \/ LabelNamespace(n) \/ CreateRole(n) \/ Deploy(n)
    \/ CreateMetricsService(n) \/ CreateServiceMonitor(n) \/ UpdateDone(n)
    \/ DeleteRole(n) \/ RemoveFinalizer(n)

-----------------------------------------------------------------------------
(* The cache, the process and the users *)

SyncShare(n) ==
    /\ seen[n] # share[n]
    /\ seen' = [seen EXCEPT ![n] = share[n]]
    /\ queue' = queue \cup {n}
    /\ UNCHANGED <<share, roles, labelled, workload, metrics, seenRoles, clusterType, lives,
                   failures>>

(* Each of them is of a kind, or in a watch, of its own. *)
SyncRole(i) ==
    /\ i \in roles <=> i \notin seenRoles
    /\ seenRoles' = IF i \in roles THEN seenRoles \cup {i} ELSE seenRoles \ {i}
    /\ UNCHANGED <<share, roles, labelled, workload, metrics, seen, clusterType, queue, lives,
                   failures>>

Restart ==
    /\ seen' = share /\ seenRoles' = roles
    /\ clusterType' = Configured
    /\ queue' = {n \in Names : share[n] # None}
    /\ UNCHANGED <<share, roles, labelled, workload, metrics, lives, failures>>

CreateShare(n) ==
    /\ lives[n] < MaxLives /\ share[n] = None
    /\ lives' = [lives EXCEPT ![n] = @ + 1]
    /\ share' = [share EXCEPT ![n] = [uid |-> lives[n] + 1, deleting |-> FALSE, fin |-> FALSE]]
    /\ UNCHANGED <<roles, labelled, workload, metrics, operator, failures>>

DeleteShare(n) ==
    /\ IsLive(share[n])
    /\ share' = [share EXCEPT ![n] =
                    IF share[n].fin THEN [share[n] EXCEPT !.deleting = TRUE] ELSE None]
    /\ UNCHANGED <<roles, labelled, workload, metrics, operator, lives, failures>>

-----------------------------------------------------------------------------

Next ==
    \/ \E n \in Names : Reconcile(n) \/ SyncShare(n) \/ CreateShare(n) \/ DeleteShare(n)
    \/ \E i \in Roles : SyncRole(i)
    \/ Restart

Spec == Init /\ [][Next]_vars

(* The worker takes every queued name in turn, and watches deliver.        *)
Fairness ==
    /\ \A n \in Names : WF_vars(Reconcile(n)) /\ WF_vars(SyncShare(n))
    /\ \A i \in Roles : WF_vars(SyncRole(i))

FairSpec == Spec /\ Fairness

-----------------------------------------------------------------------------
(* Properties *)

(* Who gives the namespace an account or a role is bound to pass through   *)
(* Finalize, which takes them away: when one is created, a share with a    *)
(* finalizer exists on the server, however old the copy the pass read.     *)
CreatorsAreFinalized ==
    [][roles' \subseteq roles \/ \E n \in Names : share[n] # None /\ share[n].fin]_vars

(* While no share is being deleted and no Get fails, every share that      *)
(* lives ends up with all it needs on OpenShift: the account it runs as,   *)
(* its roles, the namespace's labels and its metrics objects.              *)
Ready(n) ==
    /\ roles = Roles /\ labelled
    /\ workload[n] = Account(Actual) /\ metrics[n] = MetricsKinds

EventuallyReady ==
    [](failures = 0 /\ \A n \in Names : share[n] # None => ~share[n].deleting)
        => \A n \in Names : <>[](IsLive(share[n]) => Ready(n))

(* Shares that leave together do leave: none undoes another's clean-up for *)
(* ever, and no failed or stale read holds a finalizer back.               *)
LeavingTogether ==
    <>[](\A n \in Names : ~IsLive(share[n])) => <>[](\A n \in Names : share[n] = None)
=============================================================================
