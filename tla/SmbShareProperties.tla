------------------------- MODULE SmbShareProperties -------------------------
(***************************************************************************)
(* What the SmbShare controller promises: the properties the runs check,   *)
(* and those the proofs establish for every value of the constants.        *)
(***************************************************************************)
EXTENDS SmbShareManager

(* Share n, in the life it lives now, owns object o. *)
Owns(n, o) ==
    /\ obj[o] # None /\ share[n] # None
    /\ \E i \in DOMAIN obj[o].refs :
          obj[o].refs[i].name = n /\ obj[o].refs[i].uid = share[n].uid

HasLivingOwner(o) == \E n \in Names : Owns(n, o)

(* The server of group g exports key k. *)
Exported(g, k) ==
    /\ obj[<<"ConfigMap", g>>] # None
    /\ obj[<<"ConfigMap", g>>].body.section # NoSection
    /\ k \in obj[<<"ConfigMap", g>>].body.section.shares

(* Key k of group g is how clients reach share n. *)
ReachedBy(n, g, k) ==
    share[n] # None /\ share[n].group = g /\ ShareKey(n, share[n].spec) = k

-----------------------------------------------------------------------------
(* Safety *)

(* Ownership lists stay well formed through creation, claims, transfers    *)
(* and the collector's pruning: no object has two controlling owners, and  *)
(* no share name is listed twice (claimOwnership, changeControllerOwnerTo).*)
OneController ==
    \A o \in Ids : obj[o] # None => WellFormed(obj[o].refs)

(* No object ever belongs to a share that could be deleted without passing *)
(* through Finalize: addFinalizer comes before everything Update creates   *)
(* or claims, however stale the cache it reads.                            *)
OwnersAreFinalized ==
    \A o \in Ids : obj[o] # None =>
        \A i \in DOMAIN obj[o].refs :
            OwnerAlive(obj[o].refs[i]) => share[obj[o].refs[i].name].fin

(* The living owners of a Deployment or StatefulSet are members of its     *)
(* group and have that backend on record: validateBackend's "point of no   *)
(* return" is passed before either exists.                                 *)
RecordedBackend ==
    \A n \in Names, g \in Groups :
        /\ Owns(n, <<"Deployment", g>>) =>
              share[n].group = g /\ share[n].backend = "standard"
        /\ Owns(n, <<"StatefulSet", g>>) =>
              share[n].group = g /\ share[n].backend = "clustered"

(* A share keeps the server group and the backend it was once given,       *)
(* whatever its spec is edited to (setServerGroup, updateBackend).         *)
GroupAndBackendFixed ==
    [][\A n \in Names :
          /\ share[n] # None /\ share'[n] # None
          /\ share'[n].uid = share[n].uid
          => /\ share[n].group # NoGroup => share'[n].group = share[n].group
             /\ share[n].backend # NoBackend => share'[n].backend = share[n].backend]_vars

(* Finalize takes a share's export away before the share goes: no server,  *)
(* not even one whose owners have all gone, exports a key that no share of *)
(* its group has.                                                          *)
NoOrphanExport ==
    \A g \in Groups, k \in Keys :
        Exported(g, k) => \E n \in Names : ReachedBy(n, g, k)

(* What a section exports is defined, and what is defined is exported:     *)
(* Update and Prune keep the two tables of a config in step.               *)
ConfigIntegrity ==
    \A g \in Groups : obj[<<"ConfigMap", g>>] # None =>
        \A k \in Keys :
            obj[<<"ConfigMap", g>>].body.shares[k] # NoShare <=> Exported(g, k)

(* Members of a group rewrite one ConfigMap; none takes a living member's  *)
(* export out of it.  This rests on the write being refused when the copy  *)
(* it changes is stale.                                                    *)
LiveExportKept ==
    [][\A g \in Groups, k \in Keys :
          /\ Exported(g, k) /\ ~Exported(g, k)'
          /\ obj'[<<"ConfigMap", g>>] # None
          => \A n \in Names : ReachedBy(n, g, k) => share[n].deleting]_vars

(* Shares one server exports are compatible with each other, although each *)
(* is compared with the first other owner alone (updateConfiguration).     *)
(* That is enough where one share at most is unlike the rest (MCCamps), and*)
(* not enough where there are two of either kind (MCTwoPairs).             *)
GroupCompatible ==
    \A g \in Groups, m, n \in Names :
        /\ share[m] # None /\ ReachedBy(m, g, ShareKey(m, share[m].spec))
        /\ share[n] # None /\ ReachedBy(n, g, ShareKey(n, share[n].spec))
        /\ Exported(g, ShareKey(m, share[m].spec))
        /\ Exported(g, ShareKey(n, share[n].spec))
        => Compatible(share[m].spec, share[n].spec)

(* A share that goes leaves no object it controls to owners that stay: the *)
(* watch would wake none of them (transferOwnership; the Service is never  *)
(* handed over).                                                           *)
HandsOver ==
    [][\A n \in Names, g \in Groups, kind \in {"ConfigMap", "Deployment", "StatefulSet"} :
          LET o == <<kind, g>>
          IN  /\ Owns(n, o) /\ share'[n] = None
              /\ \E m \in Names : Owns(m, o) /\ ~share[m].deleting
              => \A i \in DOMAIN obj[o].refs :
                    obj[o].refs[i].controller => obj[o].refs[i].name # n]_vars

(* Update has nothing to write to the config on share n's behalf. *)
Configured(n) ==
    /\ IsLive(share[n]) /\ share[n].group # NoGroup
    /\ obj[ConfigMap(share[n])] # None
    /\ ~UpdateReportsChange(obj[ConfigMap(share[n])].body, PlanOf(n, share[n]))

(* The cluster of share n has as many pods as n asks for. *)
LargeEnough(n) ==
    /\ IsLive(share[n]) /\ share[n].group # NoGroup
    /\ obj[StatefulSet(share[n])] # None
    /\ obj[StatefulSet(share[n])].body.replicas >= share[n].spec.size

(* Nobody's pass gives share n back the work it has done: what the config  *)
(* holds and the size the cluster has stay right for n, whatever the other *)
(* members configure, prune or ask for, on whatever stale copies, once the *)
(* cache shows n's present spec and, for the size, in steps in which users *)
(* scale nothing (Planner's Update and Prune, updateStatefulSetSize).      *)
(* Otherwise passes, each of which queues itself again, could undo each    *)
(* other for ever.                                                         *)
NothingUndone ==
    [][\A n \in Names : share'[n] = share[n] =>
          /\ /\ Configured(n) /\ obj'[ConfigMap(share[n])] # None
             /\ seenShare[n].spec = share[n].spec
             => Configured(n)'
          /\ /\ LargeEnough(n) /\ obj'[StatefulSet(share[n])] # None
             /\ edits' = edits
             => LargeEnough(n)']_vars

-----------------------------------------------------------------------------
(* Refinement *)

(* What is on record of a share, its spec left out. *)
Recorded(s) ==
    IF s = None
    THEN [uid |-> 0, deleting |-> FALSE, fin |-> FALSE, group |-> NoGroup, backend |-> NoBackend]
    ELSE [uid |-> s.uid, deleting |-> s.deleting, fin |-> s.fin,
          group |-> s.group, backend |-> s.backend]

LivesOf(x) ==
    IF x = None THEN {} ELSE {<<x.refs[i].name, x.refs[i].uid>> : i \in DOMAIN x.refs}

Records == [n \in Names |-> Recorded(share[n])]
Members == [o \in Ids |-> LivesOf(obj[o])]

Lifecycle ==
    INSTANCE ShareLifecycle
        WITH Objects <- Ids, record <- Records, members <- Members, born <- lives

(* Passes on whatever stale copies, the collector and the users together   *)
(* do nothing to records and ownership but what ShareLifecycle allows:     *)
(* each entry of a record is made once and in order, only a life that is   *)
(* over or is entitled comes to own an object, and no living share is      *)
(* struck off one that stays (getOrCreate..., claimOwnership,              *)
(* changeControllerOwnerTo keep every other owner).                        *)
RefinesLifecycle == Lifecycle!Spec

-----------------------------------------------------------------------------
(* Liveness *)

(* The workload that serves share n. *)
WorkloadOf(n) ==
    IF share[n].spec.clustered THEN StatefulSet(share[n]) ELSE Deployment(share[n])

(* Share n is served: its group's config exports it with its option and a  *)
(* path the pods mount, and it owns config, pods and Service.              *)
Served(n) ==
    LET s == share[n]
        k == ShareKey(n, s.spec)
    IN  /\ s.group # NoGroup
        /\ Owns(n, ConfigMap(s)) /\ Owns(n, WorkloadOf(n)) /\ Owns(n, Service(s))
        /\ Exported(s.group, k)
        /\ obj[ConfigMap(s)].body.shares[k] =
              [path |-> obj[WorkloadOf(n)].body.mount, readOnly |-> s.spec.readOnly]
        /\ IF s.spec.clustered
           THEN obj[WorkloadOf(n)].body.replicas >= s.spec.size
           ELSE obj[WorkloadOf(n)].body.replicas = 1

(* Once the users rest, every share that lives is served for good.         *)
EventuallyServed == \A n \in Names : <>[](IsLive(share[n]) => Served(n))

(* A share that is deleted goes, whatever else is deleted, missing or      *)
(* edited meanwhile.                                                       *)
DeletionCompletes ==
    \A n \in Names, u \in Uids :
        (share[n] # None /\ share[n].uid = u /\ share[n].deleting)
            ~> (share[n] = None \/ share[n].uid # u)

(* When no share is left for good, nothing the operator made for one is,   *)
(* also what a pass on a stale copy made after the share had gone.         *)
EventuallyCleaned ==
    <>[]((\A n \in Names : share[n] = None) => (\A o \in Ids : obj[o] = None))

-----------------------------------------------------------------------------
(* What the documentation says and the code does not do *)

(* api/v1alpha1/smbshare_types.go: customShareConfig holds values that are  *)
(* applied to the share's section.                                         *)
CustomShareConfigApplied ==
    \A n \in Names :
        <>[](IsLive(share[n]) /\ share[n].spec.custom # NoCustom =>
                /\ share[n].group # NoGroup
                /\ Exported(share[n].group, ShareKey(n, share[n].spec))
                /\ obj[ConfigMap(share[n])].body.shares[ShareKey(n, share[n].spec)].readOnly
                      = share[n].spec.custom)

(* The comment in Finalize: a PVC defined by one share of a group is       *)
(* handed over "sanely", so no claim goes while a living share's server    *)
(* mounts it.                                                              *)
MountedClaimKept ==
    [][\A p \in DataPvcNames, n \in Names :
          /\ obj[<<"PVC", p>>] # None /\ obj'[<<"PVC", p>>] = None
          => ~ /\ IsLive(share[n]) /\ share[n].group # NoGroup
               /\ Owns(n, Deployment(share[n]))
               /\ obj[Deployment(share[n])].body.pvc = p]_vars

(* validateBackend's comment: the recorded backend checks that no change   *)
(* of availability mode is made "after the point of no return".  So a      *)
(* StatefulSet is never set up beside a config without CTDB.               *)
ClusteredHasCtdb ==
    \A g \in Groups :
        /\ HasLivingOwner(<<"StatefulSet", g>>)
        /\ obj[<<"ConfigMap", g>>] # None
        /\ obj[<<"ConfigMap", g>>].body.section # NoSection
        => obj[<<"ConfigMap", g>>].body.section.ctdb
=============================================================================
