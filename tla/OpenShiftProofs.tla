-------------------------- MODULE OpenShiftProofs --------------------------
(* Theorems about OpenShift, for any number of shares and any bounds. *)
EXTENDS OpenShift, FiniteSetTheorems, TLAPS

(* A cached copy that Update would act on is of a share that exists and    *)
(* has the finalizer.                                                      *)
CacheBacked ==
    \A n \in Names :
        IsLive(seen[n]) /\ seen[n].fin => share[n] # None /\ share[n].fin

(* The roles a pass may fail to read are counted by a number. *)
LEMMA CountIsNat == ASSUME NEW S \in SUBSET Roles PROVE Cardinality(S) \in Nat
<1>1. IsFiniteSet(Roles)
  BY FS_Interval, BoundsAssumption DEF Roles
<1> QED
  BY <1>1, FS_Subset, FS_CardinalityType

(* Counting failures keeps within their bound. *)
LEMMA FailType ==
    ASSUME failures \in 0 .. MaxFailures, NEW f \in Nat, Fail(f)
    PROVE  failures' \in 0 .. MaxFailures
BY BoundsAssumption DEF Fail

(* The remembered type of cluster stays one. *)
LEMMA ResolveType ==
    ASSUME clusterType \in Types \cup {"unset"}, NEW t, NEW f, Resolve(t, f)
    PROVE  clusterType' \in Types \cup {"unset"}
BY ActualAssumption DEF Resolve, Answers, Types

(* A write leaves every share a share. *)
LEMMA WriteShareType ==
    ASSUME OpenShiftTypeOK, NEW n \in Names, NEW new \in SmbShare \cup {None}, WriteShare(n, new)
    PROVE  share' \in [Names -> SmbShare \cup {None}]
BY DEF OpenShiftTypeOK, WriteShare

(* The initial states are typed. *)
LEMMA TypeInit == Init => OpenShiftTypeOK
<1> SUFFICES ASSUME Init PROVE OpenShiftTypeOK
  OBVIOUS
<1> USE DEF Init
<1>1. /\ share \in [Names -> SmbShare \cup {None}]
      /\ seen \in [Names -> SmbShare \cup {None}]
      /\ workload \in [Names -> {"samba", "default", None}]
  OBVIOUS
<1>2. metrics \in [Names -> SUBSET MetricsKinds]
  OBVIOUS
<1>3. lives \in [Names -> 0 .. MaxLives] /\ failures \in 0 .. MaxFailures
  BY BoundsAssumption
<1> QED
  BY <1>1, <1>2, <1>3, ConfiguredAssumption DEF OpenShiftTypeOK

(* OpenShiftTypeOK is inductive. *)
LEMMA TypeStep == OpenShiftTypeOK /\ [Next]_vars => OpenShiftTypeOK'
<1> SUFFICES ASSUME OpenShiftTypeOK, [Next]_vars PROVE OpenShiftTypeOK'
  OBVIOUS
<1> USE DEF OpenShiftTypeOK
<1>1. CASE UNCHANGED vars
  BY <1>1 DEF vars, operator
<1>2. ASSUME NEW n \in Names, NothingToDo(n) PROVE OpenShiftTypeOK'
  BY <1>2 DEF NothingToDo
<1>3. ASSUME NEW n \in Names, AddFinalizer(n) PROVE OpenShiftTypeOK'
  <2>1. [seen[n] EXCEPT !.fin = TRUE] \in SmbShare
    BY <1>3 DEF AddFinalizer, IsLive, SmbShare
  <2>2. share' \in [Names -> SmbShare \cup {None}]
    BY <1>3, <2>1, WriteShareType DEF AddFinalizer
  <2> QED
    BY <1>3, <2>2 DEF AddFinalizer, operator
<1>4. ASSUME NEW n \in Names, LabelNamespace(n) PROVE OpenShiftTypeOK'
  BY <1>4, ResolveType DEF LabelNamespace
<1>5. ASSUME NEW n \in Names, CreateRole(n) PROVE OpenShiftTypeOK'
  BY <1>5, ResolveType DEF CreateRole
<1>6. ASSUME NEW n \in Names, Deploy(n) PROVE OpenShiftTypeOK'
  <2>1. PICK t \in Types, f \in 0 .. 1 :
            /\ Resolve(t, f) /\ Fail(f)
            /\ workload' = [workload EXCEPT ![n] = Account(t)]
    BY <1>6 DEF Deploy, PastOpenShift
  <2>2. workload' \in [Names -> {"samba", "default", None}]
    BY <2>1 DEF Account
  <2> QED
    BY <1>6, <2>1, <2>2, ResolveType, FailType DEF Deploy
<1>7. ASSUME NEW n \in Names, CreateMetricsService(n) PROVE OpenShiftTypeOK'
  <2>1. PICK t \in Types, f \in 0 .. 1 : Resolve(t, f) /\ Fail(f)
    BY <1>7 DEF CreateMetricsService, PastOpenShift
  <2> QED
    BY <1>7, <2>1, ResolveType, FailType DEF CreateMetricsService, MetricsKinds
<1>8. ASSUME NEW n \in Names, CreateServiceMonitor(n) PROVE OpenShiftTypeOK'
  <2>1. PICK t \in Types, f \in 0 .. 1, f1 \in 0 .. 1 : Resolve(t, f) /\ Fail(f + f1)
    BY <1>8 DEF CreateServiceMonitor, PastOpenShift
  <2> QED
    BY <1>8, <2>1, ResolveType, FailType DEF CreateServiceMonitor, MetricsKinds
<1>9. ASSUME NEW n \in Names, UpdateDone(n) PROVE OpenShiftTypeOK'
  <2>1. PICK t \in Types, f \in 0 .. 1, f1 \in 0 .. 1, f2 \in 0 .. 1 :
            Resolve(t, f) /\ Fail(f + f1 + f2)
    BY <1>9 DEF UpdateDone, PastOpenShift
  <2> QED
    BY <1>9, <2>1, ResolveType, FailType DEF UpdateDone
<1>10. ASSUME NEW n \in Names, DeleteRole(n) PROVE OpenShiftTypeOK'
  <2>1. PICK unread \in SUBSET Roles : Fail(Cardinality(unread))
    BY <1>10 DEF DeleteRole
  <2>2. failures' \in 0 .. MaxFailures
    BY <2>1, CountIsNat, FailType
  <2> QED
    BY <1>10, <2>2, ResolveType DEF DeleteRole
<1>11. ASSUME NEW n \in Names, RemoveFinalizer(n) PROVE OpenShiftTypeOK'
  <2>1. PICK t \in Types, f \in 0 .. 1, unread \in SUBSET Roles :
            Resolve(t, f) /\ Fail(f + Cardinality(unread))
    BY <1>11 DEF RemoveFinalizer
  <2>2. failures' \in 0 .. MaxFailures
    BY <2>1, CountIsNat, FailType
  <2>3. share' \in [Names -> SmbShare \cup {None}]
    BY <1>11, WriteShareType DEF RemoveFinalizer
  <2>4. /\ workload' \in [Names -> {"samba", "default", None}]
        /\ metrics' \in [Names -> SUBSET MetricsKinds]
        /\ queue' \subseteq Names
    BY <1>11 DEF RemoveFinalizer
  <2> QED
    BY <1>11, <2>1, <2>2, <2>3, <2>4, ResolveType DEF RemoveFinalizer
<1>12. ASSUME NEW n \in Names, SyncShare(n) PROVE OpenShiftTypeOK'
  BY <1>12 DEF SyncShare
<1>13. ASSUME NEW i \in Roles, SyncRole(i) PROVE OpenShiftTypeOK'
  BY <1>13 DEF SyncRole
<1>14. CASE Restart
  BY <1>14, ConfiguredAssumption DEF Restart
<1>15. ASSUME NEW n \in Names, CreateShare(n) PROVE OpenShiftTypeOK'
  <2>1. [uid |-> lives[n] + 1, deleting |-> FALSE, fin |-> FALSE] \in SmbShare
    BY <1>15, BoundsAssumption DEF CreateShare, SmbShare, Uids
  <2> QED
    BY <1>15, <2>1, BoundsAssumption DEF CreateShare, operator
<1>16. ASSUME NEW n \in Names, DeleteShare(n) PROVE OpenShiftTypeOK'
  <2>1. [share[n] EXCEPT !.deleting = TRUE] \in SmbShare
    BY <1>16 DEF DeleteShare, IsLive, SmbShare
  <2> QED
    BY <1>16, <2>1 DEF DeleteShare, operator
<1> QED
  BY <1>1, <1>2, <1>3, <1>4, <1>5, <1>6, <1>7, <1>8, <1>9, <1>10, <1>11, <1>12, <1>13, <1>14,
     <1>15, <1>16 DEF Next, Reconcile

(* OpenShift.OpenShiftTypeOK: no pass, whatever it fails to read, counts   *)
(* beyond the bound or makes anything but the namespace's fixed objects.   *)
THEOREM OpenShiftTypeCorrect == Spec => []OpenShiftTypeOK
BY TypeInit, TypeStep, PTL DEF Spec

(* CacheBacked is inductive: only Finalize removes a share with finalizer, *)
(* and only one that the cache shows as being deleted.                     *)
LEMMA BackedStep ==
    OpenShiftTypeOK /\ CacheBacked /\ [Next]_vars => CacheBacked'
<1> SUFFICES ASSUME OpenShiftTypeOK, CacheBacked, [Next]_vars PROVE CacheBacked'
  OBVIOUS
<1> USE DEF OpenShiftTypeOK, CacheBacked, IsLive
<1>1. CASE UNCHANGED <<share, seen>>
  BY <1>1
<1>2. ASSUME NEW n \in Names, AddFinalizer(n) PROVE CacheBacked'
  BY <1>2 DEF AddFinalizer, WriteShare, SmbShare, operator
<1>3. ASSUME NEW n \in Names, RemoveFinalizer(n) PROVE CacheBacked'
  BY <1>3 DEF RemoveFinalizer, Finalizing, WriteShare
<1>4. ASSUME NEW n \in Names, SyncShare(n) PROVE CacheBacked'
  BY <1>4 DEF SyncShare
<1>5. CASE Restart
  BY <1>5 DEF Restart
<1>6. ASSUME NEW n \in Names, CreateShare(n) PROVE CacheBacked'
  BY <1>6 DEF CreateShare, operator
<1>7. ASSUME NEW n \in Names, DeleteShare(n) PROVE CacheBacked'
  <2> DEFINE marked == [share[n] EXCEPT !.deleting = TRUE]
  <2>1. /\ seen' = seen /\ share[n] \in SmbShare
        /\ share' = [share EXCEPT ![n] = IF share[n].fin THEN marked ELSE None]
    BY <1>7 DEF DeleteShare, operator
  <2>2. share[n].fin => marked.fin /\ marked \in SmbShare
    BY <2>1 DEF SmbShare
  <2> HIDE DEF marked
  <2>3. /\ \A m \in Names \ {n} : share'[m] = share[m]
        /\ share[n].fin => share'[n] # None /\ share'[n].fin
    BY <2>1, <2>2, NoneAssumption
  <2>4. CASE ~share[n].fin
    BY <2>1, <2>3, <2>4
  <2>5. CASE share[n].fin
    BY <2>1, <2>3, <2>5
  <2> QED
    BY <2>4, <2>5
<1> QED
  BY <1>1, <1>2, <1>3, <1>4, <1>5, <1>6, <1>7
  DEF Next, Reconcile, vars, operator, NothingToDo, LabelNamespace, CreateRole, Deploy,
      CreateMetricsService, CreateServiceMonitor, UpdateDone, DeleteRole, SyncRole

(* A step that adds a role is CreateRole, of a share with a finalizer. *)
LEMMA RoleStep ==
    ASSUME OpenShiftTypeOK, CacheBacked, [Next]_vars
    PROVE  roles' \subseteq roles \/ \E n \in Names : share[n] # None /\ share[n].fin
<1>1. CASE roles' \subseteq roles
  BY <1>1
<1>2. ASSUME NEW n \in Names, CreateRole(n)
      PROVE  \E m \in Names : share[m] # None /\ share[m].fin
  BY <1>2 DEF CreateRole, Updating, CacheBacked
<1> QED
  BY <1>1, <1>2
  DEF Next, Reconcile, vars, operator, NothingToDo, AddFinalizer, LabelNamespace, Deploy,
      CreateMetricsService, CreateServiceMonitor, UpdateDone, DeleteRole, RemoveFinalizer,
      SyncShare, SyncRole, Restart, CreateShare, DeleteShare

(* OpenShift.CreatorsAreFinalized: the namespace gets an account, a role   *)
(* or a binding only while a share exists whose Finalize will look for it, *)
(* however far the cache lags and whatever fails (updateForOpenshift runs  *)
(* after addFinalizer).                                                    *)
THEOREM RolesHaveAFinalizer == Spec => CreatorsAreFinalized
<1>1. Init => CacheBacked
  BY DEF Init, CacheBacked, IsLive
<1>2. OpenShiftTypeOK /\ CacheBacked /\ [Next]_vars
        => [roles' \subseteq roles \/ \E n \in Names : share[n] # None /\ share[n].fin]_vars
  BY RoleStep
<1> QED
  BY <1>1, <1>2, TypeInit, TypeStep, BackedStep, PTL DEF Spec, CreatorsAreFinalized
=============================================================================
