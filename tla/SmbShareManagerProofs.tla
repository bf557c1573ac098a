----------------------- MODULE SmbShareManagerProofs -----------------------
(***************************************************************************)
(* Proofs about the SmbShare controller, for every value of the constants. *)
(***************************************************************************)
EXTENDS SmbShareProperties, OwnerRefsProofs, TLAPS

-----------------------------------------------------------------------------
(* The data a pass computes is typed *)

(* Planner.Update and Planner.Prune return configurations. *)
LEMMA EmptyConfigType == EmptyConfig \in Config
BY DEF EmptyConfig, Config

LEMMA UpdatedType ==
    ASSUME NEW cfg \in Config, NEW plan \in Plan
    PROVE  Updated(cfg, plan) \in Config
<1>1. FoundShare(cfg, plan) \in ShareConfig
  BY DEF FoundShare, Config, Plan, ShareConfig, YesNo
<1>2. ApplyCustomShare(FoundShare(cfg, plan), plan) \in ShareConfig
  BY <1>1 DEF ApplyCustomShare, Plan, ShareConfig
<1>3. ApplyShareValues(ApplyCustomShare(FoundShare(cfg, plan), plan), plan) \in ShareConfig
  BY <1>2 DEF ApplyShareValues, Plan, ShareConfig
<1>4. RealmsOf(plan) \subseteq Confs
  BY DEF RealmsOf, Plan
<1>5. UpdatedSection(cfg, plan) \in ConfigSection
  BY <1>4 DEF UpdatedSection, Config, ConfigSection, Plan
<1>6. QED
  BY <1>3, <1>4, <1>5 DEF Updated, Config, Plan

LEMMA PrunedType ==
    ASSUME NEW cfg \in Config, NEW k \in Keys
    PROVE  Pruned(cfg, k) \in Config
<1>1. PrunedSection(cfg, k) \in ConfigSection \cup {NoSection}
  BY DEF PrunedSection, Config, ConfigSection
<1>2. QED
  BY <1>1 DEF Pruned, Config

LEMMA PathType ==
    ASSUME NEW n \in Names, NEW s \in SmbShare
    PROVE  ShareMountPath(n, s) \in MountPaths
BY DEF ShareMountPath, MountPaths, SmbShare, SmbShareSpec

LEMMA KeyType ==
    ASSUME NEW n \in Names, NEW s \in SmbShare
    PROVE  ShareKey(n, s.spec) \in Keys
BY NamesAssumption DEF ShareKey, SmbShare, SmbShareSpec

LEMMA PlanType ==
    ASSUME NEW n \in Names, NEW s \in SmbShare
    PROVE  PlanOf(n, s) \in Plan
BY PathType, KeyType, ConfsAssumption DEF PlanOf, Plan, SmbShare, SmbShareSpec

LEMMA WorkloadType ==
    ASSUME NEW n \in Names, seenShare[n] \in SmbShare, NEW k \in 0 .. MaxSize
    PROVE  NewWorkload(n, k) \in Workload
BY PathType DEF NewWorkload, Workload, PvcInMemory, PvcName, DataPvcNames, SmbShare, SmbShareSpec

(* The objects a pass writes are among those it may create. *)
LEMMA IdsType ==
    ASSUME NEW n \in Names, NEW s \in SmbShare
    PROVE  /\ s.group # NoGroup =>
                /\ ConfigMap(s) \in Ids /\ ConfigMap(s)[1] = "ConfigMap"
                /\ Deployment(s) \in Ids /\ Deployment(s)[1] = "Deployment"
                /\ StatefulSet(s) \in Ids /\ StatefulSet(s)[1] = "StatefulSet"
                /\ Service(s) \in Ids /\ Service(s)[1] = "Service"
                /\ StatePvc(s) \in Ids /\ StatePvc(s)[1] = "PVC"
           /\ DataPvc(n, s) \in Ids /\ DataPvc(n, s)[1] = "PVC"
<1>1. s.group # NoGroup => s.group \in Groups
  BY DEF SmbShare
<1>2. PvcName(n, s.spec) \in DataPvcNames
  BY DEF PvcName, DataPvcNames, SmbShare, SmbShareSpec
<1>3. QED
  BY <1>1, <1>2 DEF ConfigMap, Deployment, StatefulSet, Service, StatePvc, DataPvc,
                    Ids, OwnedKinds, PvcNames

-----------------------------------------------------------------------------
(* What a pass may write, whichever step of it writes *)

(* A share on whose record the group of o is, if o is a config or a        *)
(* workload, and the kind of o, if o is a workload.                        *)
Backed(s, o) ==
    /\ o[1] = "ConfigMap" => s.group = o[2]
    /\ o[1] = "Deployment" => s.group = o[2] /\ s.backend = "standard"
    /\ o[1] = "StatefulSet" => s.group = o[2] /\ s.backend = "clustered"

(* The list a pass of share n writes to o: a first one, one with n added,  *)
(* the one it read, or that one with another controller.                   *)
RefsWritten(n, o, refs) ==
    \/ /\ seenObj[o] = None
       /\ seenShare[n].fin /\ Backed(seenShare[n], o)
       /\ refs = <<ControllerRef(n, seenShare[n].uid)>>
    \/ /\ seenObj[o] # None
       /\ seenShare[n].fin /\ Backed(seenShare[n], o)
       /\ ~HasOwnerNamed(seenObj[o].refs, n)
       /\ refs = Append(seenObj[o].refs, PlainRef(n, seenShare[n].uid))
    \/ seenObj[o] # None /\ refs = seenObj[o].refs
    \/ /\ seenObj[o] # None
       /\ \E k \in DOMAIN seenObj[o].refs : refs = ChangeControllerOwnerTo(seenObj[o].refs, k)

WritesObject(n) ==
    /\ seenShare[n] # None /\ seenShare[n] \in SmbShare
    /\ \E o \in Ids : \E new \in Object(o[1]) :
          RefsWritten(n, o, new.refs) /\ WriteObject(o, new)

(* t is the share s, further on in the same life. *)
Follows(s, t) ==
    /\ t.uid = s.uid
    /\ s.fin => t.fin
    /\ s.group # NoGroup => t.group = s.group
    /\ s.backend # NoBackend => t.backend = s.backend

WritesShare(n) ==
    /\ seenShare[n] # None /\ seenShare[n] \in SmbShare
    /\ \E new \in SmbShare : Follows(seenShare[n], new) /\ WriteShare(n, new)

OnlyQueues ==
    /\ queue' \subseteq queue
    /\ UNCHANGED <<server, cache, user>>

(* Creating and claiming, once the finalizer is on. *)
LEMMA CreateWrites ==
    ASSUME TypeOK, NEW n \in Names, NEW o \in Ids, NEW body \in Body(o[1]),
           PastFinalizer(n), Backed(seenShare[n], o), Create(o, n, body)
    PROVE  WritesObject(n)
<1>1. seenShare[n] # None /\ seenShare[n] \in SmbShare
  BY DEF PastFinalizer, IsLive, TypeOK
<1>2. seenObj[o] = None
  BY DEF Create, Exists
<1> DEFINE refs == <<ControllerRef(n, seenShare[n].uid)>>
           new == [refs |-> refs, body |-> body]
<1>3. ControllerRef(n, seenShare[n].uid) \in OwnerRef(Names, Uids)
  BY <1>1 DEF ControllerRef, OwnerRef, SmbShare
<1>4. refs \in Seq(OwnerRef(Names, Uids))
  BY <1>3
<1>5. new \in Object(o[1])
  BY <1>4 DEF Object
<1>6. RefsWritten(n, o, new.refs)
  BY <1>2 DEF RefsWritten, PastFinalizer
<1>7. WriteObject(o, new)
  BY DEF Create
<1>8. QED
  BY <1>1, <1>5, <1>6, <1>7 DEF WritesObject

LEMMA ClaimWrites ==
    ASSUME TypeOK, NEW n \in Names, NEW o \in Ids,
           PastFinalizer(n), Backed(seenShare[n], o), Claim(o, n)
    PROVE  WritesObject(n)
<1>1. seenShare[n] # None /\ seenShare[n] \in SmbShare
  BY DEF PastFinalizer, IsLive, TypeOK
<1>2. seenObj[o] # None /\ seenObj[o] \in Object(o[1])
  BY DEF Claim, Exists, TypeOK
<1>3. ~HasOwnerNamed(seenObj[o].refs, n)
  BY DEF Claim, Claimed
<1> DEFINE refs == Append(seenObj[o].refs, PlainRef(n, seenShare[n].uid))
           new == [seenObj[o] EXCEPT !.refs = refs]
<1>4. seenObj[o].refs \in Seq(OwnerRef(Names, Uids)) /\ seenShare[n].uid \in Uids
  BY <1>1, <1>2 DEF Object, SmbShare
<1>5. refs \in Seq(OwnerRef(Names, Uids))
  BY <1>4, AppendRefType
<1>6. new \in Object(o[1]) /\ new.refs = refs
  BY <1>2, <1>5 DEF Object
<1>7. RefsWritten(n, o, new.refs)
  BY <1>2, <1>3, <1>6 DEF RefsWritten, PastFinalizer
<1>8. WriteObject(o, new)
  BY DEF Claim
<1>9. QED
  BY <1>1, <1>6, <1>7, <1>8 DEF WritesObject

(* A new body, with the references as they were read. *)
LEMMA BodyWrites ==
    ASSUME TypeOK, NEW n \in Names, NEW o \in Ids, NEW body \in Body(o[1]),
           seenShare[n] # None, seenObj[o] # None,
           WriteObject(o, [seenObj[o] EXCEPT !.body = body])
    PROVE  WritesObject(n)
<1> DEFINE new == [seenObj[o] EXCEPT !.body = body]
<1>1. seenShare[n] # None /\ seenShare[n] \in SmbShare
  BY DEF TypeOK
<1>2. seenObj[o] \in Object(o[1])
  BY DEF TypeOK
<1>3. new \in Object(o[1]) /\ new.refs = seenObj[o].refs
  BY <1>2 DEF Object
<1>4. QED
  BY <1>1, <1>3 DEF WritesObject, RefsWritten

(* transferOwnership hands control to one of the owners read. *)
LEMMA TransferWrites ==
    ASSUME TypeOK, NEW n \in Names, NEW o \in Ids,
           seenShare[n] # None, TransferOwnership(o, n)
    PROVE  WritesObject(n)
<1>1. seenShare[n] # None /\ seenShare[n] \in SmbShare
  BY DEF TypeOK
<1>2. seenObj[o] # None /\ seenObj[o] \in Object(o[1])
  BY DEF TransferOwnership, NeedsTransfer, Exists, TypeOK
<1> DEFINE refs == seenObj[o].refs
           k == First(Heirs(o, n))
           new == [seenObj[o] EXCEPT !.refs = ChangeControllerOwnerTo(refs, k)]
<1>3. refs \in Seq(OwnerRef(Names, Uids))
  BY <1>2 DEF Object
<1>4. k \in DOMAIN refs
  <2>1. Heirs(o, n) # {} /\ Heirs(o, n) \subseteq DOMAIN refs
    BY DEF TransferOwnership, NeedsTransfer, Heirs, OtherRefs
  <2>2. DOMAIN refs = 1 .. Len(refs) /\ Len(refs) \in Nat
    BY <1>3, LenProperties
  <2>3. QED
    BY <2>1, <2>2, FirstIn
<1>5. ChangeControllerOwnerTo(refs, k) \in Seq(OwnerRef(Names, Uids))
  BY <1>3, <1>4, ChangeControllerType
<1>6. new \in Object(o[1]) /\ new.refs = ChangeControllerOwnerTo(refs, k)
  BY <1>2, <1>5 DEF Object
<1>7. WriteObject(o, new)
  BY DEF TransferOwnership
<1>8. QED
  BY <1>1, <1>2, <1>4, <1>6, <1>7 DEF WritesObject, RefsWritten

(* Every step beyond setServerGroup is taken by a live, finalized share in *)
(* a group; a workload's step by one with that backend on record.          *)
LEMMA PastGroup ==
    ASSUME TypeOK, NEW n \in Names,
           \/ PastServerGroup(n) \/ PastConfigMapClaim(n) \/ PastConfigMap(n)
           \/ PastDataPvc(n) \/ PastBackend(n) \/ MayCluster(n) \/ PastStatePvc(n)
           \/ PastStandard(n) \/ PastServer(n)
    PROVE  /\ PastServerGroup(n)
           /\ PastFinalizer(n)
           /\ seenShare[n] \in SmbShare
           /\ seenShare[n].group # NoGroup
           /\ MayCluster(n) \/ PastStatePvc(n) => seenShare[n].backend = "clustered"
           /\ PastStandard(n) => seenShare[n].backend = "standard"
<1>1. PastServerGroup(n)
  BY DEF PastServer, PastStandard, PastStatePvc, MayCluster, PastBackend, PastDataPvc,
         PastConfigMap, PastConfigMapClaim
<1>2. PastFinalizer(n) /\ seenShare[n].group # NoGroup /\ seenShare[n] # None
  BY <1>1 DEF PastServerGroup, PastFinalizer, IsLive
<1>3. seenShare[n] \in SmbShare
  BY <1>2 DEF TypeOK
<1>4. PastStatePvc(n) => MayCluster(n)
  BY DEF PastStatePvc
<1>5. MayCluster(n) => seenShare[n].backend = "clustered"
  BY DEF MayCluster, PastBackend, BackendOf
<1>6. PastStandard(n) => seenShare[n].backend = "standard"
  BY DEF PastStandard, PastBackend, BackendOf
<1>7. QED
  BY <1>1, <1>2, <1>3, <1>4, <1>5, <1>6

LEMMA BackedAlways ==
    ASSUME NEW n \in Names, NEW s \in SmbShare
    PROVE  /\ Backed(s, ConfigMap(s)) /\ Backed(s, Service(s))
           /\ Backed(s, StatePvc(s)) /\ Backed(s, DataPvc(n, s))
           /\ s.backend = "standard" => Backed(s, Deployment(s))
           /\ s.backend = "clustered" => Backed(s, StatefulSet(s))
BY DEF Backed, ConfigMap, Service, StatePvc, DataPvc, Deployment, StatefulSet

(* The steps that create an object or claim one. *)
LEMMA CreateOrClaimWrites ==
    ASSUME TypeOK, NEW n \in Names,
           \/ CreateConfigMap(n) \/ ClaimConfigMap(n) \/ CreateDataPvc(n)
           \/ CreateStatePvc(n) \/ CreateStatefulSet(n) \/ ClaimStatefulSet(n)
           \/ CreateDeployment(n) \/ ClaimDeployment(n)
           \/ CreateService(n) \/ ClaimService(n)
    PROVE  WritesObject(n)
<1> DEFINE s == seenShare[n]
<1>1. /\ PastFinalizer(n) /\ s \in SmbShare /\ s.group # NoGroup
  BY PastGroup DEF CreateConfigMap, ClaimConfigMap, CreateDataPvc, CreateStatePvc,
     CreateStatefulSet, ClaimStatefulSet, CreateDeployment, ClaimDeployment,
     CreateService, ClaimService
<1>2. /\ ConfigMap(s) \in Ids /\ ConfigMap(s)[1] = "ConfigMap"
      /\ Deployment(s) \in Ids /\ Deployment(s)[1] = "Deployment"
      /\ StatefulSet(s) \in Ids /\ StatefulSet(s)[1] = "StatefulSet"
      /\ Service(s) \in Ids /\ Service(s)[1] = "Service"
      /\ StatePvc(s) \in Ids /\ StatePvc(s)[1] = "PVC"
      /\ DataPvc(n, s) \in Ids /\ DataPvc(n, s)[1] = "PVC"
  BY <1>1, IdsType
<1>3. CASE CreateConfigMap(n)
  <2>1. EmptyConfig \in Body(ConfigMap(s)[1])
    BY <1>2, EmptyConfigType DEF Body
  <2>2. QED
    BY <1>1, <1>2, <1>3, <2>1, BackedAlways, CreateWrites DEF CreateConfigMap
<1>4. CASE ClaimConfigMap(n)
  BY <1>1, <1>2, <1>4, BackedAlways, ClaimWrites DEF ClaimConfigMap
<1>5. CASE CreateDataPvc(n)
  <2>1. None \in Body(DataPvc(n, s)[1])
    BY <1>2 DEF Body
  <2>2. QED
    BY <1>1, <1>2, <1>5, <2>1, BackedAlways, CreateWrites DEF CreateDataPvc
<1>6. CASE CreateStatePvc(n)
  <2>1. None \in Body(StatePvc(s)[1])
    BY <1>2 DEF Body
  <2>2. QED
    BY <1>1, <1>2, <1>6, <2>1, BackedAlways, CreateWrites DEF CreateStatePvc
<1>7. CASE CreateStatefulSet(n)
  <2>1. PastStatePvc(n) /\ Create(StatefulSet(s), n, NewWorkload(n, s.spec.size))
    BY <1>7 DEF CreateStatefulSet
  <2>2. s.spec.size \in 0 .. MaxSize
    BY <1>1 DEF SmbShare, SmbShareSpec
  <2>3. NewWorkload(n, s.spec.size) \in Body(StatefulSet(s)[1])
    BY <1>1, <1>2, <2>2, WorkloadType DEF Body
  <2>4. Backed(s, StatefulSet(s))
    BY <1>1, <2>1, PastGroup, BackedAlways
  <2>5. QED
    BY <1>1, <1>2, <2>1, <2>3, <2>4, CreateWrites
<1>8. CASE ClaimStatefulSet(n)
  <2>1. Backed(s, StatefulSet(s))
    BY <1>1, <1>8, PastGroup, BackedAlways DEF ClaimStatefulSet
  <2>2. QED
    BY <1>1, <1>2, <1>8, <2>1, ClaimWrites DEF ClaimStatefulSet
<1>9. CASE CreateDeployment(n)
  <2>1. PastStandard(n) /\ Create(Deployment(s), n, NewWorkload(n, 1))
    BY <1>9 DEF CreateDeployment
  <2>2. 1 \in 0 .. MaxSize
    BY BoundsAssumption
  <2>3. NewWorkload(n, 1) \in Body(Deployment(s)[1])
    BY <1>1, <1>2, <2>2, WorkloadType DEF Body
  <2>4. Backed(s, Deployment(s))
    BY <1>1, <2>1, PastGroup, BackedAlways
  <2>5. QED
    BY <1>1, <1>2, <2>1, <2>3, <2>4, CreateWrites
<1>10. CASE ClaimDeployment(n)
  <2>1. Backed(s, Deployment(s))
    BY <1>1, <1>10, PastGroup, BackedAlways DEF ClaimDeployment
  <2>2. QED
    BY <1>1, <1>2, <1>10, <2>1, ClaimWrites DEF ClaimDeployment
<1>11. CASE CreateService(n)
  <2>1. None \in Body(Service(s)[1])
    BY <1>2 DEF Body
  <2>2. QED
    BY <1>1, <1>2, <1>11, <2>1, BackedAlways, CreateWrites DEF CreateService
<1>12. CASE ClaimService(n)
  BY <1>1, <1>2, <1>12, BackedAlways, ClaimWrites DEF ClaimService
<1>13. QED
  BY <1>3, <1>4, <1>5, <1>6, <1>7, <1>8, <1>9, <1>10, <1>11, <1>12

(* The steps that rewrite the body of an object and keep its references. *)
LEMMA RescaledType ==
    ASSUME NEW kind \in {"Deployment", "StatefulSet"}, NEW x \in Object(kind),
           NEW k \in 0 .. MaxSize
    PROVE  /\ [x.body EXCEPT !.replicas = k] \in Body(kind)
           /\ [x EXCEPT !.body.replicas = k] = [x EXCEPT !.body = [x.body EXCEPT !.replicas = k]]
           /\ [x EXCEPT !.body.replicas = k] \in Object(kind)
           /\ [x EXCEPT !.body.replicas = k].refs = x.refs
<1>1. x.body \in Workload
  BY DEF Object, Body
<1>2. [x.body EXCEPT !.replicas = k] \in Workload
  BY <1>1 DEF Workload
<1>3. [x.body EXCEPT !.replicas = k] \in Body(kind)
  BY <1>2 DEF Body
<1>4. [x EXCEPT !.body.replicas = k] = [x EXCEPT !.body = [x.body EXCEPT !.replicas = k]]
  OBVIOUS
<1>5. QED
  BY <1>3, <1>4 DEF Object

LEMMA BodyStepWrites ==
    ASSUME TypeOK, NEW n \in Names,
           \/ UpdateConfiguration(n) \/ UpdateStatefulSetSize(n)
           \/ UpdateDeploymentSize(n)
    PROVE  WritesObject(n)
<1> DEFINE s == seenShare[n]
<1>1. PastFinalizer(n) /\ s \in SmbShare /\ s.group # NoGroup /\ s # None
  BY PastGroup DEF UpdateConfiguration, UpdateStatefulSetSize, UpdateDeploymentSize,
     PastFinalizer, IsLive
<1>2. /\ ConfigMap(s) \in Ids /\ ConfigMap(s)[1] = "ConfigMap"
      /\ Deployment(s) \in Ids /\ Deployment(s)[1] = "Deployment"
      /\ StatefulSet(s) \in Ids /\ StatefulSet(s)[1] = "StatefulSet"
  BY <1>1, IdsType
<1>3. CASE UpdateConfiguration(n)
  <2> DEFINE o == ConfigMap(s)
             body == Updated(seenObj[o].body, PlanOf(n, s))
  <2>1. seenObj[o] # None /\ seenObj[o] \in Object(o[1])
    BY <1>2, <1>3 DEF UpdateConfiguration, PastConfigMapClaim, Claimed, Exists, TypeOK
  <2>2. seenObj[o].body \in Config
    BY <1>2, <2>1 DEF Object, Body
  <2>3. body \in Body(o[1])
    BY <1>1, <1>2, <2>2, PlanType, UpdatedType DEF Body
  <2>4. WriteObject(o, [seenObj[o] EXCEPT !.body = body])
    BY <1>3 DEF UpdateConfiguration
  <2>5. QED
    BY <1>1, <1>2, <2>1, <2>3, <2>4, BodyWrites
<1>4. ASSUME NEW o \in {StatefulSet(s), Deployment(s)}, NEW k \in 0 .. MaxSize,
             Claimed(o, n), WriteObject(o, [seenObj[o] EXCEPT !.body.replicas = k])
      PROVE  WritesObject(n)
  <2> DEFINE body == [seenObj[o].body EXCEPT !.replicas = k]
  <2>1. o \in Ids /\ o[1] \in {"Deployment", "StatefulSet"}
    BY <1>2
  <2>2. seenObj[o] # None /\ seenObj[o] \in Object(o[1])
    BY <1>4, <2>1 DEF Claimed, Exists, TypeOK
  <2>3. /\ body \in Body(o[1])
        /\ [seenObj[o] EXCEPT !.body.replicas = k] = [seenObj[o] EXCEPT !.body = body]
    BY <2>1, <2>2, RescaledType
  <2>4. QED
    BY <1>1, <1>4, <2>1, <2>2, <2>3, BodyWrites
<1>5. CASE UpdateStatefulSetSize(n)
  <2>1. s.spec.size \in 0 .. MaxSize
    BY <1>1 DEF SmbShare, SmbShareSpec
  <2>2. QED
    BY <1>4, <1>5, <2>1 DEF UpdateStatefulSetSize
<1>6. CASE UpdateDeploymentSize(n)
  <2>1. 1 \in 0 .. MaxSize
    BY BoundsAssumption
  <2>2. QED
    BY <1>4, <1>6, <2>1 DEF UpdateDeploymentSize
<1>7. QED
  BY <1>3, <1>5, <1>6

(* The steps of Update that write the share itself. *)
LEMMA ShareStepWrites ==
    ASSUME TypeOK, NEW n \in Names,
           AddFinalizer(n) \/ SetServerGroup(n) \/ UpdateBackend(n)
    PROVE  WritesShare(n)
<1> DEFINE s == seenShare[n]
<1>1. s # None /\ s \in SmbShare
  <2>1. s # None
    BY DEF AddFinalizer, SetServerGroup, UpdateBackend, PastFinalizer, IsLive, PastDataPvc,
           PastConfigMap, PastConfigMapClaim, PastServerGroup
  <2>2. QED
    BY <2>1 DEF TypeOK
<1>2. CASE AddFinalizer(n)
  <2> DEFINE new == [s EXCEPT !.fin = TRUE]
  <2>1. new \in SmbShare /\ Follows(s, new)
    BY <1>1 DEF SmbShare, Follows
  <2>2. QED
    BY <1>1, <1>2, <2>1 DEF AddFinalizer, WritesShare
<1>3. CASE SetServerGroup(n)
  <2> DEFINE group == RequestedGroup(n, s.spec)
             new == [s EXCEPT !.group = group]
  <2>1. group \in Groups \cup {NoGroup}
    BY <1>1, NamesAssumption DEF RequestedGroup, SmbShare, SmbShareSpec
  <2>2. s.group = NoGroup /\ WriteShare(n, new)
    BY <1>3 DEF SetServerGroup
  <2>3. new \in SmbShare /\ Follows(s, new)
    BY <1>1, <2>1, <2>2 DEF SmbShare, Follows
  <2>4. QED
    BY <1>1, <2>2, <2>3 DEF WritesShare
<1>4. CASE UpdateBackend(n)
  <2> DEFINE pvc == PvcInMemory(n, s.spec)
             new == [s EXCEPT !.backend = BackendOf(s.spec), !.spec.pvc = pvc]
             spec == [s.spec EXCEPT !.pvc = pvc]
  <2>1. s.backend = NoBackend /\ WriteShare(n, new)
    BY <1>4 DEF UpdateBackend
  <2>2. s.spec \in SmbShareSpec
    BY <1>1 DEF SmbShare
  <2>3. pvc \in DataPvcNames \cup {NoPvc}
    BY <2>2 DEF PvcInMemory, PvcName, DataPvcNames, SmbShareSpec
  <2>4. spec \in SmbShareSpec
    BY <2>2, <2>3 DEF SmbShareSpec
  <2>5. BackendOf(s.spec) \in Backends
    BY DEF BackendOf, Backends
  <2>6. new = [s EXCEPT !.backend = BackendOf(s.spec), !.spec = spec]
    BY <1>1 DEF SmbShare
  <2>7. new \in SmbShare
    BY <1>1, <2>4, <2>5, <2>6 DEF SmbShare
  <2>8. Follows(s, new)
    BY <1>1, <2>1, <2>6 DEF SmbShare, Follows
  <2>9. QED
    BY <1>1, <2>1, <2>7, <2>8 DEF WritesShare
<1>5. QED
  BY <1>2, <1>3, <1>4

(* The steps of Finalize that write an object. *)
LEMMA FinalizeStepWrites ==
    ASSUME TypeOK, NEW n \in Names,
           TransferConfigMap(n) \/ PruneConfiguration(n) \/ TransferServerResources(n)
    PROVE  WritesObject(n)
<1> DEFINE s == seenShare[n]
<1>1. s # None /\ s \in SmbShare
  BY DEF TransferConfigMap, PruneConfiguration, TransferServerResources, ConfigMapFinalized,
         Finalizing, TypeOK
<1>2. CASE TransferConfigMap(n)
  <2>1. TransferOwnership(ConfigMap(s), n)
    BY <1>2 DEF TransferConfigMap
  <2>2. ConfigMap(s) \in Ids
    BY <2>1 DEF TransferOwnership, NeedsTransfer, Exists
  <2>3. QED
    BY <1>1, <2>1, <2>2, TransferWrites
<1>3. CASE PruneConfiguration(n)
  <2> DEFINE o == ConfigMap(s)
             body == Pruned(seenObj[o].body, ShareKey(n, s.spec))
  <2>1. o \in Ids /\ seenObj[o] # None /\ o[1] = "ConfigMap"
    BY <1>3 DEF PruneConfiguration, PruneNeeded, Exists, ConfigMap
  <2>2. seenObj[o].body \in Config
    BY <2>1 DEF TypeOK, Object, Body
  <2>3. body \in Body(o[1])
    BY <1>1, <2>1, <2>2, KeyType, PrunedType DEF Body
  <2>4. WriteObject(o, [seenObj[o] EXCEPT !.body = body])
    BY <1>3 DEF PruneConfiguration
  <2>5. QED
    BY <1>1, <2>1, <2>3, <2>4, BodyWrites
<1>4. CASE TransferServerResources(n)
  <2> DEFINE todo == {i \in DOMAIN ServerResources(n) : NeedsTransfer(ServerResources(n)[i], n)}
             o == ServerResources(n)[First(todo)]
  <2>1. TransferOwnership(o, n)
    BY <1>4 DEF TransferServerResources
  <2>2. o \in Ids
    BY <2>1 DEF TransferOwnership, NeedsTransfer, Exists
  <2>3. QED
    BY <1>1, <2>1, <2>2, TransferWrites
<1>5. QED
  BY <1>2, <1>3, <1>4

(* A pass writes an object, or the share, or removes it, or writes nothing. *)
LEMMA PassCases ==
    ASSUME TypeOK, NEW n \in Names, Reconcile(n)
    PROVE  OnlyQueues \/ WritesObject(n) \/ WritesShare(n) \/ RemoveFinalizer(n)
<1>1. CASE NothingToDo(n)
  BY <1>1 DEF NothingToDo, OnlyQueues
<1>2. CASE Update(n)
  <2>1. UpdateDone(n) \/ UpdateError(n) => OnlyQueues
    BY DEF UpdateDone, UpdateError, OnlyQueues, vars, server, cache, user
  <2>2. QED
    BY <1>2, <2>1, CreateOrClaimWrites, BodyStepWrites, ShareStepWrites DEF Update
<1>3. CASE Finalize(n)
  BY <1>3, FinalizeStepWrites DEF Finalize
<1>4. QED
  BY <1>1, <1>2, <1>3 DEF Reconcile

-----------------------------------------------------------------------------
(* Type correctness *)

LEMMA WokenType ==
    ASSUME NEW k1, NEW k2, NEW old \in Object(k1) \cup {None}, NEW new \in Object(k2) \cup {None}
    PROVE  Woken(old, new) \subseteq Names
<1>1. ASSUME NEW k, NEW x \in Object(k)
      PROVE  ControllersOf(x.refs) \subseteq Names
  <2>1. x.refs \in Seq(OwnerRef(Names, Uids))
    BY DEF Object
  <2>2. \A i \in DOMAIN x.refs : x.refs[i] \in OwnerRef(Names, Uids)
    BY <2>1, LenProperties, ElementOfSeq
  <2>3. QED
    BY <2>2 DEF ControllersOf, OwnerRef
<1>2. QED
  BY <1>1 DEF Woken

LEMMA ChangeObjectType ==
    ASSUME TypeOK, NEW o \in Ids, NEW new \in Object(o[1]) \cup {None}, ChangeObject(o, new)
    PROVE  /\ \A p \in Ids : obj'[p] \in Object(p[1]) \cup {None}
           /\ \A p \in Ids : seenObj'[p] \in Object(p[1]) \cup {None}
           /\ DOMAIN obj' = Ids /\ DOMAIN seenObj' = Ids
           /\ queue' \subseteq Names
<1>1. Woken(seenObj[o], new) \subseteq Names
  BY WokenType DEF TypeOK
<1>2. QED
  BY <1>1 DEF ChangeObject, TypeOK

LEMMA ChangeShareType ==
    ASSUME TypeOK, NEW n \in Names, NEW new \in SmbShare \cup {None}, ChangeShare(n, new)
    PROVE  /\ share' \in [Names -> SmbShare \cup {None}]
           /\ seenShare' \in [Names -> SmbShare \cup {None}]
           /\ queue' \subseteq Names
BY DEF ChangeShare, TypeOK

LEMMA PassType ==
    ASSUME TypeOK, NEW n \in Names, Reconcile(n)
    PROVE  TypeOK'
<1>1. CASE OnlyQueues
  BY <1>1 DEF OnlyQueues, TypeOK, server, cache, user
<1>2. CASE WritesObject(n)
  <2>1. PICK o \in Ids : \E new \in Object(o[1]) : WriteObject(o, new)
    BY <1>2 DEF WritesObject
  <2>2. PICK new \in Object(o[1]) : WriteObject(o, new)
    BY <2>1
  <2>3. CASE ChangeObject(o, new)
    BY <2>2, <2>3, ChangeObjectType DEF WriteObject, TypeOK, user
  <2>4. CASE UNCHANGED <<obj, seenObj, queue>>
    BY <2>2, <2>4 DEF WriteObject, TypeOK, user
  <2>5. QED
    BY <2>2, <2>3, <2>4 DEF WriteObject
<1>3. CASE WritesShare(n)
  <2>1. PICK new \in SmbShare : WriteShare(n, new)
    BY <1>3 DEF WritesShare
  <2>2. CASE ChangeShare(n, new)
    BY <2>1, <2>2, ChangeShareType DEF WriteShare, TypeOK, user
  <2>3. CASE UNCHANGED <<share, seenShare, queue>>
    BY <2>1, <2>3 DEF WriteShare, TypeOK, user
  <2>4. QED
    BY <2>1, <2>2, <2>3 DEF WriteShare
<1>4. CASE RemoveFinalizer(n)
  BY <1>4 DEF RemoveFinalizer, TypeOK, user
<1>5. QED
  BY <1>1, <1>2, <1>3, <1>4, PassCases

(* Everyone else's changes to an object: its end, or a new body or fewer   *)
(* references.                                                             *)
RefsRewritten(o, new) ==
    \/ new = None
    \/ obj[o] # None /\ new.refs = obj[o].refs
    \/ obj[o] # None /\ \E k \in DOMAIN obj[o].refs : new.refs = WithoutRef(obj[o].refs, k)

OthersWriteObject ==
    /\ \E o \in Ids : \E new \in Object(o[1]) \cup {None} :
          RefsRewritten(o, new) /\ ChangeObject(o, new)
    /\ UNCHANGED <<share, seenShare, confs, lives>>
    /\ edits' \in 0 .. MaxEdits

LEMMA OthersCases ==
    ASSUME TypeOK, NEW o \in Ids,
           Collect(o) \/ DropDangling(o) \/ ScaleWorkload(o) \/ DeleteObject(o)
    PROVE  OthersWriteObject
<1> USE DEF OthersWriteObject
<1>1. edits' = edits \/ (edits > 0 /\ edits' = edits - 1) => edits' \in 0 .. MaxEdits
  BY BoundsAssumption DEF TypeOK
<1>2. CASE Collect(o)
  BY <1>1, <1>2 DEF Collect, RefsRewritten, user
<1>3. CASE DropDangling(o)
  <2>1. obj[o] # None /\ obj[o] \in Object(o[1])
    BY <1>3 DEF DropDangling, TypeOK
  <2>2. PICK i \in DOMAIN obj[o].refs :
            ChangeObject(o, [obj[o] EXCEPT !.refs = WithoutRef(obj[o].refs, i)])
    BY <1>3 DEF DropDangling
  <2> DEFINE new == [obj[o] EXCEPT !.refs = WithoutRef(obj[o].refs, i)]
  <2>3. WithoutRef(obj[o].refs, i) \in Seq(OwnerRef(Names, Uids))
    BY <2>1, WithoutRefType DEF Object
  <2>4. new \in Object(o[1]) /\ new.refs = WithoutRef(obj[o].refs, i)
    BY <2>1, <2>3 DEF Object
  <2>5. RefsRewritten(o, new)
    BY <2>1, <2>4 DEF RefsRewritten
  <2>6. QED
    BY <1>1, <1>3, <2>2, <2>4, <2>5 DEF DropDangling, user
<1>4. CASE ScaleWorkload(o)
  <2>1. o[1] \in {"Deployment", "StatefulSet"} /\ obj[o] # None /\ obj[o] \in Object(o[1])
    BY <1>4 DEF ScaleWorkload, TypeOK
  <2>2. PICK k \in 0 .. MaxSize : ChangeObject(o, [obj[o] EXCEPT !.body.replicas = k])
    BY <1>4 DEF ScaleWorkload
  <2> DEFINE new == [obj[o] EXCEPT !.body.replicas = k]
  <2>3. new \in Object(o[1]) /\ new.refs = obj[o].refs
    BY <2>1, RescaledType
  <2>4. RefsRewritten(o, new)
    BY <2>1, <2>3 DEF RefsRewritten
  <2>5. QED
    BY <1>1, <1>4, <2>2, <2>3, <2>4 DEF ScaleWorkload
<1>5. CASE DeleteObject(o)
  BY <1>1, <1>5 DEF DeleteObject, RefsRewritten
<1>6. QED
  BY <1>2, <1>3, <1>4, <1>5

(* A share as its user creates it. *)
LEMMA NewShareType ==
    ASSUME TypeOK, NEW n \in Names, NEW spec \in SpecsOf[n], lives[n] < MaxLives[n]
    PROVE  /\ lives[n] + 1 \in 0 .. MaxLives[n]
           /\ [uid |-> lives[n] + 1, spec |-> spec, deleting |-> FALSE, fin |-> FALSE,
               group |-> NoGroup, backend |-> NoBackend] \in SmbShare
<1>1. MaxLives[n] \in Nat /\ lives[n] \in Nat
  BY BoundsAssumption DEF TypeOK
<1>2. lives[n] + 1 \in 1 .. MaxLives[n]
  BY <1>1
<1>3. lives[n] + 1 \in Uids
  BY <1>2 DEF Uids
<1>4. QED
  BY <1>2, <1>3, SpecsAssumption DEF SmbShare

LEMMA UsersType ==
    ASSUME TypeOK, NEW n \in Names, CreateShare(n) \/ DeleteShare(n) \/ EditSpec(n)
    PROVE  TypeOK'
<1>1. CASE CreateShare(n)
  <2>1. PICK spec \in SpecsOf[n] :
            ChangeShare(n, [uid |-> lives[n] + 1, spec |-> spec, deleting |-> FALSE, fin |-> FALSE,
                            group |-> NoGroup, backend |-> NoBackend])
    BY <1>1 DEF CreateShare
  <2>2. /\ lives[n] + 1 \in 0 .. MaxLives[n]
        /\ [uid |-> lives[n] + 1, spec |-> spec, deleting |-> FALSE, fin |-> FALSE,
            group |-> NoGroup, backend |-> NoBackend] \in SmbShare
    BY <1>1, NewShareType DEF CreateShare
  <2>3. lives' \in [Names -> Nat] /\ \A m \in Names : lives'[m] <= MaxLives[m]
    BY <1>1, <2>2 DEF CreateShare, TypeOK
  <2>4. QED
    BY <1>1, <2>1, <2>2, <2>3, ChangeShareType DEF CreateShare, TypeOK
<1>2. CASE DeleteShare(n)
  <2>1. share[n] \in SmbShare
    BY <1>2 DEF DeleteShare, IsLive, TypeOK
  <2>2. [share[n] EXCEPT !.deleting = TRUE] \in SmbShare
    BY <2>1 DEF SmbShare
  <2>3. QED
    BY <1>2, <2>2, ChangeShareType DEF DeleteShare, TypeOK, user
<1>3. CASE EditSpec(n)
  <2>1. share[n] \in SmbShare
    BY <1>3 DEF EditSpec, TypeOK
  <2>2. PICK spec \in SpecsOf[n] : ChangeShare(n, [share[n] EXCEPT !.spec = spec])
    BY <1>3 DEF EditSpec
  <2>3. [share[n] EXCEPT !.spec = spec] \in SmbShare
    BY <2>1, SpecsAssumption DEF SmbShare
  <2>4. edits' \in 0 .. MaxEdits
    BY <1>3, BoundsAssumption DEF EditSpec, TypeOK
  <2>5. QED
    BY <1>3, <2>2, <2>3, <2>4, ChangeShareType DEF EditSpec, TypeOK
<1>4. QED
  BY <1>1, <1>2, <1>3

LEMMA InitType == Init => TypeOK
BY BoundsAssumption DEF Init, TypeOK

LEMMA NextType == TypeOK /\ [Next]_vars => TypeOK'
<1> SUFFICES ASSUME TypeOK, [Next]_vars PROVE TypeOK'
  OBVIOUS
<1>1. ASSUME NEW n \in Names, Reconcile(n) PROVE TypeOK'
  BY <1>1, PassType
<1>2. ASSUME NEW n \in Names, SyncShare(n) \/ Trigger(n) PROVE TypeOK'
  BY <1>2 DEF SyncShare, Trigger, TypeOK, server, cache, user
<1>3. ASSUME NEW o \in Ids, SyncObject(o) PROVE TypeOK'
  <2>1. Woken(seenObj[o], obj[o]) \subseteq Names
    BY WokenType DEF TypeOK
  <2>2. QED
    BY <1>3, <2>1 DEF SyncObject, TypeOK, server, user
<1>4. ASSUME OthersWriteObject PROVE TypeOK'
  <2>1. PICK o \in Ids : \E new \in Object(o[1]) \cup {None} : ChangeObject(o, new)
    BY <1>4 DEF OthersWriteObject
  <2>2. QED
    BY <1>4, <2>1, ChangeObjectType DEF OthersWriteObject, TypeOK
<1>5. CASE Restart
  <2>1. \A o \in Ids : Woken(None, obj[o]) \subseteq Names
    BY WokenType DEF TypeOK
  <2>2. QED
    BY <1>5, <2>1 DEF Restart, TypeOK, server, user
<1>6. ASSUME NEW cf \in Confs, ToggleConf(cf) PROVE TypeOK'
  BY <1>6, BoundsAssumption DEF ToggleConf, TypeOK, cache
<1>7. CASE UNCHANGED vars
  BY <1>7 DEF vars, TypeOK
<1>8. QED
  BY <1>1, <1>2, <1>3, <1>4, <1>5, <1>6, <1>7, OthersCases, UsersType DEF Next, Users

(* Every variable keeps its type: no pass, whatever it read, writes        *)
(* anything but shares and objects of the kinds the controller manages.    *)
THEOREM TypeCorrect == Spec => []TypeOK
BY InitType, NextType, PTL DEF Spec

-----------------------------------------------------------------------------
(* Ownership lists *)

LEMMA WrittenWellFormed ==
    ASSUME TypeOK, NEW n \in Names, NEW o \in Ids, NEW refs,
           seenObj[o] # None => WellFormed(seenObj[o].refs),
           seenShare[n] \in SmbShare, RefsWritten(n, o, refs)
    PROVE  WellFormed(refs)
<1>1. seenShare[n].uid \in Uids
  BY DEF SmbShare
<1>2. seenObj[o] # None => seenObj[o].refs \in Seq(OwnerRef(Names, Uids))
  BY DEF TypeOK, Object
<1>3. QED
  BY <1>1, <1>2, CreatedWellFormed, AppendedWellFormed, ChangedWellFormed DEF RefsWritten

LEMMA RewrittenWellFormed ==
    ASSUME TypeOK, NEW o \in Ids, NEW new, new # None,
           obj[o] # None => WellFormed(obj[o].refs), RefsRewritten(o, new)
    PROVE  WellFormed(new.refs)
<1>1. obj[o] # None => obj[o].refs \in Seq(OwnerRef(Names, Uids))
  BY DEF TypeOK, Object
<1>2. QED
  BY <1>1, DroppedWellFormed DEF RefsRewritten

LEMMA OneControllerNext == TypeOK /\ OneController /\ [Next]_vars => OneController'
<1> SUFFICES ASSUME TypeOK, OneController, [Next]_vars PROVE OneController'
  OBVIOUS
<1>1. CASE UNCHANGED obj
  BY <1>1 DEF OneController
<1>2. ASSUME NEW n \in Names, WritesObject(n) PROVE OneController'
  <2>1. PICK o \in Ids : \E new \in Object(o[1]) :
            RefsWritten(n, o, new.refs) /\ WriteObject(o, new)
    BY <1>2 DEF WritesObject
  <2>2. PICK new \in Object(o[1]) : RefsWritten(n, o, new.refs) /\ WriteObject(o, new)
    BY <2>1
  <2>3. CASE seenObj[o] = obj[o] /\ ChangeObject(o, new)
    <3>1. WellFormed(new.refs)
      BY <1>2, <2>2, <2>3, WrittenWellFormed DEF OneController, WritesObject
    <3>2. obj' = [obj EXCEPT ![o] = new] /\ DOMAIN obj = Ids
      BY <2>3 DEF ChangeObject, TypeOK
    <3>3. QED
      BY <3>1, <3>2 DEF OneController
  <2>4. QED
    BY <1>1, <2>2, <2>3 DEF WriteObject
<1>3. ASSUME OthersWriteObject PROVE OneController'
  <2>1. PICK o \in Ids : \E new \in Object(o[1]) \cup {None} :
            RefsRewritten(o, new) /\ ChangeObject(o, new)
    BY <1>3 DEF OthersWriteObject
  <2>2. PICK new \in Object(o[1]) \cup {None} : RefsRewritten(o, new) /\ ChangeObject(o, new)
    BY <2>1
  <2>3. new # None => WellFormed(new.refs)
    BY <2>2, RewrittenWellFormed DEF OneController
  <2>4. obj' = [obj EXCEPT ![o] = new] /\ DOMAIN obj = Ids
    BY <2>2 DEF ChangeObject, TypeOK
  <2>5. QED
    BY <2>3, <2>4 DEF OneController
<1>4. ASSUME NEW n \in Names, Reconcile(n) PROVE OneController'
  <2>1. OnlyQueues \/ WritesShare(n) \/ RemoveFinalizer(n) => UNCHANGED obj
    BY DEF OnlyQueues, WritesShare, WriteShare, RemoveFinalizer, server
  <2>2. QED
    BY <1>1, <1>2, <1>4, <2>1, PassCases
<1>5. ASSUME NEW n \in Names, \/ SyncShare(n) \/ Trigger(n) \/ CreateShare(n)
                              \/ DeleteShare(n) \/ EditSpec(n)
      PROVE  UNCHANGED obj
  BY <1>5 DEF SyncShare, Trigger, CreateShare, DeleteShare, EditSpec, server
<1>6. ASSUME NEW o \in Ids, SyncObject(o) PROVE UNCHANGED obj
  BY <1>6 DEF SyncObject, server
<1>7. ASSUME NEW cf \in Confs, ToggleConf(cf) PROVE UNCHANGED obj
  BY <1>7 DEF ToggleConf
<1>8. Restart \/ UNCHANGED vars => UNCHANGED obj
  BY DEF Restart, server, vars
<1>9. QED
  BY <1>1, <1>3, <1>4, <1>5, <1>6, <1>7, <1>8, OthersCases DEF Next, Users

(* No object ever has two controlling owners, and no share name is listed  *)
(* twice: each claim, transfer and collection keeps the list well formed,  *)
(* because the server refuses the write when the list read is stale.       *)
THEOREM OneControllerHolds == Spec => []OneController
<1>1. Init => OneController
  BY DEF Init, OneController
<1>2. QED
  BY <1>1, InitType, NextType, OneControllerNext, PTL DEF Spec

-----------------------------------------------------------------------------
(* Lives of a share *)

(* The cached copy of a share that still lives is an earlier version of    *)
(* it: what the copy has on record (the finalizer, the group, the backend) *)
(* the share has too.  Without this no claim about a write that follows    *)
(* from the copy would be inductive.                                       *)
CacheBehind ==
    \A n \in Names :
        /\ share[n] # None => share[n].uid <= lives[n]
        /\ seenShare[n] # None =>
              /\ seenShare[n].uid <= lives[n]
              /\ share[n] # None /\ share[n].uid = seenShare[n].uid
                    => Follows(seenShare[n], share[n])

(* A step ends a share, takes it further, or starts a new life. *)
SharesFollow ==
    \A n \in Names :
        /\ lives[n] \in Nat /\ lives'[n] \in Nat /\ lives[n] <= lives'[n]
        /\ \/ share'[n] = None
           \/ share[n] # None /\ share'[n] # None /\ Follows(share[n], share'[n])
           \/ share'[n] # None /\ share'[n].uid > lives[n]

LEMMA FollowsOrder ==
    ASSUME NEW s, NEW t, NEW u
    PROVE  /\ Follows(s, s)
           /\ Follows(s, t) /\ Follows(t, u) => Follows(s, u)
BY DEF Follows

LEMMA UidType ==
    ASSUME TypeOK, NEW n \in Names
    PROVE  /\ lives[n] \in Nat
           /\ share[n] # None => share[n].uid \in Nat
           /\ seenShare[n] # None => seenShare[n].uid \in Nat
<1>1. Uids \subseteq Nat
  BY BoundsAssumption DEF Uids
<1>2. /\ share[n] # None => share[n].uid \in Uids
      /\ seenShare[n] # None => seenShare[n].uid \in Uids
  BY DEF TypeOK, SmbShare
<1>3. QED
  BY <1>1, <1>2 DEF TypeOK

(* Whatever changes share n takes it further, ends it or starts a new life *)
(* of it; the cache stays as it was, or is brought up to date.             *)
LEMMA ShareChanges ==
    ASSUME TypeOK, CacheBehind, NEW n \in Names, NEW new \in SmbShare \cup {None},
           share' = [share EXCEPT ![n] = new],
           \/ seenShare' = seenShare
           \/ seenShare' = [seenShare EXCEPT ![n] = new]
           \/ seenShare' = share',
           \/ new = None /\ lives' = lives
           \/ share[n] # None /\ Follows(share[n], new) /\ lives' = lives
           \/ /\ share[n] = None
              /\ new.uid = lives[n] + 1
              /\ lives' = [lives EXCEPT ![n] = @ + 1]
    PROVE  CacheBehind' /\ SharesFollow
<1>1. /\ lives \in [Names -> Nat]
      /\ \A m \in Names : /\ share[m] # None => share[m].uid \in Nat
                         /\ seenShare[m] # None => seenShare[m].uid \in Nat
  BY UidType DEF TypeOK
<1>2. ASSUME NEW m \in Names
      PROVE  /\ lives[m] \in Nat /\ lives'[m] \in Nat /\ lives[m] <= lives'[m]
             /\ m # n => share'[m] = share[m] /\ lives'[m] = lives[m]
  BY <1>1 DEF TypeOK
<1>3. share'[n] = new
  BY DEF TypeOK
<1>4. SharesFollow
  <2>1. ASSUME NEW m \in Names, m # n
        PROVE  \/ share'[m] = None
               \/ share[m] # None /\ share'[m] # None /\ Follows(share[m], share'[m])
    BY <1>2, <2>1, FollowsOrder
  <2>2. \/ new = None
        \/ share[n] # None /\ Follows(share[n], new)
        \/ new.uid > lives[n]
    BY <1>1
  <2>3. QED
    BY <1>2, <1>3, <2>1, <2>2 DEF SharesFollow
<1>5. ASSUME NEW m \in Names
      PROVE  share'[m] # None => share'[m].uid <= lives'[m]
  <2>1. CASE m # n
    BY <1>2, <2>1 DEF CacheBehind
  <2>2. CASE m = n
    BY <1>1, <1>3, <2>2 DEF CacheBehind, Follows, TypeOK
  <2>3. QED
    BY <2>1, <2>2
<1>6. ASSUME NEW m \in Names, seenShare[m] # None
      PROVE  /\ seenShare[m].uid <= lives'[m]
             /\ share'[m] # None /\ share'[m].uid = seenShare[m].uid
                   => Follows(seenShare[m], share'[m])
  <2>1. CASE m # n
    BY <1>2, <1>6, <2>1 DEF CacheBehind
  <2>2. CASE m = n
    <3>1. seenShare[n].uid <= lives[n] /\ seenShare[n].uid \in Nat
      BY <1>6, <2>2, UidType DEF CacheBehind
    <3>2. seenShare[n].uid <= lives'[n]
      BY <1>2, <3>1
    <3>3. CASE share[n] # None /\ Follows(share[n], new)
      BY <1>3, <1>6, <2>2, <3>2, <3>3, FollowsOrder DEF CacheBehind, Follows
    <3>4. CASE new.uid = lives[n] + 1
      BY <1>1, <1>3, <2>2, <3>1, <3>2, <3>4
    <3>5. QED
      BY <1>3, <2>2, <3>2, <3>3, <3>4
  <2>3. QED
    BY <2>1, <2>2
<1>7. CacheBehind'
  <2>1. ASSUME NEW m \in Names
        PROVE  seenShare'[m] \in {seenShare[m], share'[m]}
    BY <1>3 DEF TypeOK
  <2>2. QED
    BY <1>5, <1>6, <2>1, FollowsOrder DEF CacheBehind
<1>8. QED
  BY <1>4, <1>7

LEMMA SharesUnchanged ==
    ASSUME TypeOK, CacheBehind, UNCHANGED <<share, lives>>,
           seenShare' = seenShare \/ \A n \in Names : seenShare'[n] \in {seenShare[n], share[n]}
    PROVE  CacheBehind' /\ SharesFollow
<1>1. \A n \in Names : lives[n] \in Nat
  BY UidType
<1>2. SharesFollow
  BY <1>1, FollowsOrder DEF SharesFollow
<1>3. CacheBehind'
  BY FollowsOrder DEF CacheBehind
<1>4. QED
  BY <1>2, <1>3

LEMMA SharesNext ==
    ASSUME TypeOK, CacheBehind, [Next]_vars
    PROVE  CacheBehind' /\ SharesFollow
<1> DEFINE Goal == CacheBehind' /\ SharesFollow
<1>1. ASSUME NEW n \in Names, WritesShare(n) PROVE Goal
  <2>1. PICK new \in SmbShare : Follows(seenShare[n], new) /\ WriteShare(n, new)
    BY <1>1 DEF WritesShare
  <2>2. CASE seenShare[n] = share[n] /\ ChangeShare(n, new)
    BY <1>1, <2>1, <2>2, ShareChanges DEF WritesShare, ChangeShare, WriteShare, user
  <2>3. CASE UNCHANGED <<share, seenShare, queue>>
    BY <2>1, <2>3, SharesUnchanged DEF WriteShare, user
  <2>4. QED
    BY <2>1, <2>2, <2>3 DEF WriteShare
<1>2. ASSUME NEW n \in Names, RemoveFinalizer(n) PROVE Goal
  BY <1>2, ShareChanges, SharesUnchanged DEF RemoveFinalizer, user
<1>3. ASSUME NEW n \in Names, Reconcile(n) PROVE Goal
  <2>1. OnlyQueues \/ WritesObject(n) => UNCHANGED <<share, seenShare, lives>>
    BY DEF OnlyQueues, WritesObject, WriteObject, server, cache, user
  <2>2. QED
    BY <1>1, <1>2, <1>3, <2>1, PassCases, SharesUnchanged
<1>4. ASSUME NEW n \in Names, CreateShare(n) PROVE Goal
  <2>1. PICK spec \in SpecsOf[n] :
            ChangeShare(n, [uid |-> lives[n] + 1, spec |-> spec, deleting |-> FALSE, fin |-> FALSE,
                            group |-> NoGroup, backend |-> NoBackend])
    BY <1>4 DEF CreateShare
  <2> DEFINE new == [uid |-> lives[n] + 1, spec |-> spec, deleting |-> FALSE, fin |-> FALSE,
                     group |-> NoGroup, backend |-> NoBackend]
  <2>2. new \in SmbShare
    BY <1>4, NewShareType DEF CreateShare
  <2>3. lives' = [lives EXCEPT ![n] = @ + 1] /\ share[n] = None
    BY <1>4 DEF CreateShare
  <2>4. new.uid = lives[n] + 1
    OBVIOUS
  <2>5. ChangeShare(n, new)
    BY <2>1
  <2>6. /\ share' = [share EXCEPT ![n] = new]
        /\ seenShare' = seenShare \/ seenShare' = [seenShare EXCEPT ![n] = new]
    BY <2>5 DEF ChangeShare
  <2> HIDE DEF new
  <2>7. QED
    BY <2>2, <2>3, <2>4, <2>6, ShareChanges
<1>5. ASSUME NEW n \in Names, DeleteShare(n) PROVE Goal
  <2>1. share[n] # None /\ share[n] \in SmbShare
    BY <1>5 DEF DeleteShare, IsLive, TypeOK
  <2> DEFINE new == IF share[n].fin THEN [share[n] EXCEPT !.deleting = TRUE] ELSE None
  <2>2. new \in SmbShare \cup {None} /\ (new = None \/ Follows(share[n], new))
    BY <2>1 DEF SmbShare, Follows
  <2>3. ChangeShare(n, new) /\ lives' = lives
    BY <1>5 DEF DeleteShare, user
  <2>4. QED
    BY <2>1, <2>2, <2>3, ShareChanges DEF ChangeShare
<1>6. ASSUME NEW n \in Names, EditSpec(n) PROVE Goal
  <2>1. share[n] # None /\ share[n] \in SmbShare
    BY <1>6 DEF EditSpec, TypeOK
  <2>2. PICK spec \in SpecsOf[n] : ChangeShare(n, [share[n] EXCEPT !.spec = spec])
    BY <1>6 DEF EditSpec
  <2> DEFINE new == [share[n] EXCEPT !.spec = spec]
  <2>3. new \in SmbShare /\ Follows(share[n], new)
    BY <2>1, SpecsAssumption DEF SmbShare, Follows
  <2>4. QED
    BY <1>6, <2>1, <2>2, <2>3, ShareChanges DEF EditSpec, ChangeShare
<1>7. ASSUME NEW n \in Names, SyncShare(n) \/ Trigger(n) PROVE Goal
  BY <1>7, SharesUnchanged DEF SyncShare, Trigger, TypeOK, server, cache, user
<1>8. ASSUME NEW o \in Ids, SyncObject(o) PROVE Goal
  BY <1>8, SharesUnchanged DEF SyncObject, server, user
<1>9. ASSUME OthersWriteObject PROVE Goal
  BY <1>9, SharesUnchanged DEF OthersWriteObject
<1>10. ASSUME NEW cf \in Confs, ToggleConf(cf) PROVE Goal
  BY <1>10, SharesUnchanged DEF ToggleConf, cache
<1>11. CASE Restart
  BY <1>11, SharesUnchanged DEF Restart, server, user
<1>12. CASE UNCHANGED vars
  BY <1>12, SharesUnchanged DEF vars
<1>13. QED
  BY <1>3, <1>4, <1>5, <1>6, <1>7, <1>8, <1>9, <1>10, <1>11, <1>12, OthersCases DEF Next, Users

(* Once given, a group and a backend are kept: no write of the share's     *)
(* manager, made from a copy that may be stale, takes them back.           *)
LEMMA FixedNext ==
    ASSUME TypeOK, CacheBehind, SharesFollow
    PROVE  \A n \in Names :
              /\ share[n] # None /\ share'[n] # None
              /\ share'[n].uid = share[n].uid
              => /\ share[n].group # NoGroup => share'[n].group = share[n].group
                 /\ share[n].backend # NoBackend => share'[n].backend = share[n].backend
<1> SUFFICES ASSUME NEW n \in Names, share[n] # None, share'[n] # None,
                    share'[n].uid = share[n].uid
             PROVE  /\ share[n].group # NoGroup => share'[n].group = share[n].group
                    /\ share[n].backend # NoBackend => share'[n].backend = share[n].backend
  OBVIOUS
<1>1. share[n].uid <= lives[n] /\ share[n].uid \in Nat /\ lives[n] \in Nat
  BY UidType DEF CacheBehind
<1>2. ~(share'[n].uid > lives[n])
  BY <1>1
<1>3. Follows(share[n], share'[n])
  BY <1>2 DEF SharesFollow
<1>4. QED
  BY <1>3 DEF Follows

LEMMA CacheBehindInit == Init => CacheBehind
BY DEF Init, CacheBehind

(* The group and the backend of a share are for life: setServerGroup and   *)
(* updateBackend write them once, whatever the spec is edited to.          *)
THEOREM GroupAndBackendAreFixed == Spec => GroupAndBackendFixed
<1>1. TypeOK /\ CacheBehind /\ [Next]_vars => CacheBehind'
  BY SharesNext
<1>2. TypeOK /\ CacheBehind /\ [Next]_vars
      => [\A n \in Names :
            /\ share[n] # None /\ share'[n] # None
            /\ share'[n].uid = share[n].uid
            => /\ share[n].group # NoGroup => share'[n].group = share[n].group
               /\ share[n].backend # NoBackend => share'[n].backend = share[n].backend]_vars
  BY SharesNext, FixedNext
<1>3. QED
  BY <1>1, <1>2, InitType, NextType, CacheBehindInit, PTL DEF Spec, GroupAndBackendFixed

-----------------------------------------------------------------------------
(* Owners *)

(* A reference on o is to a life its name has had; if it is to the share   *)
(* that bears the name now, that share has its finalizer and, where o is a *)
(* config or a workload, o's group and kind on record.                     *)
RefSound(r, o) ==
    /\ r.uid <= lives[r.name]
    /\ OwnerAlive(r) => share[r.name].fin /\ Backed(share[r.name], o)

OwnersSound ==
    \A o \in Ids : obj[o] # None =>
        \A i \in DOMAIN obj[o].refs : RefSound(obj[o].refs[i], o)

(* RefSound is a matter of a reference's name and uid alone. *)
LEMMA RefSoundSame ==
    ASSUME NEW r, NEW q, NEW o, r.name = q.name, r.uid = q.uid, RefSound(q, o)
    PROVE  RefSound(r, o)
BY DEF RefSound, OwnerAlive

LEMMA RefType ==
    ASSUME TypeOK, NEW o \in Ids, obj[o] # None, NEW i \in DOMAIN obj[o].refs
    PROVE  /\ obj[o].refs \in Seq(OwnerRef(Names, Uids))
           /\ obj[o].refs[i] \in OwnerRef(Names, Uids)
           /\ obj[o].refs[i].name \in Names
           /\ obj[o].refs[i].uid \in Nat
<1>1. obj[o].refs \in Seq(OwnerRef(Names, Uids))
  BY DEF TypeOK, Object
<1>2. obj[o].refs[i] \in OwnerRef(Names, Uids)
  BY <1>1, LenProperties, ElementOfSeq
<1>3. Uids \subseteq Nat
  BY BoundsAssumption DEF Uids
<1>4. QED
  BY <1>1, <1>2, <1>3 DEF OwnerRef

(* A step that changes shares leaves every reference sound. *)
LEMMA SharesKeepSound ==
    ASSUME TypeOK, CacheBehind, OwnersSound, SharesFollow, UNCHANGED obj
    PROVE  OwnersSound'
<1> SUFFICES ASSUME NEW o \in Ids, obj[o] # None, NEW i \in DOMAIN obj[o].refs
             PROVE  RefSound(obj[o].refs[i], o)'
  BY DEF OwnersSound
<1> DEFINE r == obj[o].refs[i]
           n == r.name
<1>1. n \in Names /\ r.uid \in Nat
  BY RefType
<1>2. RefSound(r, o)
  BY DEF OwnersSound
<1>3. lives[n] \in Nat /\ lives'[n] \in Nat /\ lives[n] <= lives'[n]
  BY <1>1 DEF SharesFollow
<1>4. r.uid <= lives'[n]
  BY <1>1, <1>2, <1>3 DEF RefSound
<1>5. ASSUME share'[n] # None, share'[n].uid = r.uid
      PROVE  share'[n].fin /\ Backed(share'[n], o)
  <2>1. ~(share'[n].uid > lives[n])
    BY <1>1, <1>2, <1>3, <1>5 DEF RefSound
  <2>2. share[n] # None /\ Follows(share[n], share'[n])
    BY <1>1, <1>5, <2>1 DEF SharesFollow
  <2>3. share[n].uid = r.uid
    BY <1>5, <2>2 DEF Follows
  <2>4. share[n].fin /\ Backed(share[n], o)
    BY <1>2, <2>2, <2>3 DEF RefSound, OwnerAlive
  <2>5. o[1] \in {"ConfigMap", "Deployment", "StatefulSet"} => o[2] # NoGroup
    BY SentinelsAssumption DEF Ids, OwnedKinds
  <2>6. NoBackend # "standard" /\ NoBackend # "clustered"
    BY SentinelsAssumption DEF Backends
  <2>7. QED
    BY <2>2, <2>4, <2>5, <2>6 DEF Follows, Backed
<1>6. QED
  BY <1>4, <1>5 DEF RefSound, OwnerAlive

(* The references a pass writes are sound: it adds none but its share's,   *)
(* whose cached copy says what the share itself has on record.             *)
LEMMA WrittenSound ==
    ASSUME TypeOK, CacheBehind, OwnersSound, NEW n \in Names, NEW o \in Ids,
           NEW refs, RefsWritten(n, o, refs),
           seenShare[n] # None, seenShare[n] \in SmbShare, seenObj[o] = obj[o],
           NEW i \in DOMAIN refs
    PROVE  RefSound(refs[i], o)
<1> DEFINE u == seenShare[n].uid
<1>1. ASSUME seenShare[n].fin, Backed(seenShare[n], o), NEW r, r.name = n, r.uid = u
      PROVE  RefSound(r, o)
  <2>1. r.uid <= lives[n]
    BY <1>1 DEF CacheBehind
  <2>2. ASSUME OwnerAlive(r) PROVE share[n].fin /\ Backed(share[n], o)
    <3>1. share[n] # None /\ share[n].uid = u
      BY <1>1, <2>2 DEF OwnerAlive
    <3>2. Follows(seenShare[n], share[n])
      BY <3>1 DEF CacheBehind
    <3>3. o[1] \in {"ConfigMap", "Deployment", "StatefulSet"} => o[2] # NoGroup
      BY SentinelsAssumption DEF Ids, OwnedKinds
    <3>4. NoBackend # "standard" /\ NoBackend # "clustered"
      BY SentinelsAssumption DEF Backends
    <3>5. QED
      BY <1>1, <3>2, <3>3, <3>4 DEF Follows, Backed
  <2>3. QED
    BY <1>1, <2>1, <2>2 DEF RefSound
<1>2. ASSUME seenObj[o] # None
      PROVE  /\ obj[o].refs \in Seq(OwnerRef(Names, Uids))
             /\ \A j \in DOMAIN obj[o].refs : RefSound(obj[o].refs[j], o)
  BY <1>2 DEF OwnersSound, TypeOK, Object
<1>3. CASE /\ seenShare[n].fin /\ Backed(seenShare[n], o)
           /\ refs = <<ControllerRef(n, u)>>
  <2>1. refs[i] = ControllerRef(n, u)
    BY <1>3
  <2>2. refs[i].name = n /\ refs[i].uid = u
    BY <2>1 DEF ControllerRef
  <2>3. QED
    BY <1>1, <1>3, <2>2
<1>4. CASE /\ seenObj[o] # None
           /\ seenShare[n].fin /\ Backed(seenShare[n], o)
           /\ refs = Append(seenObj[o].refs, PlainRef(n, u))
  <2>1. u \in Uids
    BY DEF SmbShare
  <2>2. \/ i \in DOMAIN obj[o].refs /\ refs[i] = obj[o].refs[i]
        \/ refs[i] = PlainRef(n, u)
    BY <1>2, <1>4, <2>1, AppendRefType
  <2>3. PlainRef(n, u).name = n /\ PlainRef(n, u).uid = u
    BY DEF PlainRef
  <2>4. QED
    BY <1>1, <1>2, <1>4, <2>2, <2>3
<1>5. CASE seenObj[o] # None /\ refs = seenObj[o].refs
  BY <1>2, <1>5
<1>6. CASE /\ seenObj[o] # None
           /\ \E k \in DOMAIN seenObj[o].refs : refs = ChangeControllerOwnerTo(seenObj[o].refs, k)
  <2>1. PICK k \in DOMAIN obj[o].refs : refs = ChangeControllerOwnerTo(obj[o].refs, k)
    BY <1>6
  <2>2. /\ i \in DOMAIN obj[o].refs
        /\ refs[i].name = obj[o].refs[i].name
        /\ refs[i].uid = obj[o].refs[i].uid
    <3>1. obj[o].refs \in Seq(OwnerRef(Names, Uids))
      BY <1>2, <1>6
    <3>2. i \in DOMAIN ChangeControllerOwnerTo(obj[o].refs, k)
      BY <2>1
    <3>3. QED
      BY <2>1, <3>1, <3>2, ChangeControllerType
  <2>3. QED
    BY <1>2, <1>6, <2>2, RefSoundSame
<1>7. QED
  BY <1>3, <1>4, <1>5, <1>6 DEF RefsWritten

LEMMA RewrittenSound ==
    ASSUME TypeOK, OwnersSound, NEW o \in Ids, NEW new, new # None, RefsRewritten(o, new),
           NEW i \in DOMAIN new.refs
    PROVE  RefSound(new.refs[i], o)
<1>1. /\ obj[o] # None
      /\ obj[o].refs \in Seq(OwnerRef(Names, Uids))
      /\ \A j \in DOMAIN obj[o].refs : RefSound(obj[o].refs[j], o)
  BY DEF RefsRewritten, OwnersSound, TypeOK, Object
<1>2. \E j \in DOMAIN obj[o].refs : new.refs[i] = obj[o].refs[j]
  <2>1. CASE new.refs = obj[o].refs
    BY <2>1
  <2>2. CASE \E k \in DOMAIN obj[o].refs : new.refs = WithoutRef(obj[o].refs, k)
    <3>1. PICK k \in DOMAIN obj[o].refs : new.refs = WithoutRef(obj[o].refs, k)
      BY <2>2
    <3> DEFINE j == IF i < k THEN i ELSE i + 1
    <3>2. j \in DOMAIN obj[o].refs /\ new.refs[i] = obj[o].refs[j]
      BY <1>1, <3>1, WithoutRefType
    <3>3. QED
      BY <3>2
  <2>3. QED
    BY <2>1, <2>2 DEF RefsRewritten
<1>3. QED
  BY <1>1, <1>2

LEMMA OwnersSoundNext ==
    ASSUME TypeOK, CacheBehind, OwnersSound, [Next]_vars
    PROVE  OwnersSound'
<1>1. ASSUME UNCHANGED obj PROVE OwnersSound'
  BY <1>1, SharesNext, SharesKeepSound
<1>2. ASSUME UNCHANGED <<share, lives>>, NEW o \in Ids, NEW new, obj' = [obj EXCEPT ![o] = new],
             new # None => \A i \in DOMAIN new.refs : RefSound(new.refs[i], o)
      PROVE  OwnersSound'
  <2>1. ASSUME NEW p \in Ids, obj'[p] # None, NEW i \in DOMAIN obj'[p].refs
        PROVE  RefSound(obj'[p].refs[i], p)
    <3>1. CASE p = o
      BY <1>2, <2>1, <3>1 DEF TypeOK
    <3>2. CASE p # o
      BY <1>2, <2>1, <3>2 DEF OwnersSound, TypeOK
    <3>3. QED
      BY <3>1, <3>2
  <2>2. ASSUME NEW p \in Ids, obj'[p] # None, NEW i \in DOMAIN obj'[p].refs
        PROVE  RefSound(obj[p].refs[i], p)'
    <3>1. RefSound(obj'[p].refs[i], p)
      BY <2>1, <2>2
    <3>2. QED
      BY <1>2, <3>1 DEF RefSound, OwnerAlive
  <2>3. QED
    BY <2>2 DEF OwnersSound
<1>3. ASSUME NEW n \in Names, WritesObject(n) PROVE OwnersSound'
  <2>1. PICK o \in Ids : \E new \in Object(o[1]) :
            RefsWritten(n, o, new.refs) /\ WriteObject(o, new)
    BY <1>3 DEF WritesObject
  <2>2. PICK new \in Object(o[1]) : RefsWritten(n, o, new.refs) /\ WriteObject(o, new)
    BY <2>1
  <2>3. CASE seenObj[o] = obj[o] /\ ChangeObject(o, new)
    <3>1. \A i \in DOMAIN new.refs : RefSound(new.refs[i], o)
      <4>1. seenShare[n] # None /\ seenShare[n] \in SmbShare
        BY <1>3 DEF WritesObject
      <4>2. RefsWritten(n, o, new.refs) /\ seenObj[o] = obj[o]
        BY <2>2, <2>3
      <4>3. QED
        BY <4>1, <4>2, WrittenSound
    <3>2. UNCHANGED <<share, lives>> /\ obj' = [obj EXCEPT ![o] = new]
      BY <2>2, <2>3 DEF WriteObject, ChangeObject, user
    <3>3. QED
      BY <1>2, <3>1, <3>2
  <2>4. QED
    BY <1>1, <2>2, <2>3 DEF WriteObject
<1>4. ASSUME OthersWriteObject PROVE OwnersSound'
  <2>1. PICK o \in Ids : \E new \in Object(o[1]) \cup {None} :
            RefsRewritten(o, new) /\ ChangeObject(o, new)
    BY <1>4 DEF OthersWriteObject
  <2>2. PICK new \in Object(o[1]) \cup {None} : RefsRewritten(o, new) /\ ChangeObject(o, new)
    BY <2>1
  <2>3. new # None => \A i \in DOMAIN new.refs : RefSound(new.refs[i], o)
    BY <2>2, RewrittenSound
  <2>4. UNCHANGED <<share, lives>> /\ obj' = [obj EXCEPT ![o] = new]
    BY <1>4, <2>2 DEF OthersWriteObject, ChangeObject
  <2>5. QED
    BY <1>2, <2>3, <2>4
<1>5. ASSUME NEW n \in Names, Reconcile(n) PROVE OwnersSound'
  <2>1. OnlyQueues \/ WritesShare(n) \/ RemoveFinalizer(n) => UNCHANGED obj
    BY DEF OnlyQueues, WritesShare, WriteShare, RemoveFinalizer, server
  <2>2. QED
    BY <1>1, <1>3, <1>5, <2>1, PassCases
<1>6. ASSUME NEW n \in Names, \/ SyncShare(n) \/ Trigger(n) \/ CreateShare(n)
                              \/ DeleteShare(n) \/ EditSpec(n)
      PROVE  UNCHANGED obj
  BY <1>6 DEF SyncShare, Trigger, CreateShare, DeleteShare, EditSpec, server
<1>7. ASSUME NEW o \in Ids, SyncObject(o) PROVE UNCHANGED obj
  BY <1>7 DEF SyncObject, server
<1>8. ASSUME NEW cf \in Confs, ToggleConf(cf) PROVE UNCHANGED obj
  BY <1>8 DEF ToggleConf
<1>9. Restart \/ UNCHANGED vars => UNCHANGED obj
  BY DEF Restart, server, vars
<1>10. QED
  BY <1>1, <1>4, <1>5, <1>6, <1>7, <1>8, <1>9, OthersCases DEF Next, Users

LEMMA OwnersSoundImplies ==
    ASSUME TypeOK, OwnersSound
    PROVE  OwnersAreFinalized /\ RecordedBackend
<1>1. OwnersAreFinalized
  BY DEF OwnersSound, OwnersAreFinalized, RefSound
<1>2. ASSUME NEW n \in Names, NEW o \in Ids, Owns(n, o) PROVE Backed(share[n], o)
  <2>1. PICK i \in DOMAIN obj[o].refs :
            obj[o].refs[i].name = n /\ obj[o].refs[i].uid = share[n].uid
    BY <1>2 DEF Owns
  <2>2. obj[o] # None /\ OwnerAlive(obj[o].refs[i])
    BY <1>2, <2>1 DEF Owns, OwnerAlive
  <2>3. QED
    BY <2>1, <2>2 DEF OwnersSound, RefSound
<1>3. ASSUME NEW n \in Names, NEW g \in Groups
      PROVE  /\ Owns(n, <<"Deployment", g>>) =>
                    share[n].group = g /\ share[n].backend = "standard"
             /\ Owns(n, <<"StatefulSet", g>>) =>
                    share[n].group = g /\ share[n].backend = "clustered"
  <2>1. <<"Deployment", g>> \in Ids /\ <<"StatefulSet", g>> \in Ids
    BY DEF Ids, OwnedKinds
  <2>2. QED
    BY <1>2, <2>1 DEF Backed
<1>4. QED
  BY <1>1, <1>3 DEF RecordedBackend

LEMMA OwnersSoundAlways == Spec => [](OwnersAreFinalized /\ RecordedBackend)
<1>1. Init => OwnersSound
  BY DEF Init, OwnersSound
<1>2. TypeOK /\ CacheBehind /\ OwnersSound /\ [Next]_vars => CacheBehind' /\ OwnersSound'
  BY SharesNext, OwnersSoundNext
<1>3. TypeOK /\ OwnersSound => OwnersAreFinalized /\ RecordedBackend
  BY OwnersSoundImplies
<1>4. QED
  BY <1>1, <1>2, <1>3, InitType, NextType, CacheBehindInit, PTL DEF Spec

(* Whatever a living share owns, the share has its finalizer: it cannot    *)
(* go without the steps of Finalize, however stale the caches were.        *)
THEOREM OwnersHaveFinalizers == Spec => []OwnersAreFinalized
BY OwnersSoundAlways, PTL

(* The living owners of a Deployment or a StatefulSet have that backend    *)
(* and that group on record: validateBackend's guard cannot be overtaken   *)
(* by an edit, a stale copy or a share that reuses a name.                 *)
THEOREM BackendIsRecorded == Spec => []RecordedBackend
BY OwnersSoundAlways, PTL
=============================================================================
