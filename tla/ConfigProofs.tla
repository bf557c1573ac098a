---------------------------- MODULE ConfigProofs ----------------------------
(***************************************************************************)
(* The configuration of a server group keeps its integrity, for every      *)
(* value of the constants: the planner's Update and Prune each leave the   *)
(* table of shares and the section in step, and nothing but what they      *)
(* return, made from a current copy, ever reaches the ConfigMap.           *)
(***************************************************************************)
EXTENDS SmbShareManagerProofs

(* The section of a configuration lists key k. *)
Lists(cfg, k) == cfg.section # NoSection /\ k \in cfg.section.shares

(* The two tables of a configuration name the same keys. *)
Intact(cfg) == \A k \in Keys : cfg.shares[k] # NoShare <=> Lists(cfg, k)

ConfigsIntact == \A g \in Groups :
    obj[<<"ConfigMap", g>>] # None => Intact(obj[<<"ConfigMap", g>>].body)

-----------------------------------------------------------------------------
(* The planner *)

(* Update lists its share's key besides those that were listed. *)
LEMMA UpdatedLists ==
    ASSUME NEW cfg \in Config, NEW plan \in Plan, NEW k \in Keys
    PROVE  Lists(Updated(cfg, plan), k) <=> k = plan.key \/ Lists(cfg, k)
<1> DEFINE section == UpdatedSection(cfg, plan)
<1>1. RealmsOf(plan) \subseteq Confs /\ plan.key \in Keys
  BY DEF RealmsOf, Plan
<1>2. section \in ConfigSection /\ section # NoSection
  BY <1>1, ConfigAssumption DEF UpdatedSection, Config, ConfigSection, Plan
<1>3. Updated(cfg, plan).section = section
  BY DEF Updated
<1>4. k \in section.shares <=> k = plan.key \/ Lists(cfg, k)
  <2>1. CASE cfg.section = NoSection
    BY <2>1 DEF UpdatedSection, Lists
  <2>2. CASE cfg.section # NoSection
    BY <2>2 DEF UpdatedSection, Config, ConfigSection, Lists
  <2>3. QED
    BY <2>1, <2>2
<1>5. QED
  BY <1>2, <1>3, <1>4 DEF Lists

(* Prune takes its share's key out and no other. *)
LEMMA PrunedLists ==
    ASSUME NEW cfg \in Config, NEW q \in Keys, NEW k \in Keys
    PROVE  Lists(Pruned(cfg, q), k) <=> k # q /\ Lists(cfg, k)
<1>1. Pruned(cfg, q).section = PrunedSection(cfg, q)
  BY DEF Pruned, Config
<1>2. CASE cfg.section = NoSection
  BY <1>1, <1>2 DEF PrunedSection, Lists
<1>3. CASE cfg.section # NoSection
  <2>1. cfg.section \in ConfigSection
    BY <1>3 DEF Config
  <2>2. /\ PrunedSection(cfg, q) \in ConfigSection
        /\ PrunedSection(cfg, q).shares = cfg.section.shares \ {q}
    BY <1>3, <2>1 DEF PrunedSection, ConfigSection
  <2>3. QED
    BY <1>1, <1>3, <2>2, ConfigAssumption DEF Lists
<1>4. QED
  BY <1>2, <1>3

LEMMA EmptyIntact == Intact(EmptyConfig)
BY DEF Intact, Lists, EmptyConfig

LEMMA UpdatedIntact ==
    ASSUME NEW cfg \in Config, NEW plan \in Plan, Intact(cfg)
    PROVE  Intact(Updated(cfg, plan))
<1> DEFINE new == Updated(cfg, plan)
           entry == ApplyShareValues(ApplyCustomShare(FoundShare(cfg, plan), plan), plan)
<1>1. entry \in ShareConfig
  <2>1. FoundShare(cfg, plan) \in ShareConfig
    BY DEF FoundShare, Config, Plan, ShareConfig, YesNo
  <2>2. ApplyCustomShare(FoundShare(cfg, plan), plan) \in ShareConfig
    BY <2>1 DEF ApplyCustomShare, Plan, ShareConfig
  <2>3. QED
    BY <2>2 DEF ApplyShareValues, Plan, ShareConfig
<1>2. plan.key \in Keys /\ cfg.shares \in [Keys -> ShareConfig \cup {NoShare}]
  BY DEF Plan, Config
<1>3. new.shares = [cfg.shares EXCEPT ![plan.key] = entry] /\ entry # NoShare
  BY <1>1, ConfigAssumption DEF Updated
<1>4. \A k \in Keys : new.shares[k] # NoShare <=> k = plan.key \/ cfg.shares[k] # NoShare
  BY <1>2, <1>3
<1> HIDE DEF new
<1>5. \A k \in Keys : Lists(new, k) <=> k = plan.key \/ Lists(cfg, k)
  BY UpdatedLists DEF new
<1>6. QED
  BY <1>4, <1>5 DEF Intact, new

LEMMA PrunedIntact ==
    ASSUME NEW cfg \in Config, NEW q \in Keys, Intact(cfg)
    PROVE  Intact(Pruned(cfg, q))
<1> DEFINE new == Pruned(cfg, q)
<1>1. /\ new.shares = [cfg.shares EXCEPT ![q] = NoShare]
      /\ cfg.shares \in [Keys -> ShareConfig \cup {NoShare}]
  BY DEF Pruned, Config
<1>2. \A k \in Keys : new.shares[k] # NoShare <=> k # q /\ cfg.shares[k] # NoShare
  BY <1>1
<1>3. \A k \in Keys : Lists(new, k) <=> k # q /\ Lists(cfg, k)
  BY PrunedLists
<1>4. QED
  BY <1>2, <1>3 DEF Intact

-----------------------------------------------------------------------------
(* What reaches a ConfigMap *)

(* The configuration a pass of share n writes to o: an empty one where it  *)
(* found none, or what the planner made for its share of the one it read.  *)
BodyWritten(n, o, body) ==
    \/ seenObj[o] = None /\ body = EmptyConfig
    \/ seenObj[o] # None /\ body = seenObj[o].body
    \/ /\ PastConfigMapClaim(n) /\ MayConfigure(n)
       /\ seenObj[o] # None /\ o = ConfigMap(seenShare[n])
       /\ body = Updated(seenObj[o].body, PlanOf(n, seenShare[n]))
    \/ /\ Finalizing(n) /\ seenObj[o] # None /\ o = ConfigMap(seenShare[n])
       /\ body = Pruned(seenObj[o].body, ShareKey(n, seenShare[n].spec))

WritesConfig(n) ==
    \E o \in Ids : \E new :
        /\ WriteObject(o, new)
        /\ o[1] = "ConfigMap" => BodyWritten(n, o, new.body)

LEMMA CreateWritesConfig ==
    ASSUME NEW n \in Names, NEW o \in Ids, NEW body, Create(o, n, body),
           o[1] = "ConfigMap" => body = EmptyConfig
    PROVE  WritesConfig(n)
<1> DEFINE new == [refs |-> <<ControllerRef(n, seenShare[n].uid)>>, body |-> body]
<1>1. WriteObject(o, new) /\ seenObj[o] = None
  BY DEF Create, Exists
<1>2. new.body = body
  OBVIOUS
<1>3. QED
  BY <1>1, <1>2 DEF WritesConfig, BodyWritten

(* Claims and transfers keep the body they read. *)
LEMMA RefsWriteConfig ==
    ASSUME TypeOK, NEW n \in Names, NEW o \in Ids, seenObj[o] # None, NEW refs,
           WriteObject(o, [seenObj[o] EXCEPT !.refs = refs])
    PROVE  WritesConfig(n)
<1>1. seenObj[o] \in Object(o[1])
  BY DEF TypeOK
<1>2. [seenObj[o] EXCEPT !.refs = refs].body = seenObj[o].body
  BY <1>1 DEF Object
<1>3. QED
  BY <1>2 DEF WritesConfig, BodyWritten

LEMMA ClaimWritesConfig ==
    ASSUME TypeOK, NEW n \in Names, NEW o, Claim(o, n)
    PROVE  WritesConfig(n)
BY RefsWriteConfig DEF Claim, Exists

LEMMA TransferWritesConfig ==
    ASSUME TypeOK, NEW n \in Names, NEW o, TransferOwnership(o, n)
    PROVE  WritesConfig(n)
BY RefsWriteConfig DEF TransferOwnership, NeedsTransfer, Exists

LEMMA PassWritesConfig ==
    ASSUME TypeOK, NEW n \in Names, Reconcile(n)
    PROVE  UNCHANGED obj \/ WritesConfig(n)
<1> DEFINE s == seenShare[n]
<1>1. s # None => s \in SmbShare
  BY DEF TypeOK
<1>2. ASSUME PastServerGroup(n)
      PROVE  /\ s # None /\ s \in SmbShare
             /\ ConfigMap(s) \in Ids /\ ConfigMap(s)[1] = "ConfigMap"
             /\ Deployment(s) \in Ids /\ Deployment(s)[1] = "Deployment"
             /\ StatefulSet(s) \in Ids /\ StatefulSet(s)[1] = "StatefulSet"
             /\ Service(s) \in Ids /\ Service(s)[1] = "Service"
             /\ StatePvc(s) \in Ids /\ StatePvc(s)[1] = "PVC"
             /\ DataPvc(n, s) \in Ids /\ DataPvc(n, s)[1] = "PVC"
  BY <1>1, <1>2, IdsType DEF PastServerGroup, PastFinalizer, IsLive
<1>3. CASE CreateConfigMap(n)
  BY <1>2, <1>3, CreateWritesConfig DEF CreateConfigMap
<1>4. CASE CreateDataPvc(n) \/ CreateStatePvc(n) \/ CreateStatefulSet(n)
           \/ CreateDeployment(n) \/ CreateService(n)
  <2>1. PastServerGroup(n)
    BY <1>4, PastGroup DEF CreateDataPvc, CreateStatePvc, CreateStatefulSet,
       CreateDeployment, CreateService
  <2>2. QED
    BY <1>2, <1>4, <2>1, CreateWritesConfig DEF CreateDataPvc, CreateStatePvc,
       CreateStatefulSet, CreateDeployment, CreateService
<1>5. CASE ClaimConfigMap(n) \/ ClaimStatefulSet(n) \/ ClaimDeployment(n) \/ ClaimService(n)
  BY <1>5, ClaimWritesConfig DEF ClaimConfigMap, ClaimStatefulSet, ClaimDeployment, ClaimService
<1>6. CASE UpdateConfiguration(n)
  <2> DEFINE o == ConfigMap(s)
             plan == PlanOf(n, s)
             body == Updated(seenObj[o].body, plan)
             new == [seenObj[o] EXCEPT !.body = body]
  <2>1. /\ PastConfigMapClaim(n) /\ MayConfigure(n)
        /\ WriteObject(o, new) /\ seenObj[o] # None
    BY <1>6 DEF UpdateConfiguration, PastConfigMapClaim, Claimed, Exists, ConfigSeenBy
  <2>2. o \in Ids /\ seenObj[o] \in Object(o[1])
    BY <1>2, <2>1 DEF TypeOK, PastConfigMapClaim
  <2>3. new.body = body
    BY <2>2 DEF Object
  <2>4. QED
    BY <2>1, <2>2, <2>3 DEF WritesConfig, BodyWritten
<1>7. CASE UpdateStatefulSetSize(n) \/ UpdateDeploymentSize(n)
  <2>1. PastServerGroup(n)
    BY <1>7, PastGroup DEF UpdateStatefulSetSize, UpdateDeploymentSize
  <2>2. QED
    BY <1>2, <1>7, <2>1 DEF UpdateStatefulSetSize, UpdateDeploymentSize, WritesConfig
<1>8. CASE TransferConfigMap(n) \/ TransferServerResources(n)
  BY <1>8, TransferWritesConfig DEF TransferConfigMap, TransferServerResources
<1>9. CASE PruneConfiguration(n)
  <2> DEFINE o == ConfigMap(s)
             key == ShareKey(n, s.spec)
             body == Pruned(seenObj[o].body, key)
             new == [seenObj[o] EXCEPT !.body = body]
  <2>1. /\ o \in Ids /\ seenObj[o] # None /\ WriteObject(o, new)
        /\ seenObj[o] \in Object(o[1]) /\ Finalizing(n)
    BY <1>1, <1>9 DEF PruneConfiguration, PruneNeeded, Exists, TypeOK
  <2>2. new.body = body
    BY <2>1 DEF Object
  <2>3. QED
    BY <2>1, <2>2 DEF WritesConfig, BodyWritten
<1>10. CASE \/ NothingToDo(n) \/ UpdateDone(n) \/ UpdateError(n) \/ RemoveFinalizer(n)
            \/ AddFinalizer(n) \/ SetServerGroup(n) \/ UpdateBackend(n)
  BY <1>10 DEF NothingToDo, UpdateDone, UpdateError, RemoveFinalizer, AddFinalizer,
     SetServerGroup, UpdateBackend, WriteShare, server, vars
<1>11. QED
  BY <1>3, <1>4, <1>5, <1>6, <1>7, <1>8, <1>9, <1>10 DEF Reconcile, Update, Finalize

(* Everyone else ends a ConfigMap or keeps its configuration. *)
LEMMA OthersKeepConfig ==
    ASSUME TypeOK, NEW o \in Ids,
           Collect(o) \/ DropDangling(o) \/ ScaleWorkload(o) \/ DeleteObject(o)
    PROVE  \E new : /\ obj' = [obj EXCEPT ![o] = new]
                    /\ o[1] = "ConfigMap" /\ new # None
                          => obj[o] # None /\ new.body = obj[o].body
<1>1. CASE Collect(o) \/ DeleteObject(o)
  BY <1>1 DEF Collect, DeleteObject, ChangeObject
<1>2. CASE ScaleWorkload(o)
  BY <1>2 DEF ScaleWorkload, ChangeObject
<1>3. CASE DropDangling(o)
  <2>1. obj[o] # None /\ obj[o] \in Object(o[1])
    BY <1>3 DEF DropDangling, TypeOK
  <2>2. PICK i \in DOMAIN obj[o].refs :
            ChangeObject(o, [obj[o] EXCEPT !.refs = WithoutRef(obj[o].refs, i)])
    BY <1>3 DEF DropDangling
  <2>3. [obj[o] EXCEPT !.refs = WithoutRef(obj[o].refs, i)].body = obj[o].body
    BY <2>1 DEF Object
  <2>4. QED
    BY <2>1, <2>2, <2>3 DEF ChangeObject
<1>4. QED
  BY <1>1, <1>2, <1>3

-----------------------------------------------------------------------------
(* The invariant *)

LEMMA ConfigChange ==
    ASSUME TypeOK, ConfigsIntact, NEW o \in Ids, NEW new, obj' = [obj EXCEPT ![o] = new],
           o[1] = "ConfigMap" /\ new # None => Intact(new.body)
    PROVE  ConfigsIntact'
<1> SUFFICES ASSUME NEW g \in Groups, obj'[<<"ConfigMap", g>>] # None
             PROVE  Intact(obj'[<<"ConfigMap", g>>].body)
  BY DEF ConfigsIntact, Intact, Lists
<1>1. <<"ConfigMap", g>> \in Ids
  BY DEF Ids
<1>2. CASE o = <<"ConfigMap", g>>
  BY <1>2 DEF TypeOK
<1>3. CASE o # <<"ConfigMap", g>>
  BY <1>1, <1>3 DEF ConfigsIntact, TypeOK
<1>4. QED
  BY <1>2, <1>3

LEMMA BodyWrittenIntact ==
    ASSUME TypeOK, ConfigsIntact, NEW n \in Names, NEW o \in Ids, o[1] = "ConfigMap",
           seenObj[o] = obj[o], NEW body, BodyWritten(n, o, body)
    PROVE  Intact(body)
<1>1. PICK g \in Groups : o = <<"ConfigMap", g>>
  BY DEF Ids, OwnedKinds
<1>2. obj[o] # None => obj[o].body \in Config /\ Intact(obj[o].body)
  BY <1>1 DEF ConfigsIntact, TypeOK, Object, Body
<1>3. PastConfigMapClaim(n) \/ Finalizing(n)
      => /\ PlanOf(n, seenShare[n]) \in Plan
         /\ ShareKey(n, seenShare[n].spec) \in Keys
  BY PlanType, KeyType DEF PastConfigMapClaim, PastServerGroup, PastFinalizer, IsLive, Finalizing, TypeOK
<1>4. QED
  BY <1>2, <1>3, EmptyIntact, UpdatedIntact, PrunedIntact DEF BodyWritten

LEMMA ConfigsIntactNext == TypeOK /\ ConfigsIntact /\ [Next]_vars => ConfigsIntact'
<1> SUFFICES ASSUME TypeOK, ConfigsIntact, [Next]_vars PROVE ConfigsIntact'
  OBVIOUS
<1>1. ASSUME UNCHANGED obj PROVE ConfigsIntact'
  BY <1>1 DEF ConfigsIntact, Intact, Lists
<1>2. ASSUME NEW n \in Names, WritesConfig(n) PROVE ConfigsIntact'
  <2>1. PICK o \in Ids : \E new : /\ WriteObject(o, new)
                                  /\ o[1] = "ConfigMap" => BodyWritten(n, o, new.body)
    BY <1>2 DEF WritesConfig
  <2>2. PICK new : WriteObject(o, new) /\ (o[1] = "ConfigMap" => BodyWritten(n, o, new.body))
    BY <2>1
  <2>3. CASE seenObj[o] = obj[o] /\ ChangeObject(o, new)
    BY <2>2, <2>3, BodyWrittenIntact, ConfigChange DEF ChangeObject
  <2>4. QED
    BY <1>1, <2>2, <2>3 DEF WriteObject
<1>3. ASSUME NEW o \in Ids,
             Collect(o) \/ DropDangling(o) \/ ScaleWorkload(o) \/ DeleteObject(o)
      PROVE  ConfigsIntact'
  <2>1. PICK new : /\ obj' = [obj EXCEPT ![o] = new]
                   /\ o[1] = "ConfigMap" /\ new # None
                         => obj[o] # None /\ new.body = obj[o].body
    BY <1>3, OthersKeepConfig
  <2>2. o[1] = "ConfigMap" => \E g \in Groups : o = <<"ConfigMap", g>>
    BY DEF Ids, OwnedKinds
  <2>3. o[1] = "ConfigMap" /\ new # None => Intact(new.body)
    BY <2>1, <2>2 DEF ConfigsIntact
  <2>4. QED
    BY <2>1, <2>3, ConfigChange
<1>4. ASSUME NEW n \in Names, \/ SyncShare(n) \/ Trigger(n) \/ CreateShare(n)
                              \/ DeleteShare(n) \/ EditSpec(n)
      PROVE  UNCHANGED obj
  BY <1>4 DEF SyncShare, Trigger, CreateShare, DeleteShare, EditSpec, server
<1>5. ASSUME NEW o \in Ids, SyncObject(o) PROVE UNCHANGED obj
  BY <1>5 DEF SyncObject, server
<1>6. ASSUME NEW cf \in Confs, ToggleConf(cf) PROVE UNCHANGED obj
  BY <1>6 DEF ToggleConf
<1>7. Restart \/ UNCHANGED vars => UNCHANGED obj
  BY DEF Restart, server, vars
<1>8. QED
  BY <1>1, <1>2, <1>3, <1>4, <1>5, <1>6, <1>7, PassWritesConfig DEF Next, Users

(* What a section exports is defined and what is defined is exported, in   *)
(* every ConfigMap at every moment: Update and Prune keep the two tables   *)
(* in step, whichever members of the group run them and in what order.     *)
THEOREM ConfigKeepsIntegrity == Spec => []ConfigIntegrity
<1>1. Init => ConfigsIntact
  BY DEF Init, ConfigsIntact, Ids
<1>2. ConfigsIntact => ConfigIntegrity
  BY DEF ConfigsIntact, ConfigIntegrity, Intact, Lists, Exported
<1>3. QED
  BY <1>1, <1>2, InitType, NextType, ConfigsIntactNext, PTL DEF Spec
=============================================================================
