-------------------------- MODULE LifecycleProofs --------------------------
(***************************************************************************)
(* The SmbShare controller implements ShareLifecycle, for every value of   *)
(* the constants: each of its steps changes one record or the owners of    *)
(* one object as ShareLifecycle allows, or neither.                        *)
(***************************************************************************)
EXTENDS SmbShareManagerProofs

(* The step the refinement mapping sees. *)
Maps == [Lifecycle!Next]_(Lifecycle!vars)

LEMMA Stutters ==
    ASSUME UNCHANGED <<share, obj, lives>>
    PROVE  Maps
BY DEF Maps, Lifecycle!vars, Records, Members

-----------------------------------------------------------------------------
(* Records *)

LEMMA RecordIs ==
    ASSUME NEW s \in SmbShare
    PROVE  /\ s # None /\ s.uid # 0
           /\ Recorded(s) = [uid |-> s.uid, deleting |-> s.deleting, fin |-> s.fin,
                             group |-> s.group, backend |-> s.backend]
<1>1. s # None
  BY NoneAssumption
<1>2. s.uid # 0
  BY BoundsAssumption DEF SmbShare, Uids
<1>3. QED
  BY <1>1, <1>2 DEF Recorded

LEMMA RecordFields ==
    ASSUME TypeOK, NEW n \in Names, share[n] # None
    PROVE  /\ share[n] \in SmbShare
           /\ Records[n].uid = share[n].uid /\ Records[n].uid # 0
           /\ Records[n].deleting = share[n].deleting /\ Records[n].fin = share[n].fin
           /\ Records[n].group = share[n].group /\ Records[n].backend = share[n].backend
<1>1. share[n] \in SmbShare
  BY DEF TypeOK
<1>2. Records[n] = Recorded(share[n])
  BY DEF Records
<1>3. QED
  BY <1>1, <1>2, RecordIs

LEMMA RecordChange ==
    ASSUME TypeOK, NEW n \in Names, NEW new, share' = [share EXCEPT ![n] = new]
    PROVE  /\ Records' = [Records EXCEPT ![n] = Recorded(new)]
           /\ Records[n] = Recorded(share[n])
BY DEF Records, TypeOK

(* A share is written: the record follows, one entry at a time. *)
LEMMA FinEntry ==
    ASSUME TypeOK, NEW n \in Names, NEW t \in SmbShare, share[n] # None,
           share' = [share EXCEPT ![n] = t], t.uid = share[n].uid,
           t.deleting = share[n].deleting, t.group = share[n].group, t.backend = share[n].backend
    PROVE  Records' = [Records EXCEPT ![n].fin = t.fin]
<1> DEFINE s == share[n]
<1>1. s \in SmbShare
  BY DEF TypeOK
<1>2. Recorded(t) = [uid |-> t.uid, deleting |-> t.deleting, fin |-> t.fin,
                     group |-> t.group, backend |-> t.backend]
  BY RecordIs
<1>3. Recorded(s) = [uid |-> s.uid, deleting |-> s.deleting, fin |-> s.fin,
                     group |-> s.group, backend |-> s.backend]
  BY <1>1, RecordIs
<1>4. Recorded(t) = [Recorded(s) EXCEPT !.fin = t.fin]
  BY <1>2, <1>3
<1>5. Records' = [Records EXCEPT ![n] = Recorded(t)] /\ Records[n] = Recorded(s)
  BY RecordChange
<1>6. QED
  BY <1>4, <1>5, Zenon

LEMMA GroupEntry ==
    ASSUME TypeOK, NEW n \in Names, NEW t \in SmbShare, share[n] # None,
           share' = [share EXCEPT ![n] = t], t.uid = share[n].uid,
           t.deleting = share[n].deleting, t.fin = share[n].fin, t.backend = share[n].backend
    PROVE  Records' = [Records EXCEPT ![n].group = t.group]
<1> DEFINE s == share[n]
<1>1. s \in SmbShare
  BY DEF TypeOK
<1>2. Recorded(t) = [uid |-> t.uid, deleting |-> t.deleting, fin |-> t.fin,
                     group |-> t.group, backend |-> t.backend]
  BY RecordIs
<1>3. Recorded(s) = [uid |-> s.uid, deleting |-> s.deleting, fin |-> s.fin,
                     group |-> s.group, backend |-> s.backend]
  BY <1>1, RecordIs
<1>4. Recorded(t) = [Recorded(s) EXCEPT !.group = t.group]
  BY <1>2, <1>3
<1>5. Records' = [Records EXCEPT ![n] = Recorded(t)] /\ Records[n] = Recorded(s)
  BY RecordChange
<1>6. QED
  BY <1>4, <1>5, Zenon

LEMMA BackendEntry ==
    ASSUME TypeOK, NEW n \in Names, NEW t \in SmbShare, share[n] # None,
           share' = [share EXCEPT ![n] = t], t.uid = share[n].uid,
           t.deleting = share[n].deleting, t.fin = share[n].fin, t.group = share[n].group
    PROVE  Records' = [Records EXCEPT ![n].backend = t.backend]
<1> DEFINE s == share[n]
<1>1. s \in SmbShare
  BY DEF TypeOK
<1>2. Recorded(t) = [uid |-> t.uid, deleting |-> t.deleting, fin |-> t.fin,
                     group |-> t.group, backend |-> t.backend]
  BY RecordIs
<1>3. Recorded(s) = [uid |-> s.uid, deleting |-> s.deleting, fin |-> s.fin,
                     group |-> s.group, backend |-> s.backend]
  BY <1>1, RecordIs
<1>4. Recorded(t) = [Recorded(s) EXCEPT !.backend = t.backend]
  BY <1>2, <1>3
<1>5. Records' = [Records EXCEPT ![n] = Recorded(t)] /\ Records[n] = Recorded(s)
  BY RecordChange
<1>6. QED
  BY <1>4, <1>5, Zenon

LEMMA DeletingEntry ==
    ASSUME TypeOK, NEW n \in Names, NEW t \in SmbShare, share[n] # None,
           share' = [share EXCEPT ![n] = t], t.uid = share[n].uid,
           t.fin = share[n].fin, t.group = share[n].group, t.backend = share[n].backend
    PROVE  Records' = [Records EXCEPT ![n].deleting = t.deleting]
<1> DEFINE s == share[n]
<1>1. s \in SmbShare
  BY DEF TypeOK
<1>2. Recorded(t) = [uid |-> t.uid, deleting |-> t.deleting, fin |-> t.fin,
                     group |-> t.group, backend |-> t.backend]
  BY RecordIs
<1>3. Recorded(s) = [uid |-> s.uid, deleting |-> s.deleting, fin |-> s.fin,
                     group |-> s.group, backend |-> s.backend]
  BY <1>1, RecordIs
<1>4. Recorded(t) = [Recorded(s) EXCEPT !.deleting = t.deleting]
  BY <1>2, <1>3
<1>5. Records' = [Records EXCEPT ![n] = Recorded(t)] /\ Records[n] = Recorded(s)
  BY RecordChange
<1>6. QED
  BY <1>4, <1>5, Zenon

LEMMA SameRecord ==
    ASSUME TypeOK, NEW n \in Names, NEW t \in SmbShare, share[n] # None,
           share' = [share EXCEPT ![n] = t], t.uid = share[n].uid,
           t.fin = share[n].fin, t.group = share[n].group, t.backend = share[n].backend,
           t.deleting = share[n].deleting
    PROVE  Records' = Records
<1>1. share[n] \in SmbShare
  BY DEF TypeOK
<1>2. Recorded(t) = Recorded(share[n])
  BY <1>1, RecordIs
<1>3. Records' = [Records EXCEPT ![n] = Recorded(t)] /\ Records[n] = Recorded(share[n])
  BY RecordChange
<1>4. [Records EXCEPT ![n] = Records[n]] = Records
  BY DEF Records
<1>5. QED
  BY <1>2, <1>3, <1>4, Zenon

(* A write of the operator to a share makes the next entry of its record. *)
LEMMA ShareStepMaps ==
    ASSUME TypeOK, NEW n \in Names,
           AddFinalizer(n) \/ SetServerGroup(n) \/ UpdateBackend(n)
    PROVE  Maps
<1> DEFINE s == seenShare[n]
<1>1. s # None /\ s \in SmbShare /\ ~s.deleting
  <2>1. IsLive(s)
    BY DEF AddFinalizer, SetServerGroup, UpdateBackend, PastFinalizer, PastDataPvc,
           PastConfigMap, PastConfigMapClaim, PastServerGroup
  <2>2. QED
    BY <2>1 DEF IsLive, TypeOK
<1>2. ASSUME NEW new, WriteShare(n, new),
             /\ share[n] = s /\ share' = [share EXCEPT ![n] = new]
             /\ UNCHANGED <<Members, lives>>
             => Lifecycle!Next
      PROVE  Maps
  <2>1. CASE share[n] = s /\ ChangeShare(n, new)
    BY <1>2, <2>1 DEF WriteShare, ChangeShare, Members, user, Maps
  <2>2. CASE UNCHANGED <<share, seenShare, queue>>
    BY <1>2, <2>2, Stutters DEF WriteShare, user
  <2>3. QED
    BY <1>2, <2>1, <2>2 DEF WriteShare
<1>3. CASE AddFinalizer(n)
  <2> DEFINE new == [s EXCEPT !.fin = TRUE]
  <2>1. new \in SmbShare /\ WriteShare(n, new) /\ ~s.fin
    BY <1>1, <1>3 DEF SmbShare, AddFinalizer
  <2>2. /\ new.uid = s.uid /\ new.deleting = s.deleting
        /\ new.group = s.group /\ new.backend = s.backend
    BY <1>1 DEF SmbShare
  <2>3. new.fin = TRUE
    BY <1>1, Zenon DEF SmbShare
  <2>4. ASSUME share[n] = s, share' = [share EXCEPT ![n] = new], UNCHANGED <<Members, lives>>
        PROVE  Lifecycle!Next
    <3> HIDE DEF new
    <3>0. /\ share[n] # None /\ new.uid = share[n].uid
          /\ new.deleting = share[n].deleting /\ new.group = share[n].group
          /\ new.backend = share[n].backend
      BY <1>1, <2>2, <2>4, Zenon
    <3>1. Records' = [Records EXCEPT ![n].fin = new.fin]
      BY <2>1, <2>4, <3>0, FinEntry
    <3>2. Records' = [Records EXCEPT ![n].fin = TRUE]
      BY <2>3, <3>1, Zenon
    <3>3. Lifecycle!Staying(n) /\ ~Records[n].fin
      BY <1>1, <2>1, <2>4, RecordFields DEF Lifecycle!Staying
    <3>4. Lifecycle!Adopt(n)
      BY <2>4, <3>2, <3>3, Zenon DEF Lifecycle!Adopt
    <3>5. QED
      BY <3>4 DEF Lifecycle!Next
  <2>5. QED
    BY <1>2, <2>1, <2>4
<1>4. CASE SetServerGroup(n)
  <2> DEFINE group == RequestedGroup(n, s.spec)
             new == [s EXCEPT !.group = group]
  <2>1. /\ group \in Groups /\ s.fin
        /\ s.group = NoGroup /\ WriteShare(n, new)
    BY <1>1, <1>4, NamesAssumption DEF SetServerGroup, PastFinalizer, RequestedGroup,
       SmbShare, SmbShareSpec
  <2>2. new \in SmbShare
    BY <1>1, <2>1 DEF SmbShare
  <2>3. /\ new.uid = s.uid /\ new.deleting = s.deleting /\ new.fin = s.fin
        /\ new.group = group /\ new.backend = s.backend
    BY <1>1 DEF SmbShare
  <2>4. ASSUME share[n] = s, share' = [share EXCEPT ![n] = new], UNCHANGED <<Members, lives>>
        PROVE  Lifecycle!Next
    <3> HIDE DEF new, group
    <3>0. /\ share[n] # None /\ new.uid = share[n].uid
          /\ new.deleting = share[n].deleting /\ new.fin = share[n].fin
          /\ new.backend = share[n].backend
      BY <1>1, <2>3, <2>4, Zenon
    <3>1. Records' = [Records EXCEPT ![n].group = new.group]
      BY <2>2, <2>4, <3>0, GroupEntry
    <3>2. Lifecycle!Staying(n) /\ Records[n].fin /\ Records[n].group = NoGroup
      BY <1>1, <2>1, <2>4, RecordFields DEF Lifecycle!Staying
    <3>3. Records' = [Records EXCEPT ![n].group = group]
      BY <2>3, <3>1, Zenon
    <3>4. Lifecycle!Assign(n)
      BY <2>1, <2>4, <3>2, <3>3 DEF Lifecycle!Assign
    <3>5. QED
      BY <3>4 DEF Lifecycle!Next
  <2>5. QED
    BY <1>2, <2>1, <2>4
<1>5. CASE UpdateBackend(n)
  <2> DEFINE pvc == PvcInMemory(n, s.spec)
             backend == BackendOf(s.spec)
             new == [s EXCEPT !.backend = backend, !.spec.pvc = pvc]
             spec == [s.spec EXCEPT !.pvc = pvc]
  <2>1. s.backend = NoBackend /\ WriteShare(n, new) /\ PastDataPvc(n)
    BY <1>5 DEF UpdateBackend
  <2>2. s.group # NoGroup
    BY <2>1, PastGroup
  <2>3. s.spec \in SmbShareSpec
    BY <1>1 DEF SmbShare
  <2>4. pvc \in DataPvcNames \cup {NoPvc}
    BY <2>3 DEF PvcInMemory, PvcName, DataPvcNames, SmbShareSpec
  <2>5. spec \in SmbShareSpec
    BY <2>3, <2>4 DEF SmbShareSpec
  <2>6. backend \in Backends
    BY DEF BackendOf, Backends
  <2>7. new = [s EXCEPT !.backend = backend, !.spec = spec]
    BY <1>1 DEF SmbShare
  <2>8. new \in SmbShare
    BY <1>1, <2>5, <2>6, <2>7 DEF SmbShare
  <2>9. /\ new.uid = s.uid /\ new.deleting = s.deleting /\ new.fin = s.fin
        /\ new.group = s.group /\ new.backend = backend
    BY <1>1, <2>7 DEF SmbShare
  <2>10. ASSUME share[n] = s, share' = [share EXCEPT ![n] = new], UNCHANGED <<Members, lives>>
         PROVE  Lifecycle!Next
    <3> HIDE DEF new, backend
    <3>0. /\ share[n] # None /\ new.uid = share[n].uid
          /\ new.deleting = share[n].deleting /\ new.fin = share[n].fin
          /\ new.group = share[n].group
      BY <1>1, <2>9, <2>10, Zenon
    <3>1. Records' = [Records EXCEPT ![n].backend = new.backend]
      BY <2>8, <2>10, <3>0, BackendEntry
    <3>2. /\ Lifecycle!Staying(n)
          /\ Records[n].group # NoGroup /\ Records[n].backend = NoBackend
      BY <1>1, <2>1, <2>2, <2>10, RecordFields DEF Lifecycle!Staying
    <3>3. Records' = [Records EXCEPT ![n].backend = backend]
      BY <2>9, <3>1, Zenon
    <3>4. Lifecycle!Commit(n)
      BY <2>6, <2>10, <3>2, <3>3 DEF Lifecycle!Commit
    <3>5. QED
      BY <3>4 DEF Lifecycle!Next
  <2>11. QED
    BY <1>2, <2>1, <2>10
<1>6. QED
  BY <1>3, <1>4, <1>5

LEMMA UidEdit ==
    ASSUME NEW u, NEW v, NEW d, NEW f, NEW g, NEW b
    PROVE  [[uid |-> u, deleting |-> d, fin |-> f, group |-> g, backend |-> b] EXCEPT !.uid = v]
              = [uid |-> v, deleting |-> d, fin |-> f, group |-> g, backend |-> b]
OBVIOUS

(* A new share's record is empty but for its uid. *)
LEMMA CreateShareMaps ==
    ASSUME TypeOK, NEW n \in Names, CreateShare(n)
    PROVE  Maps
<1>1. PICK spec \in SpecsOf[n] :
          ChangeShare(n, [uid |-> lives[n] + 1, spec |-> spec, deleting |-> FALSE, fin |-> FALSE,
                          group |-> NoGroup, backend |-> NoBackend])
  BY DEF CreateShare
<1> DEFINE v == FALSE
           u == lives[n] + 1
           new == [uid |-> u, spec |-> spec, deleting |-> v, fin |-> v,
                   group |-> NoGroup, backend |-> NoBackend]
           empty == [uid |-> 0, deleting |-> v, fin |-> v, group |-> NoGroup,
                     backend |-> NoBackend]
<1>2. new \in SmbShare
  BY NewShareType DEF CreateShare
<1>3. share' = [share EXCEPT ![n] = new] /\ share[n] = None
  BY <1>1 DEF ChangeShare, CreateShare
<1>4. Recorded(None) = empty /\ Lifecycle!NoRecord = empty
  BY Zenon DEF Recorded, Lifecycle!NoRecord
<1> HIDE DEF v
<1>5. Recorded(new) = [uid |-> u, deleting |-> v, fin |-> v, group |-> NoGroup,
                       backend |-> NoBackend]
  BY <1>2, RecordIs
<1>6. Recorded(new) = [empty EXCEPT !.uid = u]
  BY <1>5, UidEdit
<1> HIDE DEF new, empty
<1>7. Records' = [Records EXCEPT ![n] = Recorded(new)] /\ Records[n] = empty
  BY <1>3, <1>4, RecordChange
<1>8. Records' = [Records EXCEPT ![n].uid = u]
  BY <1>6, <1>7, Zenon
<1>9. lives' = [lives EXCEPT ![n] = u] /\ UNCHANGED Members
  BY DEF CreateShare, TypeOK, Members
<1>10. Records[n].uid = 0
  BY <1>7 DEF empty
<1>11. Lifecycle!Request(n)
  BY <1>8, <1>9, <1>10 DEF Lifecycle!Request
<1>12. QED
  BY <1>11 DEF Maps, Lifecycle!Next

(* The end of a share empties its record. *)
LEMMA EndOfRecord ==
    ASSUME TypeOK, NEW n \in Names, share' = [share EXCEPT ![n] = None]
    PROVE  Records' = [Records EXCEPT ![n] = Lifecycle!NoRecord]
<1>1. Recorded(None) = Lifecycle!NoRecord
  BY Zenon DEF Recorded, Lifecycle!NoRecord
<1>2. QED
  BY <1>1, RecordChange

LEMMA RemoveFinalizerMaps ==
    ASSUME TypeOK, NEW n \in Names, RemoveFinalizer(n)
    PROVE  Maps
<1>1. CASE seenShare[n] # share[n]
  BY <1>1, Stutters DEF RemoveFinalizer, user
<1>2. CASE seenShare[n] = share[n]
  <2>1. share[n] # None /\ share[n].deleting
    BY <1>2 DEF RemoveFinalizer, ServerResourcesFinalized, ConfigMapFinalized, Finalizing
  <2>2. share' = [share EXCEPT ![n] = None] /\ UNCHANGED <<lives, Members>>
    BY <1>2 DEF RemoveFinalizer, user, Members
  <2>3. Records[n].uid # 0 /\ Records[n].deleting
    BY <2>1, RecordFields
  <2>4. Lifecycle!Depart(n)
    BY <2>2, <2>3, EndOfRecord DEF Lifecycle!Depart
  <2>5. QED
    BY <2>4 DEF Maps, Lifecycle!Next
<1>3. QED
  BY <1>1, <1>2

LEMMA DeleteShareMaps ==
    ASSUME TypeOK, NEW n \in Names, DeleteShare(n)
    PROVE  Maps
<1>1. /\ share[n] # None /\ ~share[n].deleting /\ share[n] \in SmbShare
      /\ UNCHANGED <<lives, Members>>
  BY DEF DeleteShare, IsLive, TypeOK, user, Members
<1>2. Lifecycle!Staying(n) /\ Records[n].fin = share[n].fin
  BY <1>1, RecordFields DEF Lifecycle!Staying
<1>3. CASE ~share[n].fin
  <2>1. share' = [share EXCEPT ![n] = None]
    BY <1>3 DEF DeleteShare, ChangeShare
  <2>2. Lifecycle!Withdraw(n)
    BY <1>1, <1>2, <1>3, <2>1, EndOfRecord DEF Lifecycle!Withdraw
  <2>3. QED
    BY <2>2 DEF Maps, Lifecycle!Next
<1>4. CASE share[n].fin
  <2> DEFINE new == [share[n] EXCEPT !.deleting = TRUE]
  <2>1. share' = [share EXCEPT ![n] = new]
    BY <1>4 DEF DeleteShare, ChangeShare
  <2>2. new \in SmbShare
    BY <1>1 DEF SmbShare
  <2>3. /\ new.uid = share[n].uid /\ new.fin = share[n].fin
        /\ new.group = share[n].group /\ new.backend = share[n].backend
    BY <1>1 DEF SmbShare
  <2>4. new.deleting = TRUE
    BY <1>1, Zenon DEF SmbShare
  <2> HIDE DEF new
  <2>5. Records' = [Records EXCEPT ![n].deleting = new.deleting]
    BY <1>1, <2>1, <2>2, <2>3, DeletingEntry
  <2>6. Records' = [Records EXCEPT ![n].deleting = TRUE]
    BY <2>4, <2>5, Zenon
  <2>7. Lifecycle!Leave(n)
    BY <1>1, <1>2, <1>4, <2>6, Zenon DEF Lifecycle!Leave
  <2>8. QED
    BY <2>7 DEF Maps, Lifecycle!Next
<1>5. QED
  BY <1>3, <1>4

LEMMA EditSpecMaps ==
    ASSUME TypeOK, NEW n \in Names, EditSpec(n)
    PROVE  Maps
<1>1. share[n] # None /\ share[n] \in SmbShare /\ UNCHANGED <<lives, Members>>
  BY DEF EditSpec, TypeOK, Members
<1>2. PICK spec \in SpecsOf[n] : ChangeShare(n, [share[n] EXCEPT !.spec = spec])
  BY DEF EditSpec
<1> DEFINE new == [share[n] EXCEPT !.spec = spec]
<1>3. share' = [share EXCEPT ![n] = new]
  BY <1>2 DEF ChangeShare
<1>4. new \in SmbShare
  BY <1>1, SpecsAssumption DEF SmbShare
<1>5. /\ new.uid = share[n].uid /\ new.deleting = share[n].deleting /\ new.fin = share[n].fin
      /\ new.group = share[n].group /\ new.backend = share[n].backend
  BY <1>1 DEF SmbShare
<1> HIDE DEF new
<1>6. Records' = Records
  BY <1>1, <1>3, <1>4, <1>5, SameRecord
<1>7. QED
  BY <1>1, <1>6 DEF Maps, Lifecycle!vars

-----------------------------------------------------------------------------
(* Owners *)

LEMMA ObjectNotNone ==
    ASSUME NEW o \in Ids, NEW new \in Object(o[1])
    PROVE  new # None
<1>1. o[1] \in Kinds
  BY DEF Ids, Kinds, OwnedKinds
<1>2. QED
  BY <1>1, NoneAssumption

LEMMA MembersChange ==
    ASSUME TypeOK, NEW o \in Ids, NEW new, obj' = [obj EXCEPT ![o] = new]
    PROVE  /\ Members' = [Members EXCEPT ![o] = LivesOf(new)]
           /\ Members[o] = LivesOf(obj[o])
           /\ LivesOf(new) = LivesOf(obj[o]) => Members' = Members
BY DEF Members, TypeOK

LEMMA SameOwners ==
    ASSUME TypeOK, NEW o \in Ids, NEW new, obj' = [obj EXCEPT ![o] = new],
           UNCHANGED <<share, lives>>, LivesOf(new) = LivesOf(obj[o])
    PROVE  Maps
BY MembersChange DEF Maps, Lifecycle!vars, Records

LEMMA EndOfObject ==
    ASSUME TypeOK, NEW o \in Ids, obj' = [obj EXCEPT ![o] = None], UNCHANGED <<share, lives>>
    PROVE  Maps
<1>1. Members' = [Members EXCEPT ![o] = {}]
  BY MembersChange DEF LivesOf
<1>2. UNCHANGED <<Records, lives>>
  BY DEF Records
<1>3. Lifecycle!Close(o)
  BY <1>1, <1>2 DEF Lifecycle!Close
<1>4. QED
  BY <1>3 DEF Maps, Lifecycle!Next

(* A sound reference is to a life that is over or may own the object. *)
LEMMA NewOwner ==
    ASSUME TypeOK, NEW o \in Ids, NEW new, obj' = [obj EXCEPT ![o] = new],
           UNCHANGED <<share, lives>>,
           NEW r, r.name \in Names, r.uid \in Uids, RefSound(r, o),
           LivesOf(new) = LivesOf(obj[o]) \cup {<<r.name, r.uid>>}
    PROVE  Maps
<1> DEFINE n == r.name
           u == r.uid
<1>1. Members' = [Members EXCEPT ![o] = Members[o] \cup {<<n, u>>}]
  BY MembersChange
<1>2. UNCHANGED <<Records, lives>>
  BY DEF Records
<1>3. u \in 1 .. lives[n]
  BY BoundsAssumption DEF RefSound, Uids, TypeOK
<1>4. ASSUME Lifecycle!Lives(<<n, u>>) PROVE Lifecycle!MayOwn(Records[n], o)
  <2>1. Records[n].uid = u /\ u # 0
    BY <1>3, <1>4 DEF Lifecycle!Lives
  <2>2. share[n] # None
    BY <2>1 DEF Records, Recorded
  <2>3. share[n].uid = u
    BY <2>1, <2>2, RecordFields
  <2>4. share[n].fin /\ Backed(share[n], o)
    BY <2>2, <2>3 DEF RefSound, OwnerAlive
  <2>5. QED
    BY <2>2, <2>4, RecordFields DEF Lifecycle!MayOwn, Backed
<1>5. Lifecycle!Enlist(o, n)
  BY <1>1, <1>2, <1>3, <1>4 DEF Lifecycle!Enlist
<1>6. QED
  BY <1>5 DEF Maps, Lifecycle!Next

(* What a pass writes to an object adds its share to the owners, or leaves *)
(* the owners as they are.                                                 *)
LEMMA WrittenOwners ==
    ASSUME TypeOK, NEW n \in Names, NEW o \in Ids, NEW new \in Object(o[1]),
           RefsWritten(n, o, new.refs), seenObj[o] = obj[o], seenShare[n] \in SmbShare
    PROVE  \/ LivesOf(new) = LivesOf(obj[o])
           \/ \E i \in DOMAIN new.refs :
                 /\ new.refs[i].name = n /\ new.refs[i].uid \in Uids
                 /\ LivesOf(new) = LivesOf(obj[o]) \cup {<<n, new.refs[i].uid>>}
<1> DEFINE u == seenShare[n].uid
           refs == obj[o].refs
<1>1. u \in Uids
  BY DEF SmbShare
<1>2. new # None
  BY ObjectNotNone
<1>3. obj[o] # None => refs \in Seq(OwnerRef(Names, Uids))
  BY DEF TypeOK, Object
<1>4. CASE obj[o] = None /\ new.refs = <<ControllerRef(n, u)>>
  <2>1. /\ DOMAIN new.refs = {1} /\ new.refs[1].name = n /\ new.refs[1].uid = u
    BY <1>4 DEF ControllerRef
  <2>2. LivesOf(new) = {<<n, u>>} /\ LivesOf(obj[o]) = {}
    BY <1>2, <1>4, <2>1 DEF LivesOf
  <2>3. QED
    BY <1>1, <2>1, <2>2
<1>5. CASE obj[o] # None /\ new.refs = Append(refs, PlainRef(n, u))
  <2>1. /\ DOMAIN new.refs = 1 .. (Len(refs) + 1) /\ DOMAIN refs = 1 .. Len(refs)
        /\ Len(refs) \in Nat
        /\ \A i \in DOMAIN refs : new.refs[i] = refs[i]
        /\ new.refs[Len(refs) + 1] = PlainRef(n, u)
    BY <1>1, <1>3, <1>5, AppendRefType
  <2>2. PlainRef(n, u).name = n /\ PlainRef(n, u).uid = u
    BY DEF PlainRef
  <2>3. LivesOf(new) = LivesOf(obj[o]) \cup {<<n, u>>}
    BY <1>2, <1>5, <2>1, <2>2 DEF LivesOf
  <2>4. QED
    BY <1>1, <2>1, <2>2, <2>3
<1>6. CASE obj[o] # None /\ new.refs = refs
  BY <1>2, <1>6 DEF LivesOf
<1>7. CASE obj[o] # None /\ \E k \in DOMAIN refs : new.refs = ChangeControllerOwnerTo(refs, k)
  <2>1. /\ DOMAIN new.refs = DOMAIN refs
        /\ \A i \in DOMAIN refs : /\ new.refs[i].name = refs[i].name
                                  /\ new.refs[i].uid = refs[i].uid
    BY <1>3, <1>7, ChangeControllerType
  <2>2. QED
    BY <1>2, <1>7, <2>1 DEF LivesOf
<1>8. QED
  BY <1>4, <1>5, <1>6, <1>7 DEF RefsWritten

LEMMA ObjectStepMaps ==
    ASSUME TypeOK, CacheBehind, OwnersSound, NEW n \in Names, WritesObject(n)
    PROVE  Maps
<1>1. PICK o \in Ids : \E new \in Object(o[1]) :
          RefsWritten(n, o, new.refs) /\ WriteObject(o, new)
  BY DEF WritesObject
<1>2. PICK new \in Object(o[1]) : RefsWritten(n, o, new.refs) /\ WriteObject(o, new)
  BY <1>1
<1>3. UNCHANGED <<share, lives>> /\ seenShare[n] # None /\ seenShare[n] \in SmbShare
  BY <1>2 DEF WriteObject, WritesObject, user
<1>4. CASE seenObj[o] = obj[o] /\ ChangeObject(o, new)
  <2>1. obj' = [obj EXCEPT ![o] = new]
    BY <1>4 DEF ChangeObject
  <2>2. CASE LivesOf(new) = LivesOf(obj[o])
    BY <1>3, <2>1, <2>2, SameOwners
  <2>3. ASSUME NEW i \in DOMAIN new.refs,
               new.refs[i].name = n, new.refs[i].uid \in Uids,
               LivesOf(new) = LivesOf(obj[o]) \cup {<<n, new.refs[i].uid>>}
        PROVE  Maps
    <3>1. RefSound(new.refs[i], o)
      BY <1>2, <1>3, <1>4, <2>3, WrittenSound
    <3>2. QED
      BY <1>3, <2>1, <2>3, <3>1, NewOwner
  <2>4. QED
    BY <1>2, <1>3, <1>4, <2>2, <2>3, WrittenOwners
<1>5. CASE UNCHANGED <<obj, seenObj, queue>>
  BY <1>3, <1>5, Stutters
<1>6. QED
  BY <1>2, <1>4, <1>5 DEF WriteObject

(* Of the lives that own o, only the one whose reference goes may go. *)
LEMMA DroppedOwner ==
    ASSUME NEW o, NEW x, NEW new, x # None, new # None,
           x.refs \in Seq(OwnerRef(Names, Uids)), NEW k \in DOMAIN x.refs,
           new.refs = WithoutRef(x.refs, k)
    PROVE  \/ LivesOf(new) = LivesOf(x)
           \/ LivesOf(new) = LivesOf(x) \ {<<x.refs[k].name, x.refs[k].uid>>}
<1> DEFINE refs == x.refs
           life(r) == <<r.name, r.uid>>
<1>1. /\ DOMAIN new.refs = 1 .. (Len(refs) - 1) /\ DOMAIN refs = 1 .. Len(refs)
      /\ Len(refs) \in Nat
      /\ \A i \in DOMAIN new.refs : new.refs[i] = refs[IF i < k THEN i ELSE i + 1]
  BY WithoutRefType
<1>2. ASSUME NEW i \in DOMAIN new.refs
      PROVE  \E j \in DOMAIN refs : new.refs[i] = refs[j]
  <2>1. (IF i < k THEN i ELSE i + 1) \in DOMAIN refs
    BY <1>1
  <2>2. QED
    BY <1>1, <2>1
<1>3. ASSUME NEW j \in DOMAIN refs, j # k
      PROVE  \E i \in DOMAIN new.refs : new.refs[i] = refs[j]
  <2> DEFINE i == IF j < k THEN j ELSE j - 1
  <2>1. i \in DOMAIN new.refs /\ (IF i < k THEN i ELSE i + 1) = j
    BY <1>1, <1>3
  <2>2. QED
    BY <1>1, <2>1
<1>4. LivesOf(new) \subseteq LivesOf(x)
  BY <1>2 DEF LivesOf
<1>5. LivesOf(x) \ {life(refs[k])} \subseteq LivesOf(new)
  BY <1>3 DEF LivesOf
<1>6. QED
  BY <1>4, <1>5

LEMMA DropDanglingMaps ==
    ASSUME TypeOK, NEW o \in Ids, DropDangling(o)
    PROVE  Maps
<1>1. obj[o] # None /\ obj[o] \in Object(o[1]) /\ UNCHANGED <<share, lives>>
  BY DEF DropDangling, TypeOK, user
<1>2. PICK k \in DOMAIN obj[o].refs :
          /\ ~OwnerAlive(obj[o].refs[k])
          /\ ChangeObject(o, [obj[o] EXCEPT !.refs = WithoutRef(obj[o].refs, k)])
  BY DEF DropDangling
<1> DEFINE refs == obj[o].refs
           r == refs[k]
           new == [obj[o] EXCEPT !.refs = WithoutRef(refs, k)]
<1>3. refs \in Seq(OwnerRef(Names, Uids)) /\ r.name \in Names
  BY <1>1, RefType
<1>4. WithoutRef(refs, k) \in Seq(OwnerRef(Names, Uids))
  BY <1>3, WithoutRefType
<1>5. new \in Object(o[1]) /\ new.refs = WithoutRef(refs, k)
  BY <1>1, <1>4 DEF Object
<1>6. obj' = [obj EXCEPT ![o] = new]
  BY <1>2 DEF ChangeObject
<1> HIDE DEF new
<1>7. new # None
  BY <1>5, ObjectNotNone
<1>8. CASE LivesOf(new) = LivesOf(obj[o])
  BY <1>1, <1>6, <1>8, SameOwners
<1>9. CASE LivesOf(new) = LivesOf(obj[o]) \ {<<r.name, r.uid>>}
  <2>1. <<r.name, r.uid>> \in LivesOf(obj[o])
    BY <1>1 DEF LivesOf
  <2>2. Members' = [Members EXCEPT ![o] = Members[o] \ {<<r.name, r.uid>>}]
        /\ <<r.name, r.uid>> \in Members[o]
    BY <1>6, <1>9, <2>1, MembersChange
  <2>3. ~Lifecycle!Lives(<<r.name, r.uid>>)
    <3>1. r \in OwnerRef(Names, Uids) /\ ~OwnerAlive(r)
      BY <1>2, <1>3, LenProperties, ElementOfSeq
    <3> HIDE DEF r
    <3>2. r.uid # 0
      BY <3>1, BoundsAssumption DEF OwnerRef, Uids
    <3>3. Records[r.name].uid # r.uid
      <4>1. CASE share[r.name] = None
        BY <1>3, <3>2, <4>1 DEF Records, Recorded
      <4>2. CASE share[r.name] # None
        BY <1>3, <3>1, <4>2, RecordFields DEF OwnerAlive
      <4>3. QED
        BY <4>1, <4>2
    <3>4. QED
      BY <3>3 DEF Lifecycle!Lives
  <2>4. UNCHANGED <<Records, lives>>
    BY <1>1 DEF Records
  <2>5. Lifecycle!Discharge(o)
    BY <2>2, <2>3, <2>4 DEF Lifecycle!Discharge
  <2>6. QED
    BY <2>5 DEF Maps, Lifecycle!Next
<1>10. QED
  BY <1>1, <1>3, <1>5, <1>7, <1>8, <1>9, DroppedOwner

LEMMA OthersMap ==
    ASSUME TypeOK, NEW o \in Ids, Collect(o) \/ ScaleWorkload(o) \/ DeleteObject(o)
    PROVE  Maps
<1>1. UNCHANGED <<share, lives>>
  BY DEF Collect, ScaleWorkload, DeleteObject, user
<1>2. CASE Collect(o) \/ DeleteObject(o)
  BY <1>1, <1>2, EndOfObject DEF Collect, DeleteObject, ChangeObject
<1>3. CASE ScaleWorkload(o)
  <2>1. o[1] \in {"Deployment", "StatefulSet"} /\ obj[o] # None /\ obj[o] \in Object(o[1])
    BY <1>3 DEF ScaleWorkload, TypeOK
  <2>2. PICK k \in 0 .. MaxSize : ChangeObject(o, [obj[o] EXCEPT !.body.replicas = k])
    BY <1>3 DEF ScaleWorkload
  <2> DEFINE new == [obj[o] EXCEPT !.body.replicas = k]
  <2>3. new \in Object(o[1]) /\ new.refs = obj[o].refs
    BY <2>1, RescaledType
  <2>4. obj' = [obj EXCEPT ![o] = new]
    BY <2>2 DEF ChangeObject
  <2> HIDE DEF new
  <2>5. LivesOf(new) = LivesOf(obj[o])
    BY <2>1, <2>3, ObjectNotNone DEF LivesOf
  <2>6. QED
    BY <1>1, <2>4, <2>5, SameOwners
<1>4. QED
  BY <1>2, <1>3

-----------------------------------------------------------------------------
(* The refinement *)

LEMMA PassMaps ==
    ASSUME TypeOK, CacheBehind, OwnersSound, NEW n \in Names, Reconcile(n)
    PROVE  Maps
<1>1. CASE NothingToDo(n)
  BY <1>1, Stutters DEF NothingToDo, server, user
<1>2. CASE Update(n)
  <2>1. UpdateDone(n) \/ UpdateError(n) => UNCHANGED <<share, obj, lives>>
    BY DEF UpdateDone, UpdateError, vars, server, user
  <2>2. QED
    BY <1>2, <2>1, Stutters, ShareStepMaps, CreateOrClaimWrites, BodyStepWrites,
       ObjectStepMaps DEF Update
<1>3. CASE Finalize(n)
  BY <1>3, FinalizeStepWrites, ObjectStepMaps, RemoveFinalizerMaps DEF Finalize
<1>4. QED
  BY <1>1, <1>2, <1>3 DEF Reconcile

LEMMA NextMaps ==
    ASSUME TypeOK, CacheBehind, OwnersSound, [Next]_vars
    PROVE  Maps
<1>1. ASSUME NEW n \in Names, SyncShare(n) \/ Trigger(n) PROVE Maps
  BY <1>1, Stutters DEF SyncShare, Trigger, server, user
<1>2. ASSUME NEW o \in Ids, SyncObject(o) PROVE Maps
  BY <1>2, Stutters DEF SyncObject, server, user
<1>3. ASSUME NEW cf \in Confs, ToggleConf(cf) PROVE Maps
  BY <1>3, Stutters DEF ToggleConf
<1>4. CASE Restart \/ UNCHANGED vars
  BY <1>4, Stutters DEF Restart, server, user, vars
<1>5. QED
  BY <1>1, <1>2, <1>3, <1>4, PassMaps, CreateShareMaps, DeleteShareMaps, EditSpecMaps,
     DropDanglingMaps, OthersMap DEF Next, Users

LEMMA InitMaps == Init => Lifecycle!Init
<1> SUFFICES ASSUME Init PROVE Lifecycle!Init
  OBVIOUS
<1>1. Recorded(None) = Lifecycle!NoRecord
  BY Zenon DEF Recorded, Lifecycle!NoRecord
<1>2. Records = [n \in Names |-> Lifecycle!NoRecord]
  BY <1>1 DEF Records, Init
<1>3. Members = [o \in Ids |-> {}] /\ lives = [n \in Names |-> 0]
  BY DEF Members, LivesOf, Init
<1>4. QED
  BY <1>2, <1>3 DEF Lifecycle!Init

(* The controller implements the life cycle ShareLifecycle states: each    *)
(* entry of a share's record is made once and in order, and only lives     *)
(* that are over or entitled come to own an object, whatever the passes    *)
(* read, the users edit and the collector removes.                         *)
THEOREM LifecycleRefined == Spec => RefinesLifecycle
<1>1. Init => OwnersSound
  BY DEF Init, OwnersSound
<1>2. TypeOK /\ CacheBehind /\ OwnersSound /\ [Next]_vars => CacheBehind' /\ OwnersSound'
  BY SharesNext, OwnersSoundNext
<1>3. TypeOK /\ CacheBehind /\ OwnersSound /\ [Next]_vars => Maps
  BY NextMaps
<1>4. QED
  BY <1>1, <1>2, <1>3, InitType, NextType, CacheBehindInit, InitMaps, PTL
     DEF Spec, RefinesLifecycle, Lifecycle!Spec, Maps
=============================================================================
