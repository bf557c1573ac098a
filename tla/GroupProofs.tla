---------------------------- MODULE GroupProofs ----------------------------
(***************************************************************************)
(* What the members of a server group do to each other, for every value of *)
(* the constants: whose exports a pass may take out of the configuration,  *)
(* that a share takes its own along, and that it hands over what it        *)
(* controls.  Each of these depends on what a pass reads being the         *)
(* writing share's own past, so the proofs follow the lives of a share and *)
(* the cached copies of them.                                              *)
(***************************************************************************)
EXTENDS ConfigProofs

-----------------------------------------------------------------------------
(* What is asked of the users and the cluster *)

(* Shares that may come to one server group are given different keys: two  *)
(* shares of a Samba server cannot bear one name.                          *)
KeysApart ==
    \A m, n \in Names : m # n =>
        \A s, s2 \in SpecsOf[m], t, t2 \in SpecsOf[n] :
            /\ RequestedGroup(m, s) # NoGroup
            /\ RequestedGroup(m, s) = RequestedGroup(n, t)
            => ShareKey(m, s2) # ShareKey(n, t2)

(* Users do not rename a share they made: spec.shareName is not edited.    *)
KeysFixed == \A n \in Names : \A s, t \in SpecsOf[n] : ShareKey(n, s) = ShareKey(n, t)

(* Users do not edit the availability mode of a share. *)
ModeFixed == \A n \in Names : \A s, t \in SpecsOf[n] : s.clustered = t.clustered

(* Users give no name to a second share. *)
NamesOnce == \A n \in Names : MaxLives[n] <= 1

(* A spec that defines its claim names it. *)
ClaimsNamed == \A n \in Names : \A spec \in SpecsOf[n] : spec.needsPvc => spec.pvc # NoPvc

(* Whatever specs m and n have, CheckCompatible accepts them. *)
SpecsFit(m, n) == \A s \in SpecsOf[m], t \in SpecsOf[n] : Compatible(s, t)

(* Users do not edit a share's claim or security config, and the shares    *)
(* are compatible with each other but for one at most.                     *)
OneMisfit ==
    /\ \A n \in Names : SpecsFit(n, n)
    /\ \E odd \in Names : \A m, n \in Names \ {odd} : SpecsFit(m, n)

-----------------------------------------------------------------------------
(* Lives of a share, seen and unseen *)

(* own is spec as its user gave it, but for the name of a claim the user   *)
(* left unnamed, which updateBackend may have filled in.                   *)
GivenAs(own, spec) ==
    /\ own = [spec EXCEPT !.pvc = own.pvc]
    /\ own.pvc = spec.pvc \/ (spec.needsPvc /\ spec.pvc = NoPvc)

(* All that share s of name n has in its spec and on record comes from a   *)
(* spec its user gave, if not from the same one.                           *)
Asked(n, s) ==
    /\ \E spec \in SpecsOf[n] : GivenAs(s.spec, spec)
    /\ s.group # NoGroup => \E spec \in SpecsOf[n] : s.group = RequestedGroup(n, spec)
    /\ s.backend # NoBackend => \E spec \in SpecsOf[n] : s.backend = BackendOf(spec)

(* t is share s, further on in the same life. *)
Advances(s, t) ==
    /\ Follows(s, t)
    /\ s.deleting => t.deleting
    /\ t.group # NoGroup => t.group = s.group \/ s.fin

(* What one step does to share n and to its cached copy: nothing, or one   *)
(* of the two is brought up to date; the share is written, its finalizer   *)
(* by a pass that saw it as it is; it is created; or it ends, by Finalize  *)
(* if it has a finalizer.                                                  *)
ShareMoves(n) ==
    LET s == share[n]
        t == share'[n]
    IN  \/ t = s /\ seenShare'[n] \in {seenShare[n], s}
        \/ /\ s # None /\ t # None /\ Advances(s, t) /\ Asked(n, t)
           /\ t.fin => s.fin \/ seenShare[n] = s
           /\ seenShare'[n] \in {seenShare[n], t}
        \/ /\ s = None /\ t # None /\ t.uid = lives[n] + 1 /\ Asked(n, t)
           /\ ~t.fin /\ t.group = NoGroup /\ ~t.deleting
           /\ seenShare'[n] \in {seenShare[n], t}
        \/ /\ s # None /\ t = None
           /\ ~s.fin \/ (RemoveFinalizer(n) /\ seenShare[n] = s /\ s.deleting)
           /\ seenShare'[n] \in {seenShare[n], t}

(* The share and its cached copy are of one life from the finalizer on,    *)
(* and the copy is the older of the two.                                   *)
CacheAlong ==
    \A n \in Names :
        /\ share[n] # None => Asked(n, share[n])
        /\ seenShare[n] # None => Asked(n, seenShare[n])
        /\ share[n] # None /\ share[n].group # NoGroup => share[n].fin
        /\ share[n] # None /\ share[n].fin =>
              seenShare[n] # None /\ seenShare[n].uid = share[n].uid
        /\ IsLive(seenShare[n]) /\ seenShare[n].fin =>
              share[n] # None /\ share[n].uid = seenShare[n].uid
        /\ seenShare[n] # None /\ seenShare[n].deleting /\ share[n] # None
              /\ share[n].uid = seenShare[n].uid => share[n].deleting

(* A spec that was asked for, but for the name of its claim. *)
LEMMA AskedSpec ==
    ASSUME NEW n \in Names, NEW spec \in SpecsOf[n], NEW own, GivenAs(own, spec)
    PROVE  /\ RequestedGroup(n, own) = RequestedGroup(n, spec)
           /\ ShareKey(n, own) = ShareKey(n, spec)
           /\ BackendOf(own) = BackendOf(spec)
           /\ own.conf = spec.conf /\ own.needsPvc = spec.needsPvc
           /\ own.pvc = spec.pvc => own = spec
           /\ \A pvc : [own EXCEPT !.pvc = pvc] = [spec EXCEPT !.pvc = pvc]
<1>1. spec \in SmbShareSpec
  BY SpecsAssumption
<1>2. /\ own.groupMode = spec.groupMode /\ own.group = spec.group /\ own.key = spec.key
      /\ own.clustered = spec.clustered /\ own.conf = spec.conf
      /\ own.needsPvc = spec.needsPvc
  BY <1>1 DEF GivenAs, SmbShareSpec
<1>3. \A pvc : [own EXCEPT !.pvc = pvc] = [spec EXCEPT !.pvc = pvc]
  BY <1>1 DEF GivenAs, SmbShareSpec
<1>4. own.pvc = spec.pvc => own = spec
  BY <1>1 DEF GivenAs, SmbShareSpec
<1>5. QED
  BY <1>2, <1>3, <1>4 DEF RequestedGroup, ShareKey, BackendOf

LEMMA AddFinalizerAdvances ==
    ASSUME NEW n \in Names, NEW s \in SmbShare, Asked(n, s)
    PROVE  LET new == [s EXCEPT !.fin = TRUE]
           IN  new \in SmbShare /\ Advances(s, new) /\ Asked(n, new)
BY DEF SmbShare, Advances, Follows, Asked

LEMMA SetServerGroupAdvances ==
    ASSUME NEW n \in Names, NEW s \in SmbShare, Asked(n, s), s.fin, s.group = NoGroup
    PROVE  LET new == [s EXCEPT !.group = RequestedGroup(n, s.spec)]
           IN  new \in SmbShare /\ Advances(s, new) /\ Asked(n, new)
<1> DEFINE group == RequestedGroup(n, s.spec)
           new == [s EXCEPT !.group = group]
<1>1. PICK spec \in SpecsOf[n] : GivenAs(s.spec, spec)
  BY DEF Asked
<1>2. group = RequestedGroup(n, spec)
  BY <1>1, AskedSpec
<1>3. group \in Groups \cup {NoGroup}
  BY NamesAssumption DEF RequestedGroup, SmbShare, SmbShareSpec
<1>4. /\ new.uid = s.uid /\ new.spec = s.spec /\ new.deleting = s.deleting
      /\ new.fin = s.fin /\ new.group = group /\ new.backend = s.backend
  BY DEF SmbShare
<1>5. new \in SmbShare
  BY <1>3 DEF SmbShare
<1> HIDE DEF new, group
<1>6. Advances(s, new)
  BY <1>4 DEF Advances, Follows
<1>7. Asked(n, new)
  BY <1>1, <1>2, <1>4 DEF Asked
<1>8. QED
  BY <1>5, <1>6, <1>7 DEF new, group

LEMMA UpdateBackendAdvances ==
    ASSUME NEW n \in Names, NEW s \in SmbShare, Asked(n, s), s.backend = NoBackend
    PROVE  LET new == [s EXCEPT !.backend = BackendOf(s.spec),
                                !.spec.pvc = PvcInMemory(n, s.spec)]
           IN  new \in SmbShare /\ Advances(s, new) /\ Asked(n, new)
<1> DEFINE backend == BackendOf(s.spec)
           pvc == PvcInMemory(n, s.spec)
           own == [s.spec EXCEPT !.pvc = pvc]
           new == [s EXCEPT !.backend = backend, !.spec.pvc = pvc]
<1>1. PICK spec \in SpecsOf[n] : GivenAs(s.spec, spec)
  BY DEF Asked
<1>2. backend = BackendOf(spec) /\ own = [spec EXCEPT !.pvc = pvc]
  BY <1>1, AskedSpec
<1>3. s.spec \in SmbShareSpec
  BY DEF SmbShare
<1>4. pvc \in DataPvcNames \cup {NoPvc}
  BY <1>3 DEF PvcInMemory, PvcName, DataPvcNames, SmbShareSpec
<1>5. own \in SmbShareSpec /\ own.pvc = pvc
  BY <1>3, <1>4 DEF SmbShareSpec
<1>6. backend \in Backends
  BY DEF BackendOf, Backends
<1>7. GivenAs(own, spec)
  <2>1. pvc = s.spec.pvc \/ (s.spec.needsPvc /\ s.spec.pvc = NoPvc)
    BY DEF PvcInMemory, PvcName
  <2>2. s.spec.needsPvc = spec.needsPvc
    BY <1>1, AskedSpec
  <2>3. s.spec.pvc = spec.pvc \/ (spec.needsPvc /\ spec.pvc = NoPvc)
    BY <1>1 DEF GivenAs
  <2> HIDE DEF pvc
  <2>4. QED
    BY <1>2, <1>5, <2>1, <2>2, <2>3 DEF GivenAs
<1>8. new = [s EXCEPT !.backend = backend, !.spec = own]
  BY DEF SmbShare
<1>9. new \in SmbShare
  BY <1>5, <1>6, <1>8 DEF SmbShare
<1>10. /\ new.uid = s.uid /\ new.spec = own /\ new.deleting = s.deleting
       /\ new.fin = s.fin /\ new.group = s.group /\ new.backend = backend
  BY <1>8 DEF SmbShare
<1> HIDE DEF new, backend, own, pvc
<1>11. Advances(s, new)
  BY <1>10 DEF Advances, Follows
<1>12. Asked(n, new)
  BY <1>2, <1>7, <1>10 DEF Asked
<1>13. QED
  BY <1>9, <1>11, <1>12 DEF new, backend, own, pvc

(* A pass that writes its share takes the copy it saw further. *)
LEMMA PassMovesShare ==
    ASSUME TypeOK, CacheAlong, NEW n \in Names,
           AddFinalizer(n) \/ SetServerGroup(n) \/ UpdateBackend(n)
    PROVE  \E new \in SmbShare : /\ Advances(seenShare[n], new) /\ Asked(n, new)
                                 /\ WriteShare(n, new)
<1> DEFINE s == seenShare[n]
<1>1. s # None /\ (SetServerGroup(n) => s.fin)
  BY DEF AddFinalizer, SetServerGroup, UpdateBackend, PastFinalizer, IsLive, PastDataPvc,
         PastConfigMap, PastConfigMapClaim, PastServerGroup
<1>2. s \in SmbShare /\ Asked(n, s)
  BY <1>1 DEF TypeOK, CacheAlong
<1>3. CASE AddFinalizer(n)
  BY <1>2, <1>3, AddFinalizerAdvances DEF AddFinalizer
<1>4. CASE SetServerGroup(n)
  BY <1>1, <1>2, <1>4, SetServerGroupAdvances DEF SetServerGroup
<1>5. CASE UpdateBackend(n)
  BY <1>2, <1>5, UpdateBackendAdvances DEF UpdateBackend
<1>6. QED
  BY <1>3, <1>4, <1>5

(* The share of name n changes and no other does. *)
LEMMA OneMoves ==
    ASSUME TypeOK, NEW n \in Names, NEW new, share' = [share EXCEPT ![n] = new],
           \/ seenShare' = seenShare
           \/ seenShare' = [seenShare EXCEPT ![n] = new]
           \/ seenShare' = share'
    PROVE  /\ share'[n] = new
           /\ \A m \in Names : seenShare'[m] \in {seenShare[m], share'[m]}
           /\ \A m \in Names \ {n} : ShareMoves(m)
<1>1. share'[n] = new /\ \A m \in Names \ {n} : share'[m] = share[m]
  BY DEF TypeOK
<1>2. \A m \in Names : seenShare'[m] \in {seenShare[m], share'[m]}
  BY <1>1 DEF TypeOK
<1>3. QED
  BY <1>1, <1>2 DEF ShareMoves

LEMMA NoneMoves ==
    ASSUME UNCHANGED share, \A m \in Names : seenShare'[m] \in {seenShare[m], share[m]}
    PROVE  \A m \in Names : ShareMoves(m)
BY DEF ShareMoves

LEMMA WritesShareMoves ==
    ASSUME TypeOK, CacheAlong, NEW n \in Names,
           AddFinalizer(n) \/ SetServerGroup(n) \/ UpdateBackend(n)
    PROVE  \A m \in Names : ShareMoves(m)
<1>1. PICK new \in SmbShare : /\ Advances(seenShare[n], new) /\ Asked(n, new)
                              /\ WriteShare(n, new)
  BY PassMovesShare
<1>2. CASE seenShare[n] = share[n] /\ ChangeShare(n, new)
  <2>1. /\ share'[n] = new
        /\ \A m \in Names : seenShare'[m] \in {seenShare[m], share'[m]}
        /\ \A m \in Names \ {n} : ShareMoves(m)
    BY <1>2, OneMoves DEF ChangeShare
  <2>2. seenShare[n] # None /\ new # None
    BY NoneAssumption DEF AddFinalizer, SetServerGroup, UpdateBackend, PastFinalizer, IsLive,
       PastDataPvc, PastConfigMap, PastConfigMapClaim, PastServerGroup
  <2>3. ShareMoves(n)
    BY <1>1, <1>2, <2>1, <2>2 DEF ShareMoves
  <2>4. QED
    BY <2>1, <2>3
<1>3. CASE UNCHANGED <<share, seenShare, queue>>
  BY <1>3, NoneMoves
<1>4. QED
  BY <1>1, <1>2, <1>3 DEF WriteShare

LEMMA RemoveFinalizerMoves ==
    ASSUME TypeOK, NEW n \in Names, RemoveFinalizer(n)
    PROVE  \A m \in Names : ShareMoves(m)
<1>1. CASE seenShare[n] = share[n]
  <2>1. seenShare[n] # None /\ seenShare[n].deleting
    BY DEF RemoveFinalizer, ServerResourcesFinalized, ConfigMapFinalized, Finalizing
  <2>2. /\ share' = [share EXCEPT ![n] = None]
        /\ seenShare' = seenShare \/ seenShare' = share'
    BY <1>1 DEF RemoveFinalizer
  <2>3. /\ share'[n] = None
        /\ \A m \in Names : seenShare'[m] \in {seenShare[m], share'[m]}
        /\ \A m \in Names \ {n} : ShareMoves(m)
    BY <2>2, OneMoves
  <2>4. ShareMoves(n)
    BY <1>1, <2>1, <2>3 DEF ShareMoves
  <2>5. QED
    BY <2>3, <2>4
<1>2. CASE seenShare[n] # share[n]
  BY <1>2, NoneMoves DEF RemoveFinalizer
<1>3. QED
  BY <1>1, <1>2

LEMMA UsersMove ==
    ASSUME TypeOK, CacheAlong, NEW n \in Names, CreateShare(n) \/ DeleteShare(n) \/ EditSpec(n)
    PROVE  \A m \in Names : ShareMoves(m)
<1>1. ASSUME NEW new, ChangeShare(n, new)
      PROVE  /\ share'[n] = new
             /\ \A m \in Names : seenShare'[m] \in {seenShare[m], share'[m]}
             /\ \A m \in Names \ {n} : ShareMoves(m)
  BY <1>1, OneMoves DEF ChangeShare
<1>2. CASE CreateShare(n)
  <2>1. PICK spec \in SpecsOf[n] :
            ChangeShare(n, [uid |-> lives[n] + 1, spec |-> spec, deleting |-> FALSE, fin |-> FALSE,
                            group |-> NoGroup, backend |-> NoBackend])
    BY <1>2 DEF CreateShare
  <2> DEFINE new == [uid |-> lives[n] + 1, spec |-> spec, deleting |-> FALSE, fin |-> FALSE,
                     group |-> NoGroup, backend |-> NoBackend]
  <2>2. GivenAs(spec, spec)
    BY SpecsAssumption DEF GivenAs, SmbShareSpec
  <2>3. new # None
    BY <1>2, NewShareType, NoneAssumption DEF CreateShare
  <2>4. /\ new.uid = lives[n] + 1 /\ new.spec = spec /\ ~new.deleting /\ ~new.fin
        /\ new.group = NoGroup /\ new.backend = NoBackend
    OBVIOUS
  <2>5. ChangeShare(n, new) /\ share[n] = None
    BY <1>2, <2>1 DEF CreateShare
  <2> HIDE DEF new
  <2>6. Asked(n, new)
    BY <2>2, <2>4 DEF Asked
  <2>7. /\ share'[n] = new
        /\ \A m \in Names : seenShare'[m] \in {seenShare[m], share'[m]}
        /\ \A m \in Names \ {n} : ShareMoves(m)
    BY <1>1, <2>5
  <2>8. ShareMoves(n)
    BY <2>3, <2>4, <2>5, <2>6, <2>7 DEF ShareMoves
  <2>9. QED
    BY <2>7, <2>8
<1>3. CASE DeleteShare(n)
  <2> DEFINE marked == [share[n] EXCEPT !.deleting = TRUE]
             new == IF share[n].fin THEN marked ELSE None
  <2>1. share[n] # None /\ share[n] \in SmbShare /\ Asked(n, share[n])
    BY <1>3 DEF DeleteShare, IsLive, TypeOK, CacheAlong
  <2>2. /\ share'[n] = new
        /\ \A m \in Names : seenShare'[m] \in {seenShare[m], share'[m]}
        /\ \A m \in Names \ {n} : ShareMoves(m)
    BY <1>1, <1>3 DEF DeleteShare
  <2>3. marked # None /\ Advances(share[n], marked) /\ Asked(n, marked)
        /\ marked.fin = share[n].fin
    BY <2>1, NoneAssumption DEF SmbShare, Advances, Follows, Asked
  <2> HIDE DEF marked
  <2>4. ShareMoves(n)
    BY <2>1, <2>2, <2>3 DEF ShareMoves
  <2>5. QED
    BY <2>2, <2>4
<1>4. CASE EditSpec(n)
  <2>1. share[n] # None /\ share[n] \in SmbShare /\ Asked(n, share[n])
    BY <1>4 DEF EditSpec, TypeOK, CacheAlong
  <2>2. PICK spec \in SpecsOf[n] : ChangeShare(n, [share[n] EXCEPT !.spec = spec])
    BY <1>4 DEF EditSpec
  <2> DEFINE new == [share[n] EXCEPT !.spec = spec]
  <2>3. /\ share'[n] = new
        /\ \A m \in Names : seenShare'[m] \in {seenShare[m], share'[m]}
        /\ \A m \in Names \ {n} : ShareMoves(m)
    BY <1>1, <2>2
  <2>4. new \in SmbShare
    BY <2>1, SpecsAssumption DEF SmbShare
  <2>5. /\ new.uid = share[n].uid /\ new.spec = spec /\ new.deleting = share[n].deleting
        /\ new.fin = share[n].fin /\ new.group = share[n].group
        /\ new.backend = share[n].backend
    BY <2>1 DEF SmbShare
  <2>6. GivenAs(spec, spec)
    BY SpecsAssumption DEF GivenAs, SmbShareSpec
  <2> HIDE DEF new
  <2>7. new # None /\ Advances(share[n], new) /\ Asked(n, new)
    BY <2>1, <2>4, <2>5, <2>6, NoneAssumption DEF Advances, Follows, Asked
  <2>8. ShareMoves(n)
    BY <2>1, <2>3, <2>5, <2>7 DEF ShareMoves
  <2>9. QED
    BY <2>3, <2>8
<1>5. QED
  BY <1>2, <1>3, <1>4

LEMMA AllMove ==
    ASSUME TypeOK, CacheAlong, [Next]_vars
    PROVE  \A m \in Names : ShareMoves(m)
<1> DEFINE Goal == \A m \in Names : ShareMoves(m)
<1>1. UNCHANGED <<share, seenShare>> => Goal
  BY NoneMoves
<1>2. ASSUME NEW n \in Names, Reconcile(n) PROVE Goal
  <2>1. OnlyQueues \/ WritesObject(n) => UNCHANGED <<share, seenShare>>
    BY DEF OnlyQueues, WritesObject, WriteObject, server, cache
  <2>2. \/ UNCHANGED <<share, seenShare>> \/ RemoveFinalizer(n)
        \/ AddFinalizer(n) \/ SetServerGroup(n) \/ UpdateBackend(n)
    BY <1>2, <2>1, CreateOrClaimWrites, BodyStepWrites, FinalizeStepWrites
    DEF Reconcile, Update, Finalize, NothingToDo, UpdateDone, UpdateError, vars, server, cache
  <2>3. QED
    BY <1>1, <2>2, WritesShareMoves, RemoveFinalizerMoves
<1>3. ASSUME NEW n \in Names, SyncShare(n) \/ Trigger(n) PROVE Goal
  BY <1>3, NoneMoves DEF SyncShare, Trigger, TypeOK, server, cache
<1>4. ASSUME NEW o \in Ids, SyncObject(o) PROVE Goal
  BY <1>1, <1>4 DEF SyncObject, server
<1>5. ASSUME OthersWriteObject PROVE Goal
  BY <1>1, <1>5 DEF OthersWriteObject
<1>6. ASSUME NEW cf \in Confs, ToggleConf(cf) PROVE Goal
  BY <1>1, <1>6 DEF ToggleConf, cache
<1>7. CASE Restart
  BY <1>7, NoneMoves DEF Restart, server
<1>8. CASE UNCHANGED vars
  BY <1>1, <1>8 DEF vars
<1>9. QED
  BY <1>2, <1>3, <1>4, <1>5, <1>6, <1>7, <1>8, OthersCases, UsersMove DEF Next, Users

LEMMA CacheAlongNext ==
    ASSUME TypeOK, CacheBehind, CacheAlong, [Next]_vars
    PROVE  CacheAlong'
<1> SUFFICES ASSUME NEW n \in Names
             PROVE  /\ share'[n] # None => Asked(n, share'[n])
                    /\ seenShare'[n] # None => Asked(n, seenShare'[n])
                    /\ share'[n] # None /\ share'[n].group # NoGroup => share'[n].fin
                    /\ share'[n] # None /\ share'[n].fin =>
                          seenShare'[n] # None /\ seenShare'[n].uid = share'[n].uid
                    /\ IsLive(seenShare'[n]) /\ seenShare'[n].fin =>
                          share'[n] # None /\ share'[n].uid = seenShare'[n].uid
                    /\ seenShare'[n] # None /\ seenShare'[n].deleting /\ share'[n] # None
                          /\ share'[n].uid = seenShare'[n].uid => share'[n].deleting
  BY DEF CacheAlong, Asked, IsLive
<1>1. ShareMoves(n)
  BY AllMove
<1> DEFINE s == share[n]
           t == share'[n]
           seen == seenShare[n]
           seen2 == seenShare'[n]
<1>2. /\ s # None => Asked(n, s)
      /\ seen # None => Asked(n, seen)
      /\ s # None /\ s.group # NoGroup => s.fin
      /\ s # None /\ s.fin => seen # None /\ seen.uid = s.uid
      /\ IsLive(seen) /\ seen.fin => s # None /\ s.uid = seen.uid
      /\ seen # None /\ seen.deleting /\ s # None /\ s.uid = seen.uid => s.deleting
  BY DEF CacheAlong
<1>3. seen # None /\ s # None /\ s.uid = seen.uid => Follows(seen, s)
  BY DEF CacheBehind
<1>4. seen # None => seen.uid <= lives[n] /\ seen.uid \in Nat /\ lives[n] \in Nat
  BY UidType DEF CacheBehind
<1>5. CASE t = s /\ seen2 \in {seen, s}
  BY <1>2, <1>5 DEF IsLive
<1>6. CASE /\ s # None /\ t # None /\ Advances(s, t) /\ Asked(n, t)
           /\ t.fin => s.fin \/ seen = s
           /\ seen2 \in {seen, t}
  <2>1. /\ t.uid = s.uid /\ (s.fin => t.fin) /\ (s.deleting => t.deleting)
        /\ t.group # NoGroup => t.group = s.group \/ s.fin
    BY <1>6 DEF Advances, Follows
  <2>2. t.group # NoGroup => t.fin
    BY <1>2, <1>6, <2>1
  <2>3. CASE seen2 = t
    BY <1>6, <2>1, <2>2, <2>3 DEF IsLive
  <2>4. CASE seen2 = seen
    BY <1>2, <1>6, <2>1, <2>2, <2>4 DEF IsLive
  <2>5. QED
    BY <1>6, <2>3, <2>4
<1>7. CASE /\ s = None /\ t # None /\ t.uid = lives[n] + 1 /\ Asked(n, t)
           /\ ~t.fin /\ t.group = NoGroup /\ ~t.deleting
           /\ seen2 \in {seen, t}
  BY <1>2, <1>4, <1>7 DEF IsLive
<1>8. CASE /\ s # None /\ t = None
           /\ ~s.fin \/ (RemoveFinalizer(n) /\ seen = s /\ s.deleting)
           /\ seen2 \in {seen, t}
  BY <1>2, <1>3, <1>8 DEF IsLive, Follows
<1>9. QED
  BY <1>1, <1>5, <1>6, <1>7, <1>8 DEF ShareMoves

LEMMA CacheAlongInit == Init => CacheAlong
BY DEF Init, CacheAlong, IsLive

(* A kind whose cache does not lag is read as it is. *)
CacheCurrent == \A o \in Ids : o[1] \notin Lagging => seenObj[o] = obj[o]

LEMMA CacheCurrentNext ==
    ASSUME TypeOK, CacheCurrent, [Next]_vars
    PROVE  CacheCurrent'
<1>1. ASSUME UNCHANGED obj, UNCHANGED seenObj \/ \A o \in Ids : seenObj'[o] \in {seenObj[o], obj[o]}
      PROVE  CacheCurrent'
  BY <1>1 DEF CacheCurrent
<1>2. ASSUME NEW o \in Ids, NEW new, ChangeObject(o, new)
      PROVE  CacheCurrent'
  BY <1>2 DEF ChangeObject, CacheCurrent, TypeOK
<1>3. ASSUME NEW n \in Names, Reconcile(n) PROVE CacheCurrent'
  <2>1. OnlyQueues \/ WritesShare(n) \/ RemoveFinalizer(n) => UNCHANGED <<obj, seenObj>>
    BY DEF OnlyQueues, WritesShare, WriteShare, RemoveFinalizer, server, cache
  <2>2. ASSUME WritesObject(n) PROVE CacheCurrent'
    <3>1. PICK o \in Ids : \E new \in Object(o[1]) : WriteObject(o, new)
      BY <2>2 DEF WritesObject
    <3>2. QED
      BY <1>1, <1>2, <3>1 DEF WriteObject
  <2>3. QED
    BY <1>1, <1>3, <2>1, <2>2, PassCases
<1>4. ASSUME NEW n \in Names, \/ SyncShare(n) \/ Trigger(n) \/ CreateShare(n)
                              \/ DeleteShare(n) \/ EditSpec(n)
      PROVE  UNCHANGED <<obj, seenObj>>
  BY <1>4 DEF SyncShare, Trigger, CreateShare, DeleteShare, EditSpec, server, cache
<1>5. ASSUME NEW o \in Ids, SyncObject(o) PROVE CacheCurrent'
  BY <1>1, <1>5 DEF SyncObject, server, TypeOK
<1>6. ASSUME OthersWriteObject PROVE CacheCurrent'
  BY <1>2, <1>6 DEF OthersWriteObject
<1>7. ASSUME NEW cf \in Confs, ToggleConf(cf) PROVE UNCHANGED <<obj, seenObj>>
  BY <1>7 DEF ToggleConf, cache
<1>8. CASE Restart
  BY <1>8 DEF Restart, server, CacheCurrent
<1>9. UNCHANGED vars => UNCHANGED <<obj, seenObj>>
  BY DEF vars
<1>10. QED
  BY <1>1, <1>3, <1>4, <1>5, <1>6, <1>7, <1>8, <1>9, OthersCases DEF Next, Users

-----------------------------------------------------------------------------
(* Exports *)

ConfigOf(g) == <<"ConfigMap", g>>

(* A pass of share n adds the key it saw for n to the config of group g,   *)
(* or takes it out.                                                        *)
AddsExport(n, g, k) ==
    /\ PastConfigMapClaim(n) /\ MayConfigure(n) /\ seenObj[ConfigOf(g)] = obj[ConfigOf(g)]
    /\ seenShare[n].group = g /\ ShareKey(n, seenShare[n].spec) = k
    /\ UNCHANGED share

DropsExport(n, g, k) ==
    /\ Finalizing(n)
    /\ seenShare[n].group = g /\ ShareKey(n, seenShare[n].spec) = k
    /\ UNCHANGED share

(* An export comes by an Update of a share that is seen as a member with   *)
(* that key, and goes by a Finalize of one, if the config does not go.     *)
ExportMoves(g, k) ==
    /\ Exported(g, k)' /\ ~Exported(g, k) => \E n \in Names : AddsExport(n, g, k)
    /\ Exported(g, k) /\ ~Exported(g, k)' /\ obj'[ConfigOf(g)] # None
          => \E n \in Names : DropsExport(n, g, k)

LEMMA ExportIs ==
    ASSUME NEW g, NEW k
    PROVE  /\ Exported(g, k) <=> obj[ConfigOf(g)] # None /\ Lists(obj[ConfigOf(g)].body, k)
           /\ Exported(g, k)' <=> obj'[ConfigOf(g)] # None /\ Lists(obj'[ConfigOf(g)].body, k)
BY DEF Exported, ConfigOf, Lists

LEMMA ExportsStay ==
    ASSUME NEW g, NEW k,
           obj'[ConfigOf(g)] # None
              => obj[ConfigOf(g)] # None /\ obj'[ConfigOf(g)].body = obj[ConfigOf(g)].body
    PROVE  ExportMoves(g, k)
BY ExportIs DEF ExportMoves

LEMMA PassMovesExport ==
    ASSUME TypeOK, NEW n \in Names, WritesConfig(n), NEW g \in Groups, NEW k \in Keys
    PROVE  ExportMoves(g, k)
<1> DEFINE cm == ConfigOf(g)
<1>1. PICK o \in Ids : \E new : /\ WriteObject(o, new)
                                /\ o[1] = "ConfigMap" => BodyWritten(n, o, new.body)
  BY DEF WritesConfig
<1>2. PICK new : WriteObject(o, new) /\ (o[1] = "ConfigMap" => BodyWritten(n, o, new.body))
  BY <1>1
<1>3. cm \in Ids /\ cm[1] = "ConfigMap"
  BY DEF Ids, ConfigOf
<1>4. CASE o # cm \/ seenObj[o] # obj[o]
  <2>1. obj'[cm] = obj[cm]
    BY <1>2, <1>3, <1>4 DEF WriteObject, ChangeObject, TypeOK
  <2>2. QED
    BY <2>1, ExportsStay
<1>5. CASE o = cm /\ seenObj[o] = obj[o]
  <2>1. obj'[cm] = new /\ BodyWritten(n, cm, new.body) /\ UNCHANGED share
    BY <1>2, <1>3, <1>5 DEF WriteObject, ChangeObject, TypeOK
  <2>2. ASSUME seenObj[cm] # None PROVE obj[cm] # None /\ obj[cm].body \in Config
    BY <1>3, <1>5, <2>2 DEF TypeOK, Object, Body
  <2>3. CASE seenObj[cm] = None /\ new.body = EmptyConfig
    <3>1. ~Lists(new.body, k) /\ obj[cm] = None
      BY <1>5, <2>3 DEF Lists, EmptyConfig
    <3>2. QED
      BY <2>1, <3>1, ExportIs DEF ExportMoves
  <2>4. CASE seenObj[cm] # None /\ new.body = seenObj[cm].body
    BY <1>5, <2>1, <2>4, ExportsStay
  <2>5. CASE /\ PastConfigMapClaim(n) /\ MayConfigure(n)
             /\ seenObj[cm] # None /\ cm = ConfigMap(seenShare[n])
             /\ new.body = Updated(seenObj[cm].body, PlanOf(n, seenShare[n]))
    <3> DEFINE plan == PlanOf(n, seenShare[n])
    <3>1. seenShare[n] \in SmbShare
      BY <2>5, PastGroup
    <3>2. plan \in Plan /\ plan.key = ShareKey(n, seenShare[n].spec)
      BY <3>1, PlanType DEF PlanOf
    <3>3. seenShare[n].group = g
      BY <2>5 DEF ConfigOf, ConfigMap
    <3> HIDE DEF plan
    <3>4. Lists(new.body, k) <=> k = plan.key \/ Lists(obj[cm].body, k)
      BY <1>5, <2>2, <2>5, <3>2, UpdatedLists DEF plan
    <3>5. k = plan.key => AddsExport(n, g, k)
      BY <1>5, <2>1, <2>5, <3>2, <3>3 DEF AddsExport
    <3>6. QED
      BY <2>1, <2>2, <2>5, <3>4, <3>5, ExportIs DEF ExportMoves
  <2>6. CASE /\ Finalizing(n) /\ seenObj[cm] # None /\ cm = ConfigMap(seenShare[n])
             /\ new.body = Pruned(seenObj[cm].body, ShareKey(n, seenShare[n].spec))
    <3> DEFINE q == ShareKey(n, seenShare[n].spec)
    <3>1. seenShare[n] \in SmbShare
      BY <2>6 DEF Finalizing, TypeOK
    <3>2. q \in Keys
      BY <3>1, KeyType
    <3>3. seenShare[n].group = g
      BY <2>6 DEF ConfigOf, ConfigMap
    <3> HIDE DEF q
    <3>4. Lists(new.body, k) <=> k # q /\ Lists(obj[cm].body, k)
      BY <1>5, <2>2, <2>6, <3>2, PrunedLists DEF q
    <3>5. k = q => DropsExport(n, g, k)
      BY <2>1, <2>6, <3>3 DEF DropsExport, q
    <3>6. QED
      BY <2>1, <2>2, <2>6, <3>4, <3>5, ExportIs DEF ExportMoves
  <2>7. QED
    BY <2>1, <2>3, <2>4, <2>5, <2>6 DEF BodyWritten
<1>6. QED
  BY <1>4, <1>5

LEMMA ExportsMove ==
    ASSUME TypeOK, [Next]_vars, NEW g \in Groups, NEW k \in Keys
    PROVE  ExportMoves(g, k)
<1> DEFINE cm == ConfigOf(g)
<1>1. cm \in Ids /\ cm[1] = "ConfigMap"
  BY DEF Ids, ConfigOf
<1>2. UNCHANGED obj => ExportMoves(g, k)
  BY ExportsStay
<1>3. ASSUME NEW n \in Names, Reconcile(n) PROVE ExportMoves(g, k)
  BY <1>2, <1>3, PassWritesConfig, PassMovesExport
<1>4. ASSUME NEW o \in Ids,
             Collect(o) \/ DropDangling(o) \/ ScaleWorkload(o) \/ DeleteObject(o)
      PROVE  ExportMoves(g, k)
  <2>1. PICK new : /\ obj' = [obj EXCEPT ![o] = new]
                   /\ o[1] = "ConfigMap" /\ new # None
                         => obj[o] # None /\ new.body = obj[o].body
    BY <1>4, OthersKeepConfig
  <2>2. obj'[cm] # None => obj[cm] # None /\ obj'[cm].body = obj[cm].body
    BY <1>1, <2>1 DEF TypeOK
  <2>3. QED
    BY <2>2, ExportsStay
<1>5. ASSUME NEW n \in Names, \/ SyncShare(n) \/ Trigger(n) \/ CreateShare(n)
                              \/ DeleteShare(n) \/ EditSpec(n)
      PROVE  UNCHANGED obj
  BY <1>5 DEF SyncShare, Trigger, CreateShare, DeleteShare, EditSpec, server
<1>6. ASSUME NEW o \in Ids, SyncObject(o) PROVE UNCHANGED obj
  BY <1>6 DEF SyncObject, server
<1>7. ASSUME NEW cf \in Confs, ToggleConf(cf) PROVE UNCHANGED obj
  BY <1>7 DEF ToggleConf
<1>8. Restart \/ UNCHANGED vars => UNCHANGED obj
  BY DEF Restart, server, vars
<1>9. QED
  BY <1>2, <1>3, <1>4, <1>5, <1>6, <1>7, <1>8 DEF Next, Users

-----------------------------------------------------------------------------
(* Living members keep their exports *)

(* What the group and the key of a share say of the specs its user gave. *)
LEMMA AskedGroupAndKey ==
    ASSUME NEW n \in Names, NEW s, Asked(n, s), s.group # NoGroup
    PROVE  \E spec, other \in SpecsOf[n] :
              /\ s.group = RequestedGroup(n, spec)
              /\ ShareKey(n, s.spec) = ShareKey(n, other)
<1>1. PICK other \in SpecsOf[n] : GivenAs(s.spec, other)
  BY DEF Asked
<1>2. ShareKey(n, s.spec) = ShareKey(n, other)
  BY <1>1, AskedSpec
<1>3. QED
  BY <1>2 DEF Asked

(* Whoever drops a share's export is the share's own pass, which has seen  *)
(* that it is being deleted.                                               *)
LEMMA OnlyOwnExportDropped ==
    ASSUME KeysApart, TypeOK, CacheAlong, NEW g \in Groups, NEW k \in Keys,
           NEW m \in Names, DropsExport(m, g, k), NEW n \in Names, ReachedBy(n, g, k)
    PROVE  share[n].deleting
<1>1. g # NoGroup
  BY SentinelsAssumption
<1>2. /\ share[n] # None /\ share[n].group = g /\ ShareKey(n, share[n].spec) = k
      /\ Asked(n, share[n]) /\ share[n].fin
  BY <1>1 DEF ReachedBy, CacheAlong
<1>3. /\ seenShare[m] # None /\ seenShare[m].deleting /\ Asked(m, seenShare[m])
      /\ seenShare[m].group = g /\ ShareKey(m, seenShare[m].spec) = k
  BY DEF DropsExport, Finalizing, CacheAlong
<1>4. CASE m = n
  BY <1>2, <1>3, <1>4 DEF CacheAlong
<1>5. CASE m # n
  <2>1. PICK spec \in SpecsOf[n], other \in SpecsOf[n] :
            g = RequestedGroup(n, spec) /\ k = ShareKey(n, other)
    BY <1>1, <1>2, AskedGroupAndKey
  <2>2. PICK spec2 \in SpecsOf[m], other2 \in SpecsOf[m] :
            g = RequestedGroup(m, spec2) /\ k = ShareKey(m, other2)
    BY <1>1, <1>3, AskedGroupAndKey
  <2>3. QED
    BY <1>1, <1>5, <2>1, <2>2 DEF KeysApart
<1>6. QED
  BY <1>4, <1>5

(* No member of a group takes a living member's export out of the config   *)
(* they share, on whatever stale copies the passes run: an export that is  *)
(* dropped while its share lives would be one Finalize of another share    *)
(* dropped, and shares of one group bear different names.                  *)
THEOREM LiveExportIsKept ==
    ASSUME KeysApart PROVE Spec => LiveExportKept
<1> DEFINE Kept == \A g \in Groups, k \in Keys :
                      /\ Exported(g, k) /\ ~Exported(g, k)'
                      /\ obj'[<<"ConfigMap", g>>] # None
                      => \A n \in Names : ReachedBy(n, g, k) => share[n].deleting
<1>1. TypeOK /\ CacheAlong /\ [Next]_vars => Kept
  <2> SUFFICES ASSUME TypeOK, CacheAlong, [Next]_vars,
                      NEW g \in Groups, NEW k \in Keys,
                      Exported(g, k), ~Exported(g, k)', obj'[<<"ConfigMap", g>>] # None,
                      NEW n \in Names, ReachedBy(n, g, k)
               PROVE  share[n].deleting
    OBVIOUS
  <2>1. PICK m \in Names : DropsExport(m, g, k)
    BY ExportsMove DEF ExportMoves, ConfigOf
  <2>2. QED
    BY <2>1, OnlyOwnExportDropped
<1>2. TypeOK /\ CacheBehind /\ CacheAlong /\ [Next]_vars => [Kept]_vars
  BY <1>1
<1>3. TypeOK /\ CacheBehind /\ CacheAlong /\ [Next]_vars => CacheBehind' /\ CacheAlong'
  BY SharesNext, CacheAlongNext
<1>4. QED
  BY <1>2, <1>3, InitType, NextType, CacheBehindInit, CacheAlongInit, PTL
  DEF Spec, LiveExportKept

-----------------------------------------------------------------------------
(* No export outlives its share *)

(* A share that is not renamed has one key, whichever copy of it is read. *)
LEMMA OneKey ==
    ASSUME KeysFixed, NEW n \in Names, NEW s, NEW t, Asked(n, s), Asked(n, t)
    PROVE  ShareKey(n, s.spec) = ShareKey(n, t.spec)
<1>1. ASSUME NEW x, Asked(n, x)
      PROVE  \E spec \in SpecsOf[n] : ShareKey(n, x.spec) = ShareKey(n, spec)
  <2>1. PICK spec \in SpecsOf[n] : GivenAs(x.spec, spec)
    BY <1>1 DEF Asked
  <2>2. ShareKey(n, x.spec) = ShareKey(n, spec)
    BY <2>1, AskedSpec
  <2>3. QED
    BY <2>2
<1>2. QED
  BY <1>1 DEF KeysFixed

(* What a pass adds is the key of a share that is there: its finalizer     *)
(* keeps the share, and its group and its key are those the pass saw.      *)
LEMMA AddedExportReached ==
    ASSUME KeysFixed, TypeOK, CacheBehind, CacheAlong, NEW n \in Names,
           NEW g \in Groups, NEW k \in Keys, AddsExport(n, g, k)
    PROVE  ReachedBy(n, g, k) /\ ReachedBy(n, g, k)'
<1>1. /\ IsLive(seenShare[n]) /\ seenShare[n].fin
      /\ seenShare[n].group = g /\ ShareKey(n, seenShare[n].spec) = k
      /\ UNCHANGED share
  BY DEF AddsExport, PastConfigMapClaim, PastServerGroup, PastFinalizer
<1>2. /\ share[n] # None /\ share[n].uid = seenShare[n].uid
      /\ Asked(n, share[n]) /\ Asked(n, seenShare[n])
  BY <1>1 DEF CacheAlong, IsLive
<1>3. share[n].group = g
  BY <1>1, <1>2, SentinelsAssumption DEF CacheBehind, IsLive, Follows
<1>4. ShareKey(n, share[n].spec) = k
  BY <1>1, <1>2, OneKey
<1>5. QED
  BY <1>1, <1>2, <1>3, <1>4 DEF ReachedBy

(* A share that ends has had its export pruned: Finalize saw the config as *)
(* it was.                                                                 *)
LEMMA EndsPruned ==
    ASSUME TypeOK, CacheCurrent, "ConfigMap" \notin Lagging, NEW n \in Names,
           NEW g \in Groups, NEW k \in Keys, RemoveFinalizer(n),
           seenShare[n].group = g, ShareKey(n, seenShare[n].spec) = k
    PROVE  ~Exported(g, k)
<1> DEFINE cm == ConfigOf(g)
<1>1. cm \in Ids /\ cm = ConfigMap(seenShare[n]) /\ cm[1] = "ConfigMap"
  BY DEF Ids, ConfigOf, ConfigMap
<1>2. seenObj[cm] = obj[cm]
  BY <1>1 DEF CacheCurrent
<1>3. ~PruneNeeded(n)
  BY DEF RemoveFinalizer, ServerResourcesFinalized, ConfigMapFinalized
<1>4. ASSUME obj[cm] # None PROVE ~Lists(obj[cm].body, k)
  <2>1. Pruned(obj[cm].body, k) = obj[cm].body
    BY <1>1, <1>2, <1>3, <1>4 DEF PruneNeeded, Exists, ConfigSeenBy, PruneReportsChange
  <2>2. obj[cm].body \in Config
    BY <1>1, <1>4 DEF TypeOK, Object, Body
  <2>3. QED
    BY <2>1, <2>2, PrunedLists
<1>5. QED
  BY <1>4, ExportIs

(* A share that is reached by a key stays so, until it ends without it. *)
LEMMA ReachedStays ==
    ASSUME KeysFixed, "ConfigMap" \notin Lagging, TypeOK, CacheAlong, CacheCurrent,
           [Next]_vars, NEW n \in Names, NEW g \in Groups, NEW k \in Keys,
           ReachedBy(n, g, k), Exported(g, k)
    PROVE  ReachedBy(n, g, k)'
<1> DEFINE s == share[n]
           t == share'[n]
<1>1. g # NoGroup
  BY SentinelsAssumption
<1>2. /\ s # None /\ s.group = g /\ ShareKey(n, s.spec) = k
      /\ s.fin /\ Asked(n, s)
  BY <1>1 DEF ReachedBy, CacheAlong
<1>3. ShareMoves(n)
  BY AllMove
<1>4. CASE t = s
  BY <1>2, <1>4 DEF ReachedBy
<1>5. CASE t # None /\ Advances(s, t) /\ Asked(n, t)
  <2>1. t.group = g
    BY <1>1, <1>2, <1>5 DEF Advances, Follows
  <2>2. ShareKey(n, t.spec) = k
    BY <1>2, <1>5, OneKey
  <2>3. QED
    BY <1>5, <2>1, <2>2 DEF ReachedBy
<1>6. CASE RemoveFinalizer(n) /\ seenShare[n] = s
  BY <1>2, <1>6, EndsPruned
<1>7. QED
  BY <1>2, <1>3, <1>4, <1>5, <1>6 DEF ShareMoves

LEMMA NoOrphanExportNext ==
    ASSUME KeysFixed, "ConfigMap" \notin Lagging, TypeOK, CacheBehind, CacheAlong, CacheCurrent,
           NoOrphanExport, [Next]_vars
    PROVE  NoOrphanExport'
<1> SUFFICES ASSUME NEW g \in Groups, NEW k \in Keys, Exported(g, k)'
             PROVE  \E n \in Names : ReachedBy(n, g, k)'
  BY DEF NoOrphanExport
<1>1. CASE Exported(g, k)
  BY <1>1, ReachedStays DEF NoOrphanExport
<1>2. CASE ~Exported(g, k)
  <2>1. PICK n \in Names : AddsExport(n, g, k)
    BY <1>2, ExportsMove DEF ExportMoves
  <2>2. QED
    BY <2>1, AddedExportReached
<1>3. QED
  BY <1>1, <1>2

(* No export outlives its share, for shares that are not renamed and a     *)
(* ConfigMap cache that is current: the pass that adds it has a share that *)
(* cannot go without Finalize, and Finalize ends only where it has found   *)
(* nothing left to prune.                                                  *)
THEOREM NoExportIsOrphaned ==
    ASSUME KeysFixed, "ConfigMap" \notin Lagging
    PROVE  Spec => []NoOrphanExport
<1>1. Init => NoOrphanExport /\ CacheCurrent
  BY DEF Init, NoOrphanExport, Exported, CacheCurrent, Ids
<1>2. TypeOK /\ CacheBehind /\ CacheAlong /\ CacheCurrent /\ NoOrphanExport /\ [Next]_vars
      => CacheBehind' /\ CacheAlong' /\ CacheCurrent' /\ NoOrphanExport'
  BY SharesNext, CacheAlongNext, CacheCurrentNext, NoOrphanExportNext
<1>3. QED
  BY <1>1, <1>2, InitType, NextType, CacheBehindInit, CacheAlongInit, PTL DEF Spec

-----------------------------------------------------------------------------
(* Shares that leave hand over *)

(* The workload a share has on record is the one Finalize picks by the     *)
(* spec, if the mode is not edited.                                        *)
LEMMA RecordedMode ==
    ASSUME ModeFixed, NEW n \in Names, NEW s \in SmbShare, Asked(n, s), s.backend # NoBackend
    PROVE  s.backend = BackendOf(s.spec)
<1>1. PICK spec \in SpecsOf[n] : GivenAs(s.spec, spec)
  BY DEF Asked
<1>2. PICK other \in SpecsOf[n] : s.backend = BackendOf(other)
  BY DEF Asked
<1>3. BackendOf(s.spec) = BackendOf(spec)
  BY <1>1, AskedSpec
<1>4. QED
  BY <1>2, <1>3 DEF ModeFixed, BackendOf

LEMMA ServerResourcesFirst ==
    ASSUME NEW n \in Names
    PROVE  /\ 1 \in DOMAIN ServerResources(n)
           /\ ServerResources(n)[1] =
                 IF seenShare[n].spec.clustered
                 THEN StatefulSet(seenShare[n]) ELSE Deployment(seenShare[n])
<1> DEFINE s == seenShare[n]
           workload == IF s.spec.clustered THEN <<StatefulSet(s), StatePvc(s)>>
                                           ELSE <<Deployment(s)>>
           claim == IF s.spec.needsPvc THEN <<DataPvc(n, s)>> ELSE <<>>
           Any == {StatefulSet(s), StatePvc(s), Deployment(s), DataPvc(n, s)}
<1>1. ServerResources(n) = workload \o claim
  BY DEF ServerResources
<1>2. workload \in Seq(Any) /\ Len(workload) >= 1
  <2>1. CASE s.spec.clustered
    BY <2>1
  <2>2. CASE ~s.spec.clustered
    BY <2>2
  <2>3. QED
    BY <2>1, <2>2
<1>3. claim \in Seq(Any)
  <2>1. CASE s.spec.needsPvc
    BY <2>1
  <2>2. CASE ~s.spec.needsPvc
    BY <2>2
  <2>3. QED
    BY <2>1, <2>2
<1>4. workload[1] = IF s.spec.clustered THEN StatefulSet(s) ELSE Deployment(s)
  OBVIOUS
<1> HIDE DEF workload, claim
<1>5. /\ 1 \in DOMAIN (workload \o claim)
      /\ (workload \o claim)[1] = workload[1]
  BY <1>2, <1>3, ConcatProperties, LenProperties
<1>6. QED
  BY <1>1, <1>4, <1>5

(* Finalize ends only where nothing the share serves by wants an heir. *)
LEMMA FinalizedNeedsNoTransfer ==
    ASSUME ModeFixed, TypeOK, CacheAlong, NEW n \in Names, RemoveFinalizer(n),
           NEW g \in Groups, NEW kind \in {"ConfigMap", "Deployment", "StatefulSet"},
           Backed(seenShare[n], <<kind, g>>)
    PROVE  ~NeedsTransfer(<<kind, g>>, n)
<1> DEFINE s == seenShare[n]
           o == <<kind, g>>
<1>1. s # None /\ s \in SmbShare /\ Asked(n, s)
  BY DEF RemoveFinalizer, ServerResourcesFinalized, ConfigMapFinalized, Finalizing, TypeOK, CacheAlong
<1>2. CASE kind = "ConfigMap"
  BY <1>2 DEF Backed, ConfigMap, RemoveFinalizer, ServerResourcesFinalized, ConfigMapFinalized
<1>3. CASE kind \in {"Deployment", "StatefulSet"}
  <2>1. s.backend = BackendOf(s.spec) /\ s.group = g
    BY <1>1, <1>3, RecordedMode, SentinelsAssumption DEF Backed, Backends
  <2>2. ServerResources(n)[1] = o
    BY <1>3, <2>1, ServerResourcesFirst DEF Backed, BackendOf, StatefulSet, Deployment
  <2>3. QED
    BY <2>2, ServerResourcesFirst DEF RemoveFinalizer, ServerResourcesFinalized
<1>4. QED
  BY <1>2, <1>3

(* Of an object with an heir, a share that is not asked to transfer it is  *)
(* not the controller.                                                     *)
LEMMA ControlIsElsewhere ==
    ASSUME TypeOK, OneController, OwnersSound, CacheAlong, NEW o \in Ids, seenObj[o] = obj[o],
           NEW n \in Names, Owns(n, o), seenShare[n] = share[n], share[n].deleting,
           NEW m \in Names, Owns(m, o), ~share[m].deleting,
           ~NeedsTransfer(o, n), NEW i \in DOMAIN obj[o].refs, obj[o].refs[i].controller
    PROVE  obj[o].refs[i].name # n
<1> DEFINE refs == obj[o].refs
<1>1. SUFFICES ASSUME refs[i].name = n PROVE FALSE
  OBVIOUS
<1>2. PICK own \in DOMAIN refs : refs[own].name = n /\ refs[own].uid = share[n].uid
  BY DEF Owns
<1>3. PICK j \in DOMAIN refs : refs[j].name = m /\ refs[j].uid = share[m].uid
  BY DEF Owns
<1>4. obj[o] # None /\ share[m] # None /\ m # n /\ WellFormed(refs)
  BY DEF Owns, OneController
<1>5. own = i
  BY <1>1, <1>2, <1>4 DEF WellFormed
<1>6. j \in Heirs(o, n)
  <2>1. share[m].fin
    BY <1>3, <1>4 DEF OwnersSound, RefSound, OwnerAlive
  <2>2. IsLive(seenShare[m])
    BY <1>4, <2>1 DEF CacheAlong, IsLive
  <2>3. QED
    BY <1>3, <1>4, <2>2 DEF Heirs, OtherRefs
<1>7. PICK q \in OtherRefs(refs, n, share[n].uid) : refs[q].controller
  BY <1>4, <1>6 DEF NeedsTransfer, Exists
<1>8. q \in DOMAIN refs /\ q # i
  BY <1>2, <1>5, <1>7 DEF OtherRefs
<1>9. QED
  BY <1>4, <1>7, <1>8 DEF WellFormed

(* A share that goes controls nothing of its server that a member who      *)
(* stays owns too, for shares whose mode is not edited and current caches  *)
(* of the config and the workloads: each such member counts as an heir,    *)
(* for its finalizer keeps it in the cache, and Finalize ends only where   *)
(* another controls what has heirs.                                        *)
THEOREM LeaversHandOver ==
    ASSUME ModeFixed, Lagging \cap {"ConfigMap", "Deployment", "StatefulSet"} = {}
    PROVE  Spec => HandsOver
<1> DEFINE Handed == \A n \in Names, g \in Groups,
                        kind \in {"ConfigMap", "Deployment", "StatefulSet"} :
                        LET o == <<kind, g>>
                        IN  /\ Owns(n, o) /\ share'[n] = None
                            /\ \E m \in Names : Owns(m, o) /\ ~share[m].deleting
                            => \A i \in DOMAIN obj[o].refs :
                                  obj[o].refs[i].controller => obj[o].refs[i].name # n
<1>1. ASSUME TypeOK, OneController, OwnersSound, CacheAlong, CacheCurrent, [Next]_vars
      PROVE  Handed
  <2> SUFFICES ASSUME NEW n \in Names, NEW g \in Groups,
                      NEW kind \in {"ConfigMap", "Deployment", "StatefulSet"},
                      Owns(n, <<kind, g>>), share'[n] = None,
                      NEW m \in Names, Owns(m, <<kind, g>>), ~share[m].deleting,
                      NEW i \in DOMAIN obj[<<kind, g>>].refs,
                      obj[<<kind, g>>].refs[i].controller
               PROVE  obj[<<kind, g>>].refs[i].name # n
    OBVIOUS
  <2> DEFINE o == <<kind, g>>
  <2>1. o \in Ids /\ o[1] = kind
    BY DEF Ids, OwnedKinds
  <2>2. share[n] # None /\ share[n].fin /\ Backed(share[n], o)
    BY <1>1, <2>1 DEF Owns, OwnersSound, RefSound, OwnerAlive
  <2>3. RemoveFinalizer(n) /\ seenShare[n] = share[n] /\ share[n].deleting
    BY <1>1, <2>2, AllMove DEF ShareMoves
  <2>4. ~NeedsTransfer(o, n)
    BY <1>1, <2>2, <2>3, FinalizedNeedsNoTransfer
  <2>5. seenObj[o] = obj[o]
    BY <1>1, <2>1 DEF CacheCurrent
  <2>6. QED
    BY <1>1, <2>1, <2>3, <2>4, <2>5, ControlIsElsewhere
<1>2. TypeOK /\ OneController /\ OwnersSound /\ CacheAlong /\ CacheCurrent /\ [Next]_vars
      => [Handed]_vars
  BY <1>1
<1>3. TypeOK /\ CacheBehind /\ OneController /\ OwnersSound /\ CacheAlong /\ CacheCurrent /\ [Next]_vars
      => CacheBehind' /\ OneController' /\ OwnersSound' /\ CacheAlong' /\ CacheCurrent'
  BY SharesNext, OneControllerNext, OwnersSoundNext, CacheAlongNext, CacheCurrentNext
<1>4. Init => OneController /\ OwnersSound /\ CacheCurrent
  BY DEF Init, OneController, OwnersSound, CacheCurrent
<1>5. QED
  BY <1>2, <1>3, <1>4, InitType, NextType, CacheBehindInit, CacheAlongInit, PTL
  DEF Spec, HandsOver

-----------------------------------------------------------------------------
(* One server's exports are compatible *)

(* Share n is one of those the server of group g exports. *)
Exports(n, g) ==
    share[n] # None /\ share[n].group = g /\ Exported(g, ShareKey(n, share[n].spec))

(* Key k of group g is the doing of share n: of the only life n has had,   *)
(* which has the group on record or is over.                               *)
MadeBy(n, g, k) ==
    /\ lives[n] = 1
    /\ \E spec \in SpecsOf[n] : g = RequestedGroup(n, spec)
    /\ \E spec \in SpecsOf[n] : k = ShareKey(n, spec)
    /\ share[n] = None \/ share[n].group = g

ExportsMade == \A g \in Groups, k \in Keys :
    Exported(g, k) => \E n \in Names : MadeBy(n, g, k)

LEMMA OnlyUid ==
    ASSUME NamesOnce
    PROVE  /\ \A u \in Uids : u = 1
           /\ \A n \in Names : \A k \in Nat : k <= MaxLives[n] => k \in {0, 1}
<1>1. \A m \in Names : MaxLives[m] \in Nat /\ MaxLives[m] <= 1
  BY BoundsAssumption DEF NamesOnce
<1>2. QED
  BY <1>1 DEF Uids

LEMMA OnlyLife ==
    ASSUME NamesOnce, TypeOK, NEW n \in Names
    PROVE  /\ lives[n] \in {0, 1}
           /\ share[n] # None => share[n].uid = 1
           /\ seenShare[n] # None => seenShare[n].uid = 1
BY OnlyUid DEF TypeOK, SmbShare

LEMMA OnlyLifeNext ==
    ASSUME NamesOnce, TypeOK, [Next]_vars, NEW n \in Names
    PROVE  /\ lives'[n] \in {0, 1}
           /\ share'[n] # None => share'[n].uid = 1
<1>1. TypeOK'
  BY NextType
<1>2. QED
  BY <1>1, OnlyUid DEF TypeOK, SmbShare

LEMMA ReachedIsMade ==
    ASSUME NamesOnce, TypeOK, CacheBehind, CacheAlong, NEW n \in Names,
           NEW g \in Groups, NEW k \in Keys, ReachedBy(n, g, k)
    PROVE  MadeBy(n, g, k)
<1>1. /\ share[n] # None /\ share[n].group = g /\ ShareKey(n, share[n].spec) = k
      /\ Asked(n, share[n]) /\ g # NoGroup
  BY SentinelsAssumption DEF ReachedBy, CacheAlong
<1>2. lives[n] = 1
  BY <1>1, OnlyLife DEF CacheBehind
<1>3. QED
  BY <1>1, <1>2, AskedGroupAndKey DEF MadeBy

LEMMA MadeStays ==
    ASSUME NamesOnce, TypeOK, CacheBehind, CacheAlong, [Next]_vars, NEW n \in Names,
           NEW g \in Groups, NEW k \in Keys, MadeBy(n, g, k)
    PROVE  MadeBy(n, g, k)'
<1>1. TypeOK' /\ CacheBehind' /\ SharesFollow
  BY NextType, SharesNext
<1>2. lives'[n] = 1 /\ lives[n] = 1
  <2>1. lives'[n] \in {0, 1}
    BY OnlyLifeNext
  <2>2. lives[n] = 1 /\ lives[n] <= lives'[n]
    BY <1>1 DEF SharesFollow, MadeBy
  <2>3. QED
    BY <2>1, <2>2
<1>3. share'[n] = None \/ share'[n].group = g
  <2>1. share'[n] # None => share'[n].uid = 1
    BY OnlyLifeNext
  <2>2. g # NoGroup /\ (share[n] = None \/ share[n].group = g)
    BY SentinelsAssumption DEF MadeBy
  <2>3. ShareMoves(n)
    BY AllMove
  <2>4. QED
    BY <1>2, <2>1, <2>2, <2>3 DEF ShareMoves, Advances, Follows
<1>4. QED
  BY <1>2, <1>3 DEF MadeBy

LEMMA ExportsMadeNext ==
    ASSUME NamesOnce, KeysFixed, TypeOK, CacheBehind, CacheAlong, ExportsMade, [Next]_vars
    PROVE  ExportsMade'
<1> SUFFICES ASSUME NEW g \in Groups, NEW k \in Keys, Exported(g, k)'
             PROVE  \E n \in Names : MadeBy(n, g, k)'
  BY DEF ExportsMade
<1>1. CASE Exported(g, k)
  BY <1>1, MadeStays DEF ExportsMade
<1>2. CASE ~Exported(g, k)
  <2>1. PICK n \in Names : AddsExport(n, g, k)
    BY <1>2, ExportsMove DEF ExportMoves
  <2>2. MadeBy(n, g, k)
    BY <2>1, AddedExportReached, ReachedIsMade
  <2>3. QED
    BY <2>2, MadeStays
<1>3. QED
  BY <1>1, <1>2

(* Nobody made key k of a group but the share whose key it is. *)
LEMMA MadeByOne ==
    ASSUME KeysApart, NEW m \in Names, NEW n \in Names, NEW g \in Groups, NEW k,
           MadeBy(m, g, k), NEW s, Asked(n, s), s.group = g, ShareKey(n, s.spec) = k
    PROVE  m = n
<1>1. g # NoGroup
  BY SentinelsAssumption
<1>2. PICK spec \in SpecsOf[m], other \in SpecsOf[m] :
          g = RequestedGroup(m, spec) /\ k = ShareKey(m, other)
  BY DEF MadeBy
<1>3. PICK spec2 \in SpecsOf[n], other2 \in SpecsOf[n] :
          g = RequestedGroup(n, spec2) /\ k = ShareKey(n, other2)
  BY <1>1, AskedGroupAndKey
<1>4. QED
  BY <1>1, <1>2, <1>3 DEF KeysApart

(* A share comes to be exported by its own Update and in no other way: it  *)
(* does not come into a group in which its key is exported already.        *)
LEMMA NewExport ==
    ASSUME NamesOnce, KeysApart, KeysFixed, TypeOK, CacheBehind, CacheAlong, ExportsMade,
           [Next]_vars, NEW n \in Names, NEW g \in Groups, Exports(n, g)', ~Exports(n, g)
    PROVE  /\ AddsExport(n, g, ShareKey(n, seenShare[n].spec))
           /\ share[n] # None
<1> DEFINE t == share'[n]
<1> PICK k : k = ShareKey(n, t.spec)
  OBVIOUS
<1>1. t # None /\ t.group = g /\ Exported(g, k)'
  BY DEF Exports, Exported
<1>2. TypeOK' /\ CacheBehind' /\ CacheAlong'
  BY NextType, SharesNext, CacheAlongNext
<1>3. t \in SmbShare /\ Asked(n, t)
  BY <1>1, <1>2 DEF TypeOK, CacheAlong, Asked
<1>4. k \in Keys
  BY <1>3, KeyType
<1>5. CASE Exported(g, k)
  <2>1. PICK m \in Names : MadeBy(m, g, k)
    BY <1>4, <1>5 DEF ExportsMade
  <2>2. m = n
    BY <1>1, <1>3, <2>1, MadeByOne
  <2>3. lives[n] = 1 /\ (share[n] = None \/ share[n].group = g)
    BY <2>1, <2>2 DEF MadeBy
  <2>4. share[n] # None
    <3>1. t.uid = 1
      BY <1>1, OnlyLifeNext
    <3>2. ShareMoves(n)
      BY AllMove
    <3>3. QED
      BY <1>1, <2>3, <3>1, <3>2 DEF ShareMoves
  <2>5. Asked(n, share[n])
    BY <2>4 DEF CacheAlong
  <2>6. ShareKey(n, share[n].spec) = k
    BY <1>3, <2>5, OneKey
  <2>7. QED
    BY <1>5, <2>3, <2>4, <2>6 DEF Exports
<1>6. CASE ~Exported(g, k)
  <2>1. PICK m \in Names : AddsExport(m, g, k)
    BY <1>1, <1>4, <1>6, ExportsMove DEF ExportMoves
  <2>2. MadeBy(m, g, k) /\ ReachedBy(m, g, k)
    BY <1>4, <2>1, AddedExportReached, ReachedIsMade
  <2>3. m = n
    BY <1>1, <1>3, <2>2, MadeByOne
  <2>4. QED
    BY <2>1, <2>2, <2>3 DEF AddsExport, ReachedBy
<1>7. QED
  BY <1>5, <1>6

(* An owner that lives stays on the list, and at its head if it was there. *)
RefStays(o, i) ==
    \E j \in DOMAIN obj'[o].refs :
        /\ obj'[o].refs[j].name = obj[o].refs[i].name
        /\ i = 1 => j = 1

LEMMA SameRefsStay ==
    ASSUME NEW o, NEW i \in DOMAIN obj[o].refs, obj'[o].refs = obj[o].refs
    PROVE  RefStays(o, i)
BY DEF RefStays

LEMMA PassRefStays ==
    ASSUME TypeOK, NEW n \in Names, WritesObject(n), NEW o \in Ids,
           obj[o] # None, NEW i \in DOMAIN obj[o].refs
    PROVE  RefStays(o, i)
<1> DEFINE refs == obj[o].refs
<1>1. refs \in Seq(OwnerRef(Names, Uids))
  BY RefType
<1>2. PICK p \in Ids : \E new \in Object(p[1]) : RefsWritten(n, p, new.refs) /\ WriteObject(p, new)
  BY DEF WritesObject
<1>3. PICK new \in Object(p[1]) : RefsWritten(n, p, new.refs) /\ WriteObject(p, new)
  BY <1>2
<1>4. CASE p # o \/ seenObj[p] # obj[p]
  <2>1. obj'[o] = obj[o]
    BY <1>3, <1>4 DEF WriteObject, ChangeObject, TypeOK
  <2>2. QED
    BY <2>1, SameRefsStay
<1>5. CASE p = o /\ seenObj[p] = obj[p]
  <2>1. obj'[o] = new
    BY <1>3, <1>5 DEF WriteObject, ChangeObject, TypeOK
  <2>2. CASE new.refs = refs
    BY <2>1, <2>2, SameRefsStay
  <2>3. CASE new.refs = Append(refs, PlainRef(n, seenShare[n].uid))
    <3>1. seenShare[n].uid \in Uids
      BY DEF WritesObject, SmbShare
    <3>2. i \in DOMAIN new.refs /\ new.refs[i] = refs[i]
      BY <1>1, <2>3, <3>1, AppendRefType
    <3>3. QED
      BY <2>1, <3>2 DEF RefStays
  <2>4. CASE \E k \in DOMAIN refs : new.refs = ChangeControllerOwnerTo(refs, k)
    <3>1. PICK k \in DOMAIN refs : new.refs = ChangeControllerOwnerTo(refs, k)
      BY <2>4
    <3>2. i \in DOMAIN new.refs /\ new.refs[i].name = refs[i].name
      BY <1>1, <3>1, ChangeControllerType
    <3>3. QED
      BY <2>1, <3>2 DEF RefStays
  <2>5. QED
    BY <1>3, <1>5, <2>2, <2>3, <2>4 DEF RefsWritten
<1>6. QED
  BY <1>4, <1>5

LEMMA OthersRefStays ==
    ASSUME TypeOK, NEW p \in Ids,
           Collect(p) \/ DropDangling(p) \/ ScaleWorkload(p) \/ DeleteObject(p),
           NEW o \in Ids, obj[o] # None, obj'[o] # None,
           NEW i \in DOMAIN obj[o].refs, OwnerAlive(obj[o].refs[i])
    PROVE  RefStays(o, i)
<1> DEFINE refs == obj[o].refs
<1>1. refs \in Seq(OwnerRef(Names, Uids)) /\ obj[o] \in Object(o[1])
  BY RefType DEF TypeOK
<1>2. CASE p # o
  <2>1. obj'[o] = obj[o]
    BY <1>2 DEF Collect, DropDangling, ScaleWorkload, DeleteObject, ChangeObject, TypeOK
  <2>2. QED
    BY <2>1, SameRefsStay
<1>3. CASE p = o /\ (Collect(o) \/ DeleteObject(o))
  BY <1>3 DEF Collect, DeleteObject, ChangeObject, TypeOK
<1>4. CASE p = o /\ ScaleWorkload(o)
  <2>1. PICK k \in 0 .. MaxSize : ChangeObject(o, [obj[o] EXCEPT !.body.replicas = k])
    BY <1>4 DEF ScaleWorkload
  <2>2. o[1] \in {"Deployment", "StatefulSet"}
    BY <1>4 DEF ScaleWorkload
  <2>3. obj'[o].refs = refs
    BY <1>1, <2>1, <2>2, RescaledType DEF ChangeObject, TypeOK
  <2>4. QED
    BY <2>3, SameRefsStay
<1>5. CASE p = o /\ DropDangling(o)
  <2>1. PICK k \in DOMAIN refs :
            /\ ~OwnerAlive(refs[k])
            /\ ChangeObject(o, [obj[o] EXCEPT !.refs = WithoutRef(refs, k)])
    BY <1>5 DEF DropDangling
  <2>2. obj'[o].refs = WithoutRef(refs, k)
    BY <1>1, <2>1 DEF ChangeObject, TypeOK, Object
  <2>3. i # k
    BY <2>1
  <2> DEFINE j == IF i < k THEN i ELSE i - 1
  <2>4. /\ DOMAIN WithoutRef(refs, k) = 1 .. (Len(refs) - 1)
        /\ DOMAIN refs = 1 .. Len(refs) /\ Len(refs) \in Nat
        /\ \A q \in DOMAIN WithoutRef(refs, k) :
              WithoutRef(refs, k)[q] = refs[IF q < k THEN q ELSE q + 1]
    BY <1>1, <2>1, WithoutRefType
  <2>5. j \in DOMAIN WithoutRef(refs, k) /\ (i = 1 => j = 1)
        /\ (IF j < k THEN j ELSE j + 1) = i
    BY <2>1, <2>3, <2>4
  <2>6. WithoutRef(refs, k)[j] = refs[i]
    BY <2>4, <2>5
  <2>7. QED
    BY <2>2, <2>5, <2>6 DEF RefStays
<1>6. QED
  BY <1>2, <1>3, <1>4, <1>5

LEMMA RefsStay ==
    ASSUME TypeOK, [Next]_vars, NEW o \in Ids, obj[o] # None, obj'[o] # None,
           NEW i \in DOMAIN obj[o].refs, OwnerAlive(obj[o].refs[i])
    PROVE  RefStays(o, i)
<1>1. UNCHANGED obj => RefStays(o, i)
  BY SameRefsStay
<1>2. ASSUME NEW n \in Names, Reconcile(n) PROVE RefStays(o, i)
  <2>1. OnlyQueues \/ WritesShare(n) \/ RemoveFinalizer(n) => UNCHANGED obj
    BY DEF OnlyQueues, WritesShare, WriteShare, RemoveFinalizer, server
  <2>2. QED
    BY <1>1, <1>2, <2>1, PassCases, PassRefStays
<1>3. ASSUME NEW n \in Names, \/ SyncShare(n) \/ Trigger(n) \/ CreateShare(n)
                              \/ DeleteShare(n) \/ EditSpec(n)
      PROVE  UNCHANGED obj
  BY <1>3 DEF SyncShare, Trigger, CreateShare, DeleteShare, EditSpec, server
<1>4. ASSUME NEW p \in Ids, SyncObject(p) PROVE UNCHANGED obj
  BY <1>4 DEF SyncObject, server
<1>5. ASSUME NEW cf \in Confs, ToggleConf(cf) PROVE UNCHANGED obj
  BY <1>5 DEF ToggleConf
<1>6. Restart \/ UNCHANGED vars => UNCHANGED obj
  BY DEF Restart, server, vars
<1>7. QED
  BY <1>1, <1>2, <1>3, <1>4, <1>5, <1>6, OthersRefStays DEF Next, Users

(* A share whose claim is named from the start has a spec its user gave. *)
LEMMA GivenSpec ==
    ASSUME ClaimsNamed, NEW n \in Names, NEW s, Asked(n, s)
    PROVE  s.spec \in SpecsOf[n]
<1>1. PICK spec \in SpecsOf[n] : GivenAs(s.spec, spec)
  BY DEF Asked
<1>2. s.spec.pvc = spec.pvc
  BY <1>1 DEF GivenAs, ClaimsNamed
<1>3. s.spec = spec
  BY <1>1, <1>2, AskedSpec
<1>4. QED
  BY <1>3

LEMMA RefAlive ==
    ASSUME NamesOnce, TypeOK, NEW o \in Ids, obj[o] # None,
           NEW i \in DOMAIN obj[o].refs, share[obj[o].refs[i].name] # None
    PROVE  OwnerAlive(obj[o].refs[i])
<1>1. obj[o].refs[i] \in OwnerRef(Names, Uids)
  BY RefType
<1>2. obj[o].refs[i].name \in Names /\ obj[o].refs[i].uid = 1
  BY <1>1, OnlyUid DEF OwnerRef
<1>3. QED
  BY <1>2, OnlyLife DEF OwnerAlive

(* What a pass that adds an export found: its share on the config's list,  *)
(* and the first other owner compatible.                                   *)
LEMMA ExporterListed ==
    ASSUME NamesOnce, TypeOK, CacheBehind, CacheAlong, ClaimsNamed,
           NEW n \in Names, NEW g \in Groups, NEW k, AddsExport(n, g, k)
    PROVE  LET cm   == ConfigOf(g)
               refs == obj[cm].refs
           IN  /\ cm \in Ids /\ obj[cm] # None
               /\ HasOwnerNamed(refs, n)
               /\ seenShare[n].spec \in SpecsOf[n]
               /\ \A i \in DOMAIN refs :
                     /\ refs[i].name # n
                     /\ \A j \in DOMAIN refs : refs[j].name # n => i <= j
                     => \E other \in SpecsOf[refs[i].name] :
                           Compatible(seenShare[n].spec, other)
<1> DEFINE cm == ConfigOf(g)
           refs == obj[cm].refs
           others == OtherRefs(refs, n, seenShare[n].uid)
<1>1. cm \in Ids /\ seenObj[cm] = obj[cm] /\ cm = ConfigMap(seenShare[n])
  BY DEF AddsExport, Ids, ConfigOf, ConfigMap
<1>2. PastConfigMapClaim(n) /\ MayConfigure(n)
  BY DEF AddsExport
<1>3. obj[cm] # None /\ HasOwnerNamed(refs, n)
  BY <1>1, <1>2 DEF PastConfigMapClaim, Claimed, Exists
<1>4. seenShare[n] # None /\ Asked(n, seenShare[n])
  BY <1>2 DEF PastConfigMapClaim, PastServerGroup, PastFinalizer, IsLive, CacheAlong
<1>5. seenShare[n].spec \in SpecsOf[n]
  BY <1>4, GivenSpec
<1>6. ASSUME NEW i \in DOMAIN refs, refs[i].name # n,
             \A j \in DOMAIN refs : refs[j].name # n => i <= j
      PROVE  \E other \in SpecsOf[refs[i].name] : Compatible(seenShare[n].spec, other)
  <2>1. refs \in Seq(OwnerRef(Names, Uids))
    BY <1>1, <1>3, <1>6, RefType
  <2>2. DOMAIN refs = 1 .. Len(refs) /\ Len(refs) \in Nat
    BY <2>1
  <2>3. \A j \in DOMAIN refs : refs[j].name \in Names /\ refs[j].uid = 1
    BY <1>1, <1>3, RefType, OnlyUid DEF OwnerRef
  <2>4. seenShare[n].uid = 1
    BY <1>4, OnlyLife
  <2>5. others = {j \in DOMAIN refs : refs[j].name # n}
    BY <2>3, <2>4 DEF OtherRefs
  <2>6. i \in others /\ others \subseteq 1 .. Len(refs)
    BY <1>6, <2>2, <2>5
  <2>7. First(others) \in others /\ First(others) <= i
    BY <2>2, <2>6, FirstIn
  <2>8. First(others) = i
    <3> DEFINE q == First(others)
    <3>1. q \in DOMAIN refs /\ refs[q].name # n /\ q <= i
      BY <2>5, <2>7
    <3> HIDE DEF q
    <3>2. i <= q /\ q \in Nat /\ i \in Nat
      BY <1>6, <2>2, <3>1
    <3>3. QED
      BY <3>1, <3>2 DEF q
  <2> DEFINE m == refs[i].name
  <2>9. /\ seenShare[m] # None
        /\ Compatible(seenShare[n].spec, seenShare[m].spec)
    BY <1>1, <1>2, <2>6, <2>8 DEF MayConfigure
  <2>10. seenShare[m].spec \in SpecsOf[m]
    BY <2>3, <2>9, GivenSpec DEF CacheAlong
  <2>11. QED
    BY <2>9, <2>10
<1>7. QED
  BY <1>1, <1>3, <1>5, <1>6

(* The owners of a config include the shares its server exports; and where *)
(* one share of a group fits no other, it is exported alone, and owns the  *)
(* config before all others, so that none comes after it.                  *)
Unfit(odd) ==
    \A n \in Names \ {odd} : \A s \in SpecsOf[odd], t \in SpecsOf[n] :
        ~Compatible(s, t) /\ ~Compatible(t, s)

ExportersListed ==
    \A g \in Groups, n \in Names : Exports(n, g) => HasOwnerNamed(obj[ConfigOf(g)].refs, n)

MisfitAlone(odd) ==
    \A g \in Groups : Exports(odd, g) =>
        /\ 1 \in DOMAIN obj[ConfigOf(g)].refs
        /\ obj[ConfigOf(g)].refs[1].name = odd
        /\ \A n \in Names \ {odd} : ~Exports(n, g)

(* An export that stays, and so does its share on the list. *)
LEMMA ExporterStays ==
    ASSUME NamesOnce, TypeOK, [Next]_vars, NEW n \in Names, NEW g \in Groups,
           Exports(n, g), obj'[ConfigOf(g)] # None,
           NEW i \in DOMAIN obj[ConfigOf(g)].refs, obj[ConfigOf(g)].refs[i].name = n
    PROVE  RefStays(ConfigOf(g), i)
<1>1. ConfigOf(g) \in Ids /\ obj[ConfigOf(g)] # None /\ share[n] # None
  BY DEF Ids, ConfigOf, Exports, Exported
<1>2. QED
  BY <1>1, RefAlive, RefsStay

LEMMA ExportersListedNext ==
    ASSUME NamesOnce, KeysApart, KeysFixed, ClaimsNamed, TypeOK, CacheBehind, CacheAlong,
           ExportsMade, ExportersListed, [Next]_vars
    PROVE  ExportersListed'
<1> SUFFICES ASSUME NEW g \in Groups, NEW n \in Names, Exports(n, g)'
             PROVE  HasOwnerNamed(obj[ConfigOf(g)].refs, n)'
  BY DEF ExportersListed
<1> DEFINE cm == ConfigOf(g)
<1>1. obj'[cm] # None
  BY DEF Exports, Exported, ConfigOf
<1>2. \A i \in DOMAIN obj[cm].refs :
          obj[cm].refs[i].name = n /\ RefStays(cm, i) => HasOwnerNamed(obj[cm].refs, n)'
  BY DEF RefStays, HasOwnerNamed
<1>3. CASE Exports(n, g)
  <2>1. PICK i \in DOMAIN obj[cm].refs : obj[cm].refs[i].name = n
    BY <1>3 DEF ExportersListed, HasOwnerNamed
  <2>2. QED
    BY <1>1, <1>2, <1>3, <2>1, ExporterStays
<1>4. CASE ~Exports(n, g)
  <2>1. AddsExport(n, g, ShareKey(n, seenShare[n].spec)) /\ share[n] # None
    BY <1>4, NewExport
  <2>2. cm \in Ids /\ obj[cm] # None /\ HasOwnerNamed(obj[cm].refs, n)
    BY <2>1, ExporterListed
  <2>3. PICK i \in DOMAIN obj[cm].refs : obj[cm].refs[i].name = n
    BY <2>2 DEF HasOwnerNamed
  <2>4. RefStays(cm, i)
    BY <1>1, <2>1, <2>2, <2>3, RefAlive, RefsStay
  <2>5. QED
    BY <1>2, <2>3, <2>4
<1>5. QED
  BY <1>3, <1>4

LEMMA MisfitAloneNext ==
    ASSUME NamesOnce, KeysApart, KeysFixed, ClaimsNamed, TypeOK, CacheBehind, CacheAlong,
           ExportsMade, ExportersListed, NEW odd \in Names, Unfit(odd), MisfitAlone(odd),
           [Next]_vars
    PROVE  MisfitAlone(odd)'
<1> SUFFICES ASSUME NEW g \in Groups, Exports(odd, g)'
             PROVE  /\ 1 \in DOMAIN obj'[ConfigOf(g)].refs
                    /\ obj'[ConfigOf(g)].refs[1].name = odd
                    /\ \A n \in Names \ {odd} : ~Exports(n, g)'
  BY DEF MisfitAlone, ConfigOf
<1> DEFINE cm == ConfigOf(g)
           refs == obj[cm].refs
<1>1. obj'[cm] # None
  BY DEF Exports, Exported, ConfigOf
<1>2. ASSUME 1 \in DOMAIN refs, refs[1].name = odd, RefStays(cm, 1)
      PROVE  1 \in DOMAIN obj'[cm].refs /\ obj'[cm].refs[1].name = odd
  BY <1>2 DEF RefStays
<1>3. CASE Exports(odd, g)
  <2>1. 1 \in DOMAIN refs /\ refs[1].name = odd
        /\ \A n \in Names \ {odd} : ~Exports(n, g)
    BY <1>3 DEF MisfitAlone
  <2>2. RefStays(cm, 1)
    BY <1>1, <1>3, <2>1, ExporterStays
  <2>3. ASSUME NEW n \in Names \ {odd}, Exports(n, g)' PROVE FALSE
    <3>1. AddsExport(n, g, ShareKey(n, seenShare[n].spec))
      BY <2>1, <2>3, NewExport
    <3>2. cm \in Ids /\ obj[cm] # None /\ seenShare[n].spec \in SpecsOf[n]
      BY <3>1, ExporterListed
    <3>3. \A j \in DOMAIN refs : 1 <= j
      <4>1. refs \in Seq(OwnerRef(Names, Uids))
        BY <2>1, <3>2, RefType
      <4>2. QED
        BY <4>1
    <3>4. PICK other \in SpecsOf[odd] : Compatible(seenShare[n].spec, other)
      BY <2>1, <2>3, <3>1, <3>3, ExporterListed
    <3>5. QED
      BY <2>3, <3>2, <3>4 DEF Unfit
  <2>4. QED
    BY <1>2, <2>1, <2>2, <2>3
<1>4. CASE ~Exports(odd, g)
  <2>1. AddsExport(odd, g, ShareKey(odd, seenShare[odd].spec)) /\ share[odd] # None
    BY <1>4, NewExport
  <2>2. /\ cm \in Ids /\ obj[cm] # None /\ HasOwnerNamed(refs, odd)
        /\ seenShare[odd].spec \in SpecsOf[odd]
    BY <2>1, ExporterListed
  <2>3. PICK q \in DOMAIN refs : refs[q].name = odd
    BY <2>2 DEF HasOwnerNamed
  <2>4. refs \in Seq(OwnerRef(Names, Uids))
    BY <2>2, <2>3, RefType
  <2>5. DOMAIN refs = 1 .. Len(refs) /\ Len(refs) \in Nat
        /\ \A j \in DOMAIN refs : refs[j].name \in Names
    BY <2>2, <2>4, RefType
  <2>6. \A j \in DOMAIN refs : refs[j].name = odd
    <3> DEFINE others == {j \in DOMAIN refs : refs[j].name # odd}
    <3> SUFFICES ASSUME others # {} PROVE FALSE
      OBVIOUS
    <3>1. others \subseteq 1 .. Len(refs)
      BY <2>5
    <3>2. First(others) \in others /\ \A j \in others : First(others) <= j
      BY <2>5, <3>1, FirstIn
    <3>3. PICK other \in SpecsOf[refs[First(others)].name] :
              Compatible(seenShare[odd].spec, other)
      BY <2>1, <3>2, ExporterListed
    <3>4. refs[First(others)].name \in Names \ {odd}
      BY <2>5, <3>2
    <3>5. QED
      BY <2>2, <3>3, <3>4 DEF Unfit
  <2>7. 1 \in DOMAIN refs /\ refs[1].name = odd
    BY <2>3, <2>5, <2>6
  <2>8. RefStays(cm, 1)
    BY <1>1, <2>1, <2>2, <2>7, RefAlive, RefsStay
  <2>9. ASSUME NEW n \in Names \ {odd}, Exports(n, g)' PROVE FALSE
    <3>1. HasOwnerNamed(refs, n)
      <4>1. CASE Exports(n, g)
        BY <4>1 DEF ExportersListed
      <4>2. CASE ~Exports(n, g)
        BY <2>9, <4>2, NewExport, ExporterListed
      <4>3. QED
        BY <4>1, <4>2
    <3>2. QED
      BY <2>6, <3>1 DEF HasOwnerNamed
  <2>10. QED
    BY <1>2, <2>7, <2>8, <2>9
<1>5. QED
  BY <1>3, <1>4

LEMMA CompatibleOrder ==
    ASSUME NEW s, NEW t, NEW u
    PROVE  /\ Compatible(s, t) => Compatible(t, s)
           /\ Compatible(s, t) /\ Compatible(t, u) => Compatible(s, u)
BY DEF Compatible

(* Of shares with one misfit at most, each is compatible with all others,  *)
(* or the misfit with none.                                                *)
LEMMA AllFitButOne ==
    ASSUME OneMisfit
    PROVE  \/ \A m, n \in Names : SpecsFit(m, n)
           \/ \E odd \in Names : Unfit(odd) /\ \A m, n \in Names \ {odd} : SpecsFit(m, n)
<1>1. PICK odd \in Names : \A m, n \in Names \ {odd} : SpecsFit(m, n)
  BY DEF OneMisfit
<1>2. \A n \in Names : SpecsFit(n, n)
  BY DEF OneMisfit
<1>3. ASSUME NEW n \in Names \ {odd}, NEW s \in SpecsOf[odd], NEW t \in SpecsOf[n],
             Compatible(s, t)
      PROVE  \A m \in Names \ {odd} : SpecsFit(odd, m) /\ SpecsFit(m, odd)
  <2> SUFFICES ASSUME NEW m \in Names \ {odd}, NEW s2 \in SpecsOf[odd], NEW t2 \in SpecsOf[m]
               PROVE  Compatible(s2, t2) /\ Compatible(t2, s2)
    BY DEF SpecsFit
  <2>1. Compatible(s2, s) /\ Compatible(t, t2)
    BY <1>1, <1>2 DEF SpecsFit
  <2>2. QED
    BY <1>3, <2>1 DEF Compatible
<1>4. CASE Unfit(odd)
  BY <1>1, <1>4
<1>5. CASE ~Unfit(odd)
  <2>1. PICK n \in Names \ {odd} :
            \E s \in SpecsOf[odd], t \in SpecsOf[n] : Compatible(s, t)
    BY <1>5, CompatibleOrder DEF Unfit
  <2>2. \A m \in Names \ {odd} : SpecsFit(odd, m) /\ SpecsFit(m, odd)
    BY <1>3, <2>1
  <2>3. \A k, m \in Names : SpecsFit(k, m)
    BY <1>1, <1>2, <2>2
  <2>4. QED
    BY <2>3
<1>6. QED
  BY <1>4, <1>5

LEMMA FitsCompatible ==
    ASSUME ClaimsNamed, CacheAlong, NEW m \in Names, NEW n \in Names,
           share[m] # None, share[n] # None, SpecsFit(m, n)
    PROVE  Compatible(share[m].spec, share[n].spec)
BY GivenSpec DEF CacheAlong, SpecsFit

(* What one server exports is compatible, also while the first owner of    *)
(* its config changes and whatever is stale, if no more than one share is  *)
(* unlike the rest: updateConfiguration compares a share with the first    *)
(* other owner alone, which then suffices.  With two of each kind it does  *)
(* not.                                                                    *)
THEOREM ExportsAreCompatible ==
    ASSUME NamesOnce, KeysApart, KeysFixed, ClaimsNamed, OneMisfit
    PROVE  Spec => []GroupCompatible
<1> DEFINE Base == TypeOK /\ CacheBehind /\ CacheAlong /\ ExportsMade /\ ExportersListed
<1>1. Init => Base
  <2>1. Init => ExportsMade /\ ExportersListed
    BY DEF Init, ExportsMade, ExportersListed, Exports, Exported, Ids
  <2>2. QED
    BY <2>1, InitType, CacheBehindInit, CacheAlongInit
<1>2. Base /\ [Next]_vars => Base'
  BY NextType, SharesNext, CacheAlongNext, ExportsMadeNext, ExportersListedNext
<1>3. CASE \A m, n \in Names : SpecsFit(m, n)
  <2>1. Base => GroupCompatible
    BY <1>3, FitsCompatible DEF GroupCompatible
  <2>2. QED
    BY <1>1, <1>2, <2>1, PTL DEF Spec
<1>4. CASE \E odd \in Names : Unfit(odd) /\ \A m, n \in Names \ {odd} : SpecsFit(m, n)
  <2>1. PICK odd \in Names : Unfit(odd) /\ \A m, n \in Names \ {odd} : SpecsFit(m, n)
    BY <1>4
  <2>2. Init => MisfitAlone(odd)
    BY DEF Init, MisfitAlone, Exports
  <2>3. Base /\ MisfitAlone(odd) /\ [Next]_vars => MisfitAlone(odd)'
    BY <2>1, MisfitAloneNext
  <2>4. Base /\ MisfitAlone(odd) => GroupCompatible
    <3> SUFFICES ASSUME Base, MisfitAlone(odd), NEW g \in Groups, NEW m \in Names, NEW n \in Names,
                        Exports(m, g), Exports(n, g)
                 PROVE  Compatible(share[m].spec, share[n].spec)
      BY DEF GroupCompatible, Exports, ReachedBy
    <3>1. share[m] # None /\ share[n] # None
      BY DEF Exports
    <3>2. SpecsFit(m, n)
      <4>1. CASE m = n
        BY <4>1 DEF OneMisfit
      <4>2. CASE m # n
        BY <2>1, <4>2 DEF MisfitAlone
      <4>3. QED
        BY <4>1, <4>2
    <3>3. QED
      BY <3>1, <3>2, FitsCompatible
  <2>5. QED
    BY <1>1, <1>2, <2>2, <2>3, <2>4, PTL DEF Spec
<1>5. QED
  BY <1>3, <1>4, AllFitButOne

-----------------------------------------------------------------------------
(* Nobody's work is undone *)

(* Where Update reports no change it has made none.                        *)
LEMMA SettledIsFixed ==
    ASSUME NEW c \in Config, NEW plan \in Plan, ~UpdateReportsChange(c, plan)
    PROVE  /\ Updated(c, plan) = c
           /\ c.section \in ConfigSection /\ plan.key \in c.section.shares
<1>1. /\ c.base /\ c.shares[plan.key] # NoShare
      /\ ApplyCustomShare(FoundShare(c, plan), plan) = FoundShare(c, plan)
      /\ ApplyShareValues(FoundShare(c, plan), plan) = FoundShare(c, plan)
      /\ c.section = UpdatedSection(c, plan)
      /\ RealmsOf(plan) \subseteq c.realms
  BY DEF UpdateReportsChange
<1>2. FoundShare(c, plan) = c.shares[plan.key]
  BY <1>1 DEF FoundShare
<1>3. c.section \in ConfigSection /\ plan.key \in c.section.shares
  <2>1. RealmsOf(plan) \subseteq Confs
    BY DEF Plan, RealmsOf
  <2>2. CASE c.section = NoSection
    BY <1>1, <2>1, <2>2 DEF UpdatedSection, ConfigSection, Plan
  <2>3. CASE c.section # NoSection
    <3>1. c.section \in ConfigSection
      BY <2>3 DEF Config
    <3>2. c.section.shares = c.section.shares \cup {plan.key}
      BY <1>1, <2>3, <3>1 DEF UpdatedSection, ConfigSection
    <3>3. QED
      BY <3>1, <3>2
  <2>4. QED
    BY <2>2, <2>3
<1>4. /\ [c.shares EXCEPT ![plan.key] = c.shares[plan.key]] = c.shares
      /\ c.realms \cup RealmsOf(plan) = c.realms /\ c.base = TRUE
  BY <1>1 DEF Config, Plan
<1>5. Updated(c, plan) = [base |-> c.base, realms |-> c.realms, shares |-> c.shares,
                          section |-> c.section]
  BY <1>1, <1>2, <1>4 DEF Updated
<1>6. QED
  BY <1>3, <1>5 DEF Config

(* What one plan has had written, an Update by another does not undo, ...  *)
LEMMA SettledUpdated ==
    ASSUME NEW c \in Config, NEW plan \in Plan, NEW other \in Plan,
           ~UpdateReportsChange(c, plan), other.key # plan.key
    PROVE  ~UpdateReportsChange(Updated(c, other), plan)
<1> DEFINE new == Updated(c, other)
<1>1. c.section \in ConfigSection /\ plan.key \in c.section.shares
  BY SettledIsFixed
<1>2. /\ new.base /\ new.realms = c.realms \cup RealmsOf(other)
      /\ new.section = UpdatedSection(c, other)
      /\ new.shares[plan.key] = c.shares[plan.key]
  BY DEF Updated, Config, Plan
<1>3. /\ new.section \in ConfigSection
      /\ new.section.shares = c.section.shares \cup {other.key}
  BY <1>1, <1>2, ConfigAssumption DEF UpdatedSection, ConfigSection, Plan
<1> HIDE DEF new
<1>4. UpdatedSection(new, plan) = new.section
  <2>1. UpdatedSection(new, plan)
            = [new.section EXCEPT !.shares = new.section.shares \cup {plan.key}]
    BY <1>3, ConfigAssumption DEF UpdatedSection
  <2>2. new.section.shares \cup {plan.key} = new.section.shares
    BY <1>1, <1>3
  <2>3. QED
    BY <1>3, <2>1, <2>2 DEF ConfigSection
<1>5. FoundShare(new, plan) = FoundShare(c, plan)
  BY <1>2 DEF FoundShare
<1>6. ~UpdateReportsChange(new, plan)
  BY <1>2, <1>4, <1>5 DEF UpdateReportsChange
<1>7. QED
  BY <1>6 DEF new

(* ... nor does the Prune of another key.                                  *)
LEMMA SettledPruned ==
    ASSUME NEW c \in Config, NEW plan \in Plan, NEW k \in Keys,
           ~UpdateReportsChange(c, plan), k # plan.key
    PROVE  ~UpdateReportsChange(Pruned(c, k), plan)
<1> DEFINE new == Pruned(c, k)
<1>1. c.section \in ConfigSection /\ plan.key \in c.section.shares
  BY SettledIsFixed
<1>2. /\ new.base = c.base /\ new.realms = c.realms
      /\ new.section = PrunedSection(c, k)
      /\ new.shares[plan.key] = c.shares[plan.key]
  BY DEF Pruned, Config, Plan
<1>3. new.section \in ConfigSection /\ new.section.shares = c.section.shares \ {k}
  BY <1>1, <1>2, ConfigAssumption DEF PrunedSection, ConfigSection
<1> HIDE DEF new
<1>4. UpdatedSection(new, plan) = new.section
  <2>1. UpdatedSection(new, plan)
            = [new.section EXCEPT !.shares = new.section.shares \cup {plan.key}]
    BY <1>3, ConfigAssumption DEF UpdatedSection
  <2>2. new.section.shares \cup {plan.key} = new.section.shares
    BY <1>1, <1>3
  <2>3. QED
    BY <1>3, <2>1, <2>2 DEF ConfigSection
<1>5. FoundShare(new, plan) = FoundShare(c, plan)
  BY <1>2 DEF FoundShare
<1>6. ~UpdateReportsChange(new, plan)
  BY <1>2, <1>4, <1>5 DEF UpdateReportsChange
<1>7. QED
  BY <1>6 DEF new

(* A configuration that stays is rewritten by an Update or a Prune only.   *)
ConfigMoves(g) ==
    LET old == obj[ConfigOf(g)].body
        new == obj'[ConfigOf(g)].body
    IN  \/ new = old
        \/ \E m \in Names : /\ IsLive(seenShare[m]) /\ seenShare[m].group = g
                            /\ new = Updated(old, PlanOf(m, seenShare[m]))
        \/ \E m \in Names : /\ Finalizing(m) /\ seenShare[m].group = g
                            /\ new = Pruned(old, ShareKey(m, seenShare[m].spec))

LEMMA ConfigMovesNext ==
    ASSUME TypeOK, [Next]_vars, NEW g \in Groups,
           obj[ConfigOf(g)] # None, obj'[ConfigOf(g)] # None
    PROVE  ConfigMoves(g)
<1> DEFINE cm == ConfigOf(g)
<1>1. cm \in Ids /\ cm[1] = "ConfigMap"
  BY DEF Ids, ConfigOf
<1>2. obj'[cm] = obj[cm] => ConfigMoves(g)
  BY DEF ConfigMoves
<1>3. ASSUME NEW n \in Names, Reconcile(n) PROVE ConfigMoves(g)
  <2>1. CASE UNCHANGED obj
    BY <1>2, <2>1
  <2>2. CASE WritesConfig(n)
    <3>1. PICK o \in Ids : \E new : /\ WriteObject(o, new)
                                    /\ o[1] = "ConfigMap" => BodyWritten(n, o, new.body)
      BY <2>2 DEF WritesConfig
    <3>2. PICK new : WriteObject(o, new) /\ (o[1] = "ConfigMap" => BodyWritten(n, o, new.body))
      BY <3>1
    <3>3. CASE o # cm \/ seenObj[o] # obj[o]
      <4>1. obj'[cm] = obj[cm]
        BY <3>2, <1>1, <3>3 DEF WriteObject, ChangeObject, TypeOK
      <4>2. QED
        BY <4>1, <1>2
    <3>4. CASE o = cm /\ seenObj[o] = obj[o]
      <4>1. obj'[cm] = new /\ BodyWritten(n, cm, new.body) /\ seenObj[cm] = obj[cm]
        BY <1>1, <3>2, <3>4 DEF WriteObject, ChangeObject, TypeOK
      <4>2. ConfigMap(seenShare[n]) = cm => seenShare[n].group = g
        BY DEF ConfigOf, ConfigMap
      <4>3. PastConfigMapClaim(n) => IsLive(seenShare[n])
        BY DEF PastConfigMapClaim, PastServerGroup, PastFinalizer
      <4>4. QED
        BY <4>1, <4>2, <4>3 DEF BodyWritten, ConfigMoves
    <3>5. QED
      BY <3>3, <3>4
  <2>3. QED
    BY <1>3, <2>1, <2>2, PassWritesConfig
<1>4. ASSUME NEW o \in Ids,
             Collect(o) \/ DropDangling(o) \/ ScaleWorkload(o) \/ DeleteObject(o)
      PROVE  ConfigMoves(g)
  <2>1. PICK new : /\ obj' = [obj EXCEPT ![o] = new]
                   /\ o[1] = "ConfigMap" /\ new # None
                         => obj[o] # None /\ new.body = obj[o].body
    BY <1>4, OthersKeepConfig
  <2>2. obj'[cm].body = obj[cm].body
    BY <1>1, <2>1 DEF TypeOK
  <2>3. QED
    BY <2>2 DEF ConfigMoves
<1>5. ASSUME NEW n \in Names, \/ SyncShare(n) \/ Trigger(n) \/ CreateShare(n)
                              \/ DeleteShare(n) \/ EditSpec(n)
      PROVE  UNCHANGED obj
  BY <1>5 DEF SyncShare, Trigger, CreateShare, DeleteShare, EditSpec, server
<1>6. ASSUME NEW o \in Ids, SyncObject(o) PROVE UNCHANGED obj
  BY <1>6 DEF SyncObject, server
<1>7. ASSUME NEW cf \in Confs, ToggleConf(cf) PROVE UNCHANGED obj
  BY <1>7 DEF ToggleConf
<1>8. Restart \/ UNCHANGED vars => UNCHANGED obj
  BY DEF Restart, server, vars
<1>9. UNCHANGED obj => ConfigMoves(g)
  BY <1>2
<1>10. QED
  BY <1>3, <1>4, <1>5, <1>6, <1>7, <1>8, <1>9 DEF Next, Users

(* A member of a group and another one that the cache shows, in whatever   *)
(* life and state, have different keys.                                    *)
LEMMA OtherKey ==
    ASSUME KeysApart, TypeOK, CacheAlong, NEW g \in Groups,
           NEW n \in Names, share[n] # None, share[n].group = g,
           NEW m \in Names, seenShare[m] # None, seenShare[m].group = g, m # n
    PROVE  ShareKey(m, seenShare[m].spec) # ShareKey(n, share[n].spec)
<1>1. Asked(n, share[n]) /\ Asked(m, seenShare[m]) /\ g # NoGroup
  BY SentinelsAssumption DEF CacheAlong
<1>2. PICK spec \in SpecsOf[n], other \in SpecsOf[n] :
          /\ g = RequestedGroup(n, spec)
          /\ ShareKey(n, share[n].spec) = ShareKey(n, other)
  BY <1>1, AskedGroupAndKey
<1>3. PICK spec2 \in SpecsOf[m], other2 \in SpecsOf[m] :
          /\ g = RequestedGroup(m, spec2)
          /\ ShareKey(m, seenShare[m].spec) = ShareKey(m, other2)
  BY <1>1, AskedGroupAndKey
<1>4. QED
  BY <1>1, <1>2, <1>3 DEF KeysApart

LEMMA ConfiguredStays ==
    ASSUME KeysApart, TypeOK, CacheAlong, [Next]_vars, NEW n \in Names,
           share'[n] = share[n], Configured(n), obj'[ConfigMap(share[n])] # None,
           seenShare[n].spec = share[n].spec
    PROVE  Configured(n)'
<1> DEFINE s == share[n]
           g == s.group
           plan == PlanOf(n, s)
           old == obj[ConfigOf(g)].body
           new == obj'[ConfigOf(g)].body
<1>1. /\ IsLive(s) /\ g # NoGroup /\ s \in SmbShare /\ g \in Groups
      /\ ConfigMap(s) = ConfigOf(g)
      /\ obj[ConfigOf(g)] # None /\ obj'[ConfigOf(g)] # None
      /\ ~UpdateReportsChange(old, plan)
  BY DEF Configured, IsLive, TypeOK, SmbShare, ConfigMap, ConfigOf
<1>2. ConfigOf(g) \in Ids /\ old \in Config
  BY <1>1 DEF ConfigOf, Ids, TypeOK, Object, Body
<1>3. plan \in Plan /\ plan.key = ShareKey(n, s.spec)
  BY <1>1, PlanType DEF PlanOf
<1>4. seenShare[n] # None /\ seenShare[n].uid = s.uid
  BY <1>1 DEF CacheAlong, IsLive
<1> HIDE DEF plan, old, new
<1>5. SUFFICES ~UpdateReportsChange(new, plan)
  BY <1>1, <1>5 DEF Configured, plan, new
<1>6. CASE new = old
  BY <1>1, <1>6
<1>7. ASSUME NEW m \in Names, IsLive(seenShare[m]), seenShare[m].group = g,
             new = Updated(old, PlanOf(m, seenShare[m]))
      PROVE  ~UpdateReportsChange(new, plan)
  <2>1. CASE m = n
    <3>1. PlanOf(m, seenShare[m]) = plan
      BY <1>4, <2>1 DEF PlanOf, ShareMountPath, plan
    <3>2. QED
      BY <1>1, <1>2, <1>3, <1>7, <3>1, SettledIsFixed
  <2>2. CASE m # n
    <3> DEFINE other == PlanOf(m, seenShare[m])
    <3>1. seenShare[m] # None /\ seenShare[m] \in SmbShare
      BY <1>7 DEF IsLive, TypeOK
    <3>2. other \in Plan /\ other.key = ShareKey(m, seenShare[m].spec)
      BY <3>1, PlanType DEF PlanOf
    <3>3. other.key # plan.key
      BY <1>1, <1>3, <1>7, <2>2, <3>1, <3>2, OtherKey DEF IsLive
    <3> HIDE DEF other
    <3>4. QED
      BY <1>1, <1>2, <1>3, <1>7, <3>2, <3>3, SettledUpdated DEF other
  <2>3. QED
    BY <2>1, <2>2
<1>8. ASSUME NEW m \in Names, Finalizing(m), seenShare[m].group = g,
             new = Pruned(old, ShareKey(m, seenShare[m].spec))
      PROVE  ~UpdateReportsChange(new, plan)
  <2>1. seenShare[m] # None /\ seenShare[m].deleting /\ seenShare[m] \in SmbShare
    BY <1>8 DEF Finalizing, TypeOK
  <2>2. m # n
    BY <1>1, <1>4, <2>1 DEF CacheAlong, IsLive
  <2> DEFINE k == ShareKey(m, seenShare[m].spec)
  <2>3. k \in Keys /\ k # plan.key
    BY <1>1, <1>3, <1>8, <2>1, <2>2, OtherKey, KeyType DEF IsLive
  <2> HIDE DEF k
  <2>4. QED
    BY <1>1, <1>2, <1>3, <1>8, <2>3, SettledPruned DEF k
<1>9. QED
  BY <1>1, <1>6, <1>7, <1>8, ConfigMovesNext DEF ConfigMoves, old, new

(* A pass writes one object; a StatefulSet that it found it only grows.    *)
NeverShrinks(n) ==
    \E o \in Ids : \E new :
        /\ WriteObject(o, new)
        /\ o[1] = "StatefulSet" /\ seenObj[o] # None
              => new.body.replicas >= seenObj[o].body.replicas

LEMMA RefsNeverShrink ==
    ASSUME TypeOK, NEW n \in Names, NEW o \in Ids, seenObj[o] # None, NEW refs,
           WriteObject(o, [seenObj[o] EXCEPT !.refs = refs])
    PROVE  NeverShrinks(n)
<1> DEFINE new == [seenObj[o] EXCEPT !.refs = refs]
<1>1. seenObj[o] \in Object(o[1])
  BY DEF TypeOK
<1>2. new.body = seenObj[o].body
  BY <1>1 DEF Object
<1>3. o[1] = "StatefulSet" => seenObj[o].body.replicas \in 0 .. MaxSize
  BY <1>1 DEF Object, Body, Workload
<1>4. o[1] = "StatefulSet" => new.body.replicas >= seenObj[o].body.replicas
  BY <1>2, <1>3, BoundsAssumption
<1> HIDE DEF new
<1>5. QED
  BY <1>4 DEF NeverShrinks, new

LEMMA PassNeverShrinks ==
    ASSUME TypeOK, NEW n \in Names, Reconcile(n)
    PROVE  UNCHANGED obj \/ NeverShrinks(n)
<1> DEFINE s == seenShare[n]
<1>1. s # None => s \in SmbShare
  BY DEF TypeOK
<1>2. ASSUME PastServerGroup(n)
      PROVE  /\ s # None /\ s \in SmbShare
             /\ ConfigMap(s) \in Ids /\ ConfigMap(s)[1] = "ConfigMap"
             /\ Deployment(s) \in Ids /\ Deployment(s)[1] = "Deployment"
             /\ StatefulSet(s) \in Ids /\ Service(s) \in Ids
             /\ StatePvc(s) \in Ids /\ DataPvc(n, s) \in Ids
  BY <1>1, <1>2, IdsType DEF PastServerGroup, PastFinalizer, IsLive
<1>3. ASSUME NEW o \in Ids, NEW body, Create(o, n, body) PROVE NeverShrinks(n)
  BY <1>3 DEF Create, Exists, NeverShrinks
<1>4. ASSUME NEW o, Claim(o, n) PROVE NeverShrinks(n)
  BY <1>4, RefsNeverShrink DEF Claim, Exists
<1>5. ASSUME NEW o, TransferOwnership(o, n) PROVE NeverShrinks(n)
  BY <1>5, RefsNeverShrink DEF TransferOwnership, NeedsTransfer, Exists
<1>6. CASE \/ CreateConfigMap(n) \/ CreateDataPvc(n) \/ CreateStatePvc(n)
           \/ CreateStatefulSet(n) \/ CreateDeployment(n) \/ CreateService(n)
  <2>1. PastServerGroup(n)
    BY <1>6, PastGroup DEF CreateConfigMap, CreateDataPvc, CreateStatePvc, CreateStatefulSet,
       CreateDeployment, CreateService
  <2>2. QED
    BY <1>2, <1>3, <1>6, <2>1 DEF CreateConfigMap, CreateDataPvc, CreateStatePvc,
       CreateStatefulSet, CreateDeployment, CreateService
<1>7. CASE ClaimConfigMap(n) \/ ClaimStatefulSet(n) \/ ClaimDeployment(n) \/ ClaimService(n)
  BY <1>4, <1>7 DEF ClaimConfigMap, ClaimStatefulSet, ClaimDeployment, ClaimService
<1>8. CASE UpdateConfiguration(n) \/ UpdateDeploymentSize(n)
  <2>1. PastServerGroup(n)
    BY <1>8, PastGroup DEF UpdateConfiguration, PastConfigMapClaim, UpdateDeploymentSize
  <2>2. QED
    BY <1>2, <1>8, <2>1 DEF UpdateConfiguration, UpdateDeploymentSize, NeverShrinks
<1>9. CASE UpdateStatefulSetSize(n)
  <2> DEFINE o == StatefulSet(s)
             new == [seenObj[o] EXCEPT !.body.replicas = s.spec.size]
  <2>1. /\ o \in Ids /\ seenObj[o] # None /\ s \in SmbShare /\ WriteObject(o, new)
        /\ seenObj[o].body.replicas < s.spec.size
    BY <1>2, <1>9, PastGroup DEF UpdateStatefulSetSize, TooSmall, Claimed, Exists
  <2>2. /\ seenObj[o] \in Object("StatefulSet")
        /\ seenObj[o].body.replicas \in 0 .. MaxSize /\ s.spec.size \in 0 .. MaxSize
    BY <2>1 DEF TypeOK, StatefulSet, Object, Body, Workload, SmbShare, SmbShareSpec
  <2>3. new.body.replicas = s.spec.size
    BY <2>2 DEF Object, Body, Workload
  <2>4. new.body.replicas >= seenObj[o].body.replicas
    BY <2>1, <2>2, <2>3, BoundsAssumption
  <2> HIDE DEF new, o
  <2>5. QED
    BY <2>1, <2>4 DEF NeverShrinks
<1>10. CASE TransferConfigMap(n) \/ TransferServerResources(n)
  BY <1>5, <1>10 DEF TransferConfigMap, TransferServerResources
<1>11. CASE PruneConfiguration(n)
  <2>1. ConfigMap(s) \in Ids /\ ConfigMap(s)[1] = "ConfigMap"
    BY <1>1, <1>11 DEF PruneConfiguration, PruneNeeded, Exists, ConfigMap
  <2>2. QED
    BY <1>11, <2>1 DEF PruneConfiguration, NeverShrinks
<1>12. CASE \/ NothingToDo(n) \/ UpdateDone(n) \/ UpdateError(n) \/ RemoveFinalizer(n)
            \/ AddFinalizer(n) \/ SetServerGroup(n) \/ UpdateBackend(n)
  BY <1>12 DEF NothingToDo, UpdateDone, UpdateError, RemoveFinalizer, AddFinalizer,
     SetServerGroup, UpdateBackend, WriteShare, server, vars
<1>13. QED
  BY <1>6, <1>7, <1>8, <1>9, <1>10, <1>11, <1>12 DEF Reconcile, Update, Finalize

(* What the users do not scale does not shrink.                            *)
LEMMA SizeStays ==
    ASSUME TypeOK, [Next]_vars, edits' = edits, NEW g \in Groups,
           obj[<<"StatefulSet", g>>] # None, obj'[<<"StatefulSet", g>>] # None
    PROVE  obj'[<<"StatefulSet", g>>].body.replicas >= obj[<<"StatefulSet", g>>].body.replicas
<1> DEFINE sts == <<"StatefulSet", g>>
           Kept == obj'[sts].body.replicas >= obj[sts].body.replicas
<1>1. sts \in Ids /\ sts[1] = "StatefulSet" /\ obj[sts].body.replicas \in 0 .. MaxSize
  BY DEF Ids, OwnedKinds, TypeOK, Object, Body, Workload
<1>2. obj'[sts] = obj[sts] => Kept
  BY <1>1, BoundsAssumption
<1>3. ASSUME NEW n \in Names, Reconcile(n) PROVE Kept
  <2>1. CASE UNCHANGED obj
    BY <1>2, <2>1
  <2>2. CASE NeverShrinks(n)
    <3>1. PICK o \in Ids :
              \E new : /\ WriteObject(o, new)
                       /\ o[1] = "StatefulSet" /\ seenObj[o] # None
                             => new.body.replicas >= seenObj[o].body.replicas
      BY <2>2 DEF NeverShrinks
    <3>2. PICK new : /\ WriteObject(o, new)
                     /\ o[1] = "StatefulSet" /\ seenObj[o] # None
                           => new.body.replicas >= seenObj[o].body.replicas
      BY <3>1
    <3>3. CASE o # sts \/ seenObj[o] # obj[o]
      <4>1. obj'[sts] = obj[sts]
        BY <1>1, <3>2, <3>3 DEF WriteObject, ChangeObject, TypeOK
      <4>2. QED
        BY <1>2, <4>1
    <3>4. CASE o = sts /\ seenObj[o] = obj[o]
      BY <1>1, <3>2, <3>4 DEF WriteObject, ChangeObject, TypeOK
    <3>5. QED
      BY <3>3, <3>4
  <2>3. QED
    BY <1>3, <2>1, <2>2, PassNeverShrinks
<1>4. ASSUME NEW o \in Ids, Collect(o) PROVE Kept
  BY <1>1, <1>2, <1>4 DEF Collect, ChangeObject, TypeOK
<1>5. ASSUME NEW o \in Ids, DropDangling(o) PROVE Kept
  <2>1. obj[o] # None /\ obj[o] \in Object(o[1])
    BY <1>5 DEF DropDangling, TypeOK
  <2>2. PICK i \in DOMAIN obj[o].refs :
            ChangeObject(o, [obj[o] EXCEPT !.refs = WithoutRef(obj[o].refs, i)])
    BY <1>5 DEF DropDangling
  <2>3. [obj[o] EXCEPT !.refs = WithoutRef(obj[o].refs, i)].body = obj[o].body
    BY <2>1 DEF Object
  <2>4. obj'[sts].body = obj[sts].body
    BY <1>1, <2>2, <2>3 DEF ChangeObject, TypeOK
  <2>5. QED
    BY <1>1, <2>4, BoundsAssumption
<1>6. ASSUME NEW o \in Ids, ScaleWorkload(o) \/ DeleteObject(o) PROVE Kept
  BY <1>6 DEF ScaleWorkload, DeleteObject, TypeOK
<1>7. ASSUME NEW n \in Names, \/ SyncShare(n) \/ Trigger(n) \/ CreateShare(n)
                              \/ DeleteShare(n) \/ EditSpec(n)
      PROVE  UNCHANGED obj
  BY <1>7 DEF SyncShare, Trigger, CreateShare, DeleteShare, EditSpec, server
<1>8. ASSUME NEW o \in Ids, SyncObject(o) PROVE UNCHANGED obj
  BY <1>8 DEF SyncObject, server
<1>9. ASSUME NEW cf \in Confs, ToggleConf(cf) PROVE UNCHANGED obj
  BY <1>9 DEF ToggleConf
<1>10. Restart \/ UNCHANGED vars => UNCHANGED obj
  BY DEF Restart, server, vars
<1>11. UNCHANGED obj => Kept
  BY <1>2
<1>12. QED
  BY <1>3, <1>4, <1>5, <1>6, <1>7, <1>8, <1>9, <1>10, <1>11 DEF Next, Users

LEMMA LargeEnoughStays ==
    ASSUME TypeOK, [Next]_vars, edits' = edits, NEW n \in Names,
           share'[n] = share[n], LargeEnough(n), obj'[StatefulSet(share[n])] # None
    PROVE  LargeEnough(n)'
<1> DEFINE s == share[n]
           sts == <<"StatefulSet", s.group>>
<1>1. /\ IsLive(s) /\ s.group # NoGroup /\ s \in SmbShare /\ s.group \in Groups
      /\ StatefulSet(s) = sts /\ obj[sts] # None /\ obj'[sts] # None
      /\ obj[sts].body.replicas >= s.spec.size
  BY DEF LargeEnough, IsLive, TypeOK, SmbShare, StatefulSet
<1>2. obj'[sts].body.replicas >= obj[sts].body.replicas
  BY <1>1, SizeStays
<1>3. TypeOK'
  BY NextType
<1>4. /\ obj[sts].body.replicas \in 0 .. MaxSize /\ obj'[sts].body.replicas \in 0 .. MaxSize
      /\ s.spec.size \in 0 .. MaxSize
  <2>1. sts \in Ids /\ sts[1] = "StatefulSet"
    BY <1>1 DEF Ids, OwnedKinds
  <2>2. obj[sts] \in Object("StatefulSet") /\ obj'[sts] \in Object("StatefulSet")
    BY <1>1, <1>3, <2>1 DEF TypeOK
  <2>3. QED
    BY <1>1, <2>2 DEF Object, Body, Workload, SmbShare, SmbShareSpec
<1>5. obj'[sts].body.replicas >= s.spec.size
  BY <1>1, <1>2, <1>4, BoundsAssumption
<1>6. QED
  BY <1>1, <1>5 DEF LargeEnough

(* For any number of members whose keys differ, no pass on whatever stale  *)
(* copies makes another member write again what it has written to the      *)
(* config, nor a cluster too small for another.                            *)
THEOREM NothingIsUndone ==
    ASSUME KeysApart PROVE Spec => NothingUndone
<1> DEFINE Kept == \A n \in Names : share'[n] = share[n] =>
                      /\ /\ Configured(n) /\ obj'[ConfigMap(share[n])] # None
                         /\ seenShare[n].spec = share[n].spec
                         => Configured(n)'
                      /\ /\ LargeEnough(n) /\ obj'[StatefulSet(share[n])] # None
                         /\ edits' = edits
                         => LargeEnough(n)'
<1>1. TypeOK /\ CacheAlong /\ [Next]_vars => Kept
  BY ConfiguredStays, LargeEnoughStays
<1>2. TypeOK /\ CacheBehind /\ CacheAlong /\ [Next]_vars => [Kept]_vars
  BY <1>1
<1>3. TypeOK /\ CacheBehind /\ CacheAlong /\ [Next]_vars => CacheBehind' /\ CacheAlong'
  BY SharesNext, CacheAlongNext
<1>4. QED
  BY <1>2, <1>3, InitType, NextType, CacheBehindInit, CacheAlongInit, PTL
  DEF Spec, NothingUndone
=============================================================================
