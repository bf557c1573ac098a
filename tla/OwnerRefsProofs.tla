-------------------------- MODULE OwnerRefsProofs --------------------------
(***************************************************************************)
(* What the operations on owner reference lists return and preserve.       *)
(***************************************************************************)
EXTENDS OwnerRefs, SequenceTheorems, WellFoundedInduction, TLAPS

(* A list of functions from positions is a sequence of its values. *)
LEMMA PositionsToSeq ==
    ASSUME NEW S, NEW f, NEW m \in Nat, f \in [1 .. m -> S]
    PROVE  f \in Seq(S)
BY SeqDef

(* A nonempty set of positions has a first. *)
LEMMA FirstIn ==
    ASSUME NEW m \in Nat, NEW I, I \subseteq 1 .. m, I # {}
    PROVE  First(I) \in I /\ \A j \in I : First(I) <= j
<1> DEFINE Less == {ss \in Nat \X Nat : ss[1] < ss[2]}
<1>1. IsWellFoundedOn(Less, Nat)
  BY NatLessThanWellFounded DEF OpToRel
<1>2. PICK i \in I : \A j \in I : ~(<<j, i>> \in Less)
  BY <1>1, WFMin
<1>3. ASSUME NEW j \in I PROVE i <= j
  <2>1. i \in Nat /\ j \in Nat
    OBVIOUS
  <2>2. j < i => <<j, i>> \in Less
    BY <2>1
  <2>3. QED
    BY <1>2, <2>1, <2>2
<1>4. QED
  BY <1>3 DEF First

(* Claiming appends one reference and leaves the others in place. *)
LEMMA AppendRefType ==
    ASSUME NEW Name, NEW Uid, NEW refs \in Seq(OwnerRef(Name, Uid)),
           NEW n \in Name, NEW u \in Uid
    PROVE  /\ Append(refs, PlainRef(n, u)) \in Seq(OwnerRef(Name, Uid))
           /\ DOMAIN Append(refs, PlainRef(n, u)) = 1 .. (Len(refs) + 1)
           /\ DOMAIN refs = 1 .. Len(refs)
           /\ Len(refs) \in Nat
           /\ \A i \in DOMAIN refs : Append(refs, PlainRef(n, u))[i] = refs[i]
           /\ Append(refs, PlainRef(n, u))[Len(refs) + 1] = PlainRef(n, u)
<1>1. PlainRef(n, u) \in OwnerRef(Name, Uid)
  BY DEF PlainRef, OwnerRef
<1>2. QED
  BY <1>1, LenProperties, AppendProperties

(* Handing control over changes no name and no uid. *)
LEMMA ChangeControllerType ==
    ASSUME NEW Name, NEW Uid, NEW refs \in Seq(OwnerRef(Name, Uid)), NEW k \in DOMAIN refs
    PROVE  LET new == ChangeControllerOwnerTo(refs, k)
           IN  /\ new \in Seq(OwnerRef(Name, Uid))
               /\ DOMAIN new = DOMAIN refs
               /\ \A i \in DOMAIN refs :
                     /\ new[i].name = refs[i].name
                     /\ new[i].uid = refs[i].uid
                     /\ new[i].controller => refs[i].name = refs[k].name
<1> DEFINE new == ChangeControllerOwnerTo(refs, k)
<1>1. Len(refs) \in Nat /\ DOMAIN refs = 1 .. Len(refs)
  BY LenProperties
<1>2. \A i \in DOMAIN refs : refs[i] \in OwnerRef(Name, Uid)
  BY <1>1, ElementOfSeq
<1>3. DOMAIN new = DOMAIN refs
  BY DEF ChangeControllerOwnerTo
<1>4. ASSUME NEW i \in DOMAIN refs
      PROVE  /\ new[i] \in OwnerRef(Name, Uid)
             /\ new[i].name = refs[i].name
             /\ new[i].uid = refs[i].uid
             /\ new[i].controller => refs[i].name = refs[k].name
  BY <1>2 DEF ChangeControllerOwnerTo, OwnerRef
<1>5. new \in [1 .. Len(refs) -> OwnerRef(Name, Uid)]
  BY <1>1, <1>4 DEF ChangeControllerOwnerTo
<1>6. new \in Seq(OwnerRef(Name, Uid))
  BY <1>1, <1>5, PositionsToSeq
<1>7. QED
  BY <1>3, <1>4, <1>6

(* Dropping a reference keeps the others. *)
LEMMA WithoutRefType ==
    ASSUME NEW Name, NEW Uid, NEW refs \in Seq(OwnerRef(Name, Uid)), NEW k \in DOMAIN refs
    PROVE  LET new == WithoutRef(refs, k)
           IN  /\ new \in Seq(OwnerRef(Name, Uid))
               /\ DOMAIN new = 1 .. (Len(refs) - 1)
               /\ DOMAIN refs = 1 .. Len(refs)
               /\ Len(refs) \in Nat
               /\ \A i \in DOMAIN new : new[i] = refs[IF i < k THEN i ELSE i + 1]
<1> DEFINE new == WithoutRef(refs, k)
<1>1. Len(refs) \in Nat /\ DOMAIN refs = 1 .. Len(refs)
  BY LenProperties
<1>2. \A i \in DOMAIN refs : refs[i] \in OwnerRef(Name, Uid)
  BY <1>1, ElementOfSeq
<1>3. Len(refs) - 1 \in Nat
  BY <1>1
<1>4. new \in [1 .. (Len(refs) - 1) -> OwnerRef(Name, Uid)]
  BY <1>1, <1>2 DEF WithoutRef
<1>5. new \in Seq(OwnerRef(Name, Uid))
  BY <1>3, <1>4, PositionsToSeq
<1>6. QED
  BY <1>1, <1>5 DEF WithoutRef

(* Every operation keeps a list well formed: no name twice, one controller. *)
LEMMA CreatedWellFormed ==
    ASSUME NEW n, NEW u
    PROVE  WellFormed(<<ControllerRef(n, u)>>)
BY DEF WellFormed

LEMMA AppendedWellFormed ==
    ASSUME NEW Name, NEW Uid, NEW refs \in Seq(OwnerRef(Name, Uid)),
           NEW n \in Name, NEW u \in Uid,
           WellFormed(refs), ~HasOwnerNamed(refs, n)
    PROVE  WellFormed(Append(refs, PlainRef(n, u)))
<1> DEFINE new == Append(refs, PlainRef(n, u))
<1> SUFFICES ASSUME NEW i \in DOMAIN new, NEW j \in DOMAIN new, i # j
             PROVE  /\ new[i].name # new[j].name
                    /\ ~(new[i].controller /\ new[j].controller)
  BY DEF WellFormed
<1>1. CASE i \in DOMAIN refs /\ j \in DOMAIN refs
  BY <1>1, AppendRefType DEF WellFormed
<1>2. CASE i = Len(refs) + 1 \/ j = Len(refs) + 1
  <2>1. i \in DOMAIN refs \/ j \in DOMAIN refs
    BY <1>2, AppendRefType
  <2>2. QED
    BY <1>2, <2>1, AppendRefType DEF HasOwnerNamed, PlainRef
<1>3. QED
  BY <1>1, <1>2, AppendRefType

LEMMA ChangedWellFormed ==
    ASSUME NEW Name, NEW Uid, NEW refs \in Seq(OwnerRef(Name, Uid)), NEW k \in DOMAIN refs,
           WellFormed(refs)
    PROVE  WellFormed(ChangeControllerOwnerTo(refs, k))
<1> DEFINE new == ChangeControllerOwnerTo(refs, k)
<1>1. DOMAIN new = DOMAIN refs
  BY ChangeControllerType
<1>2. ASSUME NEW i \in DOMAIN refs
      PROVE  /\ new[i].name = refs[i].name
             /\ new[i].controller => refs[i].name = refs[k].name
  BY ChangeControllerType
<1>3. SUFFICES ASSUME NEW i \in DOMAIN refs, NEW j \in DOMAIN refs, i # j
               PROVE  /\ new[i].name # new[j].name
                      /\ ~(new[i].controller /\ new[j].controller)
  BY <1>1 DEF WellFormed
<1>4. refs[i].name # refs[j].name
  BY <1>3 DEF WellFormed
<1>5. QED
  BY <1>2, <1>4

LEMMA DroppedWellFormed ==
    ASSUME NEW Name, NEW Uid, NEW refs \in Seq(OwnerRef(Name, Uid)), NEW k \in DOMAIN refs,
           WellFormed(refs)
    PROVE  WellFormed(WithoutRef(refs, k))
<1> DEFINE new == WithoutRef(refs, k)
<1> SUFFICES ASSUME NEW i \in DOMAIN new, NEW j \in DOMAIN new, i # j
             PROVE  /\ new[i].name # new[j].name
                    /\ ~(new[i].controller /\ new[j].controller)
  BY DEF WellFormed
<1> DEFINE p == IF i < k THEN i ELSE i + 1
           q == IF j < k THEN j ELSE j + 1
<1>1. p \in DOMAIN refs /\ q \in DOMAIN refs /\ p # q
  BY WithoutRefType
<1>2. new[i] = refs[p] /\ new[j] = refs[q]
  BY WithoutRefType
<1>3. QED
  BY <1>1, <1>2 DEF WellFormed
=============================================================================
