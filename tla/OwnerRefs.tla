----------------------------- MODULE OwnerRefs -----------------------------
(***************************************************************************)
(* The metadata.ownerReferences list of a Kubernetes object, as            *)
(* internal/resources/ownership.go reads and rewrites it.  Only references *)
(* to SmbShare resources occur on the objects the operator creates, so the *)
(* filter of smbShareOwnerRefs keeps every reference.  A list is a         *)
(* sequence of records [name, uid, controller]; a set of references picked *)
(* from it is the set of their positions.                                  *)
(***************************************************************************)
EXTENDS Naturals, Sequences

OwnerRef(Name, Uid) == [name : Name, uid : Uid, controller : BOOLEAN]

(* The reference SetControllerReference puts on a new object. *)
ControllerRef(n, u) == [name |-> n, uid |-> u, controller |-> TRUE]

(* Mutation of PlainRef: the uid is left out. *)
PlainRefWithoutUid(n, u) == [name |-> n, uid |-> 0, controller |-> FALSE]

(* The reference claimOwnership appends to an object that exists. *)
PlainRef(n, u) == [name |-> n, uid |-> u, controller |-> FALSE]

(* claimOwnership looks for a reference by kind and NAME, never by uid. *)
HasOwnerNamed(refs, n) == \E i \in DOMAIN refs : refs[i].name = n

(* excludeOwnerRefs: the references that are not to share n of uid u. *)
OtherRefs(refs, n, u) ==
    {i \in DOMAIN refs : refs[i].name # n \/ refs[i].uid # u}

(* Mutation of First: the last. *)
Last(I) == CHOOSE i \in I : \A j \in I : i >= j

(* The first of a nonempty set of positions. *)
First(I) == CHOOSE i \in I : \A j \in I : i <= j

(* Names of the controlling owners: whom a watch on the object wakes. *)
ControllersOf(refs) ==
    {refs[i].name : i \in {j \in DOMAIN refs : refs[j].controller}}

(* Mutation of ChangeControllerOwnerTo: the others stay as they were. *)
AddControllerOwner(refs, k) == [refs EXCEPT ![k].controller = TRUE]

(* changeControllerOwnerTo: the reference at k, and only it, controls. *)
ChangeControllerOwnerTo(refs, k) ==
    [i \in DOMAIN refs |->
        [refs[i] EXCEPT !.controller = (/\ refs[i].name = refs[k].name
                                        /\ refs[i].uid = refs[k].uid)]]

(* The list without its reference at k, the others in their order. *)
WithoutRef(refs, k) ==
    [i \in 1 .. (Len(refs) - 1) |-> IF i < k THEN refs[i] ELSE refs[i + 1]]

(* No name is listed twice, and no two references control. *)
WellFormed(refs) ==
    \A i, j \in DOMAIN refs :
        \/ i = j
        \/ /\ refs[i].name # refs[j].name
           /\ ~(refs[i].controller /\ refs[j].controller)
=============================================================================
