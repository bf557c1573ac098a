--------------------------- MODULE ShareLifecycle ---------------------------
(***************************************************************************)
(* What the SmbShare controller promises, without passes, caches, events   *)
(* or configurations: how the record of a share grows, and which shares    *)
(* may come to own the objects of a server.  SmbShareManager implements    *)
(* it.                                                                     *)
(*                                                                         *)
(* A life of a share is <<name, uid>>.  An object <<kind, name>> has as    *)
(* members the lives that own it.                                          *)
(***************************************************************************)
EXTENDS Naturals

CONSTANTS Names, Groups, Backends, Objects, NoGroup, NoBackend

VARIABLES
    record,  \* of each name: what is on record of the share that bears it
    members, \* of each object: the lives that own it
    born     \* how many shares have borne each name

vars == <<record, members, born>>

(* The record of a name no share bears *)
NoRecord == [uid |-> 0, deleting |-> FALSE, fin |-> FALSE,
             group |-> NoGroup, backend |-> NoBackend]

(* What an owner of object o must have on record. *)
MayOwn(r, o) ==
    /\ r.fin
    /\ o[1] = "Deployment" => r.group = o[2] /\ r.backend = "standard"
    /\ o[1] = "StatefulSet" => r.group = o[2] /\ r.backend = "clustered"

Lives(life) == record[life[1]].uid = life[2]

Staying(n) == record[n].uid # 0 /\ ~record[n].deleting

Init ==
    /\ record = [n \in Names |-> NoRecord]
    /\ members = [o \in Objects |-> {}]
    /\ born = [n \in Names |-> 0]

-----------------------------------------------------------------------------
(* The record: each entry is made once, in this order. *)

Request(n) ==
    /\ record[n].uid = 0
    /\ born' = [born EXCEPT ![n] = born[n] + 1]
    /\ record' = [record EXCEPT ![n].uid = born[n] + 1]
    /\ UNCHANGED members

Adopt(n) ==
    /\ Staying(n) /\ ~record[n].fin
    /\ record' = [record EXCEPT ![n].fin = TRUE]
    /\ UNCHANGED <<members, born>>

Assign(n) ==
    /\ Staying(n) /\ record[n].fin /\ record[n].group = NoGroup
    /\ \E g \in Groups : record' = [record EXCEPT ![n].group = g]
    /\ UNCHANGED <<members, born>>

Commit(n) ==
    /\ Staying(n) /\ record[n].group # NoGroup /\ record[n].backend = NoBackend
    /\ \E b \in Backends : record' = [record EXCEPT ![n].backend = b]
    /\ UNCHANGED <<members, born>>

(* Deleted by its user, a share goes at once or, adopted, is finalized. *)
Withdraw(n) ==
    /\ Staying(n) /\ ~record[n].fin
    /\ record' = [record EXCEPT ![n] = NoRecord]
    /\ UNCHANGED <<members, born>>

Leave(n) ==
    /\ Staying(n) /\ record[n].fin
    /\ record' = [record EXCEPT ![n].deleting = TRUE]
    /\ UNCHANGED <<members, born>>

Depart(n) ==
    /\ record[n].uid # 0 /\ record[n].deleting
    /\ record' = [record EXCEPT ![n] = NoRecord]
    /\ UNCHANGED <<members, born>>

-----------------------------------------------------------------------------
(* The objects *)

(* A life becomes an owner of o.  It may be over: the pass that enlists it *)
(* did not know.  If it is not, its record entitles it.                    *)
Enlist(o, n) ==
    /\ \E u \in 1 .. born[n] :
        /\ Lives(<<n, u>>) => MayOwn(record[n], o)
        /\ members' = [members EXCEPT ![o] = members[o] \cup {<<n, u>>}]
    /\ UNCHANGED <<record, born>>

(* A life that is over is struck off. *)
Discharge(o) ==
    /\ \E life \in members[o] :
        /\ ~Lives(life)
        /\ members' = [members EXCEPT ![o] = members[o] \ {life}]
    /\ UNCHANGED <<record, born>>

(* The object is deleted, by the collector or by a user. *)
Close(o) ==
    /\ members' = [members EXCEPT ![o] = {}]
    /\ UNCHANGED <<record, born>>

Next ==
    \/ \E n \in Names :
        \/ Request(n) \/ Adopt(n) \/ Assign(n) \/ Commit(n)
        \/ Withdraw(n) \/ Leave(n) \/ Depart(n)
    \/ \E o \in Objects : Discharge(o) \/ Close(o) \/ \E n \in Names : Enlist(o, n)

Spec == Init /\ [][Next]_vars
=============================================================================
