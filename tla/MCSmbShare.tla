----------------------------- MODULE MCSmbShare -----------------------------
(***************************************************************************)
(* Small instances of the SmbShare controller for TLC.  Each definition    *)
(* below gives the shares the specs of one scenario (SpecsOf).             *)
(***************************************************************************)
EXTENDS SmbShareProperties

CONSTANTS a, b, c, d, g, pv, sec

(* How often users create each share. *)
Once == [n \in Names |-> 1]
Twice == [n \in Names |-> 2]

(* A share on a server of its own, over a claim named pv. *)
Plain == [groupMode |-> "never", group |-> NoGroup, clustered |-> FALSE, size |-> 0,
          pvc |-> <<"named", pv>>, needsPvc |-> FALSE, conf |-> NoConf, key |-> NoKey,
          readOnly |-> "no", custom |-> NoCustom]

Grouped == [Plain EXCEPT !.groupMode = "explicit", !.group = g]

Clustered(spec, size) == [spec EXCEPT !.clustered = TRUE, !.size = size]

(* Members of one group, with nothing to tell them apart. *)
AllGrouped == [n \in Names |-> {Grouped}]

(* Of three members of one group, b alone is incompatible with the others. *)
TwoCamps ==
    [n \in Names |-> {IF n = b THEN [Grouped EXCEPT !.conf = sec] ELSE Grouped}]

(* Of four, two of either kind; none gets past its backend where clusters  *)
(* are not supported.                                                      *)
TwoPairs ==
    LET own == Clustered(Grouped, 1)
    IN  [n \in Names |-> {IF n \in {b, d} THEN [own EXCEPT !.conf = sec] ELSE own}]

(* A share alone, with an embedded claim; its option is edited. *)
Alone ==
    LET own == [Plain EXCEPT !.pvc = NoPvc, !.needsPvc = TRUE]
    IN  [n \in Names |-> {own, [own EXCEPT !.readOnly = "yes"]}]

(* A share whose availability mode and group are edited, also to nonsense, *)
(* and which depends on a security config users may delete.                *)
Restless ==
    [n \in Names |->
        {[spec EXCEPT !.conf = sec] :
            spec \in {Plain, Clustered(Plain, 1), Grouped, [Plain EXCEPT !.group = g],
                      [Grouped EXCEPT !.group = NoGroup]}}]

(* A cluster of two members that ask for different sizes. *)
ClusterGroup == [n \in Names |-> {Clustered(Grouped, IF n = a THEN 1 ELSE 2)}]

(* Both members of a group embed the definition of one claim. *)
EmbeddedClaim == [n \in Names |-> {[Grouped EXCEPT !.needsPvc = TRUE]}]

(* A share whose custom options set what its spec's readOnly sets. *)
CustomReadOnly == [n \in Names |-> {[Plain EXCEPT !.custom = "yes"]}]
=============================================================================
