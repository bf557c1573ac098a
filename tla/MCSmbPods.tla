----------------------------- MODULE MCSmbPods -----------------------------
(***************************************************************************)
(* Small instances of a server's pods for TLC.                             *)
(***************************************************************************)
EXTENDS SmbPods

(* Domain members with one join source of two kinds, and servers with      *)
(* users of their own; each alone or clustered.                            *)
DomainPlans ==
    [ad : {TRUE}, clustered : BOOLEAN, usersSecret : {FALSE},
     joins : {<<TRUE>>, <<FALSE, TRUE>>}, dns : {"never", "cluster-ip"}, metrics : BOOLEAN]

UserPlans ==
    [ad : {FALSE}, clustered : BOOLEAN, usersSecret : BOOLEAN,
     joins : {<<>>}, dns : {"never"}, metrics : BOOLEAN]

AllPlans == DomainPlans \cup UserPlans

ClusteredMember ==
    {p \in DomainPlans : p.clustered /\ p.joins = <<TRUE>> /\ p.dns = "never" /\ ~p.metrics}
=============================================================================
