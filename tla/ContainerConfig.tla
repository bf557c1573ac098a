-------------------------- MODULE ContainerConfig --------------------------
(***************************************************************************)
(* The samba-container configuration of one server group, stored as JSON   *)
(* in the group's ConfigMap, and the planner's Update and Prune of it      *)
(* (internal/planner/configuration.go).                                    *)
(*                                                                         *)
(* A ConfigMap is named after its server group and the planner's section   *)
(* key is the server group too, so a config has at most one section.  Of a *)
(* share's smb.conf options the model keeps the path, which is fixed when  *)
(* the share is first configured, and "read only", which both the spec's   *)
(* readOnly field and its customShareConfig write; it stands for           *)
(* "browseable" as well.  The custom global options of SmbCommonConfig are *)
(* left out.  The default globals and the default users are written by the *)
(* same Update and never removed: they are the one flag base.              *)
(***************************************************************************)
CONSTANTS Keys,      \* the names SMB clients see
          Realms,    \* AD realms a security config may name
          NoRealm,   \* no security config, or one in user mode
          Paths,     \* exported directories
          NoShare, NoSection, NoCustom

YesNo == {"yes", "no"}

ShareConfig == [path : Paths, readOnly : YesNo]

ConfigSection == [shares : SUBSET Keys, globals : SUBSET Realms, ctdb : BOOLEAN]

Config == [base    : BOOLEAN,
           realms  : SUBSET Realms,
           shares  : [Keys -> ShareConfig \cup {NoShare}],
           section : ConfigSection \cup {NoSection}]

(* What the planner derives from the SmbShare and its security config. *)
Plan == [key : Keys, path : Paths, readOnly : YesNo,
         custom : YesNo \cup {NoCustom},
         realm : Realms \cup {NoRealm}, clustered : BOOLEAN]

(* newDefaultConfigMap stores an empty configuration. *)
EmptyConfig == [base    |-> FALSE,
                realms  |-> {},
                shares  |-> [k \in Keys |-> NoShare],
                section |-> NoSection]

RealmsOf(plan) == {plan.realm} \ {NoRealm}

(* The share's entry before options are applied: NewSimpleShare if absent. *)
FoundShare(c, plan) ==
    IF c.shares[plan.key] = NoShare
    THEN [path |-> plan.path, readOnly |-> "no"]
    ELSE c.shares[plan.key]

(* applyCustomShare *)
ApplyCustomShare(s, plan) ==
    IF plan.custom = NoCustom THEN s ELSE [s EXCEPT !.readOnly = plan.custom]

(* Mutation of ApplyShareValues: the spec's value is not applied. *)
ApplyNoShareValues(s, plan) == s

(* applyShareValues, which runs after the custom options *)
ApplyShareValues(s, plan) == [s EXCEPT !.readOnly = plan.readOnly]

(* Mutation of UpdatedSection: an existing section is built anew. *)
RebuiltSection(c, plan) ==
    [shares |-> {plan.key}, globals |-> RealmsOf(plan), ctdb |-> plan.clustered]

(* The section after Update: clustering and the realm are recorded only    *)
(* when the section is created; later Updates add the share's key alone.   *)
UpdatedSection(c, plan) ==
    IF c.section = NoSection
    THEN [shares |-> {plan.key}, globals |-> RealmsOf(plan), ctdb |-> plan.clustered]
    ELSE [c.section EXCEPT !.shares = @ \cup {plan.key}]

(* Planner.Update: the configuration it leaves in memory. *)
Updated(c, plan) ==
    [base    |-> TRUE,
     realms  |-> c.realms \cup RealmsOf(plan),
     shares  |-> [c.shares EXCEPT ![plan.key] =
                    ApplyShareValues(
                        ApplyCustomShare(FoundShare(c, plan), plan), plan)],
     section |-> UpdatedSection(c, plan)]

(* Planner.Update's result: TRUE if any of its steps changed something,    *)
(* also when a later step changed it back.                                 *)
UpdateReportsChange(c, plan) ==
    LET found  == FoundShare(c, plan)
        custom == ApplyCustomShare(found, plan)
    IN  \/ ~c.base
        \/ c.shares[plan.key] = NoShare
        \/ custom # found
        \/ ApplyShareValues(custom, plan) # custom
        \/ c.section # UpdatedSection(c, plan)
        \/ ~(RealmsOf(plan) \subseteq c.realms)

(* Mutation of Pruned: the section keeps the key. *)
PrunedFromTable(c, k) == [c EXCEPT !.shares[k] = NoShare]

PrunedSection(c, k) ==
    IF c.section = NoSection THEN NoSection
    ELSE [c.section EXCEPT !.shares = @ \ {k}]

(* Planner.Prune: the share's key leaves the section and the share table. *)
Pruned(c, k) == [c EXCEPT !.shares[k] = NoShare, !.section = PrunedSection(c, k)]

(* Planner.Prune's result *)
PruneReportsChange(c, k) == Pruned(c, k) # c
=============================================================================
