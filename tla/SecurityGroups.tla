--------------------------- MODULE SecurityGroups ---------------------------
(***************************************************************************)
(* Security groups of NetworkingService (internal/application              *)
(* /networking_service.go) in their tables: users make, rename and delete  *)
(* groups, their rules and members while processes that start seed the     *)
(* group "default" with a rule that lets SSH in.  The seed is four         *)
(* statements without a transaction, and names are unique in the table.    *)
(***************************************************************************)
EXTENDS Naturals, FiniteSets

CONSTANTS
  Groups,     \* ids of security groups
  Titles,     \* names of groups
  Default,    \* "default"
  Seeders,    \* processes that start
  Members,    \* instances
  MaxRules    \* bound: rules of a group

TitleAssumption == Groups # {} /\ Default \in Titles /\ MaxRules \in Nat \ {0}

VARIABLES
  groups,     \* tables security_groups, security_group_rules and
              \* instance_security_groups
  seeders,    \* SeedDefaultSecurityGroup of each process
  touched     \* history: seeders since whose start a user has renamed or
              \* deleted the group "default" or taken a rule from it

groupVars == <<groups, seeders, touched>>

NoGroup == [there |-> FALSE, name |-> Default, rules |-> 0, members |-> {}]
Group == [there : BOOLEAN, name : Titles, rules : 0..MaxRules, members : SUBSET Members]
Seeder == [pc : {"find", "create", "look", "add", "ok", "failed"}, group : Groups]

GroupsInit ==
  /\ groups = [g \in Groups |-> NoGroup]
  /\ seeders \in [Seeders -> {[pc |-> "find", group |-> g] : g \in {CHOOSE g \in Groups : TRUE}}]
  /\ touched = {}

There(g) == groups[g].there
Named(n) == {g \in Groups : There(g) /\ groups[g].name = n}
SeederAt(s, pc) == seeders' = [seeders EXCEPT ![s].pc = pc]

\* INSERT with a fresh id; names are unique.
Insert(g, n) ==
  /\ ~There(g) /\ Named(n) = {}
  /\ groups' = [groups EXCEPT ![g] = [NoGroup EXCEPT !.there = TRUE, !.name = n]]

----------------------------------------------------------------------------
(* SeedDefaultSecurityGroup: every statement may fail, some after they     *)
(* have taken effect.                                                      *)

\* Fault: a group that is there is taken to have its rule.
FindDefaultOnly(s) ==
  /\ seeders[s].pc = "find"
  /\ IF Named(Default) = {} THEN SeederAt(s, "create") ELSE SeederAt(s, "ok")
  /\ touched' = touched \ {s} /\ UNCHANGED groups

FindDefault(s) ==
  /\ seeders[s].pc = "find"
  /\ \/ SeederAt(s, "failed")
     \/ Named(Default) = {} /\ SeederAt(s, "create")
     \/ \E g \in Named(Default) :
          seeders' = [seeders EXCEPT ![s] = [pc |-> "look", group |-> g]]
  /\ touched' = touched \ {s} /\ UNCHANGED groups

CreateDefault(s) ==
  /\ seeders[s].pc = "create"
  /\ \/ \E g \in Groups, pc \in {"look", "failed"} :
          /\ Insert(g, Default)
          /\ seeders' = [seeders EXCEPT ![s] = [pc |-> pc, group |-> g]]
     \/ SeederAt(s, "failed") /\ UNCHANGED groups
  /\ UNCHANGED touched

Look(s) ==
  /\ seeders[s].pc = "look"
  /\ \/ SeederAt(s, "failed")
     \/ SeederAt(s, IF groups[seeders[s].group].rules = 0 THEN "add" ELSE "ok")
  /\ UNCHANGED <<groups, touched>>

\* The foreign key refuses a rule of a group that is gone.
AddSSH(s) ==
  LET g == seeders[s].group IN
  /\ seeders[s].pc = "add"
  /\ \/ /\ There(g) /\ groups[g].rules < MaxRules
        /\ groups' = [groups EXCEPT ![g].rules = @ + 1]
        /\ \E pc \in {"ok", "failed"} : SeederAt(s, pc)
     \/ SeederAt(s, "failed") /\ UNCHANGED groups
  /\ UNCHANGED touched

\* The process dies and starts again.
Restart(s) ==
  /\ seeders' = [seeders EXCEPT ![s].pc = "find"]
  /\ touched' = touched \ {s} /\ UNCHANGED groups

----------------------------------------------------------------------------
(* The operations of users.                                                *)

Begun == {s \in Seeders : seeders[s].pc # "find"}
Touch(g) == touched' = IF groups[g].name = Default THEN touched \cup Begun ELSE touched

CreateSecurityGroup(g, n) == Insert(g, n) /\ UNCHANGED <<seeders, touched>>

UpdateSecurityGroup(g, n) ==
  /\ There(g) /\ Named(n) \subseteq {g}
  /\ groups' = [groups EXCEPT ![g].name = n]
  /\ Touch(g) /\ UNCHANGED seeders

\* Its rules and its members' rows go with it.
DeleteSecurityGroup(g) ==
  /\ There(g) /\ groups' = [groups EXCEPT ![g] = NoGroup]
  /\ Touch(g) /\ UNCHANGED seeders

AddRule(g) ==
  /\ There(g) /\ groups[g].rules < MaxRules
  /\ groups' = [groups EXCEPT ![g].rules = @ + 1]
  /\ UNCHANGED <<seeders, touched>>

\* By the id of the rule: whatever group the request names.
RemoveRule(g) ==
  /\ There(g) /\ groups[g].rules > 0
  /\ groups' = [groups EXCEPT ![g].rules = @ - 1]
  /\ Touch(g) /\ UNCHANGED seeders

AssignToInstance(g, m) ==
  /\ There(g) /\ groups' = [groups EXCEPT ![g].members = @ \cup {m}]
  /\ UNCHANGED <<seeders, touched>>

RemoveFromInstance(g, m) ==
  /\ groups' = [groups EXCEPT ![g].members = @ \ {m}]
  /\ UNCHANGED <<seeders, touched>>

GroupsNext ==
  \/ \E s \in Seeders :
       FindDefault(s) \/ CreateDefault(s) \/ Look(s) \/ AddSSH(s) \/ Restart(s)
  \/ \E g \in Groups, n \in Titles :
       CreateSecurityGroup(g, n) \/ UpdateSecurityGroup(g, n)
  \/ \E g \in Groups : DeleteSecurityGroup(g) \/ AddRule(g) \/ RemoveRule(g)
  \/ \E g \in Groups, m \in Members :
       AssignToInstance(g, m) \/ RemoveFromInstance(g, m)

GroupsSpec == GroupsInit /\ [][GroupsNext]_groupVars

----------------------------------------------------------------------------
(* Properties.                                                             *)

\* The tables and the seeds have the shape of their types.
GroupsTyped ==
  /\ groups \in [Groups -> Group] /\ seeders \in [Seeders -> Seeder]
  /\ touched \subseteq Seeders

\* When a process has seeded without an error, the group "default" is there
\* and lets something in, unless a user has taken it back since that process
\* started: also when an earlier start died between the group and its rule, or
\* two processes seed at once (networking_service.go:163-201).
SeedLeavesAccess ==
  \A s \in Seeders :
    seeders[s].pc = "ok" /\ s \notin touched =>
      \E g \in Named(Default) : groups[g].rules > 0
=============================================================================
