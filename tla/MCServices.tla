----------------------------- MODULE MCServices -----------------------------
(* Small instances of components that share no state, in one run: the      *)
(* initial state picks the one that moves, of Cidr's loops too.            *)
EXTENDS Snapshot, Hosts, Images, SecurityGroups, Scaling, Publisher, Cidr

VARIABLE part   \* the component that moves

ASSUME Assumptions ==
  /\ SnapAssumption /\ BestAssumption /\ FileAssumption
  /\ TitleAssumption /\ ScaleAssumption /\ MessageAssumption

MCInit ==
  /\ part \in {"snapshots", "hosts", "images", "groups", "scaling", "publisher",
              "blocks", "addresses"}
  /\ Init /\ HostsInit /\ ImagesInit
  /\ GroupsInit /\ ScalingInit /\ PublisherInit /\ CidrInit

\* Bound: only the first machine leaves the default VPC, and only it is started
\* again.
FewMoves ==
  \A i \in 2..MaxVms : vms'[i].home /\ (vms[i].status = "off" => vms'[i] = vms[i])

MCNext ==
  \/ /\ part = "snapshots" /\ Next
     /\ UNCHANGED <<part, hostVars, imageVars, groupVars, scaleVars, pubVars, cidrVars>>
  \/ /\ part = "hosts" /\ HostsNext
     /\ UNCHANGED <<part, snapVars, imageVars, groupVars, scaleVars, pubVars, cidrVars>>
  \/ /\ part = "images" /\ ImagesNext
     /\ UNCHANGED <<part, snapVars, hostVars, groupVars, scaleVars, pubVars, cidrVars>>
  \/ /\ part = "groups" /\ GroupsNext
     /\ UNCHANGED <<part, snapVars, hostVars, imageVars, scaleVars, pubVars, cidrVars>>
  \/ /\ part = "scaling" /\ ScalingNext /\ FewMoves
     /\ UNCHANGED <<part, snapVars, hostVars, imageVars, groupVars, pubVars, cidrVars>>
  \/ /\ part = "publisher" /\ PublisherNext
     /\ UNCHANGED <<part, snapVars, hostVars, imageVars, groupVars, scaleVars, cidrVars>>
  \/ /\ part = "blocks" /\ SearchBlock
     /\ UNCHANGED <<part, snapVars, hostVars, imageVars, groupVars, scaleVars, pubVars, addressVars>>
  \/ /\ part = "addresses" /\ SearchAddress
     /\ UNCHANGED <<part, snapVars, hostVars, imageVars, groupVars, scaleVars, pubVars, blockVars>>

servicesVars ==
  <<part, snapVars, hostVars, imageVars, groupVars, scaleVars, pubVars, cidrVars>>

MCSpec ==
  MCInit /\ [][MCNext]_servicesVars /\ SelectFairness /\ PublishFairness

----------------------------------------------------------------------------
(* Properties; the others are those of the components.                     *)

\* Every component's state has the shape of its types, whichever moves.
ServicesTyped ==
  /\ TypeOK /\ HostsTyped /\ ImagesTyped
  /\ GroupsTyped /\ ScalingTyped /\ PublisherTyped
=============================================================================
