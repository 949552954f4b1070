---------------------------- MODULE AddressPlan ----------------------------
(***************************************************************************)
(* What internal/vpcpkg promises, without its statements, retries and      *)
(* networks: a VPC claims one CIDR block that nobody else holds and keeps  *)
(* it, and an instance leases one address of a VPC that nobody else holds  *)
(* until the lease is released.  Claiming and leasing are atomic here      *)
(* ("AllocateIP (atomic lease)", docs/internal/networking-core.md:178).    *)
(***************************************************************************)
EXTENDS Naturals

CONSTANTS VpcIds, Instances, Cidrs, IPs

VARIABLES
  blocks,  \* pairs <<VPC, CIDR block>>
  leases   \* records [vpc, inst, ip]

plan == <<blocks, leases>>

Init == blocks = {} /\ leases = {}

Claim(v, c) ==
  /\ \A b \in blocks : b[1] # v /\ b[2] # c
  /\ blocks' = blocks \cup {<<v, c>>}
  /\ UNCHANGED leases

Lease(v, i, n) ==
  /\ \E b \in blocks : b[1] = v
  /\ \A a \in leases : a.inst # i /\ (a.vpc = v => a.ip # n)
  /\ leases' = leases \cup {[vpc |-> v, inst |-> i, ip |-> n]}
  /\ UNCHANGED blocks

Release(i) ==
  /\ leases' = {a \in leases : a.inst # i}
  /\ UNCHANGED blocks

Next ==
  \/ \E v \in VpcIds, c \in Cidrs : Claim(v, c)
  \/ \E v \in VpcIds, i \in Instances, n \in IPs : Lease(v, i, n)
  \/ \E i \in Instances : Release(i)

Spec == Init /\ [][Next]_plan
=============================================================================
