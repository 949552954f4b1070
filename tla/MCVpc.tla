------------------------------- MODULE MCVpc -------------------------------
(* Small instances of Vpc for TLC.                                         *)
EXTENDS Vpc, TLC

CONSTANTS v1, v2, v3

\* The third uuid starts like the first: BridgeNameFromVPCID maps both to one
\* interface name.
Bridges == [v \in VpcIds |-> IF v = v3 THEN v1 ELSE v]

\* The ids of VPCs are interchangeable when no two share an interface name.
Symmetry == Permutations(Requests) \cup Permutations(Tenants)
              \cup Permutations(Instances)
              \cup (IF v3 \in VpcIds THEN {} ELSE Permutations(VpcIds))

\* Bound: requests come one at a time once the first has chosen an address.
Chosen == \/ allocs # {} \/ \E i \in Instances : insts[i].status # "none"
          \/ \E r \in Requests : req[r].pc = "lease"
LeasesInTurn == Chosen => Cardinality({r \in Requests : req[r].pc # "idle"}) <= 1
=============================================================================
