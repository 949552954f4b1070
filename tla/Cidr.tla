-------------------------------- MODULE Cidr --------------------------------
(***************************************************************************)
(* internal/vpcpkg/cidr.go: the loops that look for a block that no VPC    *)
(* uses and for an address that no instance of a subnet has, each over the *)
(* list that one query returned.  A block is its second and third octet,   *)
(* an address the last.                                                    *)
(***************************************************************************)
EXTENDS Integers

CONSTANTS
  MaxSecond,   \* 255
  MaxThird,    \* 254
  FirstHost,   \* 10
  LastHost     \* 254

ASSUME OctetAssumption ==
  /\ MaxSecond \in Nat /\ MaxThird \in Nat
  /\ FirstHost \in Nat /\ LastHost \in Nat

VARIABLES
  usedCIDRs, second, third, search,   \* AllocateNextCIDR
  usedIPs, last, lookup               \* NextAvailableIP

blockVars == <<usedCIDRs, second, third, search>>
addressVars == <<usedIPs, last, lookup>>
cidrVars == <<blockVars, addressVars>>

Phase == {"query", "running", "found", "full", "failed"}

\* Tables may have blocks and addresses the loops never try.
Subnets == (0..MaxSecond + 1) \X (0..MaxThird + 1)
Octets == 0..LastHost + 1

CidrInit ==
  /\ usedCIDRs = {} /\ second = 0 /\ third = 1 /\ search = "query"
  /\ usedIPs = {} /\ last = FirstHost /\ lookup = "query"

----------------------------------------------------------------------------
(* AllocateNextCIDR.                                                       *)

\* GetUsedCIDRs.
QueryBlocks ==
  /\ search = "query"
  /\ \/ usedCIDRs' \in SUBSET Subnets /\ search' = "running"
     \/ UNCHANGED usedCIDRs /\ search' = "failed"
  /\ UNCHANGED <<second, third>>

TryBlock ==
  /\ search = "running" /\ second <= MaxSecond /\ third <= MaxThird
  /\ \/ /\ <<second, third>> \in usedCIDRs
        /\ third' = third + 1 /\ UNCHANGED search
     \/ /\ <<second, third>> \notin usedCIDRs
        /\ search' = "found" /\ UNCHANGED third
  /\ UNCHANGED <<usedCIDRs, second>>

\* Fault: the third octet goes on where it was.
NextSecondOnly ==
  /\ search = "running" /\ second <= MaxSecond /\ third > MaxThird
  /\ second' = second + 1
  /\ UNCHANGED <<usedCIDRs, third, search>>

NextSecond ==
  /\ search = "running" /\ second <= MaxSecond /\ third > MaxThird
  /\ second' = second + 1 /\ third' = 1
  /\ UNCHANGED <<usedCIDRs, search>>

NoBlock ==
  /\ search = "running" /\ second > MaxSecond
  /\ search' = "full"
  /\ UNCHANGED <<usedCIDRs, second, third>>

----------------------------------------------------------------------------
(* NextAvailableIP.                                                        *)

\* GetAllocatedIPs.
QueryAddresses ==
  /\ lookup = "query"
  /\ \/ usedIPs' \in SUBSET Octets /\ lookup' = "running"
     \/ UNCHANGED usedIPs /\ lookup' = "failed"
  /\ UNCHANGED last

TryAddress ==
  /\ lookup = "running" /\ last <= LastHost
  /\ \/ last \in usedIPs /\ last' = last + 1 /\ UNCHANGED lookup
     \/ last \notin usedIPs /\ lookup' = "found" /\ UNCHANGED last
  /\ UNCHANGED usedIPs

\* Fault: the last address is left out.
NoAddressBut ==
  /\ lookup = "running" /\ last >= LastHost
  /\ lookup' = "full"
  /\ UNCHANGED <<usedIPs, last>>

NoAddress ==
  /\ lookup = "running" /\ last > LastHost
  /\ lookup' = "full"
  /\ UNCHANGED <<usedIPs, last>>

SearchBlock == QueryBlocks \/ TryBlock \/ NextSecond \/ NoBlock
SearchAddress == QueryAddresses \/ TryAddress \/ NoAddress
CidrNext ==
  \/ SearchBlock /\ UNCHANGED addressVars
  \/ SearchAddress /\ UNCHANGED blockVars

CidrSpec == CidrInit /\ [][CidrNext]_cidrVars

----------------------------------------------------------------------------
(* Properties.                                                             *)

\* The counters stay within the bounds of their loops, or one past them.
CidrTyped ==
  /\ usedCIDRs \subseteq Subnets
  /\ second \in 0..MaxSecond + 1 /\ third \in 1..MaxThird + 1 /\ search \in Phase
  /\ usedIPs \subseteq Octets
  /\ last \in Nat /\ lookup \in Phase

\* The candidates in the order of the loops, as module Vpc numbers them.
Ordinal(block) == block[1] * MaxThird + block[2]
Candidates == (0..MaxSecond) \X (1..MaxThird)
NumBlocks == (MaxSecond + 1) * MaxThird
UsedOrdinals == {Ordinal(b) : b \in usedCIDRs \cap Candidates}
FreeBlocks == (1..NumBlocks) \ UsedOrdinals
FreeHosts == (FirstHost..LastHost) \ usedIPs

Least(n, S) == n \in S /\ \A m \in S : n <= m

\* The nested loops find the free block with the least ordinal, and fail only
\* when all are used: what module Vpc takes AllocateNextCIDR to do
\* (cidr.go:28-41).
FindsFirstBlock ==
  /\ search = "found" => Least(Ordinal(<<second, third>>), FreeBlocks)
  /\ search = "full" => FreeBlocks = {}

\* The loop finds the first free address of the subnet, and fails only when
\* there is none (cidr.go:90-97).
FindsFirstAddress ==
  /\ lookup = "found" => Least(last, FreeHosts)
  /\ lookup = "full" => FreeHosts = {}
=============================================================================
