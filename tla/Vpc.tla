-------------------------------- MODULE Vpc --------------------------------
(***************************************************************************)
(* internal/vpcpkg: the VPC service, its two tables (vpcs,                 *)
(* network_allocations) and the libvirt networks of the orchestrator's     *)
(* host, driven by concurrent requests.                                    *)
(*                                                                         *)
(* A request is one goroutine of the server (an HTTP handler or a NATS     *)
(* callback).  Every SQL statement and every libvirt call is one step of   *)
(* its own, so requests interleave between any two of them.  Any call may  *)
(* fail; a crash of the process loses every request and keeps the tables   *)
(* and the networks.                                                       *)
(*                                                                         *)
(* CIDR blocks are the ordinals 1..NumCidrs in the order AllocateNextCIDR  *)
(* examines them, addresses the last octets FirstIP..LastIP; module Cidr   *)
(* has the loops that examine them.                                        *)
(***************************************************************************)
EXTENDS Naturals, FiniteSets

CONSTANTS
  Requests,   \* goroutines that may serve requests at the same time
  Tenants,
  VpcIds,     \* the uuids createVPC may draw
  Instances,  \* the ids CreateInstance may draw
  NumCidrs, FirstIP, LastIP,
  BridgeOf,   \* BridgeNameFromVPCID: the first 11 characters of the uuid
  None        \* the absent tenant, VPC, instance, number

ASSUME NumCidrsAssumption == NumCidrs \in Nat
ASSUME IPAssumption == FirstIP \in Nat /\ LastIP \in Nat
ASSUME NoneAssumption ==
  /\ None \notin VpcIds \cup Tenants \cup Instances
  /\ None \notin Nat

VARIABLES
  vpcs,    \* table vpcs; status "none" is "no such row"
  allocs,  \* table network_allocations
  insts,   \* the columns of table instances that matter here
  nets,    \* libvirt networks, named by VPC id: absent, defined, up
  minted,  \* instance ids already drawn
  req      \* the requests in progress

vars == <<vpcs, allocs, insts, nets, minted, req>>

Cidrs == 1..NumCidrs
IPs == FirstIP..LastIP

VpcStatus == {"none", "pending", "active", "deleted"}
NoRow == [status |-> "none", tenant |-> None, cidr |-> None, default |-> FALSE]
VpcRow == [status : VpcStatus, tenant : Tenants \cup {None},
           cidr : Cidrs \cup {None}, default : BOOLEAN]
Allocation == [vpc : VpcIds, inst : Instances, ip : IPs]
InstRow == [status : {"none", "active", "gone"}, vpc : VpcIds \cup {None},
            ip : IPs \cup {None}]

\* Why EnsureNetwork was called: what its return leads to.
Purpose == {"none", "default", "new", "lease"}
Idle == [pc |-> "idle", op |-> "none", purpose |-> "none", tenant |-> None,
         vpc |-> None, inst |-> None, num |-> None]
Pc == {"idle", "lookup", "cidrs", "insert", "ensure", "define", "start",
       "rollback", "activate", "getVpc", "readIps", "lease", "granted",
       "reconcile", "record", "release", "count", "destroy", "mark"}
Request == [pc : Pc,
            op : {"none", "launch", "create", "delete", "terminate", "assign"},
            purpose : Purpose, tenant : Tenants \cup {None},
            vpc : VpcIds \cup {None}, inst : Instances \cup {None},
            num : Nat \cup {None}]

Live(v) == vpcs[v].status \in {"pending", "active"}
Row(v) == vpcs[v].status # "none"
\* GetDefaultVPC, the WHERE clause of the query and of the partial index.
LiveDefault(v, t) == Live(v) /\ vpcs[v].default /\ vpcs[v].tenant = t

UsedCidrs == {vpcs[v].cidr : v \in {u \in VpcIds : Live(u)}}
AllocatedIPs(v) == {a.ip : a \in {b \in allocs : b.vpc = v}}
LeasesOf(i) == {a \in allocs : a.inst = i}

\* AllocateNextCIDR and NextAvailableIP: the first candidate not in use.
IsFirst(x, S) == x \in S /\ \A y \in S : x <= y
NextCidr(c) == IsFirst(c, Cidrs \ UsedCidrs)
NextIP(v, n) == IsFirst(n, IPs \ AllocatedIPs(v))

\* Fault: the unique constraints are partial indexes over live rows.
UniqueAmongLive(v, row) ==
  \A u \in VpcIds : Live(u) =>
    /\ vpcs[u].cidr # row.cidr
    /\ BridgeOf[u] # BridgeOf[v]
    /\ row.default => ~LiveDefault(u, row.tenant)
\* The unique constraints a new row of vpcs meets.
Unique(v, row) ==
  \A u \in VpcIds : Row(u) =>
    /\ vpcs[u].cidr # row.cidr
    /\ BridgeOf[u] # BridgeOf[v]
    /\ row.default => ~LiveDefault(u, row.tenant)
\* Fault: network_allocations is unique by instance only.
UniqueByInstance(a) == \A b \in allocs : b.inst # a.inst
\* The unique constraints a new row of network_allocations meets.
UniqueLease(a) ==
  \A b \in allocs : b.inst # a.inst /\ ~(b.vpc = a.vpc /\ b.ip = a.ip)

Init ==
  /\ vpcs = [v \in VpcIds |-> NoRow]
  /\ allocs = {}
  /\ insts = [i \in Instances |-> [status |-> "none", vpc |-> None, ip |-> None]]
  /\ nets = [v \in VpcIds |-> "absent"]
  /\ minted = {}
  /\ req = [r \in Requests |-> Idle]

Become(r, q) == req' = [req EXCEPT ![r] = q]
Goto(r, pc) == Become(r, [req[r] EXCEPT !.pc = pc])
Return(r) == Become(r, Idle)

----------------------------------------------------------------------------
(* Requests arrive.                                                        *)

\* CreateInstance draws an id and calls allocateInstanceNetwork.
StartLaunch(r) ==
  /\ req[r].pc = "idle"
  /\ \E t \in Tenants, i \in Instances \ minted :
       /\ Become(r, [Idle EXCEPT !.pc = "lookup",
                                 !.op = "launch", !.tenant = t, !.inst = i])
       /\ minted' = minted \cup {i}
  /\ UNCHANGED <<vpcs, allocs, insts, nets>>

StartCreateVpc(r) ==
  /\ req[r].pc = "idle"
  /\ \E t \in Tenants :
       Become(r, [Idle EXCEPT !.pc = "cidrs", !.op = "create", !.tenant = t])
  /\ UNCHANGED <<vpcs, allocs, insts, nets, minted>>

StartDeleteVpc(r) ==
  /\ req[r].pc = "idle"
  /\ \E v \in VpcIds :
       Become(r, [Idle EXCEPT !.pc = "count", !.op = "delete", !.vpc = v])
  /\ UNCHANGED <<vpcs, allocs, insts, nets, minted>>

----------------------------------------------------------------------------
(* GetOrCreateDefaultVPC and createVPC.                                    *)

LookupDefault(r) ==
  /\ req[r].pc = "lookup"
  /\ \/ \E v \in VpcIds :
          /\ LiveDefault(v, req[r].tenant)
          /\ Become(r, [req[r] EXCEPT !.pc = "ensure", !.vpc = v,
                                      !.purpose = "default"])
     \/ /\ \A v \in VpcIds : ~LiveDefault(v, req[r].tenant)
        /\ Goto(r, "cidrs")
  /\ UNCHANGED <<vpcs, allocs, insts, nets, minted>>

ReadCidrs(r) ==
  /\ req[r].pc = "cidrs"
  /\ \/ \E c \in Cidrs :
          /\ NextCidr(c)
          /\ Become(r, [req[r] EXCEPT !.pc = "insert", !.num = c])
     \/ Cidrs \subseteq UsedCidrs /\ Return(r)
  /\ UNCHANGED <<vpcs, allocs, insts, nets, minted>>

\* The INSERT with status pending.  Bound: VpcIds.
InsertVpc(r) ==
  /\ req[r].pc = "insert"
  /\ \E v \in VpcIds :
       LET row == [status |-> "pending", tenant |-> req[r].tenant,
                   cidr |-> req[r].num, default |-> req[r].op = "launch"]
       IN /\ ~Row(v)
          /\ \/ /\ Unique(v, row)
                /\ vpcs' = [vpcs EXCEPT ![v] = row]
                /\ Become(r, [req[r] EXCEPT !.pc = "ensure", !.vpc = v,
                                            !.purpose = "new"])
             \/ ~Unique(v, row) /\ Return(r) /\ UNCHANGED vpcs
  /\ UNCHANGED <<allocs, insts, nets, minted>>

\* Fault: the index on the default VPC does not see updates.
ActivateUnchecked(r) ==
  /\ req[r].pc = "activate"
  /\ vpcs' = [vpcs EXCEPT ![req[r].vpc].status = "active"]
  /\ IF req[r].op = "launch" THEN Goto(r, "getVpc") ELSE Return(r)
  /\ UNCHANGED <<allocs, insts, nets, minted>>

\* UPDATE ... SET status WHERE id: whatever the row's status is by now, unless
\* the index on the default VPC refuses the row.
Activate(r) ==
  LET v == req[r].vpc
      refused == vpcs[v].default /\
                 \E u \in VpcIds \ {v} : LiveDefault(u, vpcs[v].tenant)
  IN
  /\ req[r].pc = "activate"
  /\ \/ /\ ~refused
        /\ vpcs' = [vpcs EXCEPT ![v].status = "active"]
        /\ IF req[r].op = "launch" THEN Goto(r, "getVpc") ELSE Return(r)
     \/ refused /\ Return(r) /\ UNCHANGED vpcs
  /\ UNCHANGED <<allocs, insts, nets, minted>>

\* Fault: the rollback writes a status the domain does not know.
RollbackToFailed(r) ==
  /\ req[r].pc = "rollback"
  /\ vpcs' = [vpcs EXCEPT ![req[r].vpc].status = "failed"]
  /\ Return(r)
  /\ UNCHANGED <<allocs, insts, nets, minted>>

\* The rollback of createVPC; its own error is ignored.
Rollback(r) ==
  /\ req[r].pc = "rollback"
  /\ \/ vpcs' = [vpcs EXCEPT ![req[r].vpc].status = "deleted"]
     \/ UNCHANGED vpcs
  /\ Return(r)
  /\ UNCHANGED <<allocs, insts, nets, minted>>

----------------------------------------------------------------------------
(* Provisioner.EnsureNetwork: look up, define, start.                      *)

\* EnsureNetwork returned nil.
Ensured(r) ==
  \/ req[r].purpose = "default" /\ Goto(r, "getVpc")
  \/ req[r].purpose = "new" /\ Goto(r, "activate")
  \/ req[r].purpose = "lease" /\ Goto(r, "readIps")
\* EnsureNetwork returned an error.
NotEnsured(r) ==
  IF req[r].purpose = "new" THEN Goto(r, "rollback") ELSE Return(r)

\* A network that is defined and not running is found as well.
EnsureLookup(r) ==
  /\ req[r].pc = "ensure"
  /\ IF nets[req[r].vpc] = "absent" THEN Goto(r, "define") ELSE Ensured(r)
  /\ UNCHANGED <<vpcs, allocs, insts, nets, minted>>

\* Fault: the definition is retried until the name is free.
DefineWhenFree(r) ==
  /\ req[r].pc = "define"
  /\ nets[req[r].vpc] = "absent"
  /\ nets' = [nets EXCEPT ![req[r].vpc] = "defined"]
  /\ Goto(r, "start")
  /\ UNCHANGED <<vpcs, allocs, insts, minted>>

\* libvirt gives the definition a uuid of its own, so a second definition of
\* the same name is refused.
EnsureDefine(r) ==
  LET v == req[r].vpc IN
  /\ req[r].pc = "define"
  /\ \/ /\ nets[v] = "absent"
        /\ nets' = [nets EXCEPT ![v] = "defined"]
        /\ Goto(r, "start")
     \/ NotEnsured(r) /\ UNCHANGED nets
  /\ UNCHANGED <<vpcs, allocs, insts, minted>>

\* SetAutostart, IsActive and Create; DestroyNetwork may have undefined it.
EnsureStart(r) ==
  LET v == req[r].vpc IN
  /\ req[r].pc = "start"
  /\ \/ /\ nets[v] # "absent"
        /\ nets' = [nets EXCEPT ![v] = "up"]
        /\ Ensured(r)
     \/ NotEnsured(r) /\ UNCHANGED nets
  /\ UNCHANGED <<vpcs, allocs, insts, minted>>

----------------------------------------------------------------------------
(* AllocateInstanceNetwork, and what CreateInstance does with the result.  *)

GetVpc(r) ==
  /\ req[r].pc = "getVpc"
  /\ IF Live(req[r].vpc)
     THEN Become(r, [req[r] EXCEPT !.pc = "ensure", !.purpose = "lease"])
     ELSE Return(r)
  /\ UNCHANGED <<vpcs, allocs, insts, nets, minted>>

ReadIps(r) ==
  /\ req[r].pc = "readIps"
  /\ \/ \E n \in IPs :
          /\ NextIP(req[r].vpc, n)
          /\ Become(r, [req[r] EXCEPT !.pc = "lease", !.num = n])
     \/ IPs \subseteq AllocatedIPs(req[r].vpc) /\ Return(r)
  /\ UNCHANGED <<vpcs, allocs, insts, nets, minted>>

LeaseOf(r) == [vpc |-> req[r].vpc, inst |-> req[r].inst, ip |-> req[r].num]

InsertLease(r) ==
  /\ req[r].pc = "lease"
  /\ \/ /\ UniqueLease(LeaseOf(r))
        /\ allocs' = allocs \cup {LeaseOf(r)}
        /\ Goto(r, "granted")
     \/ ~UniqueLease(LeaseOf(r)) /\ Return(r) /\ UNCHANGED allocs
  /\ UNCHANGED <<vpcs, insts, nets, minted>>

\* persistAndLaunch writes the row; if it cannot, it gives the address back;
\* if no host or no key pair was found the request just fails.
Persist(r) ==
  /\ req[r].pc = "granted" /\ req[r].op = "launch"
  /\ \/ /\ insts' = [insts EXCEPT ![req[r].inst] =
              [status |-> "active", vpc |-> req[r].vpc, ip |-> req[r].num]]
        /\ Goto(r, "reconcile")
     \/ Goto(r, "release") /\ UNCHANGED insts
     \/ Return(r) /\ UNCHANGED insts
  /\ UNCHANGED <<vpcs, allocs, nets, minted>>

\* ReconcileNetwork: its failure ends the instance and gives the address back.
Reconcile(r) ==
  /\ req[r].pc = "reconcile"
  /\ \/ Goto(r, "record") /\ UNCHANGED insts
     \/ /\ insts' = [insts EXCEPT ![req[r].inst].status = "gone"]
        /\ Goto(r, "release")
  /\ UNCHANGED <<vpcs, allocs, nets, minted>>

\* CreateInstance writes the whole row again to record the host.  The status
\* it writes is the one it created the row with or, because the provisioning
\* goroutine shares the structure, the one that goroutine has set.
RecordHost(r) ==
  LET i == req[r].inst IN
  /\ req[r].pc = "record"
  /\ \E s \in {"active", insts[i].status} :
       insts' = [insts EXCEPT ![i] =
         [status |-> s, vpc |-> req[r].vpc, ip |-> req[r].num]]
  /\ Return(r)
  /\ UNCHANGED <<vpcs, allocs, nets, minted>>

----------------------------------------------------------------------------
(* AssignVPC of the instance service: release, allocate in the new VPC,    *)
(* write the row when the machine runs again.                              *)

StartAssign(r) ==
  /\ req[r].pc = "idle"
  /\ \E i \in Instances, v \in VpcIds :
       /\ insts[i].status = "active" /\ insts[i].vpc # v
       /\ Become(r, [Idle EXCEPT !.pc = "release",
                                 !.op = "assign", !.vpc = v, !.inst = i])
  /\ UNCHANGED <<vpcs, allocs, insts, nets, minted>>

\* The last statement; every failure before it returns with the row as it was
\* and the new address allocated.
Rebind(r) ==
  /\ req[r].pc = "granted" /\ req[r].op = "assign"
  /\ \/ insts' = [insts EXCEPT ![req[r].inst] =
           [status |-> "active", vpc |-> req[r].vpc, ip |-> req[r].num]]
     \/ UNCHANGED insts
  /\ Return(r)
  /\ UNCHANGED <<vpcs, allocs, nets, minted>>

----------------------------------------------------------------------------
(* The end of an instance.                                                 *)

\* markTerminatedAndReleaseNetwork writes the status, then calls
\* ReleaseInstanceNetwork.
StartTerminate(r) ==
  /\ req[r].pc = "idle"
  /\ \E i \in Instances :
       /\ insts[i].status = "active"
       /\ insts' = [insts EXCEPT ![i].status = "gone"]
       /\ Become(r, [Idle EXCEPT !.pc = "release",
                                 !.op = "terminate", !.inst = i])
  /\ UNCHANGED <<vpcs, allocs, nets, minted>>

\* ReleaseInstanceNetwork; callers log an error and go on.
Release(r) ==
  /\ req[r].pc = "release"
  /\ \/ allocs' = allocs \ LeasesOf(req[r].inst)
     \/ UNCHANGED allocs
  /\ IF req[r].op = "assign" THEN Goto(r, "getVpc") ELSE Return(r)
  /\ UNCHANGED <<vpcs, insts, nets, minted>>

\* DeleteInstance ends the row and never releases the address.
DeleteInstance(i) ==
  /\ insts[i].status = "active"
  /\ insts' = [insts EXCEPT ![i].status = "gone"]
  /\ UNCHANGED <<vpcs, allocs, nets, minted, req>>

\* A handler writes the row back from the copy it read while the instance was
\* live: neither Update nor UpdateStatus looks at the status in the table.
WriteBack(i) ==
  /\ insts[i].status = "gone"
  /\ insts' = [insts EXCEPT ![i].status = "active"]
  /\ UNCHANGED <<vpcs, allocs, nets, minted, req>>

----------------------------------------------------------------------------
(* DeleteVPC.                                                              *)

CountInstances(r) ==
  /\ req[r].pc = "count"
  /\ IF \E i \in Instances : insts[i].status = "active" /\ insts[i].vpc = req[r].vpc
     THEN Return(r)
     ELSE Goto(r, "destroy")
  /\ UNCHANGED <<vpcs, allocs, insts, nets, minted>>

\* Stop and undefine; an error in between leaves it stopped or running.
DestroyNetwork(r) ==
  LET v == req[r].vpc IN
  /\ req[r].pc = "destroy"
  /\ \/ nets' = [nets EXCEPT ![v] = "absent"] /\ Goto(r, "mark")
     \/ /\ nets[v] # "absent"
        /\ nets' \in {nets, [nets EXCEPT ![v] = "defined"]}
        /\ Return(r)
  /\ UNCHANGED <<vpcs, allocs, insts, minted>>

\* Fault: the row is removed instead of marked.
RemoveRow(r) ==
  /\ req[r].pc = "mark"
  /\ vpcs' = [vpcs EXCEPT ![req[r].vpc] = NoRow]
  /\ Return(r)
  /\ UNCHANGED <<allocs, insts, nets, minted>>

\* Fault: the allocations of the VPC go with it.
MarkDeletedCascade(r) ==
  LET v == req[r].vpc IN
  /\ req[r].pc = "mark"
  /\ vpcs' = IF Row(v) THEN [vpcs EXCEPT ![v].status = "deleted"] ELSE vpcs
  /\ allocs' = {a \in allocs : a.vpc # v}
  /\ Return(r)
  /\ UNCHANGED <<insts, nets, minted>>

\* UPDATE ... SET status = 'deleted' WHERE id: a no-op when there is no row.
MarkDeleted(r) ==
  LET v == req[r].vpc IN
  /\ req[r].pc = "mark"
  /\ vpcs' = IF Row(v) THEN [vpcs EXCEPT ![v].status = "deleted"] ELSE vpcs
  /\ Return(r)
  /\ UNCHANGED <<allocs, insts, nets, minted>>

----------------------------------------------------------------------------
\* A statement fails and the request returns the error to its caller.
StatementFails(r) ==
  /\ req[r].pc \in {"lookup", "cidrs", "insert", "activate", "getVpc",
                    "readIps", "lease", "count", "mark"}
  /\ Return(r)
  /\ UNCHANGED <<vpcs, allocs, insts, nets, minted>>

\* The process dies: no request survives.
Crash ==
  /\ req' = [r \in Requests |-> Idle]
  /\ UNCHANGED <<vpcs, allocs, insts, nets, minted>>

Arrive(r) ==
  \/ StartLaunch(r) \/ StartCreateVpc(r) \/ StartDeleteVpc(r)
  \/ StartTerminate(r) \/ StartAssign(r)
Serve(r) ==
  \/ LookupDefault(r) \/ ReadCidrs(r) \/ InsertVpc(r) \/ Activate(r)
  \/ Rollback(r) \/ EnsureLookup(r) \/ EnsureDefine(r) \/ EnsureStart(r)
  \/ GetVpc(r) \/ ReadIps(r) \/ InsertLease(r) \/ Persist(r) \/ Reconcile(r)
  \/ RecordHost(r) \/ Rebind(r) \/ Release(r)
  \/ CountInstances(r) \/ DestroyNetwork(r) \/ MarkDeleted(r)
  \/ StatementFails(r)

Next ==
  \/ \E r \in Requests : Arrive(r) \/ Serve(r)
  \/ \E i \in Instances : DeleteInstance(i) \/ WriteBack(i)
  \/ Crash

Spec == Init /\ [][Next]_vars

----------------------------------------------------------------------------
(* Properties.                                                             *)

\* The tables, the networks and the requests have the shape of their types.
TypeOK ==
  /\ vpcs \in [VpcIds -> VpcRow]
  /\ allocs \subseteq Allocation
  /\ insts \in [Instances -> InstRow]
  /\ nets \in [VpcIds -> {"absent", "defined", "up"}]
  /\ minted \subseteq Instances
  /\ req \in [Requests -> Request]

\* No two networks the host knows share a CIDR block or a bridge: neither a
\* rollback that leaves its network behind (service.go:170-173) nor a half
\* started one may let a later VPC claim the same block.
HostNetworksDisjoint ==
  \A u, v \in VpcIds :
    u # v /\ nets[u] # "absent" /\ nets[v] # "absent"
      => vpcs[u].cidr # vpcs[v].cidr /\ BridgeOf[u] # BridgeOf[v]

\* A tenant has at most one live default VPC, whatever two first launches, a
\* delete and an activation that comes after it do (migration 012, line 30).
OneLiveDefault ==
  \A t \in Tenants : \A u, v \in VpcIds :
    LiveDefault(u, t) /\ LiveDefault(v, t) => u = v

\* The row of an instance is created with an address the instance owns at that
\* moment: between the INSERT of the allocation and the INSERT of the row (host
\* selection, key generation) no release meant for another instance, rollback or
\* deletion of the VPC takes it away (instance_service.go:130-163).
LaunchedWithOwnLease ==
  [][\A i \in Instances :
       insts[i].status = "none" /\ insts'[i].status = "active" =>
         [vpc |-> insts'[i].vpc, inst |-> i, ip |-> insts'[i].ip] \in allocs]_vars

\* A CIDR block is given out once: the row that got it keeps it for good.
CidrAssignedForGood ==
  [][\A v \in VpcIds : Row(v) => vpcs'[v].cidr = vpcs[v].cidr
                                 /\ vpcs'[v].tenant = vpcs[v].tenant]_vars

\* No two leases name the same address of the network 10.0.0.0/8, not even one
\* that a deleted VPC left behind: DeleteVPC does not look for leases and
\* DeleteInstance does not release any (service.go:103-123), so nothing but the
\* unique columns of both tables together keeps them apart.
AddressesDiffer ==
  \A a, b \in allocs :
    a # b => vpcs[a.vpc].cidr # vpcs[b.vpc].cidr \/ a.ip # b.ip

\* Every request returns: no goroutine waits for another (there is no lock),
\* so each step a request has left is eventually taken.
RequestReturns == \A r \in Requests : req[r].pc # "idle" ~> req[r].pc = "idle"

\* What service.go:103 says of DeleteVPC: a VPC with active instances is not
\* torn down.
DeleteBlockedByInstances ==
  [][\A r \in Requests : MarkDeleted(r) =>
       \A i \in Instances :
         ~(insts[i].status = "active" /\ insts[i].vpc = req[r].vpc)]_vars

\* The tables implement the atomic address plan: rows of vpcs are the claims,
\* rows of network_allocations the leases.
Blocks == {<<v, vpcs[v].cidr>> : v \in {u \in VpcIds : Row(u)}}
Plan == INSTANCE AddressPlan WITH blocks <- Blocks, leases <- allocs
ImplementsAddressPlan == Plan!Spec

----------------------------------------------------------------------------
\* Goroutines are scheduled and every statement and libvirt call returns.
Fairness == \A r \in Requests : WF_vars(Serve(r))
FairSpec == Spec /\ Fairness
=============================================================================
