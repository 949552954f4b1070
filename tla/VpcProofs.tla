----------------------------- MODULE VpcProofs -----------------------------
(***************************************************************************)
(* Proofs about modules Vpc and Cidr, for every number of requests,        *)
(* tenants, VPCs, instances, blocks and addresses.                         *)
(***************************************************************************)
EXTENDS Vpc, Cidr, TLAPS

----------------------------------------------------------------------------
(* The inductive invariant.                                                *)

\* A request past its first steps carries what those steps chose.
Carries(q) ==
  /\ q.pc = "idle" => q.op = "none"
  /\ q.pc \in {"lookup", "cidrs", "insert"} => q.tenant \in Tenants
  /\ q.pc = "insert" => q.num \in Cidrs
  /\ q.pc \in {"ensure", "define", "start"} => q.purpose # "none"
  /\ q.pc \in {"ensure", "define", "start", "rollback", "activate", "getVpc",
               "readIps", "lease", "granted", "reconcile", "record"}
       => q.vpc \in VpcIds
  /\ q.pc \in {"count", "destroy", "mark"} => q.vpc \in VpcIds
  /\ q.pc \in {"ensure", "define", "start"} /\ q.purpose \in {"default", "lease"}
       => q.op \in {"launch", "assign"}
  /\ q.pc \in {"lookup", "reconcile", "record"} => q.op = "launch"
  /\ q.pc \in {"getVpc", "readIps", "lease", "granted"}
       => q.op \in {"launch", "assign"}
  /\ q.pc = "release" => q.op \in {"launch", "terminate", "assign"}
  /\ q.op \in {"launch", "terminate", "assign"} => q.inst \in Instances
  /\ q.op = "assign" => q.vpc \in VpcIds
  /\ q.pc \in {"lease", "granted", "reconcile", "record"} => q.num \in IPs

TypeInv == TypeOK /\ \A r \in Requests : Carries(req[r])

\* The requests that work on a VPC work on one that has a row.
OnRows ==
  /\ \A v \in VpcIds : nets[v] # "absent" => Row(v)
  /\ \A r \in Requests :
       req[r].pc \in {"ensure", "define", "start", "rollback", "activate",
                      "readIps", "lease", "granted"} => Row(req[r].vpc)

\* The unique constraints of table vpcs.
VpcKeys ==
  /\ \A u, v \in VpcIds : u # v /\ Row(u) /\ Row(v) =>
       vpcs[u].cidr # vpcs[v].cidr /\ BridgeOf[u] # BridgeOf[v]
  /\ OneLiveDefault

\* The unique constraints of table network_allocations.
LeaseKeys ==
  \A a, b \in allocs : a # b => a.inst # b.inst /\ ~(a.vpc = b.vpc /\ a.ip = b.ip)

\* A launch that has not written its row yet.
Fresh(q) == q.op = "launch" /\ q.pc \notin {"reconcile", "record", "release"}

\* An instance id belongs to the one launch that drew it; the other operations
\* work on instances that have a row, so none of them works on an instance that
\* is being launched and the address granted to it stays allocated.
Owned ==
  /\ \A i \in Instances : insts[i].status # "none" => i \in minted
  /\ \A r \in Requests :
       /\ req[r].op = "launch" => req[r].inst \in minted
       /\ Fresh(req[r]) => insts[req[r].inst].status = "none"
       /\ req[r].pc \in {"reconcile", "record"} => insts[req[r].inst].status # "none"
       /\ req[r].op \in {"terminate", "assign"} => insts[req[r].inst].status # "none"
       /\ req[r].pc = "granted" /\ req[r].op = "launch" => LeaseOf(r) \in allocs
  /\ \A r, s \in Requests :
       r # s /\ req[r].op = "launch" /\ req[s].op = "launch"
         => req[r].inst # req[s].inst

LeasesOnRows == \A a \in allocs : Row(a.vpc)

IInv == TypeInv /\ OnRows /\ VpcKeys /\ LeaseKeys /\ LeasesOnRows /\ Owned

USE NumCidrsAssumption, IPAssumption, NoneAssumption

----------------------------------------------------------------------------
(* Type correctness.                                                       *)


ReqInv == req \in [Requests -> Request] /\ \A r \in Requests : Carries(req[r])

\* Replacing one request by a well-formed one keeps all well-formed.
LEMMA BecomeTyped ==
  ASSUME ReqInv, NEW r \in Requests, NEW q \in Request, Carries(q), Become(r, q)
  PROVE  ReqInv'
BY DEF ReqInv, Become

\* A request that returns is well-formed.
LEMMA ReturnTyped == ASSUME ReqInv, NEW r \in Requests, Return(r) PROVE ReqInv'
<1>1. Idle \in Request /\ Carries(Idle)
  BY DEF Idle, Request, Pc, Purpose, Carries
<1> QED
  BY <1>1, BecomeTyped DEF Return

\* So is a request that only moves on, if it carries what the next step needs.
LEMMA GotoTyped ==
  ASSUME ReqInv, NEW r \in Requests, NEW pc \in Pc, Goto(r, pc),
         Carries([req[r] EXCEPT !.pc = pc])
  PROVE  ReqInv'
<1>1. [req[r] EXCEPT !.pc = pc] \in Request
  BY DEF ReqInv, Request
<1> QED
  BY <1>1, BecomeTyped DEF Goto

LEMMA EnsuredTyped ==
  ASSUME ReqInv, NEW r \in Requests, req[r].pc \in {"ensure", "start"}, Ensured(r)
  PROVE  ReqInv'
<1>1. Carries(req[r]) /\ req[r] \in Request
  BY DEF ReqInv
<1>2. CASE req[r].purpose = "default"
  <2>1. Carries([req[r] EXCEPT !.pc = "getVpc"])
    BY <1>1, <1>2 DEF Carries, Request
  <2> QED
    BY <1>2, <2>1, GotoTyped DEF Ensured, Pc
<1>3. CASE req[r].purpose = "new"
  <2>1. Carries([req[r] EXCEPT !.pc = "activate"])
    BY <1>1, <1>3 DEF Carries, Request
  <2> QED
    BY <1>3, <2>1, GotoTyped DEF Ensured, Pc
<1>4. CASE req[r].purpose = "lease"
  <2>1. Carries([req[r] EXCEPT !.pc = "readIps"])
    BY <1>1, <1>4 DEF Carries, Request
  <2> QED
    BY <1>4, <2>1, GotoTyped DEF Ensured, Pc
<1> QED
  BY <1>1, <1>2, <1>3, <1>4 DEF Carries, Request, Purpose

LEMMA NotEnsuredTyped ==
  ASSUME ReqInv, NEW r \in Requests, req[r].pc \in {"define", "start"}, NotEnsured(r)
  PROVE  ReqInv'
<1>1. Carries(req[r]) /\ req[r] \in Request
  BY DEF ReqInv
<1>2. Carries([req[r] EXCEPT !.pc = "rollback"])
  BY <1>1 DEF Carries, Request
<1> QED
  BY <1>2, GotoTyped, ReturnTyped DEF NotEnsured, Pc

LEMMA ArriveTyped ==
  ASSUME ReqInv, TypeOK, NEW r \in Requests, Arrive(r)
  PROVE  ReqInv'
<1>1. CASE StartLaunch(r)
  <2> PICK t \in Tenants, i \in Instances :
        Become(r, [Idle EXCEPT !.pc = "lookup", !.op = "launch",
                               !.tenant = t, !.inst = i])
    BY <1>1 DEF StartLaunch
  <2> DEFINE q == [Idle EXCEPT !.pc = "lookup", !.op = "launch",
                               !.tenant = t, !.inst = i]
  <2>1. q \in Request /\ Carries(q)
    BY DEF Idle, Request, Pc, Purpose, Carries
  <2> QED
    BY <2>1, BecomeTyped
<1>2. CASE StartCreateVpc(r)
  <2> PICK t \in Tenants :
        Become(r, [Idle EXCEPT !.pc = "cidrs", !.op = "create", !.tenant = t])
    BY <1>2 DEF StartCreateVpc
  <2> DEFINE q == [Idle EXCEPT !.pc = "cidrs", !.op = "create", !.tenant = t]
  <2>1. q \in Request /\ Carries(q)
    BY DEF Idle, Request, Pc, Purpose, Carries
  <2> QED
    BY <2>1, BecomeTyped
<1>3. CASE StartDeleteVpc(r)
  <2> PICK v \in VpcIds :
        Become(r, [Idle EXCEPT !.pc = "count", !.op = "delete", !.vpc = v])
    BY <1>3 DEF StartDeleteVpc
  <2> DEFINE q == [Idle EXCEPT !.pc = "count", !.op = "delete", !.vpc = v]
  <2>1. q \in Request /\ Carries(q)
    BY DEF Idle, Request, Pc, Purpose, Carries
  <2> QED
    BY <2>1, BecomeTyped
<1>4. CASE StartTerminate(r)
  <2> PICK i \in Instances :
        Become(r, [Idle EXCEPT !.pc = "release", !.op = "terminate", !.inst = i])
    BY <1>4 DEF StartTerminate
  <2> DEFINE q == [Idle EXCEPT !.pc = "release", !.op = "terminate", !.inst = i]
  <2>1. q \in Request /\ Carries(q)
    BY DEF Idle, Request, Pc, Purpose, Carries
  <2> QED
    BY <2>1, BecomeTyped
<1>5. CASE StartAssign(r)
  <2> PICK i \in Instances, v \in VpcIds :
        Become(r, [Idle EXCEPT !.pc = "release", !.op = "assign",
                               !.vpc = v, !.inst = i])
    BY <1>5 DEF StartAssign
  <2> DEFINE q == [Idle EXCEPT !.pc = "release", !.op = "assign",
                               !.vpc = v, !.inst = i]
  <2>1. q \in Request /\ Carries(q)
    BY DEF Idle, Request, Pc, Purpose, Carries
  <2> QED
    BY <2>1, BecomeTyped
<1> QED
  BY <1>1, <1>2, <1>3, <1>4, <1>5 DEF Arrive

LEMMA ServeTyped ==
  ASSUME ReqInv, NEW r \in Requests, Serve(r)
  PROVE  ReqInv'
<1>0. Carries(req[r]) /\ req[r] \in Request
  BY DEF ReqInv
<1>1. CASE LookupDefault(r)
  <2>1. ASSUME NEW v \in VpcIds,
               Become(r, [req[r] EXCEPT !.pc = "ensure", !.vpc = v,
                                        !.purpose = "default"])
        PROVE  ReqInv'
    <3> DEFINE q == [req[r] EXCEPT !.pc = "ensure", !.vpc = v,
                                   !.purpose = "default"]
    <3>1. q \in Request
      BY <1>0 DEF Request, Pc, Purpose
    <3>2. Carries(q)
      BY <1>0, <1>1 DEF LookupDefault, Carries, Request
    <3> QED
      BY <2>1, <3>1, <3>2, BecomeTyped
  <2>2. Carries([req[r] EXCEPT !.pc = "cidrs"])
    BY <1>0, <1>1 DEF LookupDefault, Carries, Request
  <2> QED
    BY <1>1, <2>1, <2>2, GotoTyped DEF LookupDefault, Pc
<1>2. CASE ReadCidrs(r)
  <2>1. ASSUME NEW c \in Cidrs,
               Become(r, [req[r] EXCEPT !.pc = "insert", !.num = c])
        PROVE  ReqInv'
    <3> DEFINE q == [req[r] EXCEPT !.pc = "insert", !.num = c]
    <3>1. c \in Nat
      BY DEF Cidrs
    <3>2. q \in Request
      BY <1>0, <3>1 DEF Request, Pc, Purpose
    <3>3. Carries(q)
      BY <1>0, <1>2 DEF ReadCidrs, Carries, Request
    <3> QED
      BY <2>1, <3>2, <3>3, BecomeTyped
  <2> QED
    BY <1>2, <2>1, ReturnTyped DEF ReadCidrs
<1>3. CASE InsertVpc(r)
  <2>1. ASSUME NEW v \in VpcIds,
               Become(r, [req[r] EXCEPT !.pc = "ensure", !.vpc = v, !.purpose = "new"])
        PROVE  ReqInv'
    <3> DEFINE q == [req[r] EXCEPT !.pc = "ensure", !.vpc = v, !.purpose = "new"]
    <3>2. q \in Request
      BY <1>0 DEF Request, Pc, Purpose
    <3>3. Carries(q)
      BY <1>0, <1>3 DEF InsertVpc, Carries, Request
    <3> QED
      BY <2>1, <3>2, <3>3, BecomeTyped
  <2> QED
    BY <1>3, <2>1, ReturnTyped DEF InsertVpc
<1>4. CASE Activate(r)
  <2>1. req[r].op = "launch" => Carries([req[r] EXCEPT !.pc = "getVpc"])
    BY <1>0, <1>4 DEF Activate, Carries, Request
  <2> QED
    BY <1>4, <2>1, GotoTyped, ReturnTyped DEF Activate, Pc
<1>5. CASE Rollback(r)
  BY <1>5, ReturnTyped DEF Rollback
<1>6. CASE EnsureLookup(r)
  <2>1. Carries([req[r] EXCEPT !.pc = "define"])
    BY <1>0, <1>6 DEF EnsureLookup, Carries, Request
  <2> QED
    BY <1>6, <2>1, GotoTyped, EnsuredTyped DEF EnsureLookup, Pc
<1>7. CASE EnsureDefine(r)
  <2>1. Carries([req[r] EXCEPT !.pc = "start"])
    BY <1>0, <1>7 DEF EnsureDefine, Carries, Request
  <2> QED
    BY <1>7, <2>1, GotoTyped, NotEnsuredTyped DEF EnsureDefine, Pc
<1>8. CASE EnsureStart(r)
  BY <1>8, EnsuredTyped, NotEnsuredTyped DEF EnsureStart
<1>9. CASE GetVpc(r)
  <2> DEFINE q == [req[r] EXCEPT !.pc = "ensure", !.purpose = "lease"]
  <2>1. q \in Request
    BY <1>0 DEF Request, Pc, Purpose
  <2>2. Carries(q)
    BY <1>0, <1>9 DEF GetVpc, Carries, Request
  <2> QED
    BY <1>9, <2>1, <2>2, BecomeTyped, ReturnTyped DEF GetVpc
<1>10. CASE ReadIps(r)
  <2>1. ASSUME NEW n \in IPs,
               Become(r, [req[r] EXCEPT !.pc = "lease", !.num = n])
        PROVE  ReqInv'
    <3> DEFINE q == [req[r] EXCEPT !.pc = "lease", !.num = n]
    <3>1. n \in Nat
      BY DEF IPs
    <3>2. q \in Request
      BY <1>0, <3>1 DEF Request, Pc, Purpose
    <3>3. Carries(q)
      BY <1>0, <1>10 DEF ReadIps, Carries, Request
    <3> QED
      BY <2>1, <3>2, <3>3, BecomeTyped
  <2> QED
    BY <1>10, <2>1, ReturnTyped DEF ReadIps
<1>11. CASE InsertLease(r)
  <2>1. Carries([req[r] EXCEPT !.pc = "granted"])
    BY <1>0, <1>11 DEF InsertLease, Carries, Request
  <2> QED
    BY <1>11, <2>1, GotoTyped, ReturnTyped DEF InsertLease, Pc
<1>12. CASE Persist(r)
  <2>1. /\ Carries([req[r] EXCEPT !.pc = "release"])
        /\ Carries([req[r] EXCEPT !.pc = "reconcile"])
    BY <1>0, <1>12 DEF Persist, Carries, Request
  <2> QED
    BY <1>12, <2>1, GotoTyped, ReturnTyped DEF Persist, Pc
<1>13. CASE Release(r)
  <2>1. req[r].op = "assign" => Carries([req[r] EXCEPT !.pc = "getVpc"])
    BY <1>0, <1>13 DEF Release, Carries, Request
  <2> QED
    BY <1>13, <2>1, GotoTyped, ReturnTyped DEF Release, Pc
<1>18. CASE Reconcile(r)
  <2>1. /\ Carries([req[r] EXCEPT !.pc = "release"])
        /\ Carries([req[r] EXCEPT !.pc = "record"])
    BY <1>0, <1>18 DEF Reconcile, Carries, Request
  <2> QED
    BY <1>18, <2>1, GotoTyped DEF Reconcile, Pc
<1>19. CASE RecordHost(r) \/ Rebind(r)
  BY <1>19, ReturnTyped DEF RecordHost, Rebind
<1>14. CASE CountInstances(r)
  <2>1. Carries([req[r] EXCEPT !.pc = "destroy"])
    BY <1>0, <1>14 DEF CountInstances, Carries, Request
  <2> QED
    BY <1>14, <2>1, GotoTyped, ReturnTyped DEF CountInstances, Pc
<1>15. CASE DestroyNetwork(r)
  <2>1. Carries([req[r] EXCEPT !.pc = "mark"])
    BY <1>0, <1>15 DEF DestroyNetwork, Carries, Request
  <2> QED
    BY <1>15, <2>1, GotoTyped, ReturnTyped DEF DestroyNetwork, Pc
<1>16. CASE MarkDeleted(r)
  BY <1>16, ReturnTyped DEF MarkDeleted
<1>17. CASE StatementFails(r)
  BY <1>17, ReturnTyped DEF StatementFails
<1> QED
  BY <1>1, <1>2, <1>3, <1>4, <1>5, <1>6, <1>7, <1>8, <1>9, <1>10, <1>11, <1>12, <1>13, <1>14, <1>15,
     <1>16, <1>17, <1>18, <1>19 DEF Serve

\* The row createVPC inserts is a row of the table.
LEMMA RowTyped ==
  ASSUME NEW t \in Tenants, NEW c \in Cidrs, NEW b
  PROVE  [status |-> "pending", tenant |-> t, cidr |-> c, default |-> b = "launch"]
           \in VpcRow
<1>1. (b = "launch") \in BOOLEAN
  OBVIOUS
<1> QED
  BY <1>1, Zenon DEF VpcRow, VpcStatus

\* No action writes a table value outside its type.
LEMMA TablesTyped ==
  ASSUME TypeOK, ReqInv, [Next]_vars
  PROVE  /\ vpcs' \in [VpcIds -> VpcRow]
         /\ allocs' \subseteq Allocation
         /\ insts' \in [Instances -> InstRow]
         /\ nets' \in [VpcIds -> {"absent", "defined", "up"}]
         /\ minted' \subseteq Instances
<1> DEFINE Typed == /\ vpcs' \in [VpcIds -> VpcRow]
                    /\ allocs' \subseteq Allocation
                    /\ insts' \in [Instances -> InstRow]
                    /\ nets' \in [VpcIds -> {"absent", "defined", "up"}]
                    /\ minted' \subseteq Instances
<1> SUFFICES Typed
  OBVIOUS
<1>1. ASSUME NEW r \in Requests, Arrive(r) PROVE Typed
  <2>1. CASE StartLaunch(r) \/ StartCreateVpc(r) \/ StartDeleteVpc(r) \/ StartAssign(r)
    BY <2>1 DEF TypeOK, StartLaunch, StartCreateVpc, StartDeleteVpc, StartAssign
  <2>2. CASE StartTerminate(r)
    BY <2>2 DEF TypeOK, StartTerminate, InstRow
  <2> QED
    BY <1>1, <2>1, <2>2 DEF Arrive
<1>2. ASSUME NEW r \in Requests, Serve(r) PROVE Typed
  <2>0. Carries(req[r]) /\ req[r] \in Request
    BY DEF ReqInv
  <2>1. CASE LookupDefault(r) \/ ReadCidrs(r) \/ EnsureLookup(r) \/ GetVpc(r)
             \/ ReadIps(r) \/ CountInstances(r) \/ StatementFails(r)
    BY <2>1 DEF TypeOK, LookupDefault, ReadCidrs, EnsureLookup, GetVpc, ReadIps,
                CountInstances, StatementFails
  <2>2. CASE InsertVpc(r)
    <3>1. req[r].tenant \in Tenants /\ req[r].num \in Cidrs
      BY <2>0, <2>2 DEF InsertVpc, Carries
    <3> QED
      <4>1. CASE UNCHANGED vpcs
        BY <2>2, <4>1 DEF TypeOK, InsertVpc
      <4>2. ASSUME NEW v \in VpcIds,
                   vpcs' = [vpcs EXCEPT ![v] =
                     [status |-> "pending", tenant |-> req[r].tenant,
                      cidr |-> req[r].num, default |-> req[r].op = "launch"]]
            PROVE  vpcs' \in [VpcIds -> VpcRow]
        <5>1. [status |-> "pending", tenant |-> req[r].tenant, cidr |-> req[r].num,
               default |-> req[r].op = "launch"] \in VpcRow
          BY <3>1, RowTyped
        <5> QED
          BY <4>2, <5>1 DEF TypeOK
      <4> QED
        BY <2>2, <4>1, <4>2 DEF TypeOK, InsertVpc
  <2>3. CASE Activate(r) \/ Rollback(r) \/ MarkDeleted(r)
    <3>1. req[r].vpc \in VpcIds
      BY <2>0, <2>3 DEF Activate, Rollback, MarkDeleted, Carries
    <3> QED
      BY <2>3, <3>1 DEF TypeOK, Activate, Rollback, MarkDeleted, VpcRow, VpcStatus
  <2>4. CASE EnsureDefine(r) \/ EnsureStart(r) \/ DestroyNetwork(r)
    BY <2>4 DEF TypeOK, EnsureDefine, EnsureStart, DestroyNetwork
  <2>5. CASE InsertLease(r)
    <3>1. LeaseOf(r) \in Allocation
      BY <2>0, <2>5 DEF InsertLease, Carries, LeaseOf, Allocation
    <3> QED
      BY <2>5, <3>1 DEF TypeOK, InsertLease
  <2>6. CASE Persist(r) \/ Rebind(r)
    <3>1. req[r].inst \in Instances /\ req[r].vpc \in VpcIds /\ req[r].num \in IPs
      BY <2>0, <2>6 DEF Persist, Rebind, Carries
    <3> QED
      BY <2>6, <3>1 DEF TypeOK, Persist, Rebind, InstRow
  <2>8. CASE Reconcile(r)
    BY <2>8 DEF TypeOK, Reconcile, InstRow
  <2>9. CASE RecordHost(r)
    <3>1. req[r].inst \in Instances /\ req[r].vpc \in VpcIds /\ req[r].num \in IPs
      BY <2>0, <2>9 DEF RecordHost, Carries
    <3>2. PICK st \in {"active", insts[req[r].inst].status} :
            insts' = [insts EXCEPT ![req[r].inst] =
              [status |-> st, vpc |-> req[r].vpc, ip |-> req[r].num]]
      BY <2>9 DEF RecordHost
    <3>3. [status |-> st, vpc |-> req[r].vpc, ip |-> req[r].num] \in InstRow
      BY <3>1, <3>2 DEF TypeOK, InstRow
    <3> QED
      BY <2>9, <3>2, <3>3 DEF TypeOK, RecordHost
  <2>7. CASE Release(r)
    BY <2>7 DEF TypeOK, Release
  <2> QED
    BY <1>2, <2>1, <2>2, <2>3, <2>4, <2>5, <2>6, <2>7, <2>8, <2>9 DEF Serve
<1>3. ASSUME NEW i \in Instances, DeleteInstance(i) \/ WriteBack(i) PROVE Typed
  BY <1>3 DEF TypeOK, DeleteInstance, WriteBack, InstRow
<1>4. CASE Crash \/ UNCHANGED vars
  BY <1>4 DEF TypeOK, Crash, vars
<1> QED
  BY <1>1, <1>2, <1>3, <1>4 DEF Next

LEMMA TypeInvInit == Init => TypeInv
BY DEF Init, TypeInv, TypeOK, Carries, Idle, NoRow, VpcRow, VpcStatus, InstRow, Request,
       Pc, Purpose, Allocation

LEMMA TypeInvNext == TypeInv /\ [Next]_vars => TypeInv'
<1> SUFFICES ASSUME TypeInv, [Next]_vars PROVE TypeInv'
  OBVIOUS
<1>1. ReqInv /\ TypeOK
  BY DEF TypeInv, TypeOK, ReqInv
<1>2. ReqInv'
  <2>1. CASE Crash
    BY <2>1 DEF Crash, ReqInv, Idle, Request, Pc, Purpose, Carries
  <2>2. CASE \E i \in Instances : DeleteInstance(i) \/ WriteBack(i)
    BY <1>1, <2>2 DEF DeleteInstance, WriteBack, ReqInv
  <2>3. CASE UNCHANGED vars
    BY <1>1, <2>3 DEF vars, ReqInv
  <2> QED
    BY <1>1, <2>1, <2>2, <2>3, ArriveTyped, ServeTyped DEF Next
<1> QED
  BY <1>1, <1>2, TablesTyped DEF TypeInv, TypeOK, ReqInv

\* In every reachable state the tables, networks and requests are well-typed.
THEOREM TypeCorrect == Spec => []TypeOK
<1>1. Spec => []TypeInv
  BY TypeInvInit, TypeInvNext, PTL DEF Spec
<1>2. TypeInv => TypeOK
  BY DEF TypeInv
<1> QED
  BY <1>1, <1>2, PTL

----------------------------------------------------------------------------
(* Rows, networks and the table keys.                                      *)

\* Every step of a request replaces that request, and only that one.
LEMMA StepReplaces ==
  ASSUME NEW r \in Requests, Arrive(r) \/ Serve(r)
  PROVE  \E q : Become(r, q)
<1>1. CASE Arrive(r)
  BY <1>1 DEF Arrive, StartLaunch, StartCreateVpc, StartDeleteVpc, StartTerminate, StartAssign
<1>2. CASE LookupDefault(r) \/ ReadCidrs(r) \/ InsertVpc(r) \/ Activate(r) \/ Rollback(r)
  BY <1>2 DEF LookupDefault, ReadCidrs, InsertVpc, Activate, Rollback, Goto, Return
<1>3. CASE EnsureLookup(r) \/ EnsureDefine(r) \/ EnsureStart(r)
  <2>1. \A pc : Goto(r, pc) => \E q : Become(r, q)
    BY DEF Goto
  <2>2. Return(r) => \E q : Become(r, q)
    BY DEF Return
  <2>3. NotEnsured(r) => \E q : Become(r, q)
    BY <2>1, <2>2 DEF NotEnsured
  <2>4. Ensured(r) => \E q : Become(r, q)
    BY <2>1 DEF Ensured
  <2> QED
    BY <1>3, <2>1, <2>2, <2>3, <2>4 DEF EnsureLookup, EnsureDefine, EnsureStart
<1>4. CASE GetVpc(r) \/ ReadIps(r) \/ InsertLease(r) \/ Persist(r) \/ Release(r)
             \/ Reconcile(r) \/ RecordHost(r) \/ Rebind(r)
  BY <1>4 DEF GetVpc, ReadIps, InsertLease, Persist, Release, Reconcile, RecordHost,
     Rebind, Goto, Return
<1>5. CASE CountInstances(r) \/ DestroyNetwork(r) \/ MarkDeleted(r) \/ StatementFails(r)
  BY <1>5 DEF CountInstances, DestroyNetwork, MarkDeleted, StatementFails, Goto, Return
<1> QED
  BY <1>1, <1>2, <1>3, <1>4, <1>5 DEF Serve

LEMMA OthersWait ==
  ASSUME ReqInv, NEW r \in Requests, Arrive(r) \/ Serve(r), NEW s \in Requests, s # r
  PROVE  req'[s] = req[s]
BY StepReplaces DEF ReqInv, Become

LEMMA OneMoves ==
  ASSUME ReqInv, [Next]_vars, NEW r \in Requests, NEW s \in Requests, r # s
  PROVE  req'[r] = req[r] \/ req'[s] = req[s] \/ req'[r] = Idle
<1>1. CASE \E q \in Requests : Arrive(q) \/ Serve(q)
  BY <1>1, OthersWait
<1>2. CASE Crash
  BY <1>2 DEF Crash
<1>3. CASE (\E i \in Instances : DeleteInstance(i) \/ WriteBack(i)) \/ UNCHANGED vars
  BY <1>3 DEF DeleteInstance, WriteBack, vars
<1> QED
  BY <1>1, <1>2, <1>3 DEF Next

\* A row, once inserted, stays and keeps its block, tenant and default flag.
LEMMA RowsStay ==
  ASSUME TypeInv, [Next]_vars, NEW v \in VpcIds, Row(v)
  PROVE  /\ Row(v)'
         /\ vpcs'[v].cidr = vpcs[v].cidr
         /\ vpcs'[v].tenant = vpcs[v].tenant
         /\ vpcs'[v].default = vpcs[v].default
<1> DEFINE Stays == /\ Row(v)'
                    /\ vpcs'[v].cidr = vpcs[v].cidr
                    /\ vpcs'[v].tenant = vpcs[v].tenant
                    /\ vpcs'[v].default = vpcs[v].default
<1>0. vpcs \in [VpcIds -> VpcRow]
  BY DEF TypeInv, TypeOK
<1>1. CASE UNCHANGED vpcs
  BY <1>1 DEF Row
<1>2. ASSUME NEW r \in Requests, InsertVpc(r) PROVE Stays
  BY <1>0, <1>2 DEF InsertVpc, Row
<1>3. ASSUME NEW r \in Requests, Activate(r) PROVE Stays
  BY <1>0, <1>3 DEF Activate, Row, VpcRow
<1>4. ASSUME NEW r \in Requests, Rollback(r) PROVE Stays
  BY <1>0, <1>4 DEF Rollback, Row, VpcRow
<1>5. ASSUME NEW r \in Requests, MarkDeleted(r) PROVE Stays
  BY <1>0, <1>5 DEF MarkDeleted, Row, VpcRow
<1>6. ASSUME NEW r \in Requests, Serve(r) PROVE Stays
  <2>1. UNCHANGED vpcs \/ InsertVpc(r) \/ Activate(r) \/ Rollback(r) \/ MarkDeleted(r)
    BY <1>6 DEF Serve, LookupDefault, ReadCidrs, EnsureLookup, EnsureDefine,
       EnsureStart, GetVpc, ReadIps, InsertLease, Persist, Release,
       Reconcile, RecordHost, Rebind, CountInstances, DestroyNetwork, StatementFails
  <2> QED
    BY <1>1, <1>2, <1>3, <1>4, <1>5, <2>1
<1>7. ASSUME NEW r \in Requests, Arrive(r) PROVE Stays
  BY <1>1, <1>7 DEF Arrive, StartLaunch, StartCreateVpc, StartDeleteVpc, StartTerminate, StartAssign
<1>8. ASSUME NEW i \in Instances, DeleteInstance(i) \/ WriteBack(i) PROVE Stays
  BY <1>1, <1>8 DEF DeleteInstance, WriteBack
<1>9. CASE Crash \/ UNCHANGED vars
  BY <1>1, <1>9 DEF Crash, vars
<1> QED
  BY <1>6, <1>7, <1>8, <1>9 DEF Next

LEMMA NetsOnRows ==
  ASSUME TypeInv, OnRows, [Next]_vars, NEW v \in VpcIds, nets'[v] # "absent"
  PROVE  Row(v)'
<1>0. Row(v) => Row(v)'
  BY RowsStay
<1>1. nets \in [VpcIds -> {"absent", "defined", "up"}]
  BY DEF TypeInv, TypeOK
<1>2. nets[v] # "absent" => Row(v)
  BY DEF OnRows
<1>3. CASE UNCHANGED nets
  BY <1>0, <1>2, <1>3
<1>4. ASSUME NEW r \in Requests, EnsureDefine(r) \/ EnsureStart(r) PROVE Row(v)
  <2>1. Row(req[r].vpc)
    BY <1>4 DEF EnsureDefine, EnsureStart, OnRows
  <2> QED
    BY <1>1, <1>2, <1>4, <2>1 DEF EnsureDefine, EnsureStart
<1>5. ASSUME NEW r \in Requests, DestroyNetwork(r) PROVE Row(v)
  BY <1>1, <1>2, <1>5 DEF DestroyNetwork
<1>6. ASSUME NEW r \in Requests, Serve(r) PROVE Row(v)'
  <2>1. UNCHANGED nets \/ EnsureDefine(r) \/ EnsureStart(r) \/ DestroyNetwork(r)
    BY <1>6 DEF Serve, LookupDefault, ReadCidrs, InsertVpc, Activate, Rollback,
       EnsureLookup, GetVpc, ReadIps, InsertLease, Persist, Release,
       Reconcile, RecordHost, Rebind, CountInstances, MarkDeleted, StatementFails
  <2> QED
    BY <1>0, <1>3, <1>4, <1>5, <2>1
<1>7. ASSUME NEW r \in Requests, Arrive(r) PROVE Row(v)'
  BY <1>3, <1>7 DEF Arrive, StartLaunch, StartCreateVpc, StartDeleteVpc, StartTerminate, StartAssign
<1>8. ASSUME NEW i \in Instances, DeleteInstance(i) \/ WriteBack(i) PROVE Row(v)'
  BY <1>3, <1>8 DEF DeleteInstance, WriteBack
<1>9. CASE Crash \/ UNCHANGED vars
  BY <1>3, <1>9 DEF Crash, vars
<1> QED
  BY <1>6, <1>7, <1>8, <1>9 DEF Next

OnVpc == {"ensure", "define", "start", "rollback", "activate",
          "readIps", "lease", "granted"}

\* A request keeps its VPC from step to step, except when it finds or inserts it.
LEMMA VpcKept ==
  ASSUME ReqInv, NEW r \in Requests, Serve(r), req'[r].pc \in OnVpc
  PROVE  \/ LookupDefault(r) \/ InsertVpc(r)
         \/ GetVpc(r) /\ Live(req[r].vpc) /\ req'[r].vpc = req[r].vpc
         \/ req'[r].vpc = req[r].vpc /\ req[r].pc \in OnVpc
<1>0. /\ req[r] \in Request
      /\ \A q : Become(r, q) => req'[r] = q
  BY DEF ReqInv, Become
<1>1. \A pc : Goto(r, pc) => req'[r].pc = pc /\ req'[r].vpc = req[r].vpc
  BY <1>0 DEF Goto, Request
<1>2. ~Return(r)
  BY <1>0 DEF Return, Idle, OnVpc
<1>3. CASE Activate(r) \/ Rollback(r) \/ InsertLease(r) \/ ReadIps(r)
  BY <1>0, <1>1, <1>2, <1>3 DEF Activate, Rollback, InsertLease, ReadIps, OnVpc, Request
<1>4. CASE EnsureLookup(r) \/ EnsureDefine(r) \/ EnsureStart(r)
  BY <1>1, <1>2, <1>4 DEF EnsureLookup, EnsureDefine, EnsureStart, Ensured,
     NotEnsured, OnVpc
<1>5. CASE GetVpc(r)
  BY <1>0, <1>2, <1>5 DEF GetVpc, OnVpc, Request
<1>6. CASE ReadCidrs(r)
  BY <1>0, <1>2, <1>6 DEF ReadCidrs, OnVpc, Request
<1>7. CASE Persist(r) \/ CountInstances(r) \/ DestroyNetwork(r)
             \/ Reconcile(r) \/ Release(r)
  BY <1>1, <1>2, <1>7 DEF Persist, CountInstances, DestroyNetwork, Reconcile, Release, OnVpc
<1>8. CASE MarkDeleted(r) \/ StatementFails(r) \/ RecordHost(r) \/ Rebind(r)
  BY <1>2, <1>8 DEF MarkDeleted, StatementFails, RecordHost, Rebind
<1> QED
  BY <1>3, <1>4, <1>5, <1>6, <1>7, <1>8 DEF Serve

LEMMA RequestsOnRows ==
  ASSUME TypeInv, OnRows, [Next]_vars, NEW r \in Requests, req'[r].pc \in OnVpc
  PROVE  Row(req[r].vpc)'
<1>0. /\ Carries(req[r]) /\ req[r] \in Request /\ ReqInv
      /\ req[r].pc \in OnVpc => req[r].vpc \in VpcIds /\ Row(req[r].vpc)
  BY DEF TypeInv, TypeOK, ReqInv, OnRows, OnVpc, Carries
<1>1. req'[r].vpc \in VpcIds
  BY TypeInvNext DEF TypeInv, Carries, OnVpc
<1>2. CASE vpcs[req'[r].vpc].status # "none"
  BY <1>1, <1>2, RowsStay DEF Row
<1>3. CASE req'[r] = req[r]
  BY <1>0, <1>2, <1>3 DEF Row
<1>4. CASE Arrive(r)
  <2>0. \A q : Become(r, q) => req'[r] = q
    BY <1>0 DEF Become, ReqInv
  <2>1. req'[r].pc \in {"lookup", "cidrs", "count", "release"}
    <3>1. CASE StartLaunch(r) \/ StartCreateVpc(r)
      BY <2>0, <3>1 DEF StartLaunch, StartCreateVpc, Idle
    <3>2. CASE StartDeleteVpc(r) \/ StartTerminate(r) \/ StartAssign(r)
      BY <2>0, <3>2 DEF StartDeleteVpc, StartTerminate, StartAssign, Idle
    <3> QED
      BY <1>4, <3>1, <3>2 DEF Arrive
  <2> QED
    BY <2>1 DEF OnVpc
<1>5. CASE Serve(r)
  <2>1. CASE LookupDefault(r)
    <3>1. ASSUME NEW v \in VpcIds, LiveDefault(v, req[r].tenant),
                 Become(r, [req[r] EXCEPT !.pc = "ensure", !.vpc = v,
                                          !.purpose = "default"])
          PROVE  vpcs[req'[r].vpc].status # "none"
      <4>1. req'[r].vpc = v
        BY <1>0, <3>1 DEF Become, ReqInv, Request
      <4> QED
        BY <3>1, <4>1 DEF LiveDefault, Live
    <3>2. ~Goto(r, "cidrs")
      BY <1>0 DEF Goto, Become, ReqInv, Request, OnVpc
    <3> QED
      BY <1>2, <2>1, <3>1, <3>2 DEF LookupDefault
  <2>2. CASE InsertVpc(r)
    <3>1. ~Return(r)
      BY <1>0 DEF Return, Become, ReqInv, Idle, OnVpc
    <3>2. ASSUME NEW v \in VpcIds, NEW row, row.status = "pending",
                 vpcs' = [vpcs EXCEPT ![v] = row],
                 Become(r, [req[r] EXCEPT !.pc = "ensure", !.vpc = v,
                                          !.purpose = "new"])
          PROVE  Row(req[r].vpc)'
      <4>1. req'[r].vpc = v
        BY <1>0, <3>2 DEF Become, ReqInv, Request
      <4> QED
        BY <3>2, <4>1 DEF Row, TypeInv, TypeOK
    <3> QED
      BY <2>2, <3>1, <3>2 DEF InsertVpc
  <2>3. CASE GetVpc(r) /\ Live(req[r].vpc) /\ req'[r].vpc = req[r].vpc
    BY <1>2, <2>3 DEF Live
  <2> QED
    BY <1>0, <1>2, <1>5, <2>1, <2>2, <2>3, VpcKept DEF Row
<1>6. CASE \E s \in Requests \ {r} : Arrive(s) \/ Serve(s)
  BY <1>0, <1>3, <1>6, OthersWait
<1>7. CASE Crash
  BY <1>7 DEF Crash, Idle, OnVpc
<1>8. CASE (\E i \in Instances : DeleteInstance(i) \/ WriteBack(i)) \/ UNCHANGED vars
  BY <1>3, <1>8 DEF DeleteInstance, WriteBack, vars
<1> QED
  BY <1>4, <1>5, <1>6, <1>7, <1>8 DEF Next

LEMMA OnRowsNext == TypeInv /\ OnRows /\ [Next]_vars => OnRows'
<1> SUFFICES ASSUME TypeInv, OnRows, [Next]_vars PROVE OnRows'
  OBVIOUS
<1>1. \A v \in VpcIds : nets'[v] # "absent" => Row(v)'
  BY NetsOnRows
<1>2. \A r \in Requests : req'[r].pc \in OnVpc => Row(req[r].vpc)'
  BY RequestsOnRows
<1> QED
  BY <1>1, <1>2 DEF OnRows, OnVpc

\* The statements that write table vpcs keep its unique constraints.
LEMMA VpcKeysNext == TypeInv /\ OnRows /\ VpcKeys /\ [Next]_vars => VpcKeys'
<1> SUFFICES ASSUME TypeInv, OnRows, VpcKeys, [Next]_vars PROVE VpcKeys'
  OBVIOUS
<1>0. vpcs \in [VpcIds -> VpcRow]
  BY DEF TypeInv, TypeOK
<1> USE DEF VpcKeys, OneLiveDefault, LiveDefault, Live, Row
<1>1. CASE UNCHANGED vpcs
  BY <1>1
<1>2. ASSUME NEW r \in Requests, InsertVpc(r) PROVE VpcKeys'
  <2> PICK v \in VpcIds : UNCHANGED vpcs \/
        /\ ~Row(v)
        /\ Unique(v, [status |-> "pending", tenant |-> req[r].tenant,
                      cidr |-> req[r].num, default |-> req[r].op = "launch"])
        /\ vpcs' = [vpcs EXCEPT ![v] =
                     [status |-> "pending", tenant |-> req[r].tenant,
                      cidr |-> req[r].num, default |-> req[r].op = "launch"]]
    BY <1>2 DEF InsertVpc
  <2> QED
    BY <1>0, <1>1 DEF Unique
<1>3. ASSUME NEW r \in Requests, Activate(r) PROVE VpcKeys'
  <2>1. req[r].vpc \in VpcIds /\ Row(req[r].vpc)
    BY <1>3 DEF Activate, OnRows, TypeInv, Carries
  <2> QED
    BY <1>0, <1>1, <1>3, <2>1 DEF Activate, VpcRow
<1>4. ASSUME NEW r \in Requests, Rollback(r) PROVE VpcKeys'
  <2>1. req[r].vpc \in VpcIds /\ Row(req[r].vpc)
    BY <1>4 DEF Rollback, OnRows, TypeInv, Carries
  <2> QED
    BY <1>0, <1>1, <1>4, <2>1 DEF Rollback, VpcRow
<1>5. ASSUME NEW r \in Requests, MarkDeleted(r) PROVE VpcKeys'
  <2>1. req[r].vpc \in VpcIds
    BY <1>5 DEF MarkDeleted, TypeInv, Carries
  <2>2. CASE ~Row(req[r].vpc)
    BY <1>1, <1>5, <2>2 DEF MarkDeleted
  <2>3. CASE vpcs' = [vpcs EXCEPT ![req[r].vpc].status = "deleted"]
    <3>1. \A v \in VpcIds :
            /\ vpcs'[v].cidr = vpcs[v].cidr /\ vpcs'[v].tenant = vpcs[v].tenant
            /\ vpcs'[v].default = vpcs[v].default
            /\ vpcs'[v].status \in {vpcs[v].status, "deleted"}
            /\ vpcs[v].status = "none" => v = req[r].vpc \/ vpcs'[v].status = "none"
      BY <1>0, <2>1, <2>3 DEF VpcRow
    <3>2. CASE Row(req[r].vpc)
      BY <1>0, <3>1, <3>2
    <3> QED
      BY <2>2, <3>2
  <2> QED
    BY <1>5, <2>2, <2>3 DEF MarkDeleted
<1>6. ASSUME NEW r \in Requests, Serve(r) PROVE VpcKeys'
  <2>1. UNCHANGED vpcs \/ InsertVpc(r) \/ Activate(r) \/ Rollback(r) \/ MarkDeleted(r)
    BY <1>6 DEF Serve, LookupDefault, ReadCidrs, EnsureLookup, EnsureDefine,
       EnsureStart, GetVpc, ReadIps, InsertLease, Persist, Release,
       Reconcile, RecordHost, Rebind, CountInstances, DestroyNetwork, StatementFails
  <2> QED
    BY <1>1, <1>2, <1>3, <1>4, <1>5, <2>1
<1>7. ASSUME NEW r \in Requests, Arrive(r) PROVE VpcKeys'
  BY <1>1, <1>7 DEF Arrive, StartLaunch, StartCreateVpc, StartDeleteVpc, StartTerminate, StartAssign
<1>8. ASSUME NEW i \in Instances, DeleteInstance(i) \/ WriteBack(i) PROVE VpcKeys'
  BY <1>1, <1>8 DEF DeleteInstance, WriteBack
<1>9. CASE Crash \/ UNCHANGED vars
  BY <1>1, <1>9 DEF Crash, vars
<1> QED
  BY <1>6, <1>7, <1>8, <1>9 DEF Next

----------------------------------------------------------------------------
(* Leases and the instances that hold them.                                *)

\* How a step may write network_allocations.
LEMMA AllocsStep ==
  ASSUME [Next]_vars
  PROVE  \/ UNCHANGED allocs
         \/ \E r \in Requests : InsertLease(r) /\ UniqueLease(LeaseOf(r))
                                /\ allocs' = allocs \cup {LeaseOf(r)}
         \/ \E r \in Requests : Release(r) /\ allocs' = allocs \ LeasesOf(req[r].inst)
<1> DEFINE Says ==
         \/ UNCHANGED allocs
         \/ \E r \in Requests : InsertLease(r) /\ UniqueLease(LeaseOf(r))
                                /\ allocs' = allocs \cup {LeaseOf(r)}
         \/ \E r \in Requests : Release(r) /\ allocs' = allocs \ LeasesOf(req[r].inst)
<1>1. ASSUME NEW r \in Requests, Serve(r) PROVE Says
  <2>1. UNCHANGED allocs \/ InsertLease(r) \/ Release(r)
    BY <1>1 DEF Serve, LookupDefault, ReadCidrs, InsertVpc, Activate, Rollback,
       EnsureLookup, EnsureDefine, EnsureStart, GetVpc, ReadIps, Persist,
       Reconcile, RecordHost, Rebind, CountInstances, DestroyNetwork, MarkDeleted, StatementFails
  <2>2. InsertLease(r) =>
          \/ UNCHANGED allocs
          \/ UniqueLease(LeaseOf(r)) /\ allocs' = allocs \cup {LeaseOf(r)}
    BY DEF InsertLease
  <2>3. Release(r) => UNCHANGED allocs \/ allocs' = allocs \ LeasesOf(req[r].inst)
    BY DEF Release
  <2> QED
    BY <2>1, <2>2, <2>3
<1>2. ASSUME NEW r \in Requests, Arrive(r) PROVE UNCHANGED allocs
  BY <1>2 DEF Arrive, StartLaunch, StartCreateVpc, StartDeleteVpc, StartTerminate, StartAssign
<1>3. ASSUME NEW i \in Instances, DeleteInstance(i) \/ WriteBack(i) PROVE UNCHANGED allocs
  BY <1>3 DEF DeleteInstance, WriteBack
<1>4. CASE Crash \/ UNCHANGED vars
  BY <1>4 DEF Crash, vars
<1> QED
  BY <1>1, <1>2, <1>3, <1>4 DEF Next

LEMMA LeaseKeysNext == LeaseKeys /\ [Next]_vars => LeaseKeys'
<1> SUFFICES ASSUME LeaseKeys, [Next]_vars PROVE LeaseKeys'
  OBVIOUS
<1>1. CASE UNCHANGED allocs
  BY <1>1 DEF LeaseKeys
<1>2. ASSUME NEW r \in Requests, UniqueLease(LeaseOf(r)),
             allocs' = allocs \cup {LeaseOf(r)}
      PROVE  LeaseKeys'
  BY <1>2 DEF LeaseKeys, UniqueLease
<1>3. ASSUME NEW r \in Requests, allocs' = allocs \ LeasesOf(req[r].inst)
      PROVE  LeaseKeys'
  BY <1>3 DEF LeaseKeys
<1> QED
  BY <1>1, <1>2, <1>3, AllocsStep

LEMMA LeasesOnRowsNext ==
  TypeInv /\ OnRows /\ LeasesOnRows /\ [Next]_vars => LeasesOnRows'
<1> SUFFICES ASSUME TypeInv, OnRows, LeasesOnRows, [Next]_vars PROVE LeasesOnRows'
  OBVIOUS
<1>1. \A a \in allocs : a.vpc \in VpcIds
  BY DEF TypeInv, TypeOK, Allocation
<1>2. \A a \in allocs : Row(a.vpc)'
  BY <1>1, RowsStay DEF LeasesOnRows
<1>3. ASSUME NEW r \in Requests, InsertLease(r)
      PROVE  \A v : v = LeaseOf(r).vpc => Row(v)'
  <2>1. Row(req[r].vpc) /\ req[r].vpc \in VpcIds
    BY <1>3 DEF InsertLease, OnRows, TypeInv, Carries
  <2> QED
    BY <2>1, RowsStay DEF LeaseOf
<1>4. \A a \in allocs' : a \in allocs \/ \E r \in Requests : InsertLease(r) /\ a = LeaseOf(r)
  BY AllocsStep
<1>5. \A a \in allocs' : Row(a.vpc)'
  BY <1>2, <1>3, <1>4
<1> QED
  BY <1>5 DEF LeasesOnRows

\* While it is served, a request keeps its operation and its instance.
LEMMA OpKept ==
  ASSUME ReqInv, NEW r \in Requests, Serve(r)
  PROVE  \/ req'[r].op = "none" /\ req'[r].pc = "idle"
         \/ req'[r].op = req[r].op /\ req'[r].inst = req[r].inst
<1> DEFINE Kept == \/ req'[r].op = "none" /\ req'[r].pc = "idle"
                   \/ req'[r].op = req[r].op /\ req'[r].inst = req[r].inst
<1>0. /\ req[r] \in Request
      /\ \A q : Become(r, q) => req'[r] = q
  BY DEF ReqInv, Become
<1>1. \A pc : Goto(r, pc) => Kept
  BY <1>0 DEF Goto, Request
<1>2. Return(r) => Kept
  BY <1>0 DEF Return, Idle
<1>3. Ensured(r) \/ NotEnsured(r) => Kept
  BY <1>1, <1>2 DEF Ensured, NotEnsured
<1>4. CASE LookupDefault(r) \/ ReadCidrs(r) \/ InsertVpc(r) \/ GetVpc(r) \/ ReadIps(r)
  BY <1>0, <1>1, <1>2, <1>4 DEF LookupDefault, ReadCidrs, InsertVpc, GetVpc,
     ReadIps, Request
<1>5. CASE EnsureLookup(r) \/ EnsureDefine(r) \/ EnsureStart(r)
  BY <1>1, <1>3, <1>5 DEF EnsureLookup, EnsureDefine, EnsureStart
<1>6. CASE Activate(r) \/ Rollback(r) \/ InsertLease(r) \/ Persist(r) \/ Release(r)
             \/ Reconcile(r) \/ RecordHost(r) \/ Rebind(r)
  BY <1>1, <1>2, <1>6 DEF Activate, Rollback, InsertLease, Persist, Release,
     Reconcile, RecordHost, Rebind
<1>7. CASE CountInstances(r) \/ DestroyNetwork(r) \/ MarkDeleted(r) \/ StatementFails(r)
  BY <1>1, <1>2, <1>7 DEF CountInstances, DestroyNetwork, MarkDeleted, StatementFails
<1> QED
  BY <1>4, <1>5, <1>6, <1>7 DEF Serve

\* What a step may do to the row of an instance: leave it, rewrite a row that
\* exists, or insert it for the launch that drew the id.
Inserted(i, r) ==
  /\ req[r].pc = "granted" /\ req[r].op = "launch" /\ req[r].inst = i
  /\ req'[r].pc = "reconcile"
  /\ UNCHANGED allocs
  /\ insts'[i] = [status |-> "active", vpc |-> req[r].vpc, ip |-> req[r].num]
Wrote(i) ==
  \/ insts'[i] = insts[i]
  \/ insts[i].status # "none" /\ insts'[i].status # "none"
  \/ \E r \in Requests : Inserted(i, r)

LEMMA InstsStep ==
  ASSUME TypeInv, Owned, [Next]_vars, NEW i \in Instances
  PROVE  Wrote(i)
<1> USE DEF Wrote, Inserted
<1>0. /\ insts \in [Instances -> InstRow] /\ ReqInv
      /\ \A r \in Requests : Carries(req[r]) /\ req[r] \in Request
  BY DEF TypeInv, TypeOK, ReqInv
<1>1. ASSUME NEW r \in Requests, Serve(r) PROVE Wrote(i)
  <2>1. CASE Persist(r)
    <3>1. Goto(r, "reconcile") => req'[r].pc = "reconcile"
      BY <1>0 DEF Goto, Become, ReqInv, Request
    <3>2. UNCHANGED allocs
      BY <2>1 DEF Persist
    <3>3. CASE UNCHANGED insts
      BY <3>3
    <3>4. CASE /\ insts' = [insts EXCEPT ![req[r].inst] =
                    [status |-> "active", vpc |-> req[r].vpc, ip |-> req[r].num]]
               /\ Goto(r, "reconcile")
      <4>1. CASE req[r].inst = i
        <5>1. insts'[i] = [status |-> "active", vpc |-> req[r].vpc, ip |-> req[r].num]
          BY <1>0, <3>4, <4>1
        <5> QED
          BY <2>1, <3>1, <3>2, <3>4, <4>1, <5>1 DEF Persist
      <4>2. CASE req[r].inst # i
        BY <1>0, <3>4, <4>2
      <4> QED
        BY <4>1, <4>2
    <3> QED
      BY <2>1, <3>3, <3>4 DEF Persist
  <2>2. CASE Reconcile(r)
    <3>1. insts[req[r].inst].status # "none"
      BY <2>2 DEF Reconcile, Owned
    <3> QED
      BY <1>0, <2>2, <3>1 DEF Reconcile, InstRow
  <2>3. CASE RecordHost(r)
    <3>1. insts[req[r].inst].status # "none"
      BY <2>3 DEF RecordHost, Owned
    <3> PICK st \in {"active", insts[req[r].inst].status} :
            insts' = [insts EXCEPT ![req[r].inst] =
              [status |-> st, vpc |-> req[r].vpc, ip |-> req[r].num]]
      BY <2>3 DEF RecordHost
    <3>2. CASE req[r].inst = i
      <4>1. insts'[i] = [status |-> st, vpc |-> req[r].vpc, ip |-> req[r].num]
        BY <1>0, <3>2
      <4> QED
        BY <3>1, <3>2, <4>1
    <3>3. CASE req[r].inst # i
      BY <1>0, <3>3
    <3> QED
      BY <3>2, <3>3
  <2>4. CASE Rebind(r)
    <3>1. insts[req[r].inst].status # "none"
      BY <2>4 DEF Rebind, Owned
    <3>2. CASE insts' = [insts EXCEPT ![req[r].inst] =
                    [status |-> "active", vpc |-> req[r].vpc, ip |-> req[r].num]]
      <4>1. CASE req[r].inst = i
        <5>1. insts'[i] = [status |-> "active", vpc |-> req[r].vpc, ip |-> req[r].num]
          BY <1>0, <3>2, <4>1
        <5> QED
          BY <3>1, <4>1, <5>1
      <4>2. CASE req[r].inst # i
        BY <1>0, <3>2, <4>2
      <4> QED
        BY <4>1, <4>2
    <3> QED
      BY <2>4, <3>2 DEF Rebind
  <2>5. \/ Persist(r) \/ Reconcile(r) \/ RecordHost(r) \/ Rebind(r)
        \/ UNCHANGED insts
    BY <1>1 DEF Serve, LookupDefault, ReadCidrs, InsertVpc, Activate, Rollback,
       EnsureLookup, EnsureDefine, EnsureStart, GetVpc, ReadIps, InsertLease,
       Release, CountInstances, DestroyNetwork, MarkDeleted, StatementFails
  <2> QED
    BY <2>1, <2>2, <2>3, <2>4, <2>5
<1>2. ASSUME NEW r \in Requests, Arrive(r) PROVE Wrote(i)
  <2>1. CASE StartTerminate(r)
    <3> PICK j \in Instances : /\ insts[j].status = "active"
                               /\ insts' = [insts EXCEPT ![j].status = "gone"]
      BY <2>1 DEF StartTerminate
    <3> QED
      BY <1>0 DEF InstRow
  <2>2. CASE StartLaunch(r) \/ StartCreateVpc(r) \/ StartDeleteVpc(r) \/ StartAssign(r)
    BY <2>2 DEF StartLaunch, StartCreateVpc, StartDeleteVpc, StartAssign
  <2> QED
    BY <1>2, <2>1, <2>2 DEF Arrive
<1>3. ASSUME NEW j \in Instances, DeleteInstance(j) \/ WriteBack(j) PROVE Wrote(i)
  BY <1>0, <1>3 DEF DeleteInstance, WriteBack, InstRow
<1>4. CASE Crash \/ UNCHANGED vars
  BY <1>4 DEF Crash, vars
<1> QED
  BY <1>1, <1>2, <1>3, <1>4 DEF Next

\* Ids once drawn stay drawn.
LEMMA MintedGrows == ASSUME [Next]_vars PROVE minted \subseteq minted'
<1>1. ASSUME NEW r \in Requests, Serve(r) PROVE UNCHANGED minted
  BY <1>1 DEF Serve, LookupDefault, ReadCidrs, InsertVpc, Activate, Rollback,
     EnsureLookup, EnsureDefine, EnsureStart, GetVpc, ReadIps, InsertLease,
     Persist, Reconcile, RecordHost, Rebind, Release, CountInstances,
     DestroyNetwork, MarkDeleted, StatementFails
<1>2. ASSUME NEW r \in Requests, Arrive(r) PROVE minted \subseteq minted'
  BY <1>2 DEF Arrive, StartLaunch, StartCreateVpc, StartDeleteVpc, StartTerminate,
     StartAssign
<1>3. ASSUME NEW i \in Instances, DeleteInstance(i) \/ WriteBack(i)
      PROVE  UNCHANGED minted
  BY <1>3 DEF DeleteInstance, WriteBack
<1> QED
  BY <1>1, <1>2, <1>3 DEF Next, Crash, vars

\* Where a request that works on an instance comes from.
LEMMA OpOrigin ==
  ASSUME ReqInv, [Next]_vars, NEW r \in Requests
  PROVE  \/ req'[r].op \notin {"launch", "terminate", "assign"}
         \/ req'[r].op = req[r].op /\ req'[r].inst = req[r].inst
         \/ /\ req'[r].op = "launch"
            /\ req'[r].inst \in Instances \ minted
            /\ minted' = minted \cup {req'[r].inst}
            /\ UNCHANGED insts
         \/ /\ req'[r].op \in {"terminate", "assign"}
            /\ req'[r].inst \in Instances
            /\ insts[req'[r].inst].status = "active"
<1>0. \A q : Become(r, q) => req'[r] = q
  BY DEF ReqInv, Become
<1>1. CASE StartLaunch(r)
  BY <1>0, <1>1 DEF StartLaunch, Idle
<1>2. CASE StartTerminate(r) \/ StartAssign(r)
  BY <1>0, <1>2 DEF StartTerminate, StartAssign, Idle
<1>3. CASE StartCreateVpc(r) \/ StartDeleteVpc(r)
  BY <1>0, <1>3 DEF StartCreateVpc, StartDeleteVpc, Idle
<1>4. CASE Serve(r)
  BY <1>4, OpKept
<1>5. CASE \E s \in Requests \ {r} : Arrive(s) \/ Serve(s)
  BY <1>5, OthersWait
<1>6. CASE Crash
  BY <1>6 DEF Crash, Idle
<1>7. CASE (\E i \in Instances : DeleteInstance(i) \/ WriteBack(i)) \/ UNCHANGED vars
  BY <1>7 DEF DeleteInstance, WriteBack, vars
<1> QED
  BY <1>1, <1>2, <1>3, <1>4, <1>5, <1>6, <1>7 DEF Next, Arrive

\* A launch that has written its row never gets back to where it had not.
LEMMA FreshOrigin ==
  ASSUME ReqInv, NEW r \in Requests, Serve(r), Fresh(req'[r])
  PROVE  Fresh(req[r])
<1>0. /\ req[r] \in Request
      /\ \A q : Become(r, q) => req'[r] = q
  BY DEF ReqInv, Become
<1>1. \A pc : Goto(r, pc) => req'[r].pc = pc
  BY <1>0 DEF Goto, Request
<1>2. ~Return(r)
  BY <1>0 DEF Return, Idle, Fresh
<1>3. ~Reconcile(r) /\ ~RecordHost(r)
  BY <1>1, <1>2 DEF Reconcile, RecordHost, Fresh
<1>4. req[r].op = "launch"
  BY OpKept DEF Fresh
<1>5. ~Release(r)
  BY <1>2, <1>4 DEF Release
<1>6. req[r].pc \notin {"reconcile", "record", "release"}
  BY <1>3, <1>5 DEF Serve, LookupDefault, ReadCidrs, InsertVpc, Activate, Rollback,
     EnsureLookup, EnsureDefine, EnsureStart, GetVpc, ReadIps, InsertLease,
     Persist, Rebind, CountInstances, DestroyNetwork, MarkDeleted, StatementFails
<1> QED
  BY <1>4, <1>6 DEF Fresh

\* A request is granted an address by inserting the allocation.
LEMMA GrantOrigin ==
  ASSUME ReqInv, [Next]_vars, NEW r \in Requests, req'[r].pc = "granted"
  PROVE  req'[r] = req[r] \/ LeaseOf(r)' \in allocs'
<1>0. /\ req[r] \in Request
      /\ \A q : Become(r, q) => req'[r] = q
  BY DEF ReqInv, Become
<1>1. \A pc : Goto(r, pc) => pc = "granted"
  BY <1>0 DEF Goto, Request
<1>2. ~Return(r)
  BY <1>0 DEF Return, Idle
<1>3. ~Ensured(r) /\ ~NotEnsured(r)
  BY <1>1, <1>2 DEF Ensured, NotEnsured
<1>4. CASE InsertLease(r)
  <2>1. Goto(r, "granted") /\ allocs' = allocs \cup {LeaseOf(r)}
    BY <1>2, <1>4 DEF InsertLease
  <2>2. LeaseOf(r)' = LeaseOf(r)
    BY <1>0, <2>1 DEF Goto, LeaseOf, Request
  <2> QED
    BY <2>1, <2>2
<1>5. CASE Serve(r)
  <2>1. ~(LookupDefault(r) \/ ReadCidrs(r) \/ InsertVpc(r) \/ GetVpc(r) \/ ReadIps(r))
    BY <1>0, <1>1, <1>2 DEF LookupDefault, ReadCidrs, InsertVpc, GetVpc, ReadIps, Request
  <2>2. ~(EnsureLookup(r) \/ EnsureDefine(r) \/ EnsureStart(r))
    BY <1>1, <1>2, <1>3 DEF EnsureLookup, EnsureDefine, EnsureStart
  <2>3. ~(Activate(r) \/ Rollback(r) \/ Persist(r) \/ Release(r)
          \/ Reconcile(r) \/ RecordHost(r) \/ Rebind(r))
    BY <1>1, <1>2 DEF Activate, Rollback, Persist, Release, Reconcile, RecordHost, Rebind
  <2>4. ~(CountInstances(r) \/ DestroyNetwork(r) \/ MarkDeleted(r) \/ StatementFails(r))
    BY <1>1, <1>2 DEF CountInstances, DestroyNetwork, MarkDeleted, StatementFails
  <2> QED
    BY <1>4, <1>5, <2>1, <2>2, <2>3, <2>4 DEF Serve
<1>6. CASE Arrive(r)
  BY <1>0, <1>6 DEF Arrive, StartLaunch, StartCreateVpc, StartDeleteVpc,
     StartTerminate, StartAssign, Idle
<1>7. CASE \E s \in Requests \ {r} : Arrive(s) \/ Serve(s)
  BY <1>7, OthersWait
<1>8. CASE Crash
  BY <1>8 DEF Crash, Idle
<1>9. CASE (\E i \in Instances : DeleteInstance(i) \/ WriteBack(i)) \/ UNCHANGED vars
  BY <1>9 DEF DeleteInstance, WriteBack, vars
<1> QED
  BY <1>5, <1>6, <1>7, <1>8, <1>9 DEF Next

\* A request records its host after it has written its row.
LEMMA RecordOrigin ==
  ASSUME TypeInv, [Next]_vars, NEW r \in Requests,
         req'[r].pc \in {"reconcile", "record"}
  PROVE  \/ req'[r] = req[r]
         \/ req'[r].inst = req[r].inst /\ req[r].pc = "reconcile"
         \/ /\ req'[r].inst = req[r].inst
            /\ insts'[req[r].inst].status = "active"
<1>0. Carries(req[r]) /\ ReqInv /\ insts \in [Instances -> InstRow]
  BY DEF TypeInv, TypeOK, ReqInv
<1>10. /\ req[r] \in Request
       /\ \A q : Become(r, q) => req'[r] = q
  BY <1>0 DEF ReqInv, Become
<1>1. \A pc : Goto(r, pc) => req'[r].pc = pc /\ req'[r].inst = req[r].inst
  BY <1>10 DEF Goto, Request
<1>2. ~Return(r)
  BY <1>10 DEF Return, Idle
<1>3. ~Ensured(r) /\ ~NotEnsured(r)
  BY <1>1, <1>2 DEF Ensured, NotEnsured
<1>4. CASE Persist(r)
  <2>1. /\ insts' = [insts EXCEPT ![req[r].inst] =
                     [status |-> "active", vpc |-> req[r].vpc, ip |-> req[r].num]]
        /\ req'[r].inst = req[r].inst
    BY <1>1, <1>2, <1>4 DEF Persist
  <2>2. req[r].inst \in Instances
    BY <1>0, <1>4 DEF Persist, Carries
  <2>3. insts'[req[r].inst] =
          [status |-> "active", vpc |-> req[r].vpc, ip |-> req[r].num]
    BY <1>0, <2>1, <2>2
  <2> QED
    BY <2>1, <2>3
<1>5. CASE Serve(r)
  <2>1. ~(LookupDefault(r) \/ ReadCidrs(r) \/ InsertVpc(r) \/ GetVpc(r) \/ ReadIps(r))
    <3>0. ~Goto(r, "cidrs")
      BY <1>1
    <3>1. ~LookupDefault(r) /\ ~ReadCidrs(r)
      <4>1. ~ReadCidrs(r)
        BY <1>10, <1>2 DEF ReadCidrs, Request
      <4>2. ~LookupDefault(r)
        BY <1>10, <3>0 DEF LookupDefault, Request
      <4> QED
        BY <4>1, <4>2
    <3>2. ~(InsertVpc(r) \/ GetVpc(r))
      BY <1>10, <1>2 DEF InsertVpc, GetVpc, Request
    <3>3. ~ReadIps(r)
      BY <1>10, <1>2 DEF ReadIps, Request
    <3> QED
      BY <3>1, <3>2, <3>3
  <2>2. ~(EnsureLookup(r) \/ EnsureDefine(r) \/ EnsureStart(r))
    BY <1>1, <1>2, <1>3 DEF EnsureLookup, EnsureDefine, EnsureStart
  <2>3. ~(Activate(r) \/ Rollback(r) \/ Release(r) \/ InsertLease(r)
          \/ RecordHost(r) \/ Rebind(r))
    BY <1>1, <1>2 DEF Activate, Rollback, Release, InsertLease, RecordHost, Rebind
  <2>4. ~(CountInstances(r) \/ DestroyNetwork(r) \/ MarkDeleted(r) \/ StatementFails(r))
    BY <1>1, <1>2 DEF CountInstances, DestroyNetwork, MarkDeleted, StatementFails
  <2>5. Reconcile(r) => req'[r].inst = req[r].inst /\ req[r].pc = "reconcile"
    BY <1>1 DEF Reconcile
  <2> QED
    BY <1>4, <1>5, <2>1, <2>2, <2>3, <2>4, <2>5 DEF Serve
<1>6. CASE Arrive(r)
  <2>1. ~(StartLaunch(r) \/ StartCreateVpc(r))
    BY <1>10 DEF StartLaunch, StartCreateVpc, Idle
  <2>2. ~(StartDeleteVpc(r) \/ StartTerminate(r) \/ StartAssign(r))
    BY <1>10 DEF StartDeleteVpc, StartTerminate, StartAssign, Idle
  <2> QED
    BY <1>6, <2>1, <2>2 DEF Arrive
<1>7. CASE \E s \in Requests \ {r} : Arrive(s) \/ Serve(s)
  BY <1>0, <1>7, OthersWait
<1>8. CASE Crash
  BY <1>8 DEF Crash, Idle
<1>9. CASE (\E i \in Instances : DeleteInstance(i) \/ WriteBack(i)) \/ UNCHANGED vars
  BY <1>9 DEF DeleteInstance, WriteBack, vars
<1> QED
  BY <1>5, <1>6, <1>7, <1>8, <1>9 DEF Next

\* The instance of a launch that holds a granted address is not the instance of
\* any release.
LEMMA ReleasedElsewhere ==
  ASSUME TypeInv, Owned, NEW r \in Requests, NEW s \in Requests,
         req[s].pc = "release", req[r].op = "launch", req[r].pc = "granted"
  PROVE  req[s].inst # req[r].inst
<1>1. insts[req[r].inst].status = "none" /\ r # s
  BY DEF Owned, Fresh
<1>2. CASE req[s].op = "launch"
  BY <1>1, <1>2 DEF Owned
<1>3. CASE req[s].op \in {"terminate", "assign"}
  BY <1>1, <1>3 DEF Owned
<1> QED
  BY <1>2, <1>3 DEF TypeInv, Carries

LEMMA OwnedNext == TypeInv /\ Owned /\ [Next]_vars => Owned'
<1> SUFFICES ASSUME TypeInv, Owned, [Next]_vars PROVE Owned'
  OBVIOUS
<1>0. /\ ReqInv /\ TypeInv'
      /\ \A r \in Requests : Carries(req[r]) /\ Carries(req'[r])
  BY TypeInvNext DEF TypeInv, TypeOK, ReqInv
<1>1. ASSUME NEW i \in Instances, insts'[i].status # "none" PROVE i \in minted'
  <2>1. i \in minted
    <3>1. CASE insts[i].status # "none"
      BY <3>1 DEF Owned
    <3>2. ASSUME NEW r \in Requests, req[r].op = "launch", req[r].inst = i
          PROVE  i \in minted
      BY <3>2 DEF Owned
    <3>3. CASE insts'[i] = insts[i]
      BY <1>1, <3>1, <3>3
    <3>4. CASE \E r \in Requests : Inserted(i, r)
      BY <3>2, <3>4 DEF Inserted
    <3>5. Wrote(i)
      BY InstsStep
    <3> QED
      BY <3>1, <3>3, <3>4, <3>5 DEF Wrote
  <2> QED
    BY <2>1, MintedGrows
<1>2. ASSUME NEW r \in Requests, req'[r].op = "launch" PROVE req'[r].inst \in minted'
  <2>1. CASE req'[r].op = req[r].op /\ req'[r].inst = req[r].inst
    BY <1>2, <2>1, MintedGrows DEF Owned
  <2> QED
    BY <1>0, <1>2, <2>1, OpOrigin
<1>3. ASSUME NEW r \in Requests, Fresh(req'[r])
      PROVE  insts'[req'[r].inst].status = "none"
  <2>0. req'[r].op = "launch" /\ req'[r].pc \notin {"reconcile", "record", "release"}
    BY <1>3 DEF Fresh
  <2>1. CASE req'[r].op = req[r].op /\ req'[r].inst = req[r].inst
    <3> DEFINE i == req[r].inst
    <3>1. i \in Instances
      BY <1>0, <2>0, <2>1 DEF Carries
    <3>2. CASE Fresh(req[r])
      <4>1. insts[i].status = "none"
        BY <3>2 DEF Owned
      <4>2. ASSUME NEW s \in Requests, req[s].pc = "granted", req[s].op = "launch",
                   req[s].inst = i, req'[s].pc = "reconcile"
            PROVE  FALSE
        BY <2>0, <2>1, <4>2 DEF Owned
      <4>3. insts'[i] = insts[i]
        <5>1. Wrote(i)
          BY <3>1, InstsStep
        <5>2. ~\E s \in Requests : Inserted(i, s)
          BY <4>2 DEF Inserted
        <5> QED
          BY <4>1, <5>1, <5>2 DEF Wrote
      <4> QED
        BY <2>1, <4>1, <4>3
    <3>3. CASE ~Fresh(req[r])
      <4>1. req[r].pc \in {"reconcile", "record", "release"} /\ req[r].op = "launch"
        BY <2>0, <2>1, <3>3 DEF Fresh
      <4>2. ~Serve(r)
        BY <1>0, <1>3, <3>3, FreshOrigin
      <4>3. req'[r] # req[r]
        BY <2>0, <4>1
      <4>4. ~Arrive(r)
        BY <4>1 DEF Arrive, StartLaunch, StartCreateVpc, StartDeleteVpc,
           StartTerminate, StartAssign
      <4>5. ~(\E s \in Requests \ {r} : Arrive(s) \/ Serve(s))
        BY <1>0, <4>3, OthersWait
      <4>6. ~Crash
        BY <2>0 DEF Crash, Idle
      <4>7. ~(\E j \in Instances : DeleteInstance(j) \/ WriteBack(j)) /\ ~UNCHANGED vars
        BY <4>3 DEF DeleteInstance, WriteBack, vars
      <4> QED
        BY <4>2, <4>4, <4>5, <4>6, <4>7 DEF Next
    <3> QED
      BY <3>2, <3>3
  <2>2. CASE /\ req'[r].inst \in Instances \ minted
             /\ UNCHANGED insts
    BY <2>2 DEF Owned
  <2> QED
    BY <1>0, <2>0, <2>1, <2>2, OpOrigin
<1>4. ASSUME NEW i \in Instances, insts[i].status # "none"
      PROVE  insts'[i].status # "none"
  <2>1. CASE insts'[i] = insts[i]
    BY <1>4, <2>1
  <2>2. ASSUME NEW r \in Requests,
               insts'[i] = [status |-> "active", vpc |-> req[r].vpc, ip |-> req[r].num]
        PROVE  insts'[i].status # "none"
    BY <2>2
  <2>3. Wrote(i)
    BY InstsStep
  <2> QED
    BY <2>1, <2>2, <2>3 DEF Wrote, Inserted
<1>5. ASSUME NEW r \in Requests, req'[r].op \in {"terminate", "assign"}
      PROVE  insts'[req'[r].inst].status # "none"
  <2>1. CASE req'[r].op = req[r].op /\ req'[r].inst = req[r].inst
    BY <1>0, <1>4, <1>5, <2>1 DEF Owned, Carries
  <2>2. CASE req'[r].inst \in Instances /\ insts[req'[r].inst].status = "active"
    BY <1>4, <2>2
  <2> QED
    BY <1>0, <1>5, <2>1, <2>2, OpOrigin
<1>6. ASSUME NEW r \in Requests, req'[r].pc \in {"reconcile", "record"}
      PROVE  insts'[req'[r].inst].status # "none"
  <2>1. req'[r].inst \in Instances
    BY <1>0, <1>6 DEF Carries
  <2>2. CASE req'[r] = req[r]
    BY <1>4, <1>6, <2>1, <2>2 DEF Owned
  <2>3. CASE req'[r].inst = req[r].inst /\ req[r].pc = "reconcile"
    BY <1>4, <2>1, <2>3 DEF Owned
  <2> QED
    BY <1>6, <2>1, <2>2, <2>3, RecordOrigin
<1>7. ASSUME NEW r \in Requests, req'[r].pc = "granted", req'[r].op = "launch"
      PROVE  LeaseOf(r)' \in allocs'
  <2>1. CASE req'[r] = req[r]
    <3>1. LeaseOf(r)' = LeaseOf(r) /\ LeaseOf(r) \in allocs /\ LeaseOf(r).inst = req[r].inst
      BY <1>7, <2>1 DEF LeaseOf, Owned
    <3>2. ASSUME NEW s \in Requests, Release(s), allocs' = allocs \ LeasesOf(req[s].inst)
          PROVE  LeaseOf(r) \in allocs'
      <4>1. req[s].inst # req[r].inst
        BY <1>7, <2>1, <3>2, ReleasedElsewhere DEF Release
      <4> QED
        BY <3>1, <3>2, <4>1 DEF LeasesOf
    <3> QED
      BY <3>1, <3>2, AllocsStep
  <2> QED
    BY <1>0, <1>7, <2>1, GrantOrigin
<1>8. ASSUME NEW r \in Requests, NEW s \in Requests, r # s,
             req'[r].op = "launch", req'[s].op = "launch"
      PROVE  req'[r].inst # req'[s].inst
  <2>0. "launch" \notin {"terminate", "assign"}
    OBVIOUS
  <2>1. \/ req'[r].op = req[r].op /\ req'[r].inst = req[r].inst
        \/ req'[r].inst \in Instances \ minted
    BY <1>0, <1>8, <2>0, OpOrigin
  <2>2. \/ req'[s].op = req[s].op /\ req'[s].inst = req[s].inst
        \/ req'[s].inst \in Instances \ minted
    BY <1>0, <1>8, <2>0, OpOrigin
  <2> QED
    BY <1>0, <1>8, <2>1, <2>2, OneMoves DEF Owned, Idle
<1> QED
  BY <1>1, <1>2, <1>3, <1>5, <1>6, <1>7, <1>8 DEF Owned

----------------------------------------------------------------------------
(* The theorems.                                                           *)

LEMMA IInvInit == Init => IInv
<1> SUFFICES ASSUME Init PROVE IInv
  OBVIOUS
<1>1. TypeInv
  BY TypeInvInit
<1>2. OnRows /\ Owned
  BY DEF Init, OnRows, Owned, Fresh, Idle
<1>3. VpcKeys /\ LeaseKeys /\ LeasesOnRows
  BY DEF Init, VpcKeys, LeaseKeys, LeasesOnRows, OneLiveDefault, LiveDefault, Live, Row, NoRow
<1> QED
  BY <1>1, <1>2, <1>3 DEF IInv

LEMMA IInvNext == IInv /\ [Next]_vars => IInv'
BY TypeInvNext, OnRowsNext, VpcKeysNext, LeaseKeysNext, LeasesOnRowsNext, OwnedNext
DEF IInv

LEMMA Invariance == Spec => []IInv
BY IInvInit, IInvNext, PTL DEF Spec

\* No two networks of the host share a block or a bridge.
THEOREM HostNetworksAreDisjoint == Spec => []HostNetworksDisjoint
<1>1. IInv => HostNetworksDisjoint
  BY DEF IInv, OnRows, VpcKeys, HostNetworksDisjoint
<1> QED
  BY <1>1, Invariance, PTL

\* A tenant never has two live default VPCs.
THEOREM OneDefaultPerTenant == Spec => []OneLiveDefault
<1>1. IInv => OneLiveDefault
  BY DEF IInv, VpcKeys
<1> QED
  BY <1>1, Invariance, PTL

\* No two leases name the same address, across all VPCs, deleted ones included.
THEOREM AddressesAreApart == Spec => []AddressesDiffer
<1>1. IInv => AddressesDiffer
  <2> SUFFICES ASSUME IInv, NEW a \in allocs, NEW b \in allocs, a # b
               PROVE  vpcs[a.vpc].cidr # vpcs[b.vpc].cidr \/ a.ip # b.ip
    BY DEF AddressesDiffer
  <2>1. Row(a.vpc) /\ Row(b.vpc) /\ a.vpc \in VpcIds /\ b.vpc \in VpcIds
    BY DEF IInv, LeasesOnRows, TypeInv, TypeOK, Allocation
  <2>2. CASE a.vpc = b.vpc
    BY <2>2 DEF IInv, LeaseKeys
  <2>3. CASE a.vpc # b.vpc
    BY <2>1, <2>3 DEF IInv, VpcKeys
  <2> QED
    BY <2>2, <2>3
<1> QED
  BY <1>1, Invariance, PTL

\* An instance's row is created with an address allocated to that instance.
THEOREM LaunchesOwnTheirLease == Spec => LaunchedWithOwnLease
<1> DEFINE Launched == \A i \in Instances :
             insts[i].status = "none" /\ insts'[i].status = "active" =>
               [vpc |-> insts'[i].vpc, inst |-> i, ip |-> insts'[i].ip] \in allocs
<1>1. IInv /\ [Next]_vars => [Launched]_vars
  <2> SUFFICES ASSUME IInv, [Next]_vars, NEW i \in Instances,
                      insts[i].status = "none", insts'[i].status = "active"
               PROVE  [vpc |-> insts'[i].vpc, inst |-> i, ip |-> insts'[i].ip] \in allocs
    OBVIOUS
  <2>1. PICK r \in Requests :
          /\ req[r].pc = "granted" /\ req[r].op = "launch" /\ req[r].inst = i
          /\ insts'[i] = [status |-> "active", vpc |-> req[r].vpc, ip |-> req[r].num]
    BY InstsStep DEF IInv, Wrote, Inserted
  <2>2. LeaseOf(r) \in allocs
    BY <2>1 DEF IInv, Owned
  <2> QED
    BY <2>1, <2>2 DEF LeaseOf
<1> QED
  BY <1>1, Invariance, PTL DEF Spec, LaunchedWithOwnLease

\* A block, once given to a VPC, is never given to another.
THEOREM BlocksAreAssignedForGood == Spec => CidrAssignedForGood
<1>1. IInv /\ [Next]_vars =>
        [\A v \in VpcIds : Row(v) => vpcs'[v].cidr = vpcs[v].cidr
                                     /\ vpcs'[v].tenant = vpcs[v].tenant]_vars
  BY RowsStay DEF IInv
<1> QED
  BY <1>1, Invariance, PTL DEF Spec, CidrAssignedForGood

----------------------------------------------------------------------------
(* Refinement of the address plan.                                         *)

\* The claims change by the INSERT of a row with a block nobody holds, only.
LEMMA BlocksStep ==
  ASSUME TypeInv, OnRows, [Next]_vars
  PROVE  \/ Blocks' = Blocks
         \/ \E v \in VpcIds, c \in Cidrs :
              /\ \A b \in Blocks : b[1] # v /\ b[2] # c
              /\ Blocks' = Blocks \cup {<<v, c>>}
              /\ UNCHANGED allocs
<1>0. vpcs \in [VpcIds -> VpcRow] /\ ReqInv
  BY DEF TypeInv, TypeOK, ReqInv
<1>1. ASSUME \A v \in VpcIds : Row(v)' => Row(v)
      PROVE  Blocks' = Blocks
  <2>1. \A v \in VpcIds : Row(v) <=> Row(v)'
    BY <1>1, RowsStay
  <2>2. \A v \in VpcIds : Row(v) => vpcs'[v].cidr = vpcs[v].cidr
    BY RowsStay
  <2> QED
    BY <2>1, <2>2 DEF Blocks
<1>2. CASE UNCHANGED vpcs
  BY <1>2 DEF Blocks, Row
<1>3. ASSUME NEW r \in Requests, InsertVpc(r), ~UNCHANGED vpcs
      PROVE  \E v \in VpcIds, c \in Cidrs :
               /\ \A b \in Blocks : b[1] # v /\ b[2] # c
               /\ Blocks' = Blocks \cup {<<v, c>>}
               /\ UNCHANGED allocs
  <2> DEFINE c == req[r].num
  <2>1. c \in Cidrs
    BY <1>0, <1>3 DEF InsertVpc, TypeInv, Carries
  <2>2. PICK v \in VpcIds :
          /\ ~Row(v)
          /\ Unique(v, [status |-> "pending", tenant |-> req[r].tenant,
                        cidr |-> c, default |-> req[r].op = "launch"])
          /\ vpcs' = [vpcs EXCEPT ![v] =
                       [status |-> "pending", tenant |-> req[r].tenant,
                        cidr |-> c, default |-> req[r].op = "launch"]]
    BY <1>3 DEF InsertVpc
  <2>3. \A b \in Blocks : b[1] # v /\ b[2] # c
    BY <2>2 DEF Blocks, Unique
  <2>4. \A u \in VpcIds : u # v => vpcs'[u] = vpcs[u]
    BY <1>0, <2>2
  <2>5. vpcs'[v].cidr = c /\ vpcs'[v].status = "pending"
    BY <1>0, <2>2
  <2>6. Blocks' = Blocks \cup {<<v, c>>}
    BY <2>2, <2>4, <2>5 DEF Blocks, Row
  <2>7. UNCHANGED allocs
    BY <1>3 DEF InsertVpc
  <2> QED
    BY <2>1, <2>3, <2>6, <2>7
<1>4. ASSUME NEW r \in Requests, Activate(r) \/ Rollback(r) \/ MarkDeleted(r)
      PROVE  \A v \in VpcIds : Row(v)' => Row(v)
  <2>1. ASSUME NEW v \in VpcIds, ~Row(v), Row(v)' PROVE FALSE
    <3>1. Activate(r) \/ Rollback(r) => Row(req[r].vpc)
      BY DEF Activate, Rollback, OnRows
    <3> QED
      BY <1>0, <1>4, <2>1, <3>1 DEF Activate, Rollback, MarkDeleted, Row
  <2> QED
    BY <2>1
<1>5. ASSUME NEW r \in Requests, Serve(r)
      PROVE  \/ UNCHANGED vpcs \/ InsertVpc(r)
             \/ Activate(r) \/ Rollback(r) \/ MarkDeleted(r)
  BY <1>5 DEF Serve, LookupDefault, ReadCidrs, EnsureLookup, EnsureDefine,
     EnsureStart, GetVpc, ReadIps, InsertLease, Persist, Reconcile, RecordHost,
     Rebind, Release, CountInstances, DestroyNetwork, StatementFails
<1>6. ASSUME NEW r \in Requests, Arrive(r) PROVE UNCHANGED vpcs
  BY <1>6 DEF Arrive, StartLaunch, StartCreateVpc, StartDeleteVpc, StartTerminate,
     StartAssign
<1>7. ASSUME NEW i \in Instances, DeleteInstance(i) \/ WriteBack(i)
      PROVE  UNCHANGED vpcs
  BY <1>7 DEF DeleteInstance, WriteBack
<1>8. CASE Crash \/ UNCHANGED vars
  BY <1>2, <1>8 DEF Crash, vars
<1> QED
  BY <1>1, <1>2, <1>3, <1>4, <1>5, <1>6, <1>7, <1>8 DEF Next

\* Every step of the statements is a claim, a lease, a release or nothing.
LEMMA PlanStep == IInv /\ [Next]_vars => [Plan!Next]_(Plan!plan)
<1> SUFFICES ASSUME TypeInv, OnRows, [Next]_vars PROVE [Plan!Next]_(Plan!plan)
  BY DEF IInv
<1> DEFINE Step == Plan!Next \/ (Blocks' = Blocks /\ allocs' = allocs)
<1> SUFFICES Step
  BY DEF Plan!plan
<1>1. ASSUME NEW r \in Requests, InsertLease(r), UniqueLease(LeaseOf(r)),
             allocs' = allocs \cup {LeaseOf(r)}
      PROVE  Step
  <2>1. /\ req[r].vpc \in VpcIds /\ req[r].inst \in Instances /\ req[r].num \in IPs
        /\ Row(req[r].vpc)
    BY <1>1 DEF InsertLease, TypeInv, Carries, OnRows
  <2>2. \E b \in Blocks : b[1] = req[r].vpc
    <3>1. <<req[r].vpc, vpcs[req[r].vpc].cidr>> \in Blocks
      BY <2>1 DEF Blocks
    <3> QED
      BY <3>1
  <2>3. UNCHANGED Blocks
    BY <1>1 DEF InsertLease, Blocks, Row
  <2>4. \A a \in allocs : a.inst # req[r].inst
                          /\ (a.vpc = req[r].vpc => a.ip # req[r].num)
    BY <1>1 DEF UniqueLease, LeaseOf
  <2>5. Plan!Lease(req[r].vpc, req[r].inst, req[r].num)
    BY <1>1, <2>2, <2>3, <2>4 DEF Plan!Lease, LeaseOf
  <2> QED
    BY <2>1, <2>5 DEF Plan!Next
<1>2. ASSUME NEW r \in Requests, Release(r), allocs' = allocs \ LeasesOf(req[r].inst)
      PROVE  Step
  <2>1. req[r].inst \in Instances
    BY <1>2 DEF Release, TypeInv, Carries
  <2>2. UNCHANGED Blocks
    BY <1>2 DEF Release, Blocks, Row
  <2>3. allocs' = {a \in allocs : a.inst # req[r].inst}
    BY <1>2 DEF LeasesOf
  <2> QED
    BY <2>1, <2>2, <2>3 DEF Plan!Release, Plan!Next
<1>3. CASE UNCHANGED allocs
  <2>1. ASSUME NEW v \in VpcIds, NEW c \in Cidrs,
               \A b \in Blocks : b[1] # v /\ b[2] # c,
               Blocks' = Blocks \cup {<<v, c>>}
        PROVE  Step
    BY <1>3, <2>1 DEF Plan!Claim, Plan!Next
  <2> QED
    BY <1>3, <2>1, BlocksStep
<1> QED
  BY <1>1, <1>2, <1>3, AllocsStep

\* The statements, libvirt calls, failures and crashes of the requests implement
\* the atomic address plan.
THEOREM RefinesAddressPlan == Spec => ImplementsAddressPlan
<1>1. Init => Plan!Init
  BY DEF Init, Plan!Init, Blocks, Row, NoRow
<1> QED
  BY <1>1, PlanStep, Invariance, PTL DEF Spec, ImplementsAddressPlan, Plan!Spec

----------------------------------------------------------------------------
(* Blocks and addresses (module Cidr): the loops find what Vpc chooses.    *)

USE OctetAssumption

\* What is before the counters has been tried, and was used.
Tried == \A n \in 1..Ordinal(<<second, third>>) - 1 : n \in UsedOrdinals
TriedHosts == \A n \in FirstHost..last - 1 : n \in usedIPs

CidrInv ==
  /\ CidrTyped /\ Tried /\ TriedHosts /\ FirstHost <= last
  /\ search = "query" => second = 0 /\ third = 1
  /\ lookup = "query" => last = FirstHost
  /\ second > MaxSecond => third = 1
  /\ search = "found" => <<second, third>> \in Candidates \ usedCIDRs
  /\ search = "full" => second = MaxSecond + 1
  /\ lookup = "found" => last \in FreeHosts
  /\ lookup = "full" => last > LastHost

\* A row of blocks ends where the next begins.
LEMMA NextRow ==
  ASSUME NEW s \in Nat PROVE (s + 1) * MaxThird = s * MaxThird + MaxThird
OBVIOUS

LEMMA RowsInOrder ==
  ASSUME NEW s \in Nat, NEW u \in Nat, s < u
  PROVE  s * MaxThird + MaxThird <= u * MaxThird
<1>1. u - (s + 1) \in Nat
  OBVIOUS
<1>2. (u - (s + 1)) * MaxThird \in Nat
  BY <1>1
<1>3. u * MaxThird = (s + 1) * MaxThird + (u - (s + 1)) * MaxThird
  OBVIOUS
<1> QED
  BY <1>2, <1>3, NextRow

LEMMA OrdinalsDiffer ==
  ASSUME NEW b \in Candidates, NEW c \in Candidates, Ordinal(b) = Ordinal(c)
  PROVE  b = c
<1> DEFINE x == b[1] * MaxThird  y == c[1] * MaxThird
<1>1. /\ b = <<b[1], b[2]>> /\ b[1] \in Nat /\ b[2] \in 1..MaxThird
      /\ c = <<c[1], c[2]>> /\ c[1] \in Nat /\ c[2] \in 1..MaxThird
  BY DEF Candidates
<1>2. x \in Nat /\ y \in Nat
  BY <1>1
<1>3. x + b[2] = y + c[2]
  BY DEF Ordinal
<1>4. b[1] < c[1] => x + MaxThird <= y
  BY <1>1, RowsInOrder
<1>5. c[1] < b[1] => y + MaxThird <= x
  BY <1>1, RowsInOrder
<1> HIDE DEF x, y
<1>6. ~(b[1] < c[1]) /\ ~(c[1] < b[1])
  BY <1>1, <1>2, <1>3, <1>4, <1>5
<1>7. b[1] = c[1]
  BY <1>1, <1>6
<1>8. b[2] = c[2]
  <2>1. x = y
    BY <1>7 DEF x, y
  <2> QED
    BY <1>1, <1>2, <1>3, <2>1
<1> QED
  BY <1>1, <1>7, <1>8

LEMMA OrdinalsBounded ==
  ASSUME NEW b \in Candidates PROVE Ordinal(b) \in 1..NumBlocks
<1>1. b[1] \in 0..MaxSecond /\ b[2] \in 1..MaxThird
  BY DEF Candidates
<1>2. b[1] * MaxThird + MaxThird <= (MaxSecond + 1) * MaxThird
  BY <1>1, RowsInOrder
<1>3. b[1] * MaxThird \in Nat /\ (MaxSecond + 1) * MaxThird \in Nat
  BY <1>1
<1> DEFINE x == b[1] * MaxThird  n == (MaxSecond + 1) * MaxThird
<1>4. x + MaxThird <= n /\ x \in Nat /\ n \in Nat
  BY <1>2, <1>3
<1> HIDE DEF x, n
<1>5. x + b[2] \in 1..n
  BY <1>1, <1>4
<1> QED
  BY <1>5 DEF x, n, Ordinal, NumBlocks

LEMMA CidrInitInv == CidrInit => CidrInv
<1> SUFFICES ASSUME CidrInit PROVE CidrInv
  OBVIOUS
<1>1. CidrTyped
  BY DEF CidrInit, CidrTyped, Phase
<1>2. Ordinal(<<second, third>>) = 1
  BY DEF CidrInit, Ordinal
<1> QED
  BY <1>1, <1>2 DEF CidrInit, CidrInv, Tried, TriedHosts

LEMMA QueryBlocksInv ==
  ASSUME CidrInv, QueryBlocks, UNCHANGED addressVars PROVE CidrInv'
<1>1. CidrTyped'
  BY DEF CidrInv, CidrTyped, QueryBlocks, addressVars, Phase
<1>2. second = 0 /\ third = 1
  BY DEF CidrInv, QueryBlocks
<1>3. Tried'
  BY <1>2 DEF QueryBlocks, Tried, Ordinal
<1> QED
  BY <1>1, <1>2, <1>3 DEF CidrInv, QueryBlocks, addressVars, TriedHosts, FreeHosts

LEMMA TryBlockInv == ASSUME CidrInv, TryBlock, UNCHANGED addressVars PROVE CidrInv'
<1>1. CidrTyped'
  BY DEF CidrInv, CidrTyped, TryBlock, addressVars, Phase
<1>2. UsedOrdinals' = UsedOrdinals
  BY DEF TryBlock, UsedOrdinals, Ordinal, Candidates
<1>3. second \in Nat /\ third \in Nat /\ second * MaxThird \in Nat
  BY DEF CidrInv, CidrTyped
<1>4. <<second, third>> \in Candidates
  BY DEF CidrInv, CidrTyped, TryBlock, Candidates
<1>5. Ordinal(<<second, third>>) = second * MaxThird + third
  BY DEF Ordinal
<1>6. CASE <<second, third>> \in usedCIDRs /\ third' = third + 1 /\ search' = "running"
  <2>1. Ordinal(<<second, third>>) \in UsedOrdinals
    BY <1>4, <1>6 DEF UsedOrdinals
  <2>2. Ordinal(<<second, third>>)' = Ordinal(<<second, third>>) + 1
    BY <1>3, <1>6 DEF Ordinal, TryBlock
  <2>3. Ordinal(<<second, third>>) \in Nat
    BY <1>3, <1>5
  <2>4. Tried'
    BY <1>2, <2>1, <2>2, <2>3 DEF CidrInv, Tried
  <2> QED
    BY <1>1, <1>6, <2>4
    DEF CidrInv, CidrTyped, TryBlock, addressVars, TriedHosts, FreeHosts
<1>7. CASE <<second, third>> \notin usedCIDRs /\ search' = "found" /\ third' = third
  <2>1. Tried'
    BY <1>2, <1>7 DEF CidrInv, Tried, TryBlock, Ordinal
  <2> QED
    BY <1>1, <1>4, <1>7, <2>1 DEF CidrInv, TryBlock, addressVars, TriedHosts, FreeHosts, Candidates
<1> QED
  BY <1>6, <1>7 DEF TryBlock

LEMMA NextSecondInv == ASSUME CidrInv, NextSecond, UNCHANGED addressVars PROVE CidrInv'
<1>1. CidrTyped'
  BY DEF CidrInv, CidrTyped, NextSecond, addressVars, Phase
<1>2. UsedOrdinals' = UsedOrdinals
  BY DEF NextSecond, UsedOrdinals, Ordinal, Candidates
<1>3. second \in Nat /\ third = MaxThird + 1
  BY DEF CidrInv, CidrTyped, NextSecond
<1>4. Ordinal(<<second, third>>)' = Ordinal(<<second, third>>)
  BY <1>3, NextRow DEF Ordinal, NextSecond
<1>5. Tried'
  BY <1>2, <1>4 DEF CidrInv, Tried
<1> QED
  BY <1>1, <1>5 DEF CidrInv, NextSecond, addressVars, TriedHosts, FreeHosts

LEMMA NoBlockInv == ASSUME CidrInv, NoBlock, UNCHANGED addressVars PROVE CidrInv'
<1>1. CidrTyped'
  BY DEF CidrInv, CidrTyped, NoBlock, addressVars, Phase
<1>2. Tried'
  BY DEF CidrInv, NoBlock, Tried, UsedOrdinals, Ordinal, Candidates
<1>3. second = MaxSecond + 1
  BY DEF CidrInv, CidrTyped, NoBlock
<1> QED
  BY <1>1, <1>2, <1>3 DEF CidrInv, NoBlock, addressVars, TriedHosts, FreeHosts

LEMMA AddressInv ==
  ASSUME CidrInv, SearchAddress, UNCHANGED blockVars PROVE CidrInv'
<1>1. CidrTyped'
  BY DEF CidrInv, CidrTyped, SearchAddress, QueryAddresses, TryAddress, NoAddress, blockVars, Phase
<1>2. Tried'
  BY DEF CidrInv, blockVars, Tried, UsedOrdinals, Ordinal, Candidates
<1>3. TriedHosts'
  BY DEF CidrInv, CidrTyped, SearchAddress, QueryAddresses, TryAddress, NoAddress, TriedHosts
<1>4. /\ FirstHost <= last'
      /\ lookup' = "query" => last' = FirstHost
      /\ lookup' = "found" => last' \in FreeHosts'
      /\ lookup' = "full" => last' > LastHost
  <2>1. last \in Nat /\ FirstHost <= last
    BY DEF CidrInv, CidrTyped
  <2> QED
  BY <2>1 DEF CidrInv, CidrTyped, SearchAddress, QueryAddresses, TryAddress, NoAddress, FreeHosts
<1> QED
  BY <1>1, <1>2, <1>3, <1>4 DEF CidrInv, blockVars, Candidates

LEMMA CidrInvariance == CidrSpec => []CidrInv
<1>1. CidrInv /\ [CidrNext]_cidrVars => CidrInv'
  <2> SUFFICES ASSUME CidrInv, [CidrNext]_cidrVars PROVE CidrInv'
    OBVIOUS
  <2>1. CASE UNCHANGED cidrVars
    BY <2>1 DEF CidrInv, CidrTyped, Tried, TriedHosts, FreeHosts, UsedOrdinals,
                Ordinal, Candidates, cidrVars, blockVars, addressVars
  <2> QED
    BY <2>1, QueryBlocksInv, TryBlockInv, NextSecondInv, NoBlockInv,
       AddressInv DEF CidrNext, SearchBlock
<1> QED
  BY <1>1, CidrInitInv, PTL DEF CidrSpec

LEMMA FoundIsFirst ==
  ASSUME CidrInv PROVE FindsFirstBlock /\ FindsFirstAddress
<1> DEFINE k == Ordinal(<<second, third>>)
<1>1. UsedOrdinals \subseteq 1..NumBlocks /\ NumBlocks \in Nat
  BY OrdinalsBounded DEF UsedOrdinals, NumBlocks
<1>2. ASSUME search = "found" PROVE Least(k, FreeBlocks)
  <2>1. <<second, third>> \in Candidates \ usedCIDRs
    BY <1>2 DEF CidrInv
  <2>2. k \in 1..NumBlocks
    BY <2>1, OrdinalsBounded
  <2>3. k \notin UsedOrdinals
    BY <2>1, OrdinalsDiffer DEF UsedOrdinals
  <2> HIDE DEF k
  <2>4. \A n \in 1..k - 1 : n \in UsedOrdinals
    BY DEF CidrInv, Tried, k
  <2> QED
    BY <1>1, <2>2, <2>3, <2>4 DEF Least, FreeBlocks
<1>3. ASSUME search = "full" PROVE FreeBlocks = {}
  <2>1. second = MaxSecond + 1 /\ third = 1
    BY <1>3 DEF CidrInv
  <2>2. k = NumBlocks + 1
    BY <2>1 DEF Ordinal, NumBlocks
  <2> HIDE DEF k
  <2>3. \A n \in 1..k - 1 : n \in UsedOrdinals
    BY DEF CidrInv, Tried, k
  <2> QED
    BY <1>1, <2>2, <2>3 DEF FreeBlocks
<1>4. FindsFirstAddress
  BY DEF CidrInv, CidrTyped, TriedHosts, FindsFirstAddress, FreeHosts, Least
<1> QED
  BY <1>2, <1>3, <1>4 DEF FindsFirstBlock

\* The counters of the loops stay in their bounds.
THEOREM LoopsTyped == CidrSpec => []CidrTyped
<1>1. CidrInv => CidrTyped
  BY DEF CidrInv
<1> QED
  BY <1>1, CidrInvariance, PTL

\* The nested loops find the first free block, and fail only when there is none.
THEOREM LoopsFindFirstBlock == CidrSpec => []FindsFirstBlock
BY CidrInvariance, FoundIsFirst, PTL

\* The loop over a subnet finds its first free address, and fails only when there
\* is none.
THEOREM LoopsFindFirstAddress == CidrSpec => []FindsFirstAddress
BY CidrInvariance, FoundIsFirst, PTL

\* The choices of ReadCidrs and ReadIps.
Answers ==
  /\ search = "found" => IsFirst(Ordinal(<<second, third>>), Cidrs \ UsedOrdinals)
  /\ search = "full" => Cidrs \subseteq UsedOrdinals
  /\ lookup = "found" => IsFirst(last, IPs \ usedIPs)
  /\ lookup = "full" => IPs \subseteq usedIPs

\* What the loops answer is what Vpc has ReadCidrs and ReadIps choose by one step,
\* when its numbers are those of the loops.
THEOREM VpcChoosesAsTheLoops ==
  ASSUME NumCidrs = NumBlocks, FirstIP = FirstHost, LastIP = LastHost
  PROVE  CidrSpec => []Answers
<1>1. FindsFirstBlock /\ FindsFirstAddress => Answers
  BY DEF FindsFirstBlock, FindsFirstAddress, Answers, IsFirst, Least, FreeBlocks,
         FreeHosts, Cidrs, IPs
<1> QED
  BY <1>1, LoopsFindFirstBlock, LoopsFindFirstAddress, PTL
=============================================================================
