--------------------------- MODULE InstanceProofs ---------------------------
(***************************************************************************)
(* Proofs about module Instance, for every number of instances, hosts and  *)
(* requests, and whether or not agents use their address as their id.      *)
(***************************************************************************)
EXTENDS Instance, TLAPS

----------------------------------------------------------------------------
(* The inductive invariant.                                                *)

\* The host ids a structure in memory, and a row, may hold.
Sees(i) == {None, launch[i].host}
RowSees(i) == Sees(i) \cup {IpOf[h] : h \in Hosts \cap {launch[i].host}}

LaunchInv(i) ==
  /\ launch[i].pc \in {"none", "select"} => launch[i].host = None
  /\ launch[i].pc = "persist" => launch[i].host # None
  /\ launch[i].pc \in {"reconcile", "abort", "bind", "record"}
       => rows[i].status # "none"
  /\ launch[i].pc = "record" => launch[i].copy.status # "none"
  /\ launch[i].copy.host \in Sees(i)

TaskInv(i) ==
  /\ task[i].pc # "none" => rows[i].status # "none"
  /\ task[i].pc \in {"save", "failed"} => task[i].copy.status # "none"
  /\ task[i].pc \in {"define", "create"} => task[i].remote # None
  /\ task[i].copy.host \in Sees(i) /\ task[i].remote \in Sees(i)

RowInv(i) ==
  /\ rows[i].status # "none" => launch[i].host # None /\ shared[i].status # "none"
  /\ rows[i].host \in RowSees(i) /\ shared[i].host \in Sees(i)

MachineInv(i) ==
  \A p \in Places :
    Exists(i, p) => p = launch[i].host /\ rows[i].status # "none"

\* A request works on an instance that has a row; it may work on the local
\* libvirt for want of an address, but then it never defines a machine.
RequestInv(q) ==
  q.pc # "idle" =>
    /\ q.inst \in Instances /\ q.op \in Ops
    /\ rows[q.inst].status # "none"
    /\ q.host \in RowSees(q.inst) /\ q.remote \in Sees(q.inst)
    /\ q.pc \in {"define", "create"} => q.remote # None
    /\ q.pc \in {"destroy", "undefine"} /\ q.op # "delete" => q.remote # None

InstanceInv(i) == LaunchInv(i) /\ TaskInv(i) /\ RowInv(i) /\ MachineInv(i)

IInv ==
  /\ TypeOK
  /\ \A i \in Instances : InstanceInv(i)
  /\ \A r \in Requests : RequestInv(req[r])

USE HostAssumption, OpsAssumption

----------------------------------------------------------------------------
(* Type correctness.                                                       *)

THEOREM InitTyped == Init => TypeOK
<1> SUFFICES ASSUME Init PROVE TypeOK
  OBVIOUS
<1>1. NoRow \in RowType /\ NoRow \in Structure
  BY DEF NoRow, RowType, Structure, Status, HostId
<1>2. Idle \in RequestType
  BY DEF Idle, RequestType, HostId
<1>3. launch \in [Instances -> LaunchType] /\ task \in [Instances -> TaskType]
  BY <1>1 DEF Init, LaunchType, TaskType
<1> QED
  BY <1>1, <1>2, <1>3 DEF Init, TypeOK, MachineState

LEMMA StructureIsRow == Structure \subseteq RowType
BY DEF Structure, RowType, HostId

LEMMA WriteTyped ==
  ASSUME rows \in [Instances -> RowType], NEW i \in Instances,
         NEW row \in RowType, Write(i, row)
  PROVE  rows' \in [Instances -> RowType]
BY DEF Write

LEMMA SetLaunchTyped ==
  ASSUME launch \in [Instances -> LaunchType], NEW i \in Instances,
         NEW l \in LaunchType, SetLaunch(i, l)
  PROVE  launch' \in [Instances -> LaunchType]
BY DEF SetLaunch

LEMMA SetTaskTyped ==
  ASSUME task \in [Instances -> TaskType], NEW i \in Instances,
         NEW t \in TaskType, SetTask(i, t)
  PROVE  task' \in [Instances -> TaskType]
BY DEF SetTask

LEMMA GoLaunchTyped ==
  ASSUME launch \in [Instances -> LaunchType], NEW i \in Instances,
         NEW pc \in {"none", "select", "persist", "unlease", "reconcile",
                     "abort", "bind", "record", "done"}, GoLaunch(i, pc)
  PROVE  launch' \in [Instances -> LaunchType]
<1>1. [launch[i] EXCEPT !.pc = pc] \in LaunchType
  BY DEF LaunchType
<1> QED
  BY <1>1, SetLaunchTyped DEF GoLaunch

LEMMA GoTaskTyped ==
  ASSUME task \in [Instances -> TaskType], NEW i \in Instances,
         NEW pc \in {"none", "resolve", "overlay", "transfer", "define",
                     "create", "finish", "save", "fail", "failed", "unlink",
                     "release", "done"}, GoTask(i, pc)
  PROVE  task' \in [Instances -> TaskType]
<1>1. [task[i] EXCEPT !.pc = pc] \in TaskType
  BY DEF TaskType
<1> QED
  BY <1>1, SetTaskTyped DEF GoTask

LEMMA MachineTyped ==
  ASSUME machines \in [Instances -> [Places -> MachineState]],
         NEW i \in Instances, NEW p \in Places, NEW s \in MachineState,
         SetMachine(i, p, s)
  PROVE  machines' \in [Instances -> [Places -> MachineState]]
BY DEF SetMachine

LEMMA BecomeTyped ==
  ASSUME req \in [Requests -> RequestType], NEW r \in Requests,
         NEW q \in RequestType, Become(r, q)
  PROVE  req' \in [Requests -> RequestType]
BY DEF Become

LEMMA ReturnTyped ==
  ASSUME req \in [Requests -> RequestType], NEW r \in Requests, Return(r)
  PROVE  req' \in [Requests -> RequestType]
<1>1. Idle \in RequestType
  BY DEF Idle, RequestType, HostId
<1> QED
  BY <1>1, BecomeTyped DEF Return

LEMMA GotoTyped ==
  ASSUME req \in [Requests -> RequestType], NEW r \in Requests,
         NEW pc \in {"shutdown", "wait", "boot", "destroy", "undefine",
                     "unlink", "mark", "release", "allocate", "transfer",
                     "define", "create", "save"}, Goto(r, pc)
  PROVE  req' \in [Requests -> RequestType]
<1>1. [req[r] EXCEPT !.pc = pc] \in RequestType
  BY DEF RequestType
<1> QED
  BY <1>1, BecomeTyped DEF Goto

LEMMA AtPlace ==
  ASSUME NEW h \in Hosts \cup {None}
  PROVE  At(h) \in Places
BY DEF At, Places

LEMMA VMTyped ==
  ASSUME machines \in [Instances -> [Places -> MachineState]],
         NEW i \in Instances, NEW p \in Places,
         \/ DefineVM(i, p) \/ StartVM(i, p) \/ UndefineVM(i, p)
         \/ FailToStartVM(i, p)
  PROVE  machines' \in [Instances -> [Places -> MachineState]]
BY MachineTyped DEF DefineVM, StartVM, UndefineVM, FailToStartVM, MachineState

LEMMA LaunchTyped ==
  ASSUME TypeOK, NEW i \in Instances, Allocate(i) \/ LaunchStep(i)
  PROVE  TypeOK'
<1> USE DEF TypeOK
<1>1. CASE Allocate(i)
  BY <1>1, GoLaunchTyped DEF Allocate
<1>2. CASE SelectHost(i)
  <2>1. ASSUME NEW h \in Hosts
        PROVE  [launch[i] EXCEPT !.pc = "persist", !.host = h] \in LaunchType
    <3>1. launch[i] \in LaunchType
      OBVIOUS
    <3> QED
      BY <3>1 DEF LaunchType
  <2> QED
    BY <1>2, <2>1, SetLaunchTyped, GoLaunchTyped DEF SelectHost
<1>3. CASE Persist(i)
  <2> DEFINE row == [status |-> "pending", host |-> None]
  <2>1. row \in Structure
    BY DEF Structure, Status
  <2>2. row \in RowType
    BY <2>1, StructureIsRow
  <2> HIDE DEF row
  <2>3. /\ rows' = rows \/ rows' = [rows EXCEPT ![i] = row]
        /\ shared' = shared \/ shared' = [shared EXCEPT ![i] = row]
    BY <1>3 DEF Persist, row
  <2>4. launch' \in [Instances -> LaunchType]
    BY <1>3, GoLaunchTyped DEF Persist
  <2>5. rows' \in [Instances -> RowType]
    BY <2>2, <2>3
  <2>6. shared' \in [Instances -> Structure]
    BY <2>1, <2>3
  <2>7. UNCHANGED <<leases, task, req, machines, disks>>
    BY <1>3 DEF Persist
  <2> QED
    BY <2>4, <2>5, <2>6, <2>7
<1>4. CASE Unlease(i)
  BY <1>4, GoLaunchTyped DEF Unlease, ReleaseLease
<1>5. CASE Reconcile(i)
  <2>1. task' = task \/ GoTask(i, "resolve")
    BY <1>5 DEF Reconcile
  <2>2. task' \in [Instances -> TaskType]
    BY <2>1, GoTaskTyped
  <2>3. launch' \in [Instances -> LaunchType]
    BY <1>5, GoLaunchTyped DEF Reconcile
  <2> QED
    BY <1>5, <2>2, <2>3 DEF Reconcile
<1>6. CASE Abort(i)
  <2>1. [status |-> "terminated", host |-> shared[i].host] \in RowType
    BY StructureIsRow DEF Structure, Status
  <2> QED
    BY <1>6, <2>1, GoLaunchTyped, WriteTyped DEF Abort
<1>7. CASE Bind(i)
  <2> DEFINE row == [status |-> shared[i].status, host |-> launch[i].host]
  <2>1. row \in Structure
    BY DEF Structure, LaunchType
  <2>2. launch[i].host \in Hosts \cup {None}
    BY DEF LaunchType
  <2>3. shared' \in [Instances -> Structure]
    BY <1>7, <2>2 DEF Bind, Structure
  <2> HIDE DEF row
  <2>4. [pc |-> "record", host |-> launch[i].host, copy |-> row] \in LaunchType
    BY <2>1, <2>2 DEF LaunchType
  <2>5. launch' \in [Instances -> LaunchType]
    BY <1>7, <2>4, SetLaunchTyped DEF Bind, row
  <2> QED
    BY <1>7, <2>3, <2>5 DEF Bind
<1>8. CASE Record(i)
  <2>1. launch[i].copy \in RowType
    BY StructureIsRow DEF LaunchType
  <2> QED
    BY <1>8, <2>1, GoLaunchTyped, WriteTyped DEF Record
<1> QED
  BY <1>1, <1>2, <1>3, <1>4, <1>5, <1>6, <1>7, <1>8 DEF LaunchStep

LEMMA SetStatusTyped ==
  ASSUME TypeOK, NEW i \in Instances, NEW s \in Status,
         NEW pc \in {"save", "failed"}, SetStatus(i, s, pc)
  PROVE  TypeOK'
<1> DEFINE row == [status |-> s, host |-> shared[i].host]
<1>1. row \in Structure
  BY DEF TypeOK, Structure
<1> HIDE DEF row
<1>2. shared' \in [Instances -> Structure]
  BY <1>1 DEF TypeOK, SetStatus, row
<1>3. [task[i] EXCEPT !.pc = pc, !.copy = row] \in TaskType
  <2>1. task[i] \in TaskType
    BY DEF TypeOK
  <2> QED
    BY <1>1, <2>1 DEF TaskType
<1>4. task' \in [Instances -> TaskType]
  BY <1>3, SetTaskTyped DEF TypeOK, SetStatus, row
<1> QED
  BY <1>2, <1>4 DEF TypeOK, SetStatus

LEMMA TaskTyped ==
  ASSUME TypeOK, NEW i \in Instances, TaskStep(i)
  PROVE  TypeOK'
<1> USE DEF TypeOK
<1>0. /\ task[i].remote \in Hosts \cup {None} /\ task[i].copy \in RowType
      /\ shared[i].host \in Hosts \cup {None}
  BY StructureIsRow DEF TaskType, Structure
<1>p. At(task[i].remote) \in Places /\ LocalHost \in Places /\ Hosts \subseteq Places
  BY <1>0, AtPlace DEF Places
<1>1. CASE ResolveHost(i)
  <2>1. ASSUME NEW h \in {None, shared[i].host}
        PROVE  [task[i] EXCEPT !.pc = "overlay", !.remote = h] \in TaskType
    <3>1. task[i] \in TaskType /\ h \in Hosts \cup {None}
      BY <1>0
    <3> QED
      BY <3>1 DEF TaskType
  <2> QED
    BY <1>1, <2>1, SetTaskTyped DEF ResolveHost
<1>2. CASE BuildOverlay(i)
  <2>1. task' \in [Instances -> TaskType]
    BY <1>2, GoTaskTyped DEF BuildOverlay
  <2> QED
    BY <1>2, <1>p, <2>1 DEF BuildOverlay
<1>3. CASE Transfer(i)
  <2>1. task' \in [Instances -> TaskType]
    BY <1>3, GoTaskTyped DEF Transfer
  <2>2. disks' \subseteq Instances \X Places
    BY <1>0, <1>3, <1>p DEF Transfer
  <2> QED
    BY <1>3, <2>1, <2>2 DEF Transfer
<1>4. CASE Define(i)
  BY <1>4, <1>p, GoTaskTyped, VMTyped DEF Define
<1>5. CASE Create(i)
  BY <1>5, <1>p, GoTaskTyped, VMTyped DEF Create
<1>6. CASE Finish(i) \/ Fail(i)
  BY <1>6, SetStatusTyped DEF Finish, Fail, Status
<1>7. CASE SaveTask(i)
  <2>1. task' \in [Instances -> TaskType]
    BY <1>7, GoTaskTyped DEF SaveTask
  <2> QED
    BY <1>0, <1>7, <2>1, WriteTyped DEF SaveTask
<1>8. CASE UnlinkOverlay(i)
  BY <1>8, GoTaskTyped DEF UnlinkOverlay, Unlink
<1>9. CASE ReleaseTask(i)
  BY <1>9, GoTaskTyped DEF ReleaseTask, ReleaseLease
<1> QED
  BY <1>1, <1>2, <1>3, <1>4, <1>5, <1>6, <1>7, <1>8, <1>9 DEF TaskStep

LEMMA ArriveTyped ==
  ASSUME TypeOK, NEW r \in Requests, Arrive(r)
  PROVE  TypeOK'
<1>1. PICK i \in Instances, op \in Ops, h \in Hosts \cup {None} :
        /\ rows[i].host \in Hosts
        /\ Become(r, [pc |-> FirstPc(op), op |-> op, inst |-> i,
                      host |-> IpOf[rows[i].host], remote |-> h])
  BY DEF Arrive
<1> DEFINE q == [pc |-> FirstPc(op), op |-> op, inst |-> i,
                 host |-> IpOf[rows[i].host], remote |-> h]
<1>2. FirstPc(op) \in {"boot", "destroy", "shutdown"}
  BY DEF FirstPc
<1>3. IpOf[rows[i].host] \in HostId
  BY <1>1 DEF HostId, Addresses
<1>4. q \in RequestType
  BY <1>2, <1>3 DEF RequestType
<1> HIDE DEF q
<1>5. req' \in [Requests -> RequestType]
  BY <1>1, <1>4, BecomeTyped DEF TypeOK, q
<1> QED
  BY <1>5 DEF TypeOK, Arrive

LEMMA ServeTyped ==
  ASSUME TypeOK, NEW r \in Requests, Serve(r) \/ WaitFails(r), req[r].inst \in Instances
  PROVE  TypeOK'
<1> USE DEF TypeOK
<1> DEFINE i == Inst(r)
<1>0. /\ req[r].remote \in Hosts \cup {None} /\ req[r].host \in HostId
      /\ req[r].op \in Ops \cup {"none"} /\ rows[i] \in RowType /\ i \in Instances
  BY DEF RequestType, Inst
<1>p. Place(r) \in Places
  BY <1>0, AtPlace DEF Place
<1> HIDE DEF i
<1>1. CASE Shutdown(r)
  BY <1>1, GotoTyped, ReturnTyped DEF Shutdown
<1>2. CASE Wait(r) \/ WaitFails(r)
  BY <1>2, GotoTyped, ReturnTyped DEF Wait, WaitFails
<1>3. CASE Boot(r)
  BY <1>0, <1>p, <1>3, GotoTyped, ReturnTyped, VMTyped DEF Boot, i
<1>4. CASE Save(r)
  <2> DEFINE host == IF req[r].op = "start" THEN rows[i].host ELSE req[r].host
  <2>1. [status |-> StatusAfter(req[r].op), host |-> host] \in RowType
    BY <1>0 DEF RowType, StatusAfter, Status
  <2> QED
    BY <1>0, <1>4, <2>1, ReturnTyped, WriteTyped DEF Save, i
<1>5. CASE Destroy(r)
  <2>1. machines' \in [Instances -> [Places -> MachineState]]
    BY <1>0, <1>p, <1>5, MachineTyped DEF Destroy, MachineState, i
  <2>2. req' \in [Requests -> RequestType]
    BY <1>5, GotoTyped, ReturnTyped DEF Destroy
  <2> QED
    BY <1>5, <2>1, <2>2 DEF Destroy
<1>6. CASE Undefine(r)
  <2>1. machines' \in [Instances -> [Places -> MachineState]]
    BY <1>0, <1>p, <1>6, VMTyped DEF Undefine, i
  <2>2. req' \in [Requests -> RequestType]
    BY <1>6, GotoTyped, ReturnTyped DEF Undefine
  <2> QED
    BY <1>6, <2>1, <2>2 DEF Undefine
<1>7. CASE UnlinkDisk(r)
  BY <1>7, GotoTyped DEF UnlinkDisk, Unlink
<1>8. CASE Mark(r)
  <2>1. [rows[i] EXCEPT !.status = "terminated"] \in RowType
    BY <1>0 DEF RowType, Status
  <2> QED
    BY <1>0, <1>8, <2>1, ReturnTyped, WriteTyped DEF Mark, i
<1>9. CASE Release(r)
  BY <1>9, GotoTyped DEF Release, ReleaseLease
<1>10. CASE Reallocate(r)
  BY <1>0, <1>10, GotoTyped, ReturnTyped DEF Reallocate, i
<1>11. CASE TransferIso(r)
  BY <1>11, GotoTyped, ReturnTyped DEF TransferIso
<1>12. CASE Redefine(r)
  BY <1>0, <1>p, <1>12, GotoTyped, ReturnTyped, VMTyped DEF Redefine, i
<1>13. CASE Recreate(r)
  BY <1>0, <1>p, <1>13, GotoTyped, ReturnTyped, VMTyped DEF Recreate, i
<1> QED
  BY <1>1, <1>2, <1>3, <1>4, <1>5, <1>6, <1>7, <1>8, <1>9, <1>10, <1>11, <1>12,
     <1>13 DEF Serve

LEMMA PowerOffTyped ==
  ASSUME TypeOK, NEW i \in Instances, NEW p \in Places, PowerOff(i, p)
  PROVE  TypeOK'
BY MachineTyped DEF TypeOK, PowerOff, MachineState

LEMMA CrashTyped == ASSUME TypeOK, Crash PROVE TypeOK'
<1>1. Idle \in RequestType
  BY DEF Idle, RequestType, HostId
<1>2. ASSUME NEW i \in Instances
      PROVE  /\ [launch[i] EXCEPT !.pc = "done"] \in LaunchType
             /\ [task[i] EXCEPT !.pc = "done"] \in TaskType
  <2>1. launch[i] \in LaunchType /\ task[i] \in TaskType
    BY DEF TypeOK
  <2> QED
    BY <2>1 DEF LaunchType, TaskType
<1> QED
  BY <1>1, <1>2 DEF TypeOK, Crash

----------------------------------------------------------------------------
(* What the building blocks of the actions do to the fields.               *)

LEMMA GoLaunchEffect ==
  ASSUME TypeOK, NEW i \in Instances, NEW pc, GoLaunch(i, pc)
  PROVE  /\ launch'[i].pc = pc /\ launch'[i].host = launch[i].host
         /\ launch'[i].copy = launch[i].copy
         /\ \A j \in Instances \ {i} : launch'[j] = launch[j]
<1>1. launch[i] \in LaunchType
  BY DEF TypeOK
<1> QED
  BY <1>1 DEF TypeOK, GoLaunch, SetLaunch, LaunchType

LEMMA GoTaskEffect ==
  ASSUME TypeOK, NEW i \in Instances, NEW pc, GoTask(i, pc)
  PROVE  /\ task'[i].pc = pc /\ task'[i].remote = task[i].remote
         /\ task'[i].copy = task[i].copy
         /\ \A j \in Instances \ {i} : task'[j] = task[j]
<1>1. task[i] \in TaskType
  BY DEF TypeOK
<1> QED
  BY <1>1 DEF TypeOK, GoTask, SetTask, TaskType

LEMMA WriteEffect ==
  ASSUME TypeOK, NEW i \in Instances, NEW row, Write(i, row)
  PROVE  /\ rows'[i] = rows[i] \/ rows'[i] = row
         /\ \A j \in Instances \ {i} : rows'[j] = rows[j]
BY DEF TypeOK, Write

LEMMA MachineEffect ==
  ASSUME TypeOK, NEW i \in Instances, NEW p \in Places, NEW s, SetMachine(i, p, s)
  PROVE  /\ machines'[i][p] = s
         /\ \A j \in Instances, q \in Places :
              j # i \/ q # p => machines'[j][q] = machines[j][q]
BY DEF TypeOK, SetMachine

LEMMA GotoEffect ==
  ASSUME TypeOK, NEW r \in Requests, NEW pc, Goto(r, pc)
  PROVE  /\ req'[r].pc = pc /\ req'[r].op = req[r].op
         /\ req'[r].inst = req[r].inst /\ req'[r].host = req[r].host
         /\ req'[r].remote = req[r].remote
         /\ \A s \in Requests \ {r} : req'[s] = req[s]
<1>1. req[r] \in RequestType
  BY DEF TypeOK
<1> QED
  BY <1>1 DEF TypeOK, Goto, Become, RequestType

LEMMA ReturnEffect ==
  ASSUME TypeOK, NEW r \in Requests, Return(r)
  PROVE  req'[r].pc = "idle" /\ \A s \in Requests \ {r} : req'[s] = req[s]
BY DEF TypeOK, Return, Become, Idle

\* Only creating, starting and ending a machine change whether it exists.
LEMMA VMEffect ==
  ASSUME TypeOK, NEW i \in Instances, NEW p \in Places
  PROVE  /\ StartVM(i, p) \/ UndefineVM(i, p) \/ FailToStartVM(i, p) =>
              \A j \in Instances, q \in Places : Exists(j, q)' => Exists(j, q)
         /\ DefineVM(i, p) =>
              \A j \in Instances, q \in Places :
                 Exists(j, q)' => Exists(j, q) \/ (j = i /\ q = p)
BY MachineEffect DEF StartVM, UndefineVM, FailToStartVM, DefineVM, Exists, Runs, Places

----------------------------------------------------------------------------
(* The invariant is inductive.                                             *)

THEOREM InitInv == Init => IInv
<1> SUFFICES ASSUME Init PROVE IInv
  OBVIOUS
<1>1. TypeOK
  BY InitTyped
<1>2. ASSUME NEW i \in Instances PROVE InstanceInv(i)
  BY DEF Init, InstanceInv, LaunchInv, TaskInv, RowInv, MachineInv, NoRow, Sees,
         RowSees, Exists
<1>3. ASSUME NEW r \in Requests PROVE RequestInv(req[r])
  BY DEF Init, RequestInv, Idle
<1> QED
  BY <1>1, <1>2, <1>3 DEF IInv

\* When no host is chosen and no row loses its status, requests stay sound.
LEMMA RequestsKept ==
  ASSUME IInv, UNCHANGED req,
         \A j \in Instances :
           /\ launch'[j].host = launch[j].host \/ launch[j].host = None
           /\ rows[j].status # "none" => rows'[j].status # "none"
  PROVE  \A r \in Requests : RequestInv(req[r])'
<1> SUFFICES ASSUME NEW r \in Requests, req[r].pc # "idle"
             PROVE  RequestInv(req[r])'
  BY DEF RequestInv
<1>1. RequestInv(req[r]) /\ InstanceInv(req[r].inst)
  BY DEF IInv, RequestInv
<1>2. launch'[req[r].inst].host = launch[req[r].inst].host
  BY <1>1 DEF RequestInv, InstanceInv, RowInv
<1> QED
  BY <1>1, <1>2 DEF RequestInv, Sees, RowSees

\* What a step leaves alone stays sound.
LEMMA InstanceKept ==
  ASSUME IInv, NEW j \in Instances,
         launch'[j] = launch[j], task'[j] = task[j], rows'[j] = rows[j],
         shared'[j] = shared[j], \A q \in Places : Exists(j, q)' => Exists(j, q)
  PROVE  InstanceInv(j)'
<1>1. InstanceInv(j)
  BY DEF IInv
<1> QED
  BY <1>1 DEF InstanceInv, LaunchInv, TaskInv, RowInv, MachineInv, Sees, RowSees

OthersKept(i) ==
  \A j \in Instances \ {i} :
    /\ launch'[j] = launch[j] /\ task'[j] = task[j]
    /\ rows'[j] = rows[j] /\ shared'[j] = shared[j]

\* A step of the goroutines of one instance keeps the invariant if it keeps its
\* part for that instance, the chosen host and the row.
LEMMA OneInstanceStep ==
  ASSUME IInv, TypeOK', NEW i \in Instances, InstanceInv(i)', OthersKept(i),
         UNCHANGED req,
         launch'[i].host = launch[i].host \/ launch[i].host = None,
         rows[i].status # "none" => rows'[i].status # "none",
         \/ UNCHANGED machines
         \/ \A j \in Instances \ {i}, q \in Places : Exists(j, q)' => Exists(j, q)
  PROVE  IInv'
<1>1. ASSUME NEW j \in Instances \ {i} PROVE InstanceInv(j)'
  <2>1. \A q \in Places : Exists(j, q)' => Exists(j, q)
    BY DEF Exists
  <2> QED
    BY <1>1, <2>1, InstanceKept DEF OthersKept
<1>2. \A r \in Requests : RequestInv(req[r])'
  BY RequestsKept DEF OthersKept
<1> QED
  BY <1>1, <1>2 DEF IInv

\* One step of CreateInstance.
LEMMA LaunchInvStep ==
  ASSUME IInv, NEW i \in Instances, Allocate(i) \/ LaunchStep(i)
  PROVE  IInv'
<1>t. TypeOK /\ TypeOK'
  BY LaunchTyped DEF IInv
<1>i. InstanceInv(i)
  BY DEF IInv
<1>h. /\ launch[i].host \in Hosts \cup {None} /\ launch[i] \in LaunchType
      /\ launch \in [Instances -> LaunchType] /\ rows \in [Instances -> RowType]
      /\ shared \in [Instances -> Structure] /\ shared[i] \in Structure
      /\ None \notin Hosts
  BY <1>t DEF TypeOK, LaunchType
<1> USE DEF OthersKept, InstanceInv, LaunchInv, TaskInv, RowInv, MachineInv, Sees, RowSees
<1>1. CASE Allocate(i)
  <2>1. /\ OthersKept(i) /\ UNCHANGED <<rows, shared, task, machines, req>>
        /\ launch'[i].pc \in {"select", "done"} /\ launch'[i].host = launch[i].host
        /\ launch'[i].copy = launch[i].copy
    BY <1>1, <1>t, GoLaunchEffect DEF Allocate
  <2>2. InstanceInv(i)'
    BY <1>1, <1>i, <2>1 DEF Allocate, Exists
  <2> HIDE DEF InstanceInv, OthersKept
  <2> QED
    BY <1>t, <2>1, <2>2, OneInstanceStep
<1>2. CASE SelectHost(i)
  <2>1. /\ OthersKept(i) /\ UNCHANGED <<rows, shared, task, machines, req>>
        /\ launch'[i].copy = launch[i].copy
        /\ \/ launch'[i].pc = "persist" /\ launch'[i].host \in Hosts
           \/ launch'[i].pc = "done" /\ launch'[i].host = launch[i].host
    <3>1. ASSUME NEW h \in Hosts,
                 SetLaunch(i, [launch[i] EXCEPT !.pc = "persist", !.host = h])
          PROVE  /\ \A j \in Instances \ {i} : launch'[j] = launch[j]
                 /\ launch'[i].pc = "persist" /\ launch'[i].host = h
                 /\ launch'[i].copy = launch[i].copy
      BY <1>h, <3>1 DEF SetLaunch, LaunchType
    <3> QED
      BY <1>2, <1>t, <3>1, GoLaunchEffect DEF SelectHost
  <2>2. launch[i].host = None
    BY <1>2, <1>i DEF SelectHost
  <2>3. InstanceInv(i)'
    BY <1>h, <1>i, <2>1, <2>2 DEF Exists
  <2> HIDE DEF InstanceInv, OthersKept
  <2> QED
    BY <1>t, <2>1, <2>2, <2>3, OneInstanceStep
<1>3. CASE Persist(i)
  <2>1. /\ OthersKept(i) /\ UNCHANGED <<task, machines, req>>
        /\ launch'[i].host = launch[i].host /\ launch'[i].copy = launch[i].copy
        /\ \/ /\ launch'[i].pc = "reconcile"
              /\ rows'[i] = [status |-> "pending", host |-> None]
              /\ shared'[i] = [status |-> "pending", host |-> None]
           \/ launch'[i].pc \in {"unlease", "done"} /\ UNCHANGED <<rows, shared>>
    BY <1>3, <1>t, <1>h, GoLaunchEffect DEF Persist
  <2>2. launch[i].host # None
    BY <1>3, <1>i DEF Persist
  <2>3. InstanceInv(i)'
    BY <1>h, <1>i, <2>1, <2>2 DEF Exists
  <2>4. \A j \in Instances : rows[j].status # "none" => rows'[j].status # "none"
    BY <2>1
  <2> HIDE DEF InstanceInv, OthersKept
  <2> QED
    BY <1>t, <2>1, <2>3, <2>4, OneInstanceStep
<1>4. CASE Unlease(i)
  <2>1. /\ OthersKept(i) /\ UNCHANGED <<rows, shared, task, machines, req>>
        /\ launch'[i].pc = "done" /\ launch'[i].host = launch[i].host
        /\ launch'[i].copy = launch[i].copy
    BY <1>4, <1>t, GoLaunchEffect DEF Unlease
  <2>2. InstanceInv(i)'
    BY <1>4, <1>i, <2>1 DEF Unlease, Exists
  <2> HIDE DEF InstanceInv, OthersKept
  <2> QED
    BY <1>t, <2>1, <2>2, OneInstanceStep
<1>5. CASE Reconcile(i)
  <2>1. /\ launch'[i].pc \in {"bind", "abort"} /\ launch'[i].host = launch[i].host
        /\ launch'[i].copy = launch[i].copy
        /\ task'[i].pc \in {"resolve", task[i].pc}
        /\ task'[i].remote = task[i].remote /\ task'[i].copy = task[i].copy
        /\ UNCHANGED <<rows, shared, machines, req>> /\ OthersKept(i)
    BY <1>5, <1>t, GoLaunchEffect, GoTaskEffect DEF Reconcile
  <2>2. InstanceInv(i)'
    BY <1>5, <1>i, <2>1 DEF Reconcile, Exists
  <2> HIDE DEF InstanceInv, OthersKept
  <2> QED
    BY <1>t, <2>1, <2>2, OneInstanceStep
<1>6. CASE Abort(i)
  <2>1. /\ OthersKept(i) /\ UNCHANGED <<shared, task, machines, req>>
        /\ launch'[i].pc = "unlease" /\ launch'[i].host = launch[i].host
        /\ launch'[i].copy = launch[i].copy
        /\ rows'[i] \in {rows[i], [status |-> "terminated", host |-> shared[i].host]}
    BY <1>6, <1>t, GoLaunchEffect, WriteEffect DEF Abort
  <2>2. rows[i].status # "none" /\ rows'[i].status # "none"
    BY <1>6, <1>i, <2>1 DEF Abort
  <2>3. InstanceInv(i)'
    BY <1>i, <2>1, <2>2 DEF Exists
  <2>4. \A j \in Instances : rows[j].status # "none" => rows'[j].status # "none"
    BY <2>1, <2>2
  <2> HIDE DEF InstanceInv, OthersKept
  <2> QED
    BY <1>t, <2>1, <2>3, <2>4, OneInstanceStep
<1>7. CASE Bind(i)
  <2>1. /\ OthersKept(i) /\ UNCHANGED <<rows, task, machines, req>>
        /\ launch'[i] = [pc |-> "record", host |-> launch[i].host,
             copy |-> [status |-> shared[i].status, host |-> launch[i].host]]
        /\ shared'[i].host = launch[i].host /\ shared'[i].status = shared[i].status
    BY <1>7, <1>h DEF Bind, SetLaunch, Structure
  <2>2. rows[i].status # "none"
    BY <1>7, <1>i DEF Bind
  <2>3. InstanceInv(i)'
    BY <1>i, <2>1, <2>2 DEF Exists
  <2>4. \A r \in Requests : RequestInv(req[r])'
    BY <2>1, RequestsKept DEF Exists
  <2> HIDE DEF InstanceInv, OthersKept
  <2> QED
    BY <1>t, <2>1, <2>3, <2>4, OneInstanceStep
<1>8. CASE Record(i)
  <2>1. /\ OthersKept(i) /\ UNCHANGED <<shared, task, machines, req>>
        /\ launch'[i].pc = "done" /\ launch'[i].host = launch[i].host
        /\ launch'[i].copy = launch[i].copy
        /\ rows'[i] \in {rows[i], launch[i].copy}
    BY <1>8, <1>t, GoLaunchEffect, WriteEffect DEF Record
  <2>2. rows[i].status # "none" /\ rows'[i].status # "none"
    BY <1>8, <1>i, <2>1 DEF Record
  <2>3. InstanceInv(i)'
    BY <1>i, <2>1, <2>2 DEF Exists
  <2>4. \A j \in Instances : rows[j].status # "none" => rows'[j].status # "none"
    BY <2>1, <2>2
  <2> HIDE DEF InstanceInv, OthersKept
  <2> QED
    BY <1>t, <2>1, <2>3, <2>4, OneInstanceStep
<1> QED
  BY <1>1, <1>2, <1>3, <1>4, <1>5, <1>6, <1>7, <1>8 DEF LaunchStep

\* One step of createVMAsync.
LEMMA TaskInvStep ==
  ASSUME IInv, NEW i \in Instances, TaskStep(i)
  PROVE  IInv'
<1>t. TypeOK /\ TypeOK'
  BY TaskTyped DEF IInv
<1>i. InstanceInv(i)
  BY DEF IInv
<1>h. /\ task[i].remote \in Hosts \cup {None} /\ task[i] \in TaskType
      /\ task \in [Instances -> TaskType] /\ shared \in [Instances -> Structure]
      /\ None \notin Hosts
  BY <1>t DEF TypeOK, TaskType
<1>p. At(task[i].remote) \in Places
  BY <1>h, AtPlace
<1> USE DEF OthersKept, InstanceInv, LaunchInv, TaskInv, RowInv, MachineInv, Sees, RowSees
<1>1. CASE ResolveHost(i)
  <2>1. PICK h \in {None, shared[i].host} :
          SetTask(i, [task[i] EXCEPT !.pc = "overlay", !.remote = h])
    BY <1>1 DEF ResolveHost
  <2>2. /\ OthersKept(i) /\ UNCHANGED <<launch, rows, shared, machines, req>>
        /\ task'[i].pc = "overlay" /\ task'[i].remote = h
        /\ task'[i].copy = task[i].copy
    BY <1>1, <1>h, <2>1 DEF ResolveHost, SetTask, TaskType
  <2>3. InstanceInv(i)'
    BY <1>1, <1>i, <2>2 DEF ResolveHost, Exists
  <2> HIDE DEF InstanceInv, OthersKept
  <2> QED
    BY <1>t, <2>2, <2>3, OneInstanceStep
<1>2. CASE BuildOverlay(i) \/ Transfer(i)
  <2>1. /\ OthersKept(i) /\ UNCHANGED <<launch, rows, shared, machines, req>>
        /\ task[i].pc # "none"
        /\ task'[i].pc \in {"transfer", "define", "fail"}
        /\ task'[i].remote = task[i].remote /\ task'[i].copy = task[i].copy
        /\ task'[i].pc = "define" => task[i].remote # None
    BY <1>2, <1>t, GoTaskEffect DEF BuildOverlay, Transfer
  <2>2. InstanceInv(i)'
    BY <1>i, <2>1 DEF Exists
  <2> HIDE DEF InstanceInv, OthersKept
  <2> QED
    BY <1>t, <2>1, <2>2, OneInstanceStep
<1>3. CASE Define(i)
  <2>1. /\ OthersKept(i) /\ UNCHANGED <<launch, rows, shared, req>>
        /\ task[i].pc # "none" /\ task[i].remote # None
        /\ task'[i].pc \in {"create", "fail"}
        /\ task'[i].remote = task[i].remote /\ task'[i].copy = task[i].copy
    BY <1>3, <1>i, <1>t, GoTaskEffect DEF Define
  <2>2. At(task[i].remote) = launch[i].host
    BY <1>i, <2>1 DEF At
  <2>3. \A j \in Instances, q \in Places :
          Exists(j, q)' => Exists(j, q) \/ (j = i /\ q = launch[i].host)
    BY <1>3, <1>p, <1>t, <2>2, VMEffect DEF Define, Exists
  <2>4. InstanceInv(i)'
    BY <1>i, <2>1, <2>3
  <2> HIDE DEF InstanceInv, OthersKept
  <2> QED
    BY <1>t, <2>1, <2>3, <2>4, OneInstanceStep
<1>4. CASE Create(i)
  <2>1. /\ OthersKept(i) /\ UNCHANGED <<launch, rows, shared, req>>
        /\ task[i].pc # "none" /\ task'[i].pc \in {"finish", "fail"}
        /\ task'[i].remote = task[i].remote /\ task'[i].copy = task[i].copy
    BY <1>4, <1>t, GoTaskEffect DEF Create
  <2>2. \A j \in Instances, q \in Places : Exists(j, q)' => Exists(j, q)
    BY <1>4, <1>p, <1>t, VMEffect DEF Create
  <2>3. InstanceInv(i)'
    BY <1>i, <2>1, <2>2
  <2> HIDE DEF InstanceInv, OthersKept
  <2> QED
    BY <1>t, <2>1, <2>2, <2>3, OneInstanceStep
<1>5. CASE Finish(i) \/ Fail(i)
  <2>1. PICK s \in {"running", "terminated"}, pc \in {"save", "failed"} :
          SetStatus(i, s, pc) /\ task[i].pc # "none"
    BY <1>5 DEF Finish, Fail
  <2> DEFINE row == [status |-> s, host |-> shared[i].host]
  <2>2. /\ OthersKept(i) /\ UNCHANGED <<launch, rows, machines, req>>
        /\ shared'[i] = row /\ task'[i].copy = row
        /\ task'[i].pc = pc /\ task'[i].remote = task[i].remote
    BY <1>h, <2>1 DEF SetStatus, SetTask, TaskType
  <2>3. row.status # "none" /\ row.host = shared[i].host
    OBVIOUS
  <2>4. InstanceInv(i)'
    BY <1>i, <2>1, <2>2, <2>3 DEF Exists
  <2> HIDE DEF InstanceInv, OthersKept
  <2> QED
    BY <1>t, <2>2, <2>4, OneInstanceStep
<1>6. CASE SaveTask(i)
  <2>1. /\ OthersKept(i) /\ UNCHANGED <<launch, shared, machines, req>>
        /\ task[i].pc \in {"save", "failed"} /\ task'[i].pc \in {"done", "unlink"}
        /\ task'[i].remote = task[i].remote /\ task'[i].copy = task[i].copy
        /\ rows'[i] \in {rows[i], task[i].copy}
    BY <1>6, <1>t, GoTaskEffect, WriteEffect DEF SaveTask
  <2>2. rows[i].status # "none" /\ rows'[i].status # "none"
    BY <1>i, <2>1
  <2>3. InstanceInv(i)'
    BY <1>i, <2>1, <2>2 DEF Exists
  <2>4. \A j \in Instances : rows[j].status # "none" => rows'[j].status # "none"
    BY <2>1, <2>2
  <2> HIDE DEF InstanceInv, OthersKept
  <2> QED
    BY <1>t, <2>1, <2>3, <2>4, OneInstanceStep
<1>7. CASE UnlinkOverlay(i) \/ ReleaseTask(i)
  <2>1. /\ OthersKept(i) /\ UNCHANGED <<launch, rows, shared, machines, req>>
        /\ task[i].pc # "none" /\ task'[i].pc \in {"release", "done"}
        /\ task'[i].remote = task[i].remote /\ task'[i].copy = task[i].copy
    BY <1>7, <1>t, GoTaskEffect DEF UnlinkOverlay, ReleaseTask
  <2>2. InstanceInv(i)'
    BY <1>i, <2>1 DEF Exists
  <2> HIDE DEF InstanceInv, OthersKept
  <2> QED
    BY <1>t, <2>1, <2>2, OneInstanceStep
<1> QED
  BY <1>1, <1>2, <1>3, <1>4, <1>5, <1>6, <1>7 DEF TaskStep

\* Requests leave the structures of CreateInstance and createVMAsync alone: an
\* instance stays sound if its row and its machines do.
LEMMA InstancesKept ==
  ASSUME IInv, UNCHANGED <<launch, task, shared>>,
         \A j \in Instances :
           /\ rows[j].status # "none" => rows'[j].status # "none"
           /\ rows'[j].host \in RowSees(j)
           /\ rows'[j].status # "none" => rows[j].status # "none",
         \A j \in Instances, q \in Places :
           Exists(j, q)' =>
            Exists(j, q) \/ (q = launch[j].host /\ rows[j].status # "none")
  PROVE  \A j \in Instances : InstanceInv(j)'
<1> SUFFICES ASSUME NEW j \in Instances PROVE InstanceInv(j)'
  OBVIOUS
<1>1. InstanceInv(j)
  BY DEF IInv
<1> QED
  BY <1>1 DEF InstanceInv, LaunchInv, TaskInv, RowInv, MachineInv, Sees, RowSees

LEMMA ArriveInvStep ==
  ASSUME IInv, NEW r \in Requests, Arrive(r)
  PROVE  IInv'
<1>t. TypeOK /\ TypeOK'
  BY ArriveTyped DEF IInv
<1>1. PICK i \in Instances, op \in Ops, h \in Hosts \cup {None} :
        /\ rows[i].status # "none" /\ rows[i].host \in Hosts
        /\ h # None => h = IpOf[rows[i].host]
        /\ Become(r, [pc |-> FirstPc(op), op |-> op, inst |-> i,
                      host |-> IpOf[rows[i].host], remote |-> h])
  BY DEF Arrive
<1>2. InstanceInv(i)
  BY DEF IInv
<1>3. launch[i].host \in Hosts /\ None \notin Hosts
  BY <1>1, <1>2, <1>t DEF InstanceInv, RowInv, TypeOK, LaunchType
<1>4. rows[i].host = launch[i].host
  BY <1>1, <1>2, <1>3 DEF InstanceInv, RowInv, RowSees, Sees
<1>5. h \in Sees(i) /\ IpOf[rows[i].host] \in RowSees(i)
  BY <1>1, <1>3, <1>4 DEF Sees, RowSees
<1>6. UNCHANGED <<rows, shared, launch, task, machines>>
  BY DEF Arrive
<1>7. req'[r] = [pc |-> FirstPc(op), op |-> op, inst |-> i,
                 host |-> IpOf[rows[i].host], remote |-> h]
      /\ \A s \in Requests \ {r} : req'[s] = req[s]
  BY <1>1, <1>t DEF Become, TypeOK
<1>8. FirstPc(op) \in {"boot", "destroy", "shutdown"}
      /\ (FirstPc(op) = "destroy" => op = "delete")
  BY <1>1 DEF FirstPc
<1>9. RequestInv(req[r])'
  BY <1>1, <1>5, <1>6, <1>7, <1>8 DEF RequestInv, Sees, RowSees
<1>10. \A s \in Requests \ {r} : RequestInv(req[s])'
  BY <1>6, <1>7 DEF IInv, RequestInv, Sees, RowSees
<1>11. \A j \in Instances : InstanceInv(j)'
  BY <1>6, InstanceKept DEF Exists
<1> QED
  BY <1>t, <1>9, <1>10, <1>11 DEF IInv

\* Where a request may go next.
Moves(r) ==
  \/ Return(r)
  \/ \E pc \in {"wait", "boot", "destroy", "undefine", "unlink", "mark",
                "release", "allocate", "transfer", "define", "create", "save"} :
       /\ Goto(r, pc)
       /\ pc \in {"define", "create"} => req[r].remote # None
       /\ pc \in {"destroy", "undefine"} /\ req[r].op # "delete"
            => req[r].remote # None

LEMMA RequestsMove ==
  ASSUME IInv, NEW r \in Requests, req[r].pc # "idle", Moves(r), UNCHANGED launch,
         \A j \in Instances : rows[j].status # "none" => rows'[j].status # "none"
  PROVE  \A s \in Requests : RequestInv(req[s])'
<1>t. TypeOK
  BY DEF IInv
<1>1. ASSUME NEW s \in Requests \ {r} PROVE RequestInv(req[s])'
  <2>1. RequestInv(req[s]) /\ req'[s] = req[s]
    BY <1>t, GotoEffect, ReturnEffect DEF Moves, IInv
  <2> QED
    BY <2>1 DEF RequestInv, Sees, RowSees
<1>2. RequestInv(req[r])'
  <2>1. RequestInv(req[r])
    BY DEF IInv
  <2>2. CASE Return(r)
    BY <1>t, <2>2, ReturnEffect DEF RequestInv
  <2>3. ASSUME NEW pc, Goto(r, pc),
               pc \in {"define", "create"} => req[r].remote # None,
               pc \in {"destroy", "undefine"} /\ req[r].op # "delete"
                 => req[r].remote # None
        PROVE  RequestInv(req[r])'
    BY <1>t, <2>1, <2>3, GotoEffect DEF RequestInv, Sees, RowSees
  <2> QED
    BY <2>2, <2>3 DEF Moves
<1> QED
  BY <1>1, <1>2

LEMMA ServeInvStep ==
  ASSUME IInv, NEW r \in Requests, Serve(r) \/ WaitFails(r)
  PROVE  IInv'
<1> DEFINE i == Inst(r)
<1>a. req[r].pc # "idle" /\ UNCHANGED <<launch, task, shared>>
  BY DEF Serve, WaitFails, Shutdown, Wait, Boot, Save, Destroy, Undefine, UnlinkDisk,
         Mark, Release, Reallocate, TransferIso, Redefine, Recreate
<1>b. RequestInv(req[r]) /\ i \in Instances
  BY <1>a DEF IInv, RequestInv, Inst
<1>t. TypeOK /\ TypeOK'
  BY <1>b, ServeTyped DEF IInv, Inst
<1>i. InstanceInv(i) /\ rows[i].status # "none" /\ launch[i].host # None
  BY <1>a, <1>b DEF IInv, RequestInv, Inst, InstanceInv, RowInv
<1>p. Place(r) \in Places
  BY <1>t, AtPlace DEF Place, TypeOK, RequestType
<1>h. req[r].host \in RowSees(i) /\ req[r].remote \in Sees(i)
  BY <1>a, <1>b DEF RequestInv, Inst
<1>k. \A j \in Instances : rows[j].host \in RowSees(j)
  BY DEF IInv, InstanceInv, RowInv
<1> HIDE DEF i
<1> DEFINE RowsKept == \A j \in Instances :
             /\ rows[j].status # "none" => rows'[j].status # "none"
             /\ rows'[j].host \in RowSees(j)
             /\ rows'[j].status # "none" => rows[j].status # "none"
           NoNewMachine == \A j \in Instances, q \in Places :
             Exists(j, q)' => Exists(j, q)
<1>1. CASE \/ Shutdown(r) \/ Wait(r) \/ WaitFails(r) \/ UnlinkDisk(r)
           \/ Release(r) \/ Reallocate(r) \/ TransferIso(r)
  <2>1. UNCHANGED <<rows, machines>>
    BY <1>1 DEF Shutdown, Wait, WaitFails, UnlinkDisk, Release, Reallocate, TransferIso
  <2>2. Moves(r)
    BY <1>1 DEF Moves, Shutdown, Wait, WaitFails, UnlinkDisk, Release, Reallocate,
                TransferIso
  <2> QED
    BY <1>a, <1>t, <2>1, <2>2, InstanceKept, RequestsMove DEF IInv, Exists
<1>2. CASE Boot(r) \/ Destroy(r) \/ Undefine(r) \/ Recreate(r)
  <2>1. UNCHANGED rows
    BY <1>2 DEF Boot, Destroy, Undefine, Recreate
  <2>2. Moves(r)
    BY <1>2, <1>b DEF Moves, Boot, Destroy, Undefine, Recreate, RequestInv
  <2>3. NoNewMachine
    <3>1. CASE Boot(r) \/ Undefine(r) \/ Recreate(r)
      BY <1>b, <1>p, <1>t, <3>1, VMEffect DEF Boot, Undefine, Recreate, Exists, i
    <3>2. CASE Destroy(r)
      <4>1. \/ UNCHANGED machines
            \/ /\ Exists(i, Place(r))
               /\ SetMachine(i, Place(r), "absent") \/ SetMachine(i, Place(r), "shutoff")
        BY <3>2 DEF Destroy, i
      <4> QED
        BY <1>b, <1>p, <1>t, <4>1, MachineEffect DEF Exists
    <3> QED
      BY <1>2, <3>1, <3>2
  <2> QED
    BY <1>a, <1>t, <2>1, <2>2, <2>3, InstanceKept, RequestsMove DEF IInv
<1>3. CASE Redefine(r)
  <2>1. UNCHANGED rows /\ req[r].remote # None
    BY <1>3, <1>b DEF Redefine, RequestInv
  <2>2. Moves(r)
    BY <1>3, <2>1 DEF Moves, Redefine
  <2>3. Place(r) = launch[i].host
    BY <1>h, <2>1 DEF Place, At, Sees
  <2>4. \A j \in Instances, q \in Places :
          Exists(j, q)' => Exists(j, q) \/ (j = i /\ q = launch[i].host)
    BY <1>3, <1>b, <1>p, <1>t, <2>3, VMEffect DEF Redefine, Exists, i
  <2>5. \A j \in Instances, q \in Places :
          Exists(j, q)' =>
            Exists(j, q) \/ (q = launch[j].host /\ rows[j].status # "none")
    <3> SUFFICES ASSUME NEW j \in Instances, NEW q \in Places, Exists(j, q)'
                 PROVE  Exists(j, q) \/ (q = launch[j].host /\ rows[j].status # "none")
      OBVIOUS
    <3>1. Exists(j, q) \/ (j = i /\ q = launch[i].host)
      BY <2>4
    <3> QED
      BY <1>i, <3>1
  <2>6. RowsKept
    BY <1>k, <2>1
  <2>7. \A j \in Instances : InstanceInv(j)'
    BY <1>a, <2>5, <2>6, InstancesKept
  <2>8. \A s \in Requests : RequestInv(req[s])'
    BY <1>a, <2>2, <2>6, RequestsMove
  <2> QED
    BY <1>t, <2>7, <2>8 DEF IInv
<1>4. CASE Save(r)
  <2>1. PICK row \in RowType : /\ Write(i, row) /\ row.status # "none"
                              /\ row.host \in RowSees(i)
    <3> DEFINE host == IF req[r].op = "start" THEN rows[i].host ELSE req[r].host
               row == [status |-> StatusAfter(req[r].op), host |-> host]
    <3>1. rows[i] \in RowType /\ req[r] \in RequestType
      BY <1>b, <1>t DEF TypeOK
    <3>2. StatusAfter(req[r].op) \in Status \ {"none"}
      BY DEF StatusAfter, Status
    <3>3. row \in RowType /\ row.status # "none" /\ row.host \in RowSees(i)
      BY <1>b, <1>h, <1>k, <3>1, <3>2 DEF RowType, RequestType
    <3>4. Write(i, row)
      BY <1>4 DEF Save, i
    <3> QED
      BY <3>3, <3>4
  <2>2. RowsKept
    BY <1>b, <1>i, <1>k, <1>t, <2>1, WriteEffect
  <2>3. Moves(r) /\ UNCHANGED machines
    BY <1>4 DEF Moves, Save
  <2>5. \A j \in Instances, q \in Places :
          Exists(j, q)' =>
            Exists(j, q) \/ (q = launch[j].host /\ rows[j].status # "none")
    BY <2>3 DEF Exists
  <2>6. \A j \in Instances : InstanceInv(j)'
    BY <1>a, <2>2, <2>5, InstancesKept
  <2>7. \A s \in Requests : RequestInv(req[s])'
    BY <1>a, <2>2, <2>3, RequestsMove
  <2> QED
    BY <1>t, <2>6, <2>7 DEF IInv
<1>5. CASE Mark(r)
  <2> DEFINE row == [rows[i] EXCEPT !.status = "terminated"]
  <2>1. row.status # "none" /\ row.host = rows[i].host
    BY <1>b, <1>t DEF TypeOK, RowType
  <2>2. Write(i, row)
    BY <1>5 DEF Mark, i
  <2> HIDE DEF row
  <2>3. RowsKept
    BY <1>b, <1>i, <1>k, <1>t, <2>1, <2>2, WriteEffect
  <2>4. Moves(r) /\ UNCHANGED machines
    BY <1>5 DEF Moves, Mark
  <2>5. \A j \in Instances, q \in Places :
          Exists(j, q)' =>
            Exists(j, q) \/ (q = launch[j].host /\ rows[j].status # "none")
    BY <2>4 DEF Exists
  <2>6. \A j \in Instances : InstanceInv(j)'
    BY <1>a, <2>3, <2>5, InstancesKept
  <2>7. \A s \in Requests : RequestInv(req[s])'
    BY <1>a, <2>3, <2>4, RequestsMove
  <2> QED
    BY <1>t, <2>6, <2>7 DEF IInv
<1> QED
  BY <1>1, <1>2, <1>3, <1>4, <1>5 DEF Serve

LEMMA PowerOffInvStep ==
  ASSUME IInv, NEW i \in Instances, NEW p \in Places, PowerOff(i, p)
  PROVE  IInv'
<1>t. TypeOK /\ TypeOK'
  BY PowerOffTyped DEF IInv
<1>1. \A j \in Instances, q \in Places : Exists(j, q)' => Exists(j, q)
  BY <1>t, MachineEffect DEF PowerOff, Exists, Runs
<1> QED
  BY <1>t, <1>1, InstanceKept, RequestsKept DEF IInv, PowerOff

LEMMA CrashInvStep == ASSUME IInv, Crash PROVE IInv'
<1>t. TypeOK /\ TypeOK'
  BY CrashTyped DEF IInv
<1>1. ASSUME NEW i \in Instances PROVE InstanceInv(i)'
  <2>1. InstanceInv(i) /\ launch[i] \in LaunchType /\ task[i] \in TaskType
    BY <1>t DEF IInv, TypeOK
  <2>2. /\ launch'[i].host = launch[i].host /\ launch'[i].copy = launch[i].copy
        /\ launch'[i].pc = launch[i].pc \/ launch'[i].pc = "done"
        /\ task'[i].remote = task[i].remote /\ task'[i].copy = task[i].copy
        /\ \/ task'[i].pc = task[i].pc
           \/ task'[i].pc = "done" /\ task[i].pc # "none"
        /\ UNCHANGED <<rows, shared, machines>>
    BY <2>1 DEF Crash, LaunchType, TaskType
  <2> QED
    BY <2>1, <2>2 DEF InstanceInv, LaunchInv, TaskInv, RowInv, MachineInv, Sees,
                      RowSees, Exists
<1>2. ASSUME NEW r \in Requests PROVE RequestInv(req[r])'
  BY DEF Crash, RequestInv, Idle
<1> QED
  BY <1>t, <1>1, <1>2 DEF IInv

THEOREM InvStep == IInv /\ [Next]_vars => IInv'
<1> SUFFICES ASSUME IInv, [Next]_vars PROVE IInv'
  OBVIOUS
<1>1. ASSUME NEW i \in Instances, Allocate(i) \/ LaunchStep(i) \/ TaskStep(i)
      PROVE  IInv'
  BY <1>1, LaunchInvStep, TaskInvStep
<1>2. ASSUME NEW r \in Requests, Arrive(r) \/ Serve(r) \/ WaitFails(r)
      PROVE  IInv'
  BY <1>2, ArriveInvStep, ServeInvStep
<1>3. ASSUME NEW i \in Instances, NEW p \in Places, PowerOff(i, p)
      PROVE  IInv'
  BY <1>3, PowerOffInvStep
<1>4. CASE Crash
  BY <1>4, CrashInvStep
<1>5. CASE UNCHANGED vars
  BY <1>5 DEF vars, IInv, TypeOK, InstanceInv, LaunchInv, TaskInv, RowInv, MachineInv,
              RequestInv, Sees, RowSees, Exists
<1> QED
  BY <1>1, <1>2, <1>3, <1>4, <1>5 DEF Next

THEOREM Invariance == Spec => []IInv
<1> QED
  BY InitInv, InvStep, PTL DEF Spec

\* The tables, the structures in memory, the machines and the files have the
\* shape of their types (Instance, TypeOK).
THEOREM TypeCorrect == Spec => []TypeOK
<1>1. IInv => TypeOK
  BY DEF IInv
<1> QED
  BY <1>1, Invariance, PTL

\* No interleaving of the stale copies of rows, of an address that is missing
\* when it is needed, and of crashes leaves a machine where the row of its
\* instance does not lead (instance_lifecycle.go:316-325).
THEOREM MachinesWhereRowsSay == Spec => []MachineWhereRowSays
<1>1. IInv => MachineWhereRowSays
  <2> SUFFICES ASSUME IInv, NEW i \in Instances, NEW p \in Places, Exists(i, p)
               PROVE  /\ rows[i].status # "none"
                      /\ p \in Hosts /\ rows[i].host \in {None, p, IpOf[p]}
    BY DEF MachineWhereRowSays
  <2>1. InstanceInv(i) /\ launch[i] \in LaunchType
    BY DEF IInv, TypeOK
  <2>2. p = launch[i].host /\ rows[i].status # "none"
    BY <2>1 DEF InstanceInv, MachineInv
  <2>3. p \in Hosts
    BY <2>1, <2>2 DEF InstanceInv, RowInv, LaunchType
  <2> QED
    BY <2>1, <2>2, <2>3 DEF InstanceInv, RowInv, RowSees, Sees
<1> QED
  BY <1>1, Invariance, PTL

----------------------------------------------------------------------------
(* Refinement of module Placement.                                         *)

\* The three parts of an abstract state change in different steps.
HomesSame == \A j \in Instances : launch'[j].host = launch[j].host
KnownSame == \A j \in Instances : rows'[j].status = "none" <=> rows[j].status = "none"
OneMachine == \/ UNCHANGED machines
              \/ \E i \in Instances, p \in Places, s \in MachineState :
                    SetMachine(i, p, s)

LEMMA SameAbstractly ==
  /\ HomesSame => UNCHANGED HomeOf
  /\ KnownSame => UNCHANGED Known
  /\ UNCHANGED machines => UNCHANGED Placed
BY DEF HomesSame, KnownSame, HomeOf, Known, Placed, Exists

\* A machine that is there after a step is at home; one that is gone was at
\* home if it was there at all.
LEMMA MachineRefines ==
  ASSUME IInv, IInv', OneMachine, UNCHANGED HomeOf, UNCHANGED Known
  PROVE  Homes!Next \/ UNCHANGED Homes!placement
<1>1. CASE UNCHANGED machines
  BY <1>1, SameAbstractly DEF Homes!placement
<1>2. ASSUME NEW i \in Instances, NEW p \in Places, NEW s \in MachineState,
             SetMachine(i, p, s)
      PROVE  Homes!Next \/ UNCHANGED Homes!placement
  <2>1. \A j \in Instances, q \in Places :
          j # i \/ q # p => (Exists(j, q)' <=> Exists(j, q))
    BY <1>2, MachineEffect DEF IInv, Exists
  <2>2. InstanceInv(i) /\ InstanceInv(i)'
    BY DEF IInv
  <2>3. HomeOf[i] = launch[i].host /\ HomeOf'[i] = launch'[i].host
    BY DEF HomeOf
  <2>4. CASE Exists(i, p)'
    <3>1. p = HomeOf[i] /\ i \in Known
      BY <2>2, <2>3, <2>4 DEF InstanceInv, MachineInv, Known
    <3>2. Placed' = Placed \cup {<<i, p>>}
      BY <2>1, <2>4 DEF Placed
    <3>3. Homes!Place(i)
      BY <3>1, <3>2 DEF Homes!Place
    <3> QED
      BY <3>3 DEF Homes!Next
  <2>5. CASE ~Exists(i, p)' /\ Exists(i, p)
    <3>1. p = HomeOf[i]
      BY <2>2, <2>3, <2>5 DEF InstanceInv, MachineInv
    <3>2. Placed' = Placed \ {<<i, p>>}
      BY <2>1, <2>5 DEF Placed
    <3>3. Homes!Remove(i)
      BY <3>1, <3>2 DEF Homes!Remove
    <3> QED
      BY <3>3 DEF Homes!Next
  <2>6. CASE ~Exists(i, p)' /\ ~Exists(i, p)
    <3>1. UNCHANGED Placed
      BY <2>1, <2>6 DEF Placed
    <3> QED
      BY <3>1 DEF Homes!placement
  <2> QED
    BY <2>4, <2>5, <2>6
<1> QED
  BY <1>1, <1>2 DEF OneMachine

LEMMA ChooseRefines ==
  ASSUME IInv, NEW i \in Instances, SelectHost(i)
  PROVE  Homes!Next \/ UNCHANGED Homes!placement
<1>0. launch \in [Instances -> LaunchType] /\ launch[i] \in LaunchType /\ TypeOK
  BY DEF IInv, TypeOK
<1>1. UNCHANGED <<Known, Placed>>
  BY DEF SelectHost, Known, Placed, Exists
<1>2. ASSUME NEW h \in Hosts,
             SetLaunch(i, [launch[i] EXCEPT !.pc = "persist", !.host = h])
      PROVE  Homes!Next
  <2>1. HomeOf[i] = None
    BY DEF IInv, InstanceInv, LaunchInv, SelectHost, HomeOf
  <2>2. launch'[i].host = h /\ \A j \in Instances \ {i} : launch'[j] = launch[j]
    BY <1>0, <1>2 DEF SetLaunch, LaunchType
  <2>3. HomeOf' = [HomeOf EXCEPT ![i] = h]
    BY <2>2 DEF HomeOf
  <2>4. Homes!Choose(i, h)
    BY <1>1, <2>1, <2>3 DEF Homes!Choose
  <2> QED
    BY <2>4 DEF Homes!Next
<1>3. CASE GoLaunch(i, "done")
  <2>1. HomesSame
    BY <1>0, <1>3, GoLaunchEffect DEF HomesSame
  <2> QED
    BY <1>1, <2>1, SameAbstractly DEF Homes!placement
<1> QED
  BY <1>2, <1>3 DEF SelectHost

LEMMA RegisterRefines ==
  ASSUME IInv, NEW i \in Instances, Persist(i)
  PROVE  Homes!Next \/ UNCHANGED Homes!placement
<1>0. TypeOK
  BY DEF IInv
<1>1. UNCHANGED <<HomeOf, Placed>>
  <2>1. HomesSame
    BY <1>0, GoLaunchEffect DEF HomesSame, Persist
  <2> QED
    BY <2>1, SameAbstractly DEF Persist
<1>2. HomeOf[i] # None
  BY DEF IInv, InstanceInv, LaunchInv, Persist, HomeOf
<1>3. CASE UNCHANGED rows
  BY <1>1, <1>3 DEF Homes!placement, Known
<1>4. CASE rows' = [rows EXCEPT ![i] = [status |-> "pending", host |-> None]]
  <2>1. Known' = Known \cup {i}
    BY <1>0, <1>4 DEF Known, TypeOK
  <2>2. Homes!Register(i)
    BY <1>1, <1>2, <2>1 DEF Homes!Register
  <2> QED
    BY <2>2 DEF Homes!Next
<1> QED
  BY <1>3, <1>4 DEF Persist

\* The other steps choose no host and register no instance.
LEMMA OthersRefine ==
  ASSUME IInv, [Next]_vars, \A i \in Instances : ~SelectHost(i) /\ ~Persist(i)
  PROVE  HomesSame /\ KnownSame /\ OneMachine
<1>0. TypeOK /\ \A i \in Instances : InstanceInv(i)
  BY DEF IInv
<1>1. ASSUME NEW i \in Instances, Allocate(i) \/ LaunchStep(i)
      PROVE  HomesSame /\ KnownSame /\ OneMachine
  <2>1. UNCHANGED machines
    BY <1>1 DEF Allocate, LaunchStep, SelectHost, Persist, Unlease, Reconcile, Abort,
                Bind, Record
  <2>2. HomesSame
    <3>1. Bind(i) => HomesSame
      BY <1>0 DEF HomesSame, Bind, SetLaunch, TypeOK
    <3>2. ~Bind(i) => \E pc : GoLaunch(i, pc)
      BY <1>1 DEF Allocate, LaunchStep, Unlease, Reconcile, Abort, Record
    <3> QED
      BY <1>0, <3>1, <3>2, GoLaunchEffect DEF HomesSame
  <2>3. KnownSame
    <3>1. CASE UNCHANGED rows
      BY <3>1 DEF KnownSame
    <3>2. CASE Abort(i)
      <4>1. rows[i].status # "none"
        BY <1>0, <3>2 DEF InstanceInv, LaunchInv, Abort
      <4> QED
        BY <1>0, <3>2, <4>1, WriteEffect DEF Abort, KnownSame
    <3>3. CASE Record(i)
      <4>1. rows[i].status # "none" /\ launch[i].copy.status # "none"
        BY <1>0, <3>3 DEF InstanceInv, LaunchInv, Record
      <4> QED
        BY <1>0, <3>3, <4>1, WriteEffect DEF Record, KnownSame
    <3> QED
      BY <1>1, <3>1, <3>2, <3>3 DEF Allocate, LaunchStep, Unlease, Reconcile, Bind
  <2> QED
    BY <2>1, <2>2, <2>3 DEF OneMachine
<1>2. ASSUME NEW i \in Instances, TaskStep(i)
      PROVE  HomesSame /\ KnownSame /\ OneMachine
  <2>1. UNCHANGED launch
    BY <1>2 DEF TaskStep, ResolveHost, BuildOverlay, Transfer, Define, Create, Finish,
                Fail, SetStatus, SaveTask, UnlinkOverlay, ReleaseTask
  <2>2. KnownSame
    <3>1. CASE SaveTask(i)
      <4>1. rows[i].status # "none" /\ task[i].copy.status # "none"
        BY <1>0, <3>1 DEF InstanceInv, TaskInv, SaveTask
      <4> QED
        BY <1>0, <3>1, <4>1, WriteEffect DEF SaveTask, KnownSame
    <3>2. CASE UNCHANGED rows
      BY <3>2 DEF KnownSame
    <3> QED
      BY <1>2, <3>1, <3>2 DEF TaskStep, ResolveHost, BuildOverlay, Transfer, Define,
                Create, Finish, Fail, SetStatus, UnlinkOverlay, ReleaseTask
  <2>3. OneMachine
    <3>1. At(task[i].remote) \in Places
      BY <1>0, AtPlace DEF TypeOK, TaskType
    <3>2. CASE Define(i) \/ Create(i)
      BY <3>1, <3>2 DEF Define, Create, DefineVM, StartVM, UndefineVM, FailToStartVM,
                        OneMachine, MachineState
    <3>3. CASE UNCHANGED machines
      BY <3>3 DEF OneMachine
    <3> QED
      BY <1>2, <3>2, <3>3 DEF TaskStep, ResolveHost, BuildOverlay, Transfer, Finish, Fail,
                SetStatus, SaveTask, UnlinkOverlay, ReleaseTask
  <2> QED
    BY <2>1, <2>2, <2>3 DEF HomesSame
<1>3. ASSUME NEW r \in Requests, Arrive(r)
      PROVE  HomesSame /\ KnownSame /\ OneMachine
  BY <1>3 DEF Arrive, HomesSame, KnownSame, OneMachine
<1>4. ASSUME NEW r \in Requests, Serve(r) \/ WaitFails(r)
      PROVE  HomesSame /\ KnownSame /\ OneMachine
  <2>1. UNCHANGED launch
    BY <1>4 DEF Serve, WaitFails, Shutdown, Wait, Boot, Save, Destroy, Undefine,
         UnlinkDisk, Mark, Release, Reallocate, TransferIso, Redefine, Recreate
  <2>2. Inst(r) \in Instances /\ rows[Inst(r)].status # "none"
    <3>1. req[r].pc # "idle"
      BY <1>4 DEF Serve, WaitFails, Shutdown, Wait, Boot, Save, Destroy, Undefine,
         UnlinkDisk, Mark, Release, Reallocate, TransferIso, Redefine, Recreate
    <3> QED
      BY <3>1 DEF IInv, RequestInv, Inst
  <2>3. Place(r) \in Places
    BY <1>0, AtPlace DEF Place, TypeOK, RequestType
  <2>4. KnownSame
    <3>1. CASE Save(r)
      <4>1. \E row : Write(Inst(r), row) /\ row.status # "none"
        BY <3>1 DEF Save, StatusAfter
      <4> QED
        BY <1>0, <2>2, <4>1, WriteEffect DEF KnownSame
    <3>2. CASE Mark(r)
      <4>1. [rows[Inst(r)] EXCEPT !.status = "terminated"].status # "none"
        BY <1>0, <2>2 DEF TypeOK, RowType
      <4> QED
        BY <1>0, <2>2, <3>2, <4>1, WriteEffect DEF Mark, KnownSame
    <3>3. CASE UNCHANGED rows
      BY <3>3 DEF KnownSame
    <3> QED
      BY <1>4, <3>1, <3>2, <3>3 DEF Serve, WaitFails, Shutdown, Wait, Boot, Destroy,
         Undefine, UnlinkDisk, Release, Reallocate, TransferIso, Redefine, Recreate
  <2>5. OneMachine
    <3>1. CASE Boot(r) \/ Undefine(r) \/ Redefine(r) \/ Recreate(r)
      BY <2>2, <2>3, <3>1 DEF Boot, Undefine, Redefine, Recreate, DefineVM, StartVM,
         UndefineVM, FailToStartVM, OneMachine, MachineState
    <3>2. CASE Destroy(r)
      BY <2>2, <2>3, <3>2 DEF Destroy, OneMachine, MachineState
    <3>3. CASE UNCHANGED machines
      BY <3>3 DEF OneMachine
    <3> QED
      BY <1>4, <3>1, <3>2, <3>3 DEF Serve, WaitFails, Shutdown, Wait, Save, UnlinkDisk,
         Mark, Release, Reallocate, TransferIso
  <2> QED
    BY <2>1, <2>4, <2>5 DEF HomesSame
<1>5. ASSUME NEW i \in Instances, NEW p \in Places, PowerOff(i, p)
      PROVE  HomesSame /\ KnownSame /\ OneMachine
  BY <1>5 DEF PowerOff, HomesSame, KnownSame, OneMachine, MachineState
<1>6. CASE Crash
  <2>1. HomesSame
    <3>1. ASSUME NEW j \in Instances PROVE launch'[j].host = launch[j].host
      <4>1. launch[j] \in LaunchType
        BY <1>0 DEF TypeOK
      <4> QED
        BY <1>6, <4>1 DEF Crash, LaunchType
    <3> QED
      BY <3>1 DEF HomesSame
  <2> QED
    BY <1>6, <2>1 DEF Crash, KnownSame, OneMachine
<1>7. CASE UNCHANGED vars
  BY <1>7 DEF vars, HomesSame, KnownSame, OneMachine
<1> QED
  BY <1>1, <1>2, <1>3, <1>4, <1>5, <1>6, <1>7 DEF Next

LEMMA PlacementStep == IInv /\ [Next]_vars => [Homes!Next]_(Homes!placement)
<1> SUFFICES ASSUME IInv, [Next]_vars PROVE Homes!Next \/ UNCHANGED Homes!placement
  OBVIOUS
<1>1. IInv'
  BY InvStep
<1>2. CASE \E i \in Instances : SelectHost(i) \/ Persist(i)
  BY <1>2, ChooseRefines, RegisterRefines
<1>3. CASE \A i \in Instances : ~SelectHost(i) /\ ~Persist(i)
  BY <1>1, <1>3, OthersRefine, SameAbstractly, MachineRefines
<1> QED
  BY <1>2, <1>3

\* The statements, libvirt calls, failures and crashes of creation and of the
\* requests implement module Placement: one host for each instance, and no
\* machine of it anywhere else or before its row.
THEOREM RefinesPlacement == Spec => ImplementsPlacement
<1>1. Init => Homes!Init
  BY DEF Init, Homes!Init, HomeOf, Known, Placed, NoRow, Exists
<1> QED
  BY <1>1, PlacementStep, Invariance, PTL DEF Spec, ImplementsPlacement, Homes!Spec
=============================================================================
