------------------------------ MODULE Instance ------------------------------
(***************************************************************************)
(* The instance service (internal/application/instance_*.go): the life of  *)
(* instances, as their rows, their machines (libvirt domains) and disks on *)
(* the hosts, and their address leases record it.                          *)
(*                                                                         *)
(* CreateInstance (launch) starts the goroutine createVMAsync (task); both *)
(* hold a pointer to one Instance structure (shared).  Requests stop,      *)
(* start, restart, delete and move instances at the same time.  A step is  *)
(* one SQL statement, one libvirt call or one command, and each may fail;  *)
(* a crash of the process loses every goroutine.                           *)
(*                                                                         *)
(* An address is leased or not, and there is one VPC: module Vpc has the   *)
(* rest.  Instances share nothing but the hosts, which are registered.     *)
(***************************************************************************)
CONSTANTS
  Instances,
  Hosts,      \* ids of the rows of table hosts
  LocalHost,  \* the machine the service runs on, whose libvirt conn is ""
  IpOf,       \* the ip column of hosts
  Requests,   \* goroutines that may serve requests at the same time
  Ops,        \* the operations the requests ask for
  None        \* the empty host id

Addresses == {IpOf[h] : h \in Hosts}

\* An agent chooses the id it reports in its heartbeat, so the id may be its
\* own address; it is not the address of another host.
ASSUME HostAssumption ==
  /\ DOMAIN IpOf = Hosts
  /\ \A h \in Hosts : IpOf[h] \in Hosts => IpOf[h] = h
  /\ None \notin Hosts \cup Addresses \cup {LocalHost} \cup Instances
ASSUME OpsAssumption ==
  Ops \subseteq {"stop", "start", "restart", "delete", "assign"}

VARIABLES
  rows,      \* table instances: status and host_id
  leases,    \* instances with a row in network_allocations
  shared,    \* the structure CreateInstance and createVMAsync share
  launch,    \* CreateInstance of each id
  task,      \* createVMAsync of each id
  req,       \* the requests in progress
  machines,  \* libvirt domains, per instance and place
  disks      \* pairs <<instance, place>>

vars == <<rows, leases, shared, launch, task, req, machines, disks>>

Places == Hosts \cup {LocalHost}
Status == {"none", "pending", "running", "stopped", "Restarting", "terminated"}
HostId == {None} \cup Hosts \cup Addresses
RowType == [status : Status, host : HostId]
Structure == [status : Status, host : Hosts \cup {None}]
NoRow == [status |-> "none", host |-> None]

\* transient: running without a definition, gone once it is off.
MachineState == {"absent", "shutoff", "running", "transient"}

LaunchType == [pc : {"none", "select", "persist", "unlease", "reconcile",
                     "abort", "bind", "record", "done"},
               host : Hosts \cup {None}, copy : Structure]
TaskType == [pc : {"none", "resolve", "overlay", "transfer", "define", "create",
                   "finish", "save", "fail", "failed", "unlink", "release",
                   "done"},
             remote : Hosts \cup {None}, copy : Structure]
Idle == [pc |-> "idle", op |-> "none", inst |-> None, host |-> None,
         remote |-> None]
RequestType == [pc : {"idle", "shutdown", "wait", "boot", "destroy", "undefine",
                      "unlink", "mark", "release", "allocate", "transfer",
                      "define", "create", "save"},
                op : Ops \cup {"none"}, inst : Instances \cup {None},
                host : HostId, remote : Hosts \cup {None}]

Init ==
  /\ rows = [i \in Instances |-> NoRow]
  /\ leases = {}
  /\ shared = [i \in Instances |-> NoRow]
  /\ launch = [i \in Instances |-> [pc |-> "none", host |-> None, copy |-> NoRow]]
  /\ task = [i \in Instances |-> [pc |-> "none", remote |-> None, copy |-> NoRow]]
  /\ req = [r \in Requests |-> Idle]
  /\ machines = [i \in Instances |-> [p \in Places |-> "absent"]]
  /\ disks = {}

----------------------------------------------------------------------------
(* Statements, libvirt calls and files.                                    *)

\* repo.Update: the whole row, or an error.
Write(i, row) == rows' \in {rows, [rows EXCEPT ![i] = row]}
\* ReleaseInstanceNetwork; callers log or drop the error.
ReleaseLease(i) == leases' \in {leases, leases \ {i}}
Unlink(i, p) == disks' \in {disks, disks \ {<<i, p>>}}

\* getConnection: no address means the local libvirt.
At(remote) == IF remote = None THEN LocalHost ELSE remote

SetMachine(i, p, s) == machines' = [machines EXCEPT ![i][p] = s]
Exists(i, p) == machines[i][p] # "absent"
Runs(i, p) == machines[i][p] \in {"running", "transient"}

\* DomainDefineXML: the XML has no uuid, so a name in use is refused.
DefineVM(i, p) == ~Exists(i, p) /\ SetMachine(i, p, "shutoff")
\* domain.Create needs the disk.
StartVM(i, p) ==
  /\ machines[i][p] = "shutoff" /\ <<i, p>> \in disks
  /\ SetMachine(i, p, "running")
\* domain.Undefine: what runs goes on running.
UndefineVM(i, p) ==
  SetMachine(i, p, IF Runs(i, p) THEN "transient" ELSE "absent")
\* CreateAndStartVM fails in Create, and undefines, or in GetID.
FailToStartVM(i, p) == UndefineVM(i, p) \/ StartVM(i, p)

----------------------------------------------------------------------------
(* CreateInstance.                                                         *)

SetLaunch(i, l) == launch' = [launch EXCEPT ![i] = l]
GoLaunch(i, pc) == SetLaunch(i, [launch[i] EXCEPT !.pc = pc])

\* prepareInstanceResources draws the id; allocateInstanceNetwork.
Allocate(i) ==
  /\ launch[i].pc = "none"
  /\ \/ leases' = leases \cup {i} /\ GoLaunch(i, "select")
     \/ UNCHANGED leases /\ GoLaunch(i, "done")
  /\ UNCHANGED <<rows, shared, task, req, machines, disks>>

\* SelectBestHost; no host ends the request, which keeps the address.
SelectHost(i) ==
  /\ launch[i].pc = "select"
  /\ \/ \E h \in Hosts :
          SetLaunch(i, [launch[i] EXCEPT !.pc = "persist", !.host = h])
     \/ GoLaunch(i, "done")
  /\ UNCHANGED <<rows, leases, shared, task, req, machines, disks>>

\* Fault: a row that cannot be written is only logged.
PersistIgnoringErrors(i) ==
  LET row == [status |-> "pending", host |-> None] IN
  /\ launch[i].pc = "persist"
  /\ Write(i, row)
  /\ shared' = [shared EXCEPT ![i] = row]
  /\ GoLaunch(i, "reconcile")
  /\ UNCHANGED <<leases, task, req, machines, disks>>

\* GenerateSSHKeyPair may fail (the address stays leased), repo.Create too.
Persist(i) ==
  LET row == [status |-> "pending", host |-> None] IN
  /\ launch[i].pc = "persist"
  /\ \/ /\ rows' = [rows EXCEPT ![i] = row]
        /\ shared' = [shared EXCEPT ![i] = row]
        /\ GoLaunch(i, "reconcile")
     \/ UNCHANGED <<rows, shared>> /\ GoLaunch(i, "unlease")
     \/ UNCHANGED <<rows, shared>> /\ GoLaunch(i, "done")
  /\ UNCHANGED <<leases, task, req, machines, disks>>

Unlease(i) ==
  /\ launch[i].pc = "unlease"
  /\ ReleaseLease(i)
  /\ GoLaunch(i, "done")
  /\ UNCHANGED <<rows, shared, task, req, machines, disks>>

SetTask(i, t) == task' = [task EXCEPT ![i] = t]
GoTask(i, pc) == SetTask(i, [task[i] EXCEPT !.pc = pc])

\* ReconcileNetwork, then "go createVMAsync".
Reconcile(i) ==
  /\ launch[i].pc = "reconcile"
  /\ \/ GoTask(i, "resolve") /\ GoLaunch(i, "bind")
     \/ UNCHANGED task /\ GoLaunch(i, "abort")
  /\ UNCHANGED <<rows, leases, shared, req, machines, disks>>

\* markTerminatedAndReleaseNetwork when the agent refused.
Abort(i) ==
  /\ launch[i].pc = "abort"
  /\ Write(i, [status |-> "terminated", host |-> shared[i].host])
  /\ GoLaunch(i, "unlease")
  /\ UNCHANGED <<leases, shared, task, req, machines, disks>>

\* instance.HostID = hostID, and the arguments of repo.Update are read.
Bind(i) ==
  LET h == launch[i].host IN
  /\ launch[i].pc = "bind"
  /\ shared' = [shared EXCEPT ![i].host = h]
  /\ SetLaunch(i, [pc |-> "record", host |-> h,
                   copy |-> [status |-> shared[i].status, host |-> h]])
  /\ UNCHANGED <<rows, leases, task, req, machines, disks>>

Record(i) ==
  /\ launch[i].pc = "record"
  /\ Write(i, launch[i].copy)
  /\ GoLaunch(i, "done")
  /\ UNCHANGED <<leases, shared, task, req, machines, disks>>

----------------------------------------------------------------------------
(* createVMAsync.                                                          *)

\* The host id may not be in the structure yet; the lookup may fail.
ResolveHost(i) ==
  /\ task[i].pc = "resolve"
  /\ \E h \in {None, shared[i].host} :
       SetTask(i, [task[i] EXCEPT !.pc = "overlay", !.remote = h])
  /\ UNCHANGED <<rows, leases, shared, launch, req, machines, disks>>

\* buildOverlay and CreateCloudInitISO.
BuildOverlay(i) ==
  /\ task[i].pc = "overlay"
  /\ \/ disks' = disks \cup {<<i, LocalHost>>} /\ GoTask(i, "transfer")
     \/ /\ disks' \in {disks, disks \cup {<<i, LocalHost>>}}
        /\ GoTask(i, "fail")
  /\ UNCHANGED <<rows, leases, shared, launch, req, machines>>

\* Fault: without a host the overlay is used where it is.
TransferOrLocal(i) ==
  LET copied == disks \cup {<<i, At(task[i].remote)>>} IN
  /\ task[i].pc = "transfer"
  /\ \/ disks' = copied /\ GoTask(i, "define")
     \/ disks' \in {disks, copied} /\ GoTask(i, "fail")
  /\ UNCHANGED <<rows, leases, shared, launch, req, machines>>

\* transferOverlayToHost of the overlay and of the ISO, InjectAssets; scp has
\* nowhere to go without an address.
Transfer(i) ==
  LET h == task[i].remote
      copied == IF h = None THEN disks ELSE disks \cup {<<i, h>>} IN
  /\ task[i].pc = "transfer"
  /\ \/ h # None /\ disks' = copied /\ GoTask(i, "define")
     \/ disks' \in {disks, copied} /\ GoTask(i, "fail")
  /\ UNCHANGED <<rows, leases, shared, launch, req, machines>>

Define(i) ==
  /\ task[i].pc = "define"
  /\ \/ DefineVM(i, At(task[i].remote)) /\ GoTask(i, "create")
     \/ UNCHANGED machines /\ GoTask(i, "fail")
  /\ UNCHANGED <<rows, leases, shared, launch, req, disks>>

Create(i) ==
  /\ task[i].pc = "create"
  /\ \/ StartVM(i, At(task[i].remote)) /\ GoTask(i, "finish")
     \/ FailToStartVM(i, At(task[i].remote)) /\ GoTask(i, "fail")
  /\ UNCHANGED <<rows, leases, shared, launch, req, disks>>

\* The status goes into the shared structure, then the arguments are read.
SetStatus(i, status, pc) ==
  LET row == [status |-> status, host |-> shared[i].host] IN
  /\ shared' = [shared EXCEPT ![i] = row]
  /\ SetTask(i, [task[i] EXCEPT !.pc = pc, !.copy = row])
  /\ UNCHANGED <<rows, leases, launch, req, machines, disks>>
\* Fault: the goroutine waits until the machine is seen running.
FinishWhenSeen(i) ==
  /\ task[i].pc = "finish" /\ Runs(i, At(task[i].remote))
  /\ SetStatus(i, "running", "save")
Finish(i) == task[i].pc = "finish" /\ SetStatus(i, "running", "save")
\* Fault: the status the documentation names.
FailAsFailed(i) == task[i].pc = "fail" /\ SetStatus(i, "failed", "failed")
Fail(i) == task[i].pc = "fail" /\ SetStatus(i, "terminated", "failed")

SaveTask(i) ==
  /\ \/ task[i].pc = "save" /\ GoTask(i, "done")
     \/ task[i].pc = "failed" /\ GoTask(i, "unlink")
  /\ Write(i, task[i].copy)
  /\ UNCHANGED <<leases, shared, launch, req, machines, disks>>

UnlinkOverlay(i) ==
  /\ task[i].pc = "unlink"
  /\ Unlink(i, LocalHost)
  /\ GoTask(i, "release")
  /\ UNCHANGED <<rows, leases, shared, launch, req, machines>>

ReleaseTask(i) ==
  /\ task[i].pc = "release"
  /\ ReleaseLease(i)
  /\ GoTask(i, "done")
  /\ UNCHANGED <<rows, shared, launch, req, machines, disks>>

----------------------------------------------------------------------------
(* Requests on an instance: r works on its machine at At(req[r].remote).   *)

Become(r, q) == req' = [req EXCEPT ![r] = q]
Goto(r, pc) == Become(r, [req[r] EXCEPT !.pc = pc])
Return(r) == Become(r, Idle)
Inst(r) == req[r].inst
Place(r) == At(req[r].remote)

FirstPc(op) == CASE op = "start" -> "boot" [] op = "delete" -> "destroy"
                 [] OTHER -> "shutdown"

\* GetInstance, which replaces the host id by the host's address in its copy
\* (and panics without a host), and GetHost of that; its error means no host.
Arrive(r) ==
  /\ req[r].pc = "idle"
  /\ \E i \in Instances, op \in Ops :
       /\ rows[i].status \notin {"none", "terminated"}
       /\ rows[i].host \in Hosts
       /\ \E h \in {None} \cup ({IpOf[rows[i].host]} \cap Hosts) :
            Become(r, [pc |-> FirstPc(op), op |-> op, inst |-> i,
                       host |-> IpOf[rows[i].host], remote |-> h])
  /\ UNCHANGED <<rows, leases, shared, launch, task, machines, disks>>

\* domain.Shutdown asks the guest; AssignVPC goes on without it.
Shutdown(r) ==
  /\ req[r].pc = "shutdown"
  /\ \/ Runs(Inst(r), Place(r)) /\ req[r].op = "stop" /\ Goto(r, "save")
     \/ Runs(Inst(r), Place(r)) /\ req[r].op = "restart" /\ Goto(r, "wait")
     \/ req[r].op \in {"stop", "restart"} /\ Return(r)
     \/ req[r].op = "assign" /\ Goto(r, "release")
  /\ UNCHANGED <<rows, leases, shared, launch, task, machines, disks>>

\* RestartVM polls until the machine is off, however long that takes.
Wait(r) ==
  /\ req[r].pc = "wait"
  /\ ~Runs(Inst(r), Place(r))
  /\ Goto(r, "boot")
  /\ UNCHANGED <<rows, leases, shared, launch, task, machines, disks>>

WaitFails(r) ==
  /\ req[r].pc = "wait"
  /\ Return(r)
  /\ UNCHANGED <<rows, leases, shared, launch, task, machines, disks>>

Boot(r) ==
  /\ req[r].pc = "boot"
  /\ \/ StartVM(Inst(r), Place(r)) /\ Goto(r, "save")
     \/ UNCHANGED machines /\ Return(r)
  /\ UNCHANGED <<rows, leases, shared, launch, task, disks>>

StatusAfter(op) == CASE op = "stop" -> "stopped" [] op = "restart" -> "Restarting"
                     [] OTHER -> "running"

\* StartInstance writes the status; the others write the copy they hold.
Save(r) ==
  LET i == Inst(r)
      host == IF req[r].op = "start" THEN rows[i].host ELSE req[r].host IN
  /\ req[r].pc = "save"
  /\ Write(i, [status |-> StatusAfter(req[r].op), host |-> host])
  /\ Return(r)
  /\ UNCHANGED <<leases, shared, launch, task, machines, disks>>

\* DeleteVM: lookup and Destroy, whose error is dropped; AssignVPC drops all.
Destroy(r) ==
  LET i == Inst(r)
      p == Place(r) IN
  /\ req[r].pc = "destroy"
  /\ \/ /\ Exists(i, p)
        /\ \/ machines[i][p] = "transient" /\ SetMachine(i, p, "absent")
           \/ machines[i][p] = "running" /\ SetMachine(i, p, "shutoff")
           \/ UNCHANGED machines
        /\ Goto(r, "undefine")
     \/ /\ UNCHANGED machines
        /\ IF req[r].op = "delete" THEN Return(r) ELSE Goto(r, "define")
  /\ UNCHANGED <<rows, leases, shared, launch, task, disks>>

\* Fault: the machine is asked to go down and undefined once it is off.
UndefineOnceOff(r) ==
  LET i == Inst(r)
      p == Place(r) IN
  /\ req[r].pc = "undefine" /\ ~Runs(i, p)
  /\ UndefineVM(i, p)
  /\ Goto(r, IF req[r].op = "delete" THEN "unlink" ELSE "define")
  /\ UNCHANGED <<rows, leases, shared, launch, task, disks>>

Undefine(r) ==
  LET i == Inst(r)
      p == Place(r) IN
  /\ req[r].pc = "undefine"
  /\ \/ /\ machines[i][p] \in {"shutoff", "running"}
        /\ UndefineVM(i, p)
        /\ Goto(r, IF req[r].op = "delete" THEN "unlink" ELSE "define")
     \/ /\ UNCHANGED machines
        /\ IF req[r].op = "delete" THEN Return(r) ELSE Goto(r, "define")
  /\ UNCHANGED <<rows, leases, shared, launch, task, disks>>

UnlinkDisk(r) ==
  /\ req[r].pc = "unlink"
  /\ Unlink(Inst(r), Place(r))
  /\ Goto(r, "mark")
  /\ UNCHANGED <<rows, leases, shared, launch, task, machines>>

\* repo.Delete.
Mark(r) ==
  /\ req[r].pc = "mark"
  /\ Write(Inst(r), [rows[Inst(r)] EXCEPT !.status = "terminated"])
  /\ Return(r)
  /\ UNCHANGED <<leases, shared, launch, task, machines, disks>>

\* AssignVPC: the old address goes, a new one is allocated.
Release(r) ==
  /\ req[r].pc = "release"
  /\ ReleaseLease(Inst(r))
  /\ Goto(r, "allocate")
  /\ UNCHANGED <<rows, shared, launch, task, machines, disks>>

Reallocate(r) ==
  /\ req[r].pc = "allocate"
  /\ \/ /\ Inst(r) \notin leases
        /\ leases' = leases \cup {Inst(r)}
        /\ Goto(r, "transfer")
     \/ UNCHANGED leases /\ Return(r)
  /\ UNCHANGED <<rows, shared, launch, task, machines, disks>>

\* Fault: a machine without a host address is moved on the local libvirt.
TransferIsoOrLocal(r) ==
  /\ req[r].pc = "transfer"
  /\ \/ Goto(r, "destroy")
     \/ Return(r)
  /\ UNCHANGED <<rows, leases, shared, launch, task, machines, disks>>

\* The new ISO is built and copied.
TransferIso(r) ==
  /\ req[r].pc = "transfer"
  /\ \/ req[r].remote # None /\ Goto(r, "destroy")
     \/ Return(r)
  /\ UNCHANGED <<rows, leases, shared, launch, task, machines, disks>>

Redefine(r) ==
  /\ req[r].pc = "define"
  /\ \/ DefineVM(Inst(r), Place(r)) /\ Goto(r, "create")
     \/ UNCHANGED machines /\ Return(r)
  /\ UNCHANGED <<rows, leases, shared, launch, task, disks>>

Recreate(r) ==
  /\ req[r].pc = "create"
  /\ \/ StartVM(Inst(r), Place(r)) /\ Goto(r, "save")
     \/ FailToStartVM(Inst(r), Place(r)) /\ Return(r)
  /\ UNCHANGED <<rows, leases, shared, launch, task, disks>>

----------------------------------------------------------------------------
\* A guest goes down, because it was asked to or by itself.
PowerOff(i, p) ==
  /\ Runs(i, p)
  /\ SetMachine(i, p, IF machines[i][p] = "transient" THEN "absent" ELSE "shutoff")
  /\ UNCHANGED <<rows, leases, shared, launch, task, req, disks>>

\* The process dies; ids drawn before are not drawn again.
Crash ==
  /\ launch' = [i \in Instances |->
       IF launch[i].pc = "none" THEN launch[i] ELSE [launch[i] EXCEPT !.pc = "done"]]
  /\ task' = [i \in Instances |->
       IF task[i].pc = "none" THEN task[i] ELSE [task[i] EXCEPT !.pc = "done"]]
  /\ req' = [r \in Requests |-> Idle]
  /\ UNCHANGED <<rows, leases, shared, machines, disks>>

LaunchStep(i) ==
  \/ SelectHost(i) \/ Persist(i) \/ Unlease(i) \/ Reconcile(i)
  \/ Abort(i) \/ Bind(i) \/ Record(i)
TaskStep(i) ==
  \/ ResolveHost(i) \/ BuildOverlay(i) \/ Transfer(i) \/ Define(i) \/ Create(i)
  \/ Finish(i) \/ Fail(i) \/ SaveTask(i) \/ UnlinkOverlay(i) \/ ReleaseTask(i)
Serve(r) ==
  \/ Shutdown(r) \/ Wait(r) \/ Boot(r) \/ Save(r) \/ Destroy(r) \/ Undefine(r)
  \/ UnlinkDisk(r) \/ Mark(r) \/ Release(r) \/ Reallocate(r) \/ TransferIso(r)
  \/ Redefine(r) \/ Recreate(r)

Next ==
  \/ \E i \in Instances : Allocate(i) \/ LaunchStep(i) \/ TaskStep(i)
  \/ \E r \in Requests : Arrive(r) \/ Serve(r) \/ WaitFails(r)
  \/ \E i \in Instances, p \in Places : PowerOff(i, p)
  \/ Crash

Spec == Init /\ [][Next]_vars

----------------------------------------------------------------------------
(* Properties.                                                             *)

\* The tables, the structures in memory, the machines and the files have the
\* shape of their types.
TypeOK ==
  /\ rows \in [Instances -> RowType]
  /\ leases \subseteq Instances
  /\ shared \in [Instances -> Structure]
  /\ launch \in [Instances -> LaunchType]
  /\ task \in [Instances -> TaskType]
  /\ req \in [Requests -> RequestType]
  /\ machines \in [Instances -> [Places -> MachineState]]
  /\ disks \subseteq Instances \X Places

\* A machine exists only where its instance's row can say: on the host the row
\* names, or no host yet.  Every write of the row comes from a copy made
\* earlier, and the address may be missing when it is needed (an empty one
\* means the local libvirt): neither may leave a machine where no later request
\* looks for it (instance_lifecycle.go:316-325, libvirt_client.go:526-529).
MachineWhereRowSays ==
  \A i \in Instances, p \in Places :
    Exists(i, p) => /\ rows[i].status # "none"
                    /\ p \in Hosts /\ rows[i].host \in {None, p, IpOf[p]}

\* An instance is given to one host once, and its machine exists there and
\* nowhere else, whatever overlaps: creation, a move to another VPC that defines
\* the machine anew, deletion, a crash between any two steps.
HomeOf == [i \in Instances |-> launch[i].host]
Known == {i \in Instances : rows[i].status # "none"}
Placed == {ip \in Instances \X Places : Exists(ip[1], ip[2])}
Homes == INSTANCE Placement WITH home <- HomeOf, known <- Known, placed <- Placed
ImplementsPlacement == Homes!Spec

\* A request returns or waits for a guest to go down (RestartVM): no other call
\* depends on what the guest or another request does.
RequestReturns ==
  \A r \in Requests :
    req[r].pc # "idle" ~> req[r].pc \in {"idle", "wait"}

\* Once an id is drawn, CreateInstance and the goroutine it started end.
LaunchEnds ==
  \A i \in Instances :
    launch[i].pc # "none" ~> launch[i].pc = "done" /\ task[i].pc \in {"none", "done"}

Quiet(i) ==
  /\ launch[i].pc \in {"none", "done"} /\ task[i].pc \in {"none", "done"}
  /\ \A r \in Requests : Inst(r) # i

\* What docs/internal/networking-core.md:136 says of TERMINATED: "All resources
\* released".  Stated of the machine, once nothing works on the instance any
\* more; lost files and leases are weaker than a guest that goes on running.
TerminatedMeansReleased ==
  \A i \in Instances :
    Quiet(i) /\ rows[i].status = "terminated" =>
      \A p \in Places : ~Exists(i, p)

----------------------------------------------------------------------------
\* Goroutines are scheduled and every statement, call and command returns;
\* guests need not go down and nobody needs to send requests.
Fairness ==
  /\ \A i \in Instances : WF_vars(LaunchStep(i)) /\ WF_vars(TaskStep(i))
  /\ \A r \in Requests : WF_vars(Serve(r))
FairSpec == Spec /\ Fairness
=============================================================================
