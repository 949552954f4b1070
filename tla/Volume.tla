------------------------------- MODULE Volume -------------------------------
(***************************************************************************)
(* The volume service (internal/application/volume_service.go): table      *)
(* volumes, the image files and the disks of the machines, driven by       *)
(* concurrent requests.                                                    *)
(*                                                                         *)
(* A request reads the row once and from then on writes that copy back,    *)
(* whole, whatever the row says by then.  CreateVolume and ExpandVolume go *)
(* on in a goroutine after they returned: it is the same request here.  A  *)
(* step is one SQL statement, one libvirt call or one command, and each    *)
(* may fail; a crash of the process loses every request.                   *)
(***************************************************************************)
EXTENDS Naturals

CONSTANTS
  Volumes,    \* the serial ids of table volumes
  Instances,  \* machines the local libvirt knows
  Requests,   \* goroutines that may serve requests at the same time
  MaxSize,    \* 1000 when a volume is created
  LastDevice, \* 25: /dev/vda, which is 0, to /dev/vdz
  Root,       \* the disk a machine is defined with
  None

ASSUME BoundAssumption == MaxSize \in Nat /\ LastDevice \in Nat
ASSUME NoneAssumption ==
  /\ None \notin Volumes \cup Instances \cup {Root} \cup Nat
  /\ Root \notin Volumes

VARIABLES
  rows,    \* table volumes; status "none" is "no such row"
  files,   \* the size of the image file of a volume, 0 without a file
  devs,    \* the disks of each machine
  on,      \* the machines that run
  minted,  \* ids already drawn
  req      \* the requests in progress

vars == <<rows, files, devs, on, minted, req>>

Sizes == 1..MaxSize
Devices == 0..LastDevice
Status == {"none", "creating", "available", "attaching", "attached",
           "detaching", "expanding", "reserved", "deleting"}
RowType == [status : Status, size : Sizes \cup {None},
            vm : Instances \cup {None}, dev : Devices \cup {None}]
NoRow == [status |-> "none", size |-> None, vm |-> None, dev |-> None]
Row(v) == rows[v].status # "none"

\* copy: the structure read from the row; num: the new size, or the device.
Idle == [pc |-> "idle", vol |-> None, copy |-> NoRow, vm |-> None, num |-> None]
RequestType ==
  [pc : {"idle", "create", "save", "expanding", "resize", "resized", "size",
         "attaching", "list", "plug", "attached", "unplug", "detaching",
         "detach", "forced", "unlink", "delete"},
   vol : Volumes \cup {None}, copy : RowType,
   vm : Instances \cup {None}, num : Sizes \cup Devices \cup {None}]

OnlyRoot == [d \in Devices |-> IF d = 0 THEN Root ELSE None]

Init ==
  /\ rows = [v \in Volumes |-> NoRow]
  /\ files = [v \in Volumes |-> 0]
  /\ devs = [i \in Instances |-> OnlyRoot]
  /\ on = Instances
  /\ minted = {}
  /\ req = [r \in Requests |-> Idle]

----------------------------------------------------------------------------
(* Statements and machines.                                                *)

\* repo.Update: every column from the structure; an error without the row.
Updated(v, row) == Row(v) /\ rows' = [rows EXCEPT ![v] = row]
Update(v, row) == Updated(v, row) \/ UNCHANGED rows

\* A running machine holds the lock of its images.
Locked(v) == \E i \in on, d \in Devices : devs[i][d] = v

\* AttachDeviceFlags, live and in the definition: the target must be free and
\* the image must be there.
AttachDisk(v, i, d) ==
  /\ i \in on /\ devs[i][d] = None /\ files[v] # 0 /\ ~Locked(v)
  /\ devs' = [devs EXCEPT ![i][d] = v]
\* DetachDeviceFlags finds the disk by its target, whatever its image.
DetachDisk(i, d) ==
  /\ i \in on /\ devs[i][d] # None
  /\ devs' = [devs EXCEPT ![i][d] = None]

\* getNextDevicePathFromLibvirt: the first free one, or the last when all are
\* taken.
Unused(i) == {d \in Devices : devs[i][d] = None}
NextDevice(i, d) ==
  \/ d \in Unused(i) /\ \A e \in Unused(i) : d <= e
  \/ Unused(i) = {} /\ d = LastDevice

Become(r, q) == req' = [req EXCEPT ![r] = q]
Goto(r, pc) == Become(r, [req[r] EXCEPT !.pc = pc])
Return(r) == Become(r, Idle)
\* The status goes into the structure, and what is left is one Update.
SaveAs(r, status) ==
  Become(r, [req[r] EXCEPT !.pc = "save", !.copy.status = status])
Vol(r) == req[r].vol
Copy(r) == req[r].copy

----------------------------------------------------------------------------
(* Requests arrive: the row is read and its status checked.                *)

\* INSERT with status creating; "go createVolumeAsync".
StartCreate(r) ==
  /\ req[r].pc = "idle"
  /\ \E v \in Volumes \ minted, s \in Sizes :
       LET row == [NoRow EXCEPT !.status = "creating", !.size = s] IN
       /\ rows' = [rows EXCEPT ![v] = row]
       /\ minted' = minted \cup {v}
       /\ Become(r, [Idle EXCEPT !.pc = "create", !.vol = v, !.copy = row])
  /\ UNCHANGED <<files, devs, on>>

Serves(r, v, pc, status) ==
  [Idle EXCEPT !.pc = pc, !.vol = v, !.copy = [rows[v] EXCEPT !.status = status]]

StartReserve(r) ==
  /\ req[r].pc = "idle"
  /\ \E v \in Volumes : Row(v) /\ Become(r, Serves(r, v, "save", "reserved"))
  /\ UNCHANGED <<rows, files, devs, on, minted>>

\* Fault: the new size is in the structure that announces the expansion.
StartExpandEarly(r) ==
  /\ req[r].pc = "idle"
  /\ \E v \in Volumes, s \in Sizes :
       /\ Row(v) /\ s > rows[v].size
       /\ Become(r, [Serves(r, v, "expanding", "expanding")
                       EXCEPT !.num = s, !.copy.size = s])
  /\ UNCHANGED <<rows, files, devs, on, minted>>

StartExpand(r) ==
  /\ req[r].pc = "idle"
  /\ \E v \in Volumes, s \in Sizes :
       /\ Row(v) /\ s > rows[v].size
       /\ Become(r, [Serves(r, v, "expanding", "expanding") EXCEPT !.num = s])
  /\ UNCHANGED <<rows, files, devs, on, minted>>

StartAttach(r) ==
  /\ req[r].pc = "idle"
  /\ \E v \in Volumes, i \in Instances :
       /\ rows[v].status = "available"
       /\ Become(r, [Serves(r, v, "attaching", "attaching") EXCEPT !.vm = i])
  /\ UNCHANGED <<rows, files, devs, on, minted>>

\* A root disk stays with a running instance; no row ever names one.
StartDetach(r) ==
  /\ req[r].pc = "idle"
  /\ \E v \in Volumes :
       /\ rows[v].status = "attached"
       /\ rows[v].dev = 0 => rows[v].vm \notin on
       /\ Become(r, Serves(r, v, "detaching", "detaching"))
  /\ UNCHANGED <<rows, files, devs, on, minted>>

\* An attached volume needs force.
StartDelete(r) ==
  /\ req[r].pc = "idle"
  /\ \E v \in Volumes :
       /\ Row(v)
       /\ Become(r, Serves(r, v, IF rows[v].status = "attached" THEN "forced"
                                 ELSE "unlink", rows[v].status))
  /\ UNCHANGED <<rows, files, devs, on, minted>>

----------------------------------------------------------------------------
(* CreateVolume and ExpandVolume.                                          *)

\* Fault: a status of its own for a failed creation.
CreateFileOrError(r) ==
  /\ req[r].pc = "create"
  /\ \/ /\ files' = [files EXCEPT ![Vol(r)] = Copy(r).size]
        /\ SaveAs(r, "available")
     \/ UNCHANGED files /\ SaveAs(r, "error")
  /\ UNCHANGED <<rows, devs, on, minted>>

\* qemu-img create; a failure may leave a file.
CreateFile(r) ==
  LET made == [files EXCEPT ![Vol(r)] = Copy(r).size] IN
  /\ req[r].pc = "create"
  /\ \/ files' = made /\ SaveAs(r, "available")
     \/ files' \in {files, made} /\ SaveAs(r, "deleting")
  /\ UNCHANGED <<rows, devs, on, minted>>

\* The last Update of most operations; its error is dropped or returned.
Save(r) ==
  /\ req[r].pc = "save"
  /\ Update(Vol(r), Copy(r))
  /\ Return(r)
  /\ UNCHANGED <<files, devs, on, minted>>

\* The Update before the work; its error is dropped.
Announce(r) ==
  /\ \/ req[r].pc = "expanding" /\ Goto(r, "resize")
     \/ req[r].pc = "attaching" /\ Goto(r, "list")
     \/ req[r].pc = "detaching" /\ Goto(r, "detach")
  /\ Update(Vol(r), Copy(r))
  /\ UNCHANGED <<files, devs, on, minted>>

\* qemu-img resize grows an image nobody has open and refuses to shrink it.
Resize(r) ==
  LET v == Vol(r)
      grows == files[v] # 0 /\ files[v] <= req[r].num /\ ~Locked(v)
      grown == [files EXCEPT ![v] = req[r].num] IN
  /\ req[r].pc = "resize"
  /\ \/ /\ grows /\ files' = grown
        /\ Become(r, [req[r] EXCEPT !.pc = "resized", !.copy.size = req[r].num,
                                    !.copy.status = "available"])
     \/ /\ files' = files \/ (grows /\ files' = grown)
        /\ SaveAs(r, "available")
  /\ UNCHANGED <<rows, devs, on, minted>>

SaveResized(r) ==
  /\ req[r].pc = "resized"
  /\ Update(Vol(r), Copy(r))
  /\ Goto(r, "size")
  /\ UNCHANGED <<files, devs, on, minted>>

SaveSize(r) ==
  /\ req[r].pc = "size"
  /\ Update(Vol(r), [rows[Vol(r)] EXCEPT !.size = req[r].num])
  /\ Return(r)
  /\ UNCHANGED <<files, devs, on, minted>>

----------------------------------------------------------------------------
(* AttachVolume and DetachVolume.                                          *)

ListDevices(r) ==
  /\ req[r].pc = "list"
  /\ \/ \E d \in Devices :
          /\ NextDevice(req[r].vm, d)
          /\ Become(r, [req[r] EXCEPT !.pc = "plug", !.num = d])
     \/ SaveAs(r, "available")
  /\ UNCHANGED <<rows, files, devs, on, minted>>

Plug(r) ==
  /\ req[r].pc = "plug"
  /\ \/ /\ AttachDisk(Vol(r), req[r].vm, req[r].num)
        /\ Become(r, [req[r] EXCEPT !.pc = "attached",
             !.copy = [status |-> "attached", size |-> Copy(r).size,
                       vm |-> req[r].vm, dev |-> req[r].num]])
     \/ UNCHANGED devs /\ SaveAs(r, "available")
  /\ UNCHANGED <<rows, files, on, minted>>

SaveAttached(r) ==
  /\ req[r].pc = "attached"
  /\ \/ Updated(Vol(r), Copy(r)) /\ Return(r)
     \/ UNCHANGED rows /\ Goto(r, "unplug")
  /\ UNCHANGED <<files, devs, on, minted>>

Unplug(r) ==
  /\ req[r].pc = "unplug"
  /\ DetachDisk(req[r].vm, req[r].num) \/ UNCHANGED devs
  /\ Return(r)
  /\ UNCHANGED <<rows, files, on, minted>>

Detached(r) == [req[r] EXCEPT !.pc = "save", !.copy.status = "available",
                              !.copy.vm = None, !.copy.dev = None]
\* Fault: the structure is cleared before the call, which may fail.
DetachCleared(r) ==
  /\ req[r].pc = "detach"
  /\ \/ DetachDisk(Copy(r).vm, Copy(r).dev) /\ Become(r, Detached(r))
     \/ /\ UNCHANGED devs
        /\ Become(r, [Detached(r) EXCEPT !.copy.status = "attached"])
  /\ UNCHANGED <<rows, files, on, minted>>

Detach(r) ==
  /\ req[r].pc = "detach"
  /\ \/ DetachDisk(Copy(r).vm, Copy(r).dev) /\ Become(r, Detached(r))
     \/ UNCHANGED devs /\ SaveAs(r, "attached")
  /\ UNCHANGED <<rows, files, on, minted>>

----------------------------------------------------------------------------
(* DeleteVolume.                                                           *)

\* The error of a forced detachment is dropped.
ForceDetach(r) ==
  /\ req[r].pc = "forced"
  /\ DetachDisk(Copy(r).vm, Copy(r).dev) \/ UNCHANGED devs
  /\ Goto(r, "unlink")
  /\ UNCHANGED <<rows, files, on, minted>>

\* rm -f.
UnlinkFile(r) ==
  /\ req[r].pc = "unlink"
  /\ \/ files' = [files EXCEPT ![Vol(r)] = 0] /\ Goto(r, "delete")
     \/ UNCHANGED files /\ Return(r)
  /\ UNCHANGED <<rows, devs, on, minted>>

DeleteRow(r) ==
  /\ req[r].pc = "delete"
  /\ rows' \in {rows, [rows EXCEPT ![Vol(r)] = NoRow]}
  /\ Return(r)
  /\ UNCHANGED <<files, devs, on, minted>>

----------------------------------------------------------------------------
(* Machines, and the end of the process.                                   *)

PowerOff(i) ==
  /\ i \in on /\ on' = on \ {i}
  /\ UNCHANGED <<rows, files, devs, minted, req>>

\* A machine comes up when it finds all its images and can lock them.
PowerOn(i) ==
  /\ i \notin on /\ on' = on \cup {i}
  /\ \A d \in Devices : devs[i][d] \in Volumes =>
       files[devs[i][d]] # 0 /\ ~Locked(devs[i][d])
  /\ UNCHANGED <<rows, files, devs, minted, req>>

\* AssignVPC destroys a machine and defines it anew, without the volumes.
Redefine(i) ==
  /\ devs' = [devs EXCEPT ![i] = OnlyRoot]
  /\ on' = on \ {i}
  /\ UNCHANGED <<rows, files, minted, req>>

Crash ==
  /\ req' = [r \in Requests |-> Idle]
  /\ UNCHANGED <<rows, files, devs, on, minted>>

Arrive(r) ==
  \/ StartCreate(r) \/ StartReserve(r) \/ StartExpand(r)
  \/ StartAttach(r) \/ StartDetach(r) \/ StartDelete(r)
Serve(r) ==
  \/ CreateFile(r) \/ Save(r) \/ Announce(r) \/ Resize(r) \/ SaveResized(r)
  \/ SaveSize(r) \/ ListDevices(r) \/ Plug(r) \/ SaveAttached(r) \/ Unplug(r)
  \/ Detach(r) \/ ForceDetach(r) \/ UnlinkFile(r) \/ DeleteRow(r)

Next ==
  \/ \E r \in Requests : Arrive(r) \/ Serve(r)
  \/ \E i \in Instances : PowerOff(i) \/ PowerOn(i) \/ Redefine(i)
  \/ Crash

Spec == Init /\ [][Next]_vars

----------------------------------------------------------------------------
(* Properties.                                                             *)

\* The table, the files, the machines and the requests have the shape of their
\* types.
TypeOK ==
  /\ rows \in [Volumes -> RowType]
  /\ files \in [Volumes -> 0..MaxSize]
  /\ devs \in [Instances -> [Devices -> Volumes \cup {Root, None}]]
  /\ on \subseteq Instances
  /\ minted \subseteq Volumes
  /\ req \in [Requests -> RequestType]

\* The size a row shows is one its image has, however many expansions overlap,
\* fail or write back an old structure: callers are never promised room that is
\* not there (volume_service.go:112-142).
SizeBacked ==
  \A v \in Volumes : Row(v) /\ files[v] # 0 => rows[v].size <= files[v]

\* A row that can be detached names a machine and a device other than the root
\* disk's: DetachVolume and a forced DeleteVolume cut five characters off the
\* path without looking (volume_operations.go:106) and take out what is there.
AttachedRowNamesDevice ==
  \A v \in Volumes : rows[v].status = "attached" =>
    rows[v].vm \in Instances /\ rows[v].dev \in Devices \ {0}

\* What volume_operations.go:108 says of the disk to detach: it "must match the
\* attached disk", that is, the disk taken out is the volume's.
DetachTakesOwnDisk ==
  [][\A r \in Requests : Detach(r) /\ devs' # devs =>
       devs[Copy(r).vm][Copy(r).dev] = Vol(r)]_vars
=============================================================================
