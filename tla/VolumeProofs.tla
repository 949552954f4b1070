---------------------------- MODULE VolumeProofs ----------------------------
(***************************************************************************)
(* Proofs about module Volume, for every number of volumes, machines and   *)
(* requests and every size.                                                *)
(***************************************************************************)
EXTENDS Volume, TLAPS

----------------------------------------------------------------------------
(* The inductive invariant.                                                *)

Named(row) ==
  row.status \in {"attached", "detaching"} =>
    row.vm \in Instances /\ row.dev \in Devices \ {0}

\* A row or a copy of it that may be in the table next to a file of that size.
Good(row, size) ==
  /\ row.status # "none" /\ row.size \in Sizes /\ Named(row)
  /\ size # 0 => row.size <= size

RowInv(v) ==
  /\ Row(v) => v \in minted /\ Good(rows[v], files[v])
  /\ v \notin minted => files[v] = 0

RequestInv(q) ==
  q.pc # "idle" =>
    /\ q.vol \in minted /\ Good(q.copy, files[q.vol])
    /\ q.pc \in {"expanding", "resize", "resized", "size"} => q.num \in Sizes
    /\ q.pc \in {"resized", "size"} /\ files[q.vol] # 0 => q.num <= files[q.vol]
    /\ q.pc \in {"attaching", "list", "plug", "attached", "unplug"}
         => q.vm \in Instances
    /\ q.pc \in {"plug", "attached", "unplug"} => q.num \in Devices
    /\ q.pc \in {"attached", "unplug"} => q.num # 0
    /\ q.pc \in {"detaching", "detach"} => q.copy.status = "detaching"
    /\ q.pc = "forced" => q.copy.status = "attached"

\* Until the file is made, every copy of the row has the size it will have.
CreateInv(r) ==
  req[r].pc = "create" =>
    /\ files[Vol(r)] = 0 /\ ~(Copy(r).status \in {"attached", "detaching"})
    /\ Row(Vol(r)) => rows[Vol(r)].size = Copy(r).size
    /\ \A q \in Requests \ {r} :
         req[q].pc # "idle" /\ Vol(q) = Vol(r) =>
           /\ req[q].pc \notin {"create", "resized", "size"}
           /\ Copy(q).size = Copy(r).size

RootInv == \A i \in Instances : devs[i][0] = Root

DataInv ==
  /\ \A v \in Volumes : RowInv(v)
  /\ \A r \in Requests : RequestInv(req[r])
  /\ \A r \in Requests : CreateInv(r)
IInv == TypeOK /\ DataInv /\ RootInv

USE BoundAssumption, NoneAssumption

----------------------------------------------------------------------------
(* Type correctness.                                                       *)

LEMMA InitTyped == Init => TypeOK
BY DEF Init, TypeOK, NoRow, Idle, OnlyRoot, RowType, RequestType, Status,
       Sizes, Devices

LEMMA UpdateTyped ==
  ASSUME rows \in [Volumes -> RowType], NEW v \in Volumes \cup {None},
         NEW row \in RowType, Update(v, row)
  PROVE  rows' \in [Volumes -> RowType]
BY DEF Update, Updated

LEMMA BecomeTyped ==
  ASSUME req \in [Requests -> RequestType], NEW r \in Requests,
         NEW q \in RequestType, Become(r, q)
  PROVE  req' \in [Requests -> RequestType]
BY DEF Become

LEMMA ReturnTyped ==
  ASSUME req \in [Requests -> RequestType], NEW r \in Requests, Return(r)
  PROVE  req' \in [Requests -> RequestType]
<1>1. Idle \in RequestType
  BY DEF Idle, NoRow, RequestType, RowType, Status
<1> QED
  BY <1>1, BecomeTyped DEF Return

LEMMA GotoTyped ==
  ASSUME req \in [Requests -> RequestType], NEW r \in Requests,
         NEW pc \in {"resize", "size", "list", "unplug", "detach", "unlink",
                     "delete"}, Goto(r, pc)
  PROVE  req' \in [Requests -> RequestType]
<1>1. [req[r] EXCEPT !.pc = pc] \in RequestType
  <2>1. req[r] \in RequestType
    OBVIOUS
  <2> QED
    BY <2>1 DEF RequestType
<1> QED
  BY <1>1, BecomeTyped DEF Goto

LEMMA SaveAsTyped ==
  ASSUME req \in [Requests -> RequestType], NEW r \in Requests,
         NEW status \in {"available", "deleting", "attached"}, SaveAs(r, status)
  PROVE  req' \in [Requests -> RequestType]
<1>1. [req[r].copy EXCEPT !.status = status] \in RowType
  BY DEF RequestType, RowType, Status
<1>2. [req[r] EXCEPT !.pc = "save", !.copy.status = status] \in RequestType
  BY <1>1 DEF RequestType
<1> QED
  BY <1>2, BecomeTyped DEF SaveAs

LEMMA ServesTyped ==
  ASSUME rows \in [Volumes -> RowType], NEW v \in Volumes, NEW r,
         NEW pc \in {"save", "expanding", "attaching", "detaching", "forced",
                     "unlink"},
         NEW status \in Status
  PROVE  Serves(r, v, pc, status) \in RequestType
<1>1. [rows[v] EXCEPT !.status = status] \in RowType
  BY DEF RowType
<1> QED
  BY <1>1 DEF Serves, Idle, RequestType

LEMMA FilesTyped ==
  ASSUME files \in [Volumes -> 0..MaxSize], NEW v, NEW s \in 0..MaxSize,
         files' = [files EXCEPT ![v] = s]
  PROVE  files' \in [Volumes -> 0..MaxSize]
OBVIOUS

LEMMA DisksTyped ==
  ASSUME devs \in [Instances -> [Devices -> Volumes \cup {Root, None}]],
         NEW i, NEW d, NEW x \in Volumes \cup {Root, None},
         devs' = [devs EXCEPT ![i][d] = x]
  PROVE  devs' \in [Instances -> [Devices -> Volumes \cup {Root, None}]]
OBVIOUS

\* One step of one request keeps the shapes.
LEMMA RequestTyped ==
  ASSUME IInv, NEW r \in Requests, Arrive(r) \/ Serve(r)
  PROVE  TypeOK'
<1> USE DEF TypeOK, IInv
<1>t. req[r] \in RequestType /\ Copy(r) \in RowType
  BY DEF RequestType, Copy
<1>i. RequestInv(req[r]) /\ (req[r].pc # "idle" => Vol(r) \in Volumes)
  BY DEF DataInv, RequestInv, Vol
<1>1. CASE StartCreate(r)
  <2> PICK v \in Volumes \ minted, s \in Sizes :
        LET row == [NoRow EXCEPT !.status = "creating", !.size = s] IN
        /\ rows' = [rows EXCEPT ![v] = row]
        /\ minted' = minted \cup {v}
        /\ Become(r, [Idle EXCEPT !.pc = "create", !.vol = v, !.copy = row])
    BY <1>1 DEF StartCreate
  <2>1. [NoRow EXCEPT !.status = "creating", !.size = s] \in RowType
    BY DEF NoRow, RowType, Status
  <2>2. req' \in [Requests -> RequestType]
    BY <2>1, BecomeTyped DEF Idle, RequestType
  <2> QED
    BY <1>1, <2>1, <2>2 DEF StartCreate
<1>2. CASE StartReserve(r)
  BY <1>2, ServesTyped, BecomeTyped DEF StartReserve, Status
<1>3. CASE StartExpand(r)
  <2> PICK v \in Volumes, s \in Sizes :
        Become(r, [Serves(r, v, "expanding", "expanding") EXCEPT !.num = s])
    BY <1>3 DEF StartExpand
  <2>1. Serves(r, v, "expanding", "expanding") \in RequestType
    BY ServesTyped DEF Status
  <2>2. [Serves(r, v, "expanding", "expanding") EXCEPT !.num = s] \in RequestType
    BY <2>1 DEF RequestType
  <2> QED
    BY <1>3, <2>2, BecomeTyped DEF StartExpand
<1>4. CASE StartAttach(r)
  <2> PICK v \in Volumes, i \in Instances :
        Become(r, [Serves(r, v, "attaching", "attaching") EXCEPT !.vm = i])
    BY <1>4 DEF StartAttach
  <2>1. Serves(r, v, "attaching", "attaching") \in RequestType
    BY ServesTyped DEF Status
  <2>2. [Serves(r, v, "attaching", "attaching") EXCEPT !.vm = i] \in RequestType
    BY <2>1 DEF RequestType
  <2> QED
    BY <1>4, <2>2, BecomeTyped DEF StartAttach
<1>5. CASE StartDetach(r)
  BY <1>5, ServesTyped, BecomeTyped DEF StartDetach, Status
<1>6. CASE StartDelete(r)
  <2> PICK v \in Volumes :
        Become(r, Serves(r, v, IF rows[v].status = "attached" THEN "forced"
                               ELSE "unlink", rows[v].status))
    BY <1>6 DEF StartDelete
  <2>1. rows[v].status \in Status
    BY DEF RowType
  <2> QED
    BY <1>6, <2>1, ServesTyped, BecomeTyped DEF StartDelete
<1>7. CASE CreateFile(r)
  <2>1. Copy(r).size \in 0..MaxSize
    BY <1>7, <1>i DEF CreateFile, RequestInv, Good, Copy, Sizes
  <2>2. files' \in [Volumes -> 0..MaxSize]
    BY <1>7, <2>1, FilesTyped DEF CreateFile
  <2> QED
    BY <1>7, <2>2, SaveAsTyped DEF CreateFile
<1>8. CASE Save(r)
  <2>1. rows' \in [Volumes -> RowType]
    BY <1>8, <1>t, <1>i, UpdateTyped DEF Save
  <2> QED
    BY <1>8, <2>1, ReturnTyped DEF Save
<1>9. CASE Announce(r)
  <2>1. rows' \in [Volumes -> RowType]
    BY <1>9, <1>t, <1>i, UpdateTyped DEF Announce
  <2> QED
    BY <1>9, <2>1, GotoTyped DEF Announce
<1>10. CASE Resize(r)
  <2>1. req[r].num \in Sizes /\ req[r].num \in 0..MaxSize
    BY <1>10, <1>i DEF Resize, RequestInv, Sizes
  <2>2. files' \in [Volumes -> 0..MaxSize]
    BY <1>10, <2>1, FilesTyped DEF Resize
  <2>3. [req[r].copy EXCEPT !.size = req[r].num, !.status = "available"] \in RowType
    BY <2>1, <1>t DEF RequestType, RowType, Status
  <2>4. [req[r] EXCEPT !.pc = "resized", !.copy.size = req[r].num,
                       !.copy.status = "available"] \in RequestType
    BY <2>3, <1>t DEF RequestType
  <2> QED
    BY <1>10, <2>2, <2>4, BecomeTyped, SaveAsTyped DEF Resize
<1>11. CASE SaveResized(r)
  <2>1. rows' \in [Volumes -> RowType]
    BY <1>11, <1>t, <1>i, UpdateTyped DEF SaveResized
  <2> QED
    BY <1>11, <2>1, GotoTyped DEF SaveResized
<1>12. CASE SaveSize(r)
  <2>1. req[r].num \in Sizes /\ Vol(r) \in Volumes
    BY <1>12, <1>i DEF SaveSize, RequestInv
  <2>2. [rows[Vol(r)] EXCEPT !.size = req[r].num] \in RowType
    <3>1. rows[Vol(r)] \in RowType
      BY <2>1
    <3> QED
      BY <2>1, <3>1 DEF RowType
  <2>3. rows' \in [Volumes -> RowType]
    BY <1>12, <2>1, <2>2, UpdateTyped DEF SaveSize
  <2> QED
    BY <1>12, <2>3, ReturnTyped DEF SaveSize
<1>13. CASE ListDevices(r)
  <2>1. \A d \in Devices : [req[r] EXCEPT !.pc = "plug", !.num = d] \in RequestType
    BY <1>t DEF RequestType
  <2> QED
    BY <1>13, <2>1, BecomeTyped, SaveAsTyped DEF ListDevices
<1>14. CASE Plug(r)
  <2>1. Vol(r) \in Volumes /\ req[r].vm \in Instances /\ req[r].num \in Devices
    BY <1>14, <1>i DEF Plug, RequestInv
  <2>2. devs' \in [Instances -> [Devices -> Volumes \cup {Root, None}]]
    BY <1>14, <2>1, DisksTyped DEF Plug, AttachDisk
  <2>3. [status |-> "attached", size |-> Copy(r).size,
         vm |-> req[r].vm, dev |-> req[r].num] \in RowType
    BY <1>t, <2>1 DEF RowType, Status
  <2>4. [req[r] EXCEPT !.pc = "attached",
           !.copy = [status |-> "attached", size |-> Copy(r).size,
                     vm |-> req[r].vm, dev |-> req[r].num]] \in RequestType
    BY <1>t, <2>3 DEF RequestType
  <2> QED
    BY <1>14, <2>2, <2>4, BecomeTyped, SaveAsTyped DEF Plug
<1>15. CASE SaveAttached(r)
  <2>1. rows' \in [Volumes -> RowType]
    BY <1>15, <1>t, <1>i, UpdateTyped DEF SaveAttached, Update
  <2> QED
    BY <1>15, <2>1, GotoTyped, ReturnTyped DEF SaveAttached
<1>16. CASE Unplug(r)
  BY <1>16, DisksTyped, ReturnTyped DEF Unplug, DetachDisk
<1>17. CASE Detach(r)
  <2>1. [req[r].copy EXCEPT !.status = "available", !.vm = None, !.dev = None]
          \in RowType
    BY <1>t DEF RequestType, RowType, Status
  <2>2. Detached(r) \in RequestType
    BY <2>1, <1>t DEF Detached, RequestType
  <2> QED
    BY <1>17, <2>2, DisksTyped, BecomeTyped, SaveAsTyped DEF Detach, DetachDisk
<1>18. CASE ForceDetach(r)
  BY <1>18, DisksTyped, GotoTyped DEF ForceDetach, DetachDisk
<1>19. CASE UnlinkFile(r)
  BY <1>19, FilesTyped, GotoTyped, ReturnTyped DEF UnlinkFile
<1>20. CASE DeleteRow(r)
  <2>1. NoRow \in RowType
    BY DEF NoRow, RowType, Status
  <2> QED
    BY <1>20, <2>1, ReturnTyped DEF DeleteRow
<1> QED
  BY <1>1, <1>2, <1>3, <1>4, <1>5, <1>6, <1>7, <1>8, <1>9, <1>10, <1>11, <1>12,
     <1>13, <1>14, <1>15, <1>16, <1>17, <1>18, <1>19, <1>20 DEF Arrive, Serve

LEMMA MachineTyped ==
  ASSUME TypeOK, NEW i \in Instances, PowerOff(i) \/ PowerOn(i) \/ Redefine(i)
  PROVE  TypeOK'
<1>1. OnlyRoot \in [Devices -> Volumes \cup {Root, None}]
  BY DEF OnlyRoot
<1> QED
  BY <1>1 DEF TypeOK, PowerOff, PowerOn, Redefine

LEMMA CrashTyped == TypeOK /\ Crash => TypeOK'
<1>1. Idle \in RequestType
  BY DEF Idle, NoRow, RequestType, RowType, Status
<1> QED
  BY <1>1 DEF TypeOK, Crash

----------------------------------------------------------------------------
(* The root disk of a machine stays: libvirt plugs nothing into a target   *)
(* that is taken, and a request only takes out what a row names.           *)

LEMMA RootStays ==
  ASSUME IInv, [Next]_vars
  PROVE  RootInv'
<1> USE DEF IInv, RootInv, TypeOK
<1>0. 0 \in Devices
  BY DEF Devices
<1>1. ASSUME NEW r \in Requests, Plug(r) PROVE RootInv'
  BY <1>0, <1>1 DEF Plug, AttachDisk
<1>2. ASSUME NEW r \in Requests, NEW i, NEW d, d # 0, DetachDisk(i, d)
      PROVE RootInv'
  BY <1>0, <1>2 DEF DetachDisk
<1>3. ASSUME NEW r \in Requests, Unplug(r) PROVE RootInv'
  <2>1. req[r].num # 0
    BY <1>3 DEF Unplug, DataInv, RequestInv
  <2> QED
    BY <1>2, <1>3, <2>1 DEF Unplug
<1>4. ASSUME NEW r \in Requests, Detach(r) PROVE RootInv'
  <2>1. Copy(r).dev # 0
    BY <1>4 DEF Detach, DataInv, RequestInv, Good, Named, Copy
  <2> QED
    BY <1>2, <1>4, <2>1 DEF Detach
<1>5. ASSUME NEW r \in Requests, ForceDetach(r) PROVE RootInv'
  <2>1. Copy(r).dev # 0
    BY <1>5 DEF ForceDetach, DataInv, RequestInv, Good, Named, Copy
  <2> QED
    BY <1>2, <1>5, <2>1 DEF ForceDetach
<1>6. ASSUME NEW i \in Instances, Redefine(i) PROVE RootInv'
  BY <1>0, <1>6 DEF Redefine, OnlyRoot
<1>7. CASE UNCHANGED devs
  BY <1>7
<1>8. ASSUME NEW r \in Requests, Arrive(r) PROVE UNCHANGED devs
  BY <1>8 DEF Arrive, StartCreate, StartReserve, StartExpand, StartAttach,
              StartDetach, StartDelete
<1>9. ASSUME NEW r \in Requests, Serve(r),
             ~(Plug(r) \/ Unplug(r) \/ Detach(r) \/ ForceDetach(r))
      PROVE UNCHANGED devs
  BY <1>9 DEF Serve, CreateFile, Save, Announce, Resize, SaveResized, SaveSize,
              ListDevices, SaveAttached, UnlinkFile, DeleteRow
<1>10. ASSUME NEW i \in Instances, PowerOff(i) \/ PowerOn(i)
       PROVE UNCHANGED devs
  BY <1>10 DEF PowerOff, PowerOn
<1>11. Crash \/ UNCHANGED vars => UNCHANGED devs
  BY DEF Crash, vars
<1> HIDE DEF RootInv, IInv, TypeOK
<1> QED
  BY <1>1, <1>3, <1>4, <1>5, <1>6, <1>7, <1>8, <1>9, <1>10, <1>11 DEF Next

----------------------------------------------------------------------------
(* Sizes.  Two lemmas say what a step of one request does to the others:   *)
(* one for steps that leave the files alone, one for those that do not.    *)

\* q goes on with the volume of r, or begins with a copy of a row.
Follows(r, q) ==
  q.pc # "idle" =>
    /\ RequestInv(q) /\ q.pc # "create"
    /\ q.pc \in {"resized", "size"} => req[r].pc \in {"resized", "size"}
    /\ \/ req[r].pc # "idle" /\ q.vol = Vol(r) /\ q.copy.size = Copy(r).size
       \/ req[r].pc = "idle" /\ Row(q.vol) /\ q.copy.size = rows[q.vol].size

LEMMA FilesStay ==
  ASSUME TypeOK, DataInv, NEW r \in Requests, NEW q \in RequestType,
         Become(r, q), Follows(r, q), UNCHANGED <<files, minted>>,
         \/ UNCHANGED rows
         \/ req[r].pc # "idle" /\ Update(Vol(r), Copy(r))
  PROVE  DataInv'
<1>0. /\ req' = [req EXCEPT ![r] = q] /\ req \in [Requests -> RequestType]
      /\ rows \in [Volumes -> RowType]
      /\ req'[r] = q /\ \A p \in Requests \ {r} : req'[p] = req[p]
  BY DEF Become, TypeOK
<1>1. ASSUME NEW v \in Volumes PROVE RowInv(v)'
  <2>1. CASE UNCHANGED rows
    BY <2>1 DEF DataInv, RowInv, Row, Good, Named
  <2>2. CASE req[r].pc # "idle" /\ Updated(Vol(r), Copy(r))
    <3>1. Vol(r) \in minted /\ Good(Copy(r), files[Vol(r)])
      BY <2>2 DEF DataInv, RequestInv, Vol, Copy
    <3>2. rows'[v] = IF v = Vol(r) THEN Copy(r) ELSE rows[v]
      BY <1>0, <2>2 DEF Updated
    <3>3. v # Vol(r) => RowInv(v)'
      BY <3>2 DEF DataInv, RowInv, Row, Good, Named
    <3>4. v = Vol(r) => RowInv(v)'
      BY <3>1, <3>2 DEF DataInv, RowInv, Good, Named
    <3> QED
      BY <3>3, <3>4
  <2> QED
    BY <2>1, <2>2 DEF Update
<1>2. ASSUME NEW p \in Requests PROVE RequestInv(req[p])'
  <2>1. RequestInv(req'[p])
    BY <1>0 DEF DataInv, Follows, RequestInv
  <2> QED
    BY <2>1 DEF RequestInv, Good, Named
<1>3. ASSUME NEW c \in Requests PROVE CreateInv(c)'
  <2> SUFFICES ASSUME req'[c].pc = "create" PROVE CreateInv(c)'
    BY DEF CreateInv
  <2>1. c # r /\ req[c].pc = "create" /\ CreateInv(c) /\ req'[c] = req[c]
    BY <1>0 DEF Follows, DataInv
  <2>2. req[r].pc # "idle" /\ Vol(r) = Vol(c) =>
          /\ req[r].pc \notin {"create", "resized", "size"}
          /\ Copy(r).size = Copy(c).size
    BY <2>1 DEF CreateInv
  <2>3. rows'[Vol(c)].status # "none" => rows'[Vol(c)].size = Copy(c).size
    <3>1. CASE UNCHANGED rows
      BY <2>1, <3>1 DEF CreateInv, Row
    <3>2. CASE req[r].pc # "idle" /\ Updated(Vol(r), Copy(r))
      BY <1>0, <2>1, <2>2, <3>2 DEF CreateInv, Row, Updated
    <3> QED
      BY <3>1, <3>2 DEF Update
  <2>4. q.pc # "idle" /\ q.vol = Vol(c) =>
          q.pc \notin {"create", "resized", "size"} /\ q.copy.size = Copy(c).size
    BY <2>1, <2>2 DEF Follows, CreateInv
  <2> QED
    BY <1>0, <2>1, <2>3, <2>4 DEF CreateInv, Vol, Copy, Row
<1> QED
  BY <1>1, <1>2, <1>3 DEF DataInv

\* The file of the volume of r gets the size s, which is 0 or one that all
\* copies of the row allow.
LEMMA FileSet ==
  ASSUME TypeOK, DataInv, NEW r \in Requests, NEW q \in RequestType,
         NEW s \in 0..MaxSize, req[r].pc # "idle",
         Become(r, q), UNCHANGED <<rows, minted>>,
         files' = [files EXCEPT ![Vol(r)] = s],
         q.pc # "create", RequestInv(q)', q.pc # "idle" => q.vol = Vol(r),
         \/ /\ s = 0 /\ q.pc \notin {"resized", "size"}
            /\ q.pc # "idle" => q.copy.size = Copy(r).size
         \/ /\ Row(Vol(r)) => rows[Vol(r)].size <= s
            /\ \A p \in Requests \ {r} : req[p].pc # "idle" /\ Vol(p) = Vol(r) =>
                 /\ req[p].pc # "create" /\ Copy(p).size <= s
                 /\ req[p].pc \in {"resized", "size"} => req[p].num <= s
  PROVE  DataInv'
<1>0. /\ req' = [req EXCEPT ![r] = q] /\ req \in [Requests -> RequestType]
      /\ req'[r] = q /\ \A p \in Requests \ {r} : req'[p] = req[p]
      /\ Vol(r) \in minted /\ minted \subseteq Volumes
      /\ files'[Vol(r)] = s /\ \A v \in Volumes \ {Vol(r)} : files'[v] = files[v]
  BY DEF Become, TypeOK, DataInv, RequestInv, Vol
<1>1. ASSUME NEW v \in Volumes PROVE RowInv(v)'
  BY <1>0 DEF DataInv, RowInv, Row, Good, Named
<1>2. ASSUME NEW p \in Requests PROVE RequestInv(req[p])'
  <2>1. CASE p = r
    BY <1>0, <2>1
  <2>2. CASE p # r
    <3>1. RequestInv(req[p]) /\ req'[p] = req[p]
      BY <1>0, <2>2 DEF DataInv
    <3>2. CASE req[p].pc # "idle" /\ Vol(p) = Vol(r)
      BY <1>0, <2>2, <3>1, <3>2 DEF RequestInv, Good, Named, Vol, Copy
    <3>3. CASE req[p].pc # "idle" /\ Vol(p) # Vol(r)
      <4>1. files'[Vol(p)] = files[Vol(p)]
        BY <1>0, <3>1, <3>3 DEF RequestInv, Vol
      <4> QED
        BY <3>1, <4>1 DEF RequestInv, Good, Named, Vol
    <3> QED
      BY <3>1, <3>2, <3>3 DEF RequestInv
  <2> QED
    BY <2>1, <2>2
<1>3. ASSUME NEW c \in Requests PROVE CreateInv(c)'
  <2> SUFFICES ASSUME req'[c].pc = "create" PROVE CreateInv(c)'
    BY DEF CreateInv
  <2>1. c # r /\ req[c].pc = "create" /\ CreateInv(c) /\ req'[c] = req[c]
    BY <1>0 DEF DataInv
  <2>2. Vol(c) \in Volumes
    BY <1>0, <2>1 DEF DataInv, RequestInv, Vol
  <2>3. Vol(r) = Vol(c) => /\ s = 0 /\ q.pc \notin {"resized", "size"}
                           /\ q.pc # "idle" => q.copy.size = Copy(r).size
                           /\ Copy(r).size = Copy(c).size
    BY <2>1 DEF CreateInv
  <2>4. files'[Vol(c)] = 0
    BY <1>0, <2>1, <2>2, <2>3 DEF CreateInv
  <2>5. q.pc # "idle" /\ q.vol = Vol(c) =>
          q.pc \notin {"create", "resized", "size"} /\ q.copy.size = Copy(c).size
    BY <2>3
  <2> QED
    BY <1>0, <2>1, <2>4, <2>5 DEF CreateInv, Vol, Copy, Row
<1> QED
  BY <1>1, <1>2, <1>3 DEF DataInv

----------------------------------------------------------------------------
(* The steps of a request.                                                 *)

LEMMA IdleQuiet == Idle \in RequestType /\ Idle.pc = "idle"
BY DEF Idle, NoRow, RequestType, RowType, Status

\* The request ends.
LEMMA Returns ==
  ASSUME TypeOK, DataInv, NEW r \in Requests, Return(r),
         UNCHANGED <<files, minted>>,
         UNCHANGED rows \/ (req[r].pc # "idle" /\ Update(Vol(r), Copy(r)))
  PROVE  DataInv'
<1>1. Follows(r, Idle)
  BY IdleQuiet DEF Follows
<1> QED
  BY <1>1, IdleQuiet, FilesStay DEF Return

\* The request goes on with the structure it has.
LEMMA GoesOn ==
  ASSUME TypeOK, DataInv, NEW r \in Requests, req[r].pc # "idle",
         NEW pc \in {"resize", "size", "list", "unplug", "detach", "unlink",
                     "delete"},
         pc = "resize" => req[r].pc = "expanding",
         pc = "size" => req[r].pc = "resized",
         pc = "list" => req[r].pc = "attaching",
         pc = "unplug" => req[r].pc = "attached",
         pc = "detach" => req[r].pc = "detaching",
         Goto(r, pc), UNCHANGED <<files, minted>>,
         UNCHANGED rows \/ Update(Vol(r), Copy(r))
  PROVE  DataInv'
<1> DEFINE q == [req[r] EXCEPT !.pc = pc]
<1>1. req[r] \in RequestType /\ RequestInv(req[r])
  BY DEF TypeOK, DataInv
<1>2. /\ q \in RequestType /\ q.pc = pc /\ q.vol = req[r].vol
      /\ q.copy = req[r].copy /\ q.vm = req[r].vm /\ q.num = req[r].num
  BY <1>1 DEF RequestType
<1> HIDE DEF q
<1>3. RequestInv(q)
  BY <1>1, <1>2 DEF RequestInv
<1>4. Follows(r, q)
  BY <1>2, <1>3 DEF Follows, Vol, Copy
<1> QED
  BY <1>2, <1>4, FilesStay DEF Goto, q

\* The request goes on to its last Update.
LEMMA Finishes ==
  ASSUME TypeOK, DataInv, NEW r \in Requests, req[r].pc # "idle",
         NEW status \in {"available", "attached"},
         status = "attached" => Copy(r).status = "detaching",
         SaveAs(r, status), UNCHANGED <<rows, files, minted>>
  PROVE  DataInv'
<1> DEFINE q == [req[r] EXCEPT !.pc = "save", !.copy.status = status]
<1>1. req[r] \in RequestType /\ RequestInv(req[r]) /\ req[r].copy \in RowType
  BY DEF TypeOK, DataInv, RequestType
<1>2. [req[r].copy EXCEPT !.status = status] \in RowType
  BY <1>1 DEF RowType, Status
<1>3. /\ q \in RequestType /\ q.pc = "save" /\ q.vol = req[r].vol
      /\ q.copy = [req[r].copy EXCEPT !.status = status]
  BY <1>1, <1>2 DEF RequestType
<1>4. q.copy.status = status /\ q.copy.size = Copy(r).size
      /\ q.copy.vm = Copy(r).vm /\ q.copy.dev = Copy(r).dev
  BY <1>1, <1>3 DEF RowType, Copy
<1> HIDE DEF q
<1>5. Good(req[r].copy, files[req[r].vol]) /\ req[r].vol \in minted
  BY <1>1 DEF RequestInv
<1>6. Good(q.copy, files[q.vol])
  BY <1>3, <1>4, <1>5 DEF Good, Named, Copy
<1>7. Follows(r, q)
  BY <1>3, <1>4, <1>5, <1>6 DEF Follows, RequestInv, Vol
<1> QED
  BY <1>3, <1>7, FilesStay DEF SaveAs, q

\* The request begins with the row it has read.
LEMMA Begins ==
  ASSUME TypeOK, DataInv, NEW r \in Requests, req[r].pc = "idle",
         NEW v \in Volumes, Row(v), NEW q \in RequestType, Become(r, q),
         q.vol = v, q.pc \notin {"idle", "create", "resized", "size", "resize",
                                 "list", "plug", "attached", "unplug", "detach"},
         q.copy.size = rows[v].size, q.copy.status # "none", Named(q.copy),
         q.pc = "expanding" => q.num \in Sizes,
         q.pc = "attaching" => q.vm \in Instances,
         q.pc = "detaching" => q.copy.status = "detaching",
         q.pc = "forced" => q.copy.status = "attached",
         UNCHANGED <<rows, files, minted>>
  PROVE  DataInv'
<1>1. v \in minted /\ Good(rows[v], files[v])
  BY DEF DataInv, RowInv
<1>2. RequestInv(q)
  BY <1>1 DEF RequestInv, Good
<1> QED
  BY <1>2, FilesStay DEF Follows

\* What Serves makes of the row.
LEMMA ServesRow ==
  ASSUME TypeOK, DataInv, NEW r, NEW v \in Volumes, Row(v),
         NEW pc \in {"save", "expanding", "attaching", "detaching", "forced",
                     "unlink"},
         NEW status \in Status \ {"none"},
         status \in {"attached", "detaching"} => rows[v].status = "attached"
  PROVE  LET q == Serves(r, v, pc, status) IN
         /\ q \in RequestType /\ q.pc = pc /\ q.vol = v
         /\ q.copy.status = status /\ q.copy.size = rows[v].size
         /\ Named(q.copy)
<1> DEFINE q == Serves(r, v, pc, status)
<1>1. rows[v] \in RowType /\ Named(rows[v])
  BY DEF TypeOK, DataInv, RowInv, Good
<1>2. q \in RequestType
  BY ServesTyped DEF TypeOK
<1>3. q.pc = pc /\ q.vol = v /\ q.copy = [rows[v] EXCEPT !.status = status]
  BY DEF Serves, Idle
<1>4. /\ q.copy.status = status /\ q.copy.size = rows[v].size
      /\ q.copy.vm = rows[v].vm /\ q.copy.dev = rows[v].dev
  BY <1>1, <1>3 DEF RowType
<1> HIDE DEF q
<1>5. Named(q.copy)
  BY <1>1, <1>4 DEF Named
<1> QED
  BY <1>2, <1>3, <1>4, <1>5 DEF q

LEMMA ArriveData ==
  ASSUME IInv, NEW r \in Requests, Arrive(r)
  PROVE  DataInv'
<1>0. TypeOK /\ DataInv
  BY DEF IInv
<1>1. CASE StartReserve(r)
  <2> PICK v \in Volumes : Row(v) /\ Become(r, Serves(r, v, "save", "reserved"))
    BY <1>1 DEF StartReserve
  <2> QED
    BY <1>0, <1>1, ServesRow, Begins DEF StartReserve, Status
<1>2. CASE StartExpand(r)
  <2> PICK v \in Volumes, s \in Sizes :
        Row(v) /\ Become(r, [Serves(r, v, "expanding", "expanding") EXCEPT !.num = s])
    BY <1>2 DEF StartExpand
  <2> DEFINE p == Serves(r, v, "expanding", "expanding")
             q == [p EXCEPT !.num = s]
  <2>1. /\ p \in RequestType /\ p.pc = "expanding" /\ p.vol = v
        /\ p.copy.status = "expanding" /\ p.copy.size = rows[v].size
        /\ Named(p.copy)
    BY <1>0, ServesRow DEF Status
  <2> HIDE DEF p
  <2>2. /\ q \in RequestType /\ q.pc = p.pc /\ q.vol = p.vol /\ q.copy = p.copy
        /\ q.num = s
    BY <2>1 DEF RequestType
  <2> HIDE DEF q
  <2>3. Become(r, q)
    BY DEF p, q
  <2> QED
    BY <1>0, <1>2, <2>1, <2>2, <2>3, Begins DEF StartExpand
<1>3. CASE StartAttach(r)
  <2> PICK v \in Volumes, i \in Instances :
        /\ rows[v].status = "available"
        /\ Become(r, [Serves(r, v, "attaching", "attaching") EXCEPT !.vm = i])
    BY <1>3 DEF StartAttach
  <2> DEFINE p == Serves(r, v, "attaching", "attaching")
             q == [p EXCEPT !.vm = i]
  <2>0. Row(v)
    BY DEF Row
  <2>1. /\ p \in RequestType /\ p.pc = "attaching" /\ p.vol = v
        /\ p.copy.status = "attaching" /\ p.copy.size = rows[v].size
        /\ Named(p.copy)
    BY <1>0, <2>0, ServesRow DEF Status
  <2> HIDE DEF p
  <2>2. /\ q \in RequestType /\ q.pc = p.pc /\ q.vol = p.vol /\ q.copy = p.copy
        /\ q.vm = i
    BY <2>1 DEF RequestType
  <2> HIDE DEF q
  <2>3. Become(r, q)
    BY DEF p, q
  <2> QED
    BY <1>0, <1>3, <2>0, <2>1, <2>2, <2>3, Begins DEF StartAttach
<1>4. CASE StartDetach(r)
  <2> PICK v \in Volumes :
        /\ rows[v].status = "attached"
        /\ Become(r, Serves(r, v, "detaching", "detaching"))
    BY <1>4 DEF StartDetach
  <2>1. Row(v)
    BY DEF Row
  <2> QED
    BY <1>0, <1>4, <2>1, ServesRow, Begins DEF StartDetach, Status
<1>5. CASE StartDelete(r)
  <2> PICK v \in Volumes :
        /\ Row(v)
        /\ Become(r, Serves(r, v, IF rows[v].status = "attached" THEN "forced"
                                  ELSE "unlink", rows[v].status))
    BY <1>5 DEF StartDelete
  <2> DEFINE pc == IF rows[v].status = "attached" THEN "forced" ELSE "unlink"
             q == Serves(r, v, pc, rows[v].status)
  <2>1. rows[v].status \in Status \ {"none"} /\ rows[v] \in RowType
    BY <1>0 DEF TypeOK, RowType, Row
  <2>2. Named(rows[v])
    BY <1>0 DEF DataInv, RowInv, Good
  <2>3. q \in RequestType
    BY <1>0, <2>1, ServesTyped DEF TypeOK
  <2>4. q.pc = pc /\ q.vol = v /\ q.copy = rows[v]
    BY <2>1 DEF Serves, Idle, RowType
  <2>5. Become(r, q)
    OBVIOUS
  <2> HIDE DEF q
  <2> QED
    BY <1>0, <1>5, <2>1, <2>2, <2>3, <2>4, <2>5, Begins DEF StartDelete
<1>6. CASE StartCreate(r)
  <2> PICK v \in Volumes \ minted, s \in Sizes :
        LET row == [NoRow EXCEPT !.status = "creating", !.size = s] IN
        /\ rows' = [rows EXCEPT ![v] = row]
        /\ minted' = minted \cup {v}
        /\ Become(r, [Idle EXCEPT !.pc = "create", !.vol = v, !.copy = row])
    BY <1>6 DEF StartCreate
  <2> DEFINE row == [NoRow EXCEPT !.status = "creating", !.size = s]
             q == [Idle EXCEPT !.pc = "create", !.vol = v, !.copy = row]
  <2>1. row.status = "creating" /\ row.size = s
    BY DEF NoRow
  <2> HIDE DEF row
  <2>2. q.pc = "create" /\ q.vol = v /\ q.copy = row
    BY DEF Idle
  <2>3. rows' = [rows EXCEPT ![v] = row] /\ req' = [req EXCEPT ![r] = q]
    BY DEF row, Become
  <2> HIDE DEF q
  <2>4. /\ rows'[v] = row /\ \A u \in Volumes \ {v} : rows'[u] = rows[u]
        /\ req'[r] = q /\ \A p \in Requests \ {r} : req'[p] = req[p]
        /\ UNCHANGED files /\ minted' = minted \cup {v} /\ files[v] = 0
    BY <1>0, <1>6, <2>3 DEF TypeOK, StartCreate, DataInv, RowInv
  <2>5. Good(row, 0)
    BY <2>1 DEF Good, Named
  <2>6. ASSUME NEW u \in Volumes PROVE RowInv(u)'
    BY <1>0, <2>4, <2>5 DEF DataInv, RowInv, Row, Good, Named
  <2>7. ASSUME NEW p \in Requests PROVE RequestInv(req[p])'
    <3>1. CASE p = r
      <4>1. RequestInv(q)'
        BY <2>2, <2>4, <2>5 DEF RequestInv, Good, Named
      <4> QED
        BY <2>4, <3>1, <4>1
    <3>2. CASE p # r
      <4>1. RequestInv(req[p])
        BY <1>0 DEF DataInv
      <4> QED
        BY <2>4, <3>2, <4>1 DEF RequestInv, Good, Named
    <3> QED
      BY <3>1, <3>2
  <2>8. \A p \in Requests : req[p].pc # "idle" => Vol(p) # v
    BY <1>0 DEF DataInv, RequestInv, Vol
  <2>9. ASSUME NEW c \in Requests PROVE CreateInv(c)'
    <3>1. CASE c = r
      BY <2>1, <2>2, <2>4, <2>8, <3>1 DEF CreateInv, Vol, Copy
    <3>2. CASE c # r /\ req[c].pc = "create"
      <4>1. CreateInv(c) /\ Vol(c) # v /\ Vol(c) \in Volumes
        BY <1>0, <2>8, <3>2 DEF DataInv, RequestInv, Vol, TypeOK
      <4> QED
        BY <2>2, <2>4, <3>2, <4>1 DEF CreateInv, Vol, Copy, Row
    <3> QED
      BY <2>4, <3>1, <3>2 DEF CreateInv
  <2> QED
    BY <2>6, <2>7, <2>9 DEF DataInv
<1> QED
  BY <1>1, <1>2, <1>3, <1>4, <1>5, <1>6 DEF Arrive

\* What a request may be told of itself.
LEMMA OfRequest ==
  ASSUME IInv, NEW r \in Requests, req[r].pc # "idle"
  PROVE  /\ TypeOK /\ DataInv /\ RequestInv(req[r])
         /\ Vol(r) \in minted /\ Vol(r) \in Volumes /\ Copy(r) \in RowType
         /\ Good(Copy(r), files[Vol(r)])
         /\ req[r] \in RequestType /\ RowInv(Vol(r))
<1>1. TypeOK /\ DataInv
  BY DEF IInv
<1>2. req[r] \in RequestType /\ RequestInv(req[r])
  BY <1>1 DEF TypeOK, DataInv
<1> QED
  BY <1>1, <1>2 DEF RequestType, RequestInv, Vol, Copy, TypeOK, DataInv

LEMMA CreateFileData ==
  ASSUME IInv, NEW r \in Requests, CreateFile(r)
  PROVE  DataInv'
<1>1. PICK status \in {"available", "deleting"} :
        /\ SaveAs(r, status)
        /\ \/ files' = [files EXCEPT ![Vol(r)] = Copy(r).size]
           \/ files' = files
  BY DEF CreateFile
<1> PICK q : q = [req[r] EXCEPT !.pc = "save", !.copy.status = status]
  OBVIOUS
<1>2. req[r].pc = "create" /\ UNCHANGED <<rows, minted>> /\ Become(r, q)
  BY <1>1 DEF CreateFile, SaveAs
<1>3. /\ TypeOK /\ DataInv /\ RequestInv(req[r]) /\ Vol(r) \in Volumes
      /\ Vol(r) \in minted /\ Good(Copy(r), files[Vol(r)])
      /\ Copy(r) \in RowType /\ req[r] \in RequestType /\ CreateInv(r)
  BY <1>2, OfRequest DEF DataInv
<1>4. [req[r].copy EXCEPT !.status = status] \in RowType
  BY <1>3 DEF RowType, Status, Copy
<1>5. /\ q \in RequestType /\ q.pc = "save" /\ q.vol = Vol(r)
      /\ q.copy = [req[r].copy EXCEPT !.status = status]
  BY <1>3, <1>4 DEF RequestType, Vol
<1>6. q.copy.status = status /\ q.copy.size = Copy(r).size
  BY <1>3, <1>5 DEF RowType, Copy
<1>7. Copy(r).size \in Sizes /\ Copy(r).size \in 0..MaxSize
  BY <1>3 DEF Good, Sizes
<1>8. files[Vol(r)] = 0 /\ files \in [Volumes -> 0..MaxSize]
  BY <1>2, <1>3 DEF CreateInv, TypeOK
<1>9. CASE files' = files
  <2>1. Follows(r, q)
    BY <1>2, <1>3, <1>5, <1>6, <1>7, <1>8 DEF Follows, RequestInv, Good, Named
  <2> QED
    BY <1>2, <1>3, <1>5, <1>9, <2>1, FilesStay
<1>10. CASE files' = [files EXCEPT ![Vol(r)] = Copy(r).size]
  <2>1. files'[Vol(r)] = Copy(r).size
    BY <1>3, <1>8, <1>10
  <2>2. RequestInv(q)'
    BY <1>2, <1>3, <1>5, <1>6, <1>7, <2>1 DEF RequestInv, Good, Named
  <2>3. /\ Row(Vol(r)) => rows[Vol(r)].size <= Copy(r).size
        /\ \A p \in Requests \ {r} : req[p].pc # "idle" /\ Vol(p) = Vol(r) =>
             /\ req[p].pc # "create" /\ Copy(p).size <= Copy(r).size
             /\ req[p].pc \notin {"resized", "size"}
    BY <1>2, <1>3, <1>7 DEF CreateInv, Sizes
  <2> QED
    BY <1>2, <1>3, <1>5, <1>7, <1>10, <2>2, <2>3, FileSet
<1> QED
  BY <1>1, <1>9, <1>10

\* Nothing works on the volume with a size above that of its file, and its
\* creation is over when it has one.
LEMMA ResizeData ==
  ASSUME IInv, NEW r \in Requests, Resize(r)
  PROVE  DataInv'
<1> PICK v, num, done, not :
      /\ v = Vol(r) /\ num = req[r].num
      /\ done = [req[r] EXCEPT !.pc = "resized", !.copy.size = num,
                               !.copy.status = "available"]
      /\ not = [req[r] EXCEPT !.pc = "save", !.copy.status = "available"]
  OBVIOUS
<1> DEFINE grown == [files EXCEPT ![v] = num]
<1>1. req[r].pc = "resize" /\ UNCHANGED <<rows, minted>>
  BY DEF Resize
<1>2. /\ TypeOK /\ DataInv /\ RequestInv(req[r]) /\ v \in Volumes
      /\ v \in minted /\ Good(Copy(r), files[v])
      /\ Copy(r) \in RowType /\ req[r] \in RequestType /\ RowInv(v)
  BY <1>1, OfRequest
<1>3. num \in Sizes /\ num \in 0..MaxSize /\ files[v] \in 0..MaxSize
  BY <1>1, <1>2 DEF RequestInv, Sizes, TypeOK
<1>4. /\ done \in RequestType /\ done.pc = "resized" /\ done.vol = v
      /\ done.num = num
      /\ done.copy = [req[r].copy EXCEPT !.size = num, !.status = "available"]
  <2>1. [req[r].copy EXCEPT !.size = num, !.status = "available"] \in RowType
    BY <1>2, <1>3 DEF RowType, Status, Copy
  <2> QED
    BY <1>2, <2>1 DEF RequestType, Vol
<1>5. /\ not \in RequestType /\ not.pc = "save" /\ not.vol = v
      /\ not.copy = [req[r].copy EXCEPT !.status = "available"]
  <2>1. [req[r].copy EXCEPT !.status = "available"] \in RowType
    BY <1>2 DEF RowType, Status, Copy
  <2> QED
    BY <1>2, <2>1 DEF RequestType, Vol
<1>6. /\ done.copy.status = "available" /\ done.copy.size = num
      /\ not.copy.status = "available" /\ not.copy.size = Copy(r).size
  <2>1. Copy(r) = req[r].copy /\ req[r].copy \in RowType
    BY <1>2 DEF Copy
  <2>2. done.copy.status = "available" /\ done.copy.size = num
    <3>1. done.copy = [req[r].copy EXCEPT !.size = num, !.status = "available"]
      BY <1>4
    <3> QED
      BY <3>1, <2>1 DEF RowType
  <2>3. not.copy.status = "available" /\ not.copy.size = Copy(r).size
    BY <1>5, <2>1 DEF RowType
  <2> QED
    BY <2>2, <2>3
<1>7. \/ files[v] # 0 /\ files[v] <= num /\ files' = grown /\ Become(r, done)
      \/ files[v] # 0 /\ files[v] <= num /\ files' = grown /\ Become(r, not)
      \/ files' = files /\ SaveAs(r, "available")
  BY DEF Resize, SaveAs
<1>8. ASSUME files[v] # 0, files[v] <= num
      PROVE  /\ Row(v) => rows[v].size <= num
             /\ \A p \in Requests \ {r} : req[p].pc # "idle" /\ Vol(p) = v =>
                  /\ req[p].pc # "create" /\ Copy(p).size <= num
                  /\ req[p].pc \in {"resized", "size"} => req[p].num <= num
  <2>1. Row(v) => rows[v].size \in Sizes /\ rows[v].size <= files[v]
    BY <1>2, <1>8 DEF RowInv, Good
  <2>2. ASSUME NEW p \in Requests \ {r}, req[p].pc # "idle", Vol(p) = v
        PROVE  /\ req[p].pc # "create"
               /\ Copy(p).size \in Sizes /\ Copy(p).size <= files[v]
               /\ req[p].pc \in {"resized", "size"} =>
                    req[p].num \in Sizes /\ req[p].num <= files[v]
    <3>1. RequestInv(req[p]) /\ CreateInv(p)
      BY <1>2 DEF DataInv
    <3> QED
      BY <1>8, <2>2, <3>1 DEF RequestInv, CreateInv, Good, Vol, Copy
  <2> QED
    BY <1>3, <1>8, <2>1, <2>2 DEF Sizes
<1>9. ASSUME files[v] # 0, files[v] <= num, files' = grown,
             NEW q \in {done, not}, Become(r, q)
      PROVE  DataInv'
  <2>1. files'[v] = num
    BY <1>2, <1>9 DEF TypeOK
  <2>2. Copy(r).size \in Sizes /\ Copy(r).size <= num
    BY <1>2, <1>3, <1>9 DEF Good, Sizes
  <2>3. num <= num
    BY <1>3 DEF Sizes
  <2>4. RequestInv(done)'
    BY <1>1, <1>2, <1>3, <1>4, <1>6, <2>1, <2>3 DEF RequestInv, Good, Named
  <2>5. RequestInv(not)'
    BY <1>1, <1>2, <1>5, <1>6, <2>1, <2>2 DEF RequestInv, Good, Named
  <2>6. q \in RequestType /\ q.pc # "create" /\ q.vol = v /\ RequestInv(q)'
    BY <1>4, <1>5, <1>9, <2>4, <2>5
  <2> QED
    BY <1>1, <1>2, <1>3, <1>8, <1>9, <2>6, FileSet
<1>10. CASE files' = files /\ SaveAs(r, "available")
  BY <1>1, <1>2, <1>10, Finishes
<1> QED
  BY <1>7, <1>9, <1>10

LEMMA UnlinkData ==
  ASSUME IInv, NEW r \in Requests, UnlinkFile(r)
  PROVE  DataInv'
<1>1. req[r].pc = "unlink" /\ UNCHANGED <<rows, minted>>
  BY DEF UnlinkFile
<1>2. /\ TypeOK /\ DataInv /\ RequestInv(req[r]) /\ Vol(r) \in Volumes
      /\ req[r] \in RequestType
  BY <1>1, OfRequest
<1>3. CASE files' = [files EXCEPT ![Vol(r)] = 0] /\ Goto(r, "delete")
  <2> PICK q : q = [req[r] EXCEPT !.pc = "delete"]
    OBVIOUS
  <2>1. /\ q \in RequestType /\ q.pc = "delete" /\ q.vol = Vol(r)
        /\ q.copy = Copy(r)
    BY <1>2 DEF RequestType, Vol, Copy
  <2>2. Become(r, q)
    BY <1>3 DEF Goto
  <2>3. files'[Vol(r)] = 0
    BY <1>2, <1>3 DEF TypeOK
  <2>4. RequestInv(q)'
    BY <1>1, <1>2, <2>1, <2>3 DEF RequestInv, Good, Named, Vol, Copy
  <2>5. 0 \in 0..MaxSize
    OBVIOUS
  <2> QED
    BY <1>1, <1>2, <1>3, <2>1, <2>2, <2>4, <2>5, FileSet
<1>4. CASE files' = files /\ Return(r)
  BY <1>1, <1>2, <1>4, Returns
<1> QED
  BY <1>3, <1>4 DEF UnlinkFile

\* Only the row changes: it goes, or a good one is written of a volume whose
\* creation is over.
LEMMA RowSet ==
  ASSUME TypeOK, DataInv, NEW v \in minted, NEW row \in RowType,
         rows' = [rows EXCEPT ![v] = row], UNCHANGED <<files, minted>>,
         row.status # "none" =>
           /\ Good(row, files[v])
           /\ \A c \in Requests : req[c].pc = "create" => Vol(c) # v,
         NEW r \in Requests, Return(r)
  PROVE  DataInv'
<1>0. /\ v \in Volumes /\ rows'[v] = row
      /\ \A u \in Volumes \ {v} : rows'[u] = rows[u]
      /\ req'[r] = Idle /\ \A p \in Requests \ {r} : req'[p] = req[p]
  BY DEF TypeOK, Return, Become
<1>1. ASSUME NEW u \in Volumes PROVE RowInv(u)'
  BY <1>0 DEF DataInv, RowInv, Row, Good, Named
<1>2. ASSUME NEW p \in Requests PROVE RequestInv(req[p])'
  <2>1. RequestInv(req'[p])
    BY <1>0, IdleQuiet DEF DataInv, RequestInv
  <2> QED
    BY <2>1 DEF RequestInv, Good, Named
<1>3. ASSUME NEW c \in Requests PROVE CreateInv(c)'
  <2> SUFFICES ASSUME req'[c].pc = "create" PROVE CreateInv(c)'
    BY DEF CreateInv
  <2>1. c # r /\ req[c].pc = "create" /\ CreateInv(c) /\ req'[c] = req[c]
    BY <1>0, IdleQuiet DEF DataInv
  <2>2. Vol(c) \in Volumes
    BY <2>1 DEF DataInv, RequestInv, Vol, TypeOK
  <2>3. Vol(c) = v => row.status = "none"
    BY <2>1
  <2> QED
    BY <1>0, <2>1, <2>2, <2>3, IdleQuiet DEF CreateInv, Vol, Copy, Row
<1> QED
  BY <1>1, <1>2, <1>3 DEF DataInv

LEMMA SaveSizeData ==
  ASSUME IInv, NEW r \in Requests, SaveSize(r)
  PROVE  DataInv'
<1> DEFINE v == Vol(r)
           row == [rows[v] EXCEPT !.size = req[r].num]
<1>1. req[r].pc = "size" /\ Return(r) /\ UNCHANGED <<files, minted>>
  BY DEF SaveSize
<1>2. /\ TypeOK /\ DataInv /\ RequestInv(req[r]) /\ v \in Volumes
      /\ v \in minted /\ RowInv(v)
  BY <1>1, OfRequest
<1>3. CASE Updated(v, row)
  <2>1. rows[v] \in RowType /\ Good(rows[v], files[v])
    BY <1>2, <1>3 DEF TypeOK, RowInv, Updated
  <2>2. req[r].num \in Sizes /\ (files[v] # 0 => req[r].num <= files[v])
    BY <1>1, <1>2 DEF RequestInv, Vol
  <2>3. /\ row \in RowType /\ row.size = req[r].num
        /\ row.status = rows[v].status /\ row.vm = rows[v].vm
        /\ row.dev = rows[v].dev
    BY <2>1, <2>2 DEF RowType
  <2>4. rows' = [rows EXCEPT ![v] = row]
    BY <1>3 DEF Updated
  <2> HIDE DEF row
  <2>5. Good(row, files[v])
    BY <2>1, <2>2, <2>3 DEF Good, Named
  <2>6. \A c \in Requests : req[c].pc = "create" => Vol(c) # v
    BY <1>1, <1>2 DEF DataInv, CreateInv
  <2> HIDE DEF v
  <2> QED
    BY <1>1, <1>2, <2>3, <2>4, <2>5, <2>6, RowSet
<1>4. CASE UNCHANGED rows
  BY <1>1, <1>2, <1>4, Returns
<1> QED
  BY <1>3, <1>4 DEF SaveSize, Update

LEMMA DeleteRowData ==
  ASSUME IInv, NEW r \in Requests, DeleteRow(r)
  PROVE  DataInv'
<1>1. req[r].pc = "delete" /\ Return(r) /\ UNCHANGED <<files, minted>>
  BY DEF DeleteRow
<1>2. TypeOK /\ DataInv /\ Vol(r) \in minted
  BY <1>1, OfRequest
<1>3. NoRow \in RowType /\ NoRow.status = "none"
  BY DEF NoRow, RowType, Status
<1>4. CASE rows' = [rows EXCEPT ![Vol(r)] = NoRow]
  BY <1>1, <1>2, <1>3, <1>4, RowSet
<1>5. CASE rows' = rows
  BY <1>1, <1>2, <1>5, Returns
<1> QED
  BY <1>4, <1>5 DEF DeleteRow

LEMMA ListData ==
  ASSUME IInv, NEW r \in Requests, ListDevices(r)
  PROVE  DataInv'
<1>1. req[r].pc = "list" /\ UNCHANGED <<rows, files, minted>>
  BY DEF ListDevices
<1>2. TypeOK /\ DataInv /\ req[r] \in RequestType /\ RequestInv(req[r])
  BY <1>1, OfRequest
<1>3. ASSUME NEW d \in Devices,
             Become(r, [req[r] EXCEPT !.pc = "plug", !.num = d])
      PROVE  DataInv'
  <2> PICK q : q = [req[r] EXCEPT !.pc = "plug", !.num = d]
    OBVIOUS
  <2>1. /\ q \in RequestType /\ q.pc = "plug" /\ q.vol = req[r].vol
        /\ q.copy = req[r].copy /\ q.vm = req[r].vm /\ q.num = d
    BY <1>2 DEF RequestType
  <2>2. Follows(r, q)
    BY <1>1, <1>2, <2>1 DEF Follows, RequestInv, Vol, Copy
  <2> QED
    BY <1>1, <1>2, <1>3, <2>1, <2>2, FilesStay
<1>4. CASE SaveAs(r, "available")
  BY <1>1, <1>2, <1>4, Finishes
<1> QED
  BY <1>3, <1>4 DEF ListDevices

LEMMA PlugData ==
  ASSUME IInv, NEW r \in Requests, Plug(r)
  PROVE  DataInv'
<1>1. req[r].pc = "plug" /\ UNCHANGED <<rows, files, minted>>
  BY DEF Plug
<1>2. /\ TypeOK /\ DataInv /\ RootInv /\ req[r] \in RequestType
      /\ RequestInv(req[r]) /\ Copy(r) \in RowType
  BY <1>1, OfRequest DEF IInv
<1>3. CASE AttachDisk(Vol(r), req[r].vm, req[r].num) /\
           Become(r, [req[r] EXCEPT !.pc = "attached",
             !.copy = [status |-> "attached", size |-> Copy(r).size,
                       vm |-> req[r].vm, dev |-> req[r].num]])
  <2> PICK row : row = [status |-> "attached", size |-> Copy(r).size,
                        vm |-> req[r].vm, dev |-> req[r].num]
    OBVIOUS
  <2> PICK q : q = [req[r] EXCEPT !.pc = "attached", !.copy = row]
    OBVIOUS
  <2>1. req[r].vm \in Instances /\ req[r].num \in Devices
    BY <1>1, <1>2 DEF RequestInv
  <2>2. req[r].num # 0
    BY <1>2, <1>3, <2>1 DEF AttachDisk, RootInv
  <2>3. row \in RowType
    BY <1>2, <2>1 DEF RowType, Status
  <2>4. /\ q \in RequestType /\ q.pc = "attached" /\ q.vol = req[r].vol
        /\ q.copy = row /\ q.vm = req[r].vm /\ q.num = req[r].num
    BY <1>2, <2>3 DEF RequestType
  <2>5. Good(Copy(r), files[req[r].vol]) /\ req[r].vol \in minted
    BY <1>1, <1>2 DEF RequestInv, Copy
  <2>6. Good(row, files[req[r].vol])
    BY <2>1, <2>2, <2>5 DEF Good, Named
  <2>7. Follows(r, q)
    BY <1>1, <2>1, <2>2, <2>4, <2>5, <2>6 DEF Follows, RequestInv, Vol
  <2>8. Become(r, q)
    BY <1>3
  <2> QED
    BY <1>1, <1>2, <2>4, <2>7, <2>8, FilesStay
<1>4. CASE SaveAs(r, "available")
  BY <1>1, <1>2, <1>4, Finishes
<1> QED
  BY <1>3, <1>4 DEF Plug

LEMMA DetachData ==
  ASSUME IInv, NEW r \in Requests, Detach(r)
  PROVE  DataInv'
<1>1. req[r].pc = "detach" /\ UNCHANGED <<rows, files, minted>>
  BY DEF Detach
<1>2. /\ TypeOK /\ DataInv /\ req[r] \in RequestType
      /\ RequestInv(req[r]) /\ Copy(r) \in RowType
  BY <1>1, OfRequest
<1>3. CASE Become(r, Detached(r))
  <2> PICK q : q = Detached(r)
    OBVIOUS
  <2>1. [req[r].copy EXCEPT !.status = "available", !.vm = None, !.dev = None]
          \in RowType
    BY <1>2 DEF RowType, Status, Copy
  <2>2. /\ q \in RequestType /\ q.pc = "save" /\ q.vol = req[r].vol
        /\ q.copy.status = "available" /\ q.copy.size = Copy(r).size
    <3>1. /\ q \in RequestType /\ q.pc = "save" /\ q.vol = req[r].vol
          /\ q.copy = [req[r].copy EXCEPT !.status = "available", !.vm = None,
                                          !.dev = None]
      BY <1>2, <2>1 DEF Detached, RequestType
    <3>2. Copy(r) = req[r].copy /\ req[r].copy \in RowType
      BY <1>2 DEF Copy
    <3> QED
      BY <3>1, <3>2 DEF RowType
  <2>3. Follows(r, q)
    BY <1>1, <1>2, <2>2 DEF Follows, RequestInv, Good, Named, Vol, Copy
  <2>4. Become(r, q)
    BY <1>3
  <2> QED
    BY <1>1, <1>2, <2>2, <2>3, <2>4, FilesStay
<1>4. CASE SaveAs(r, "attached")
  <2>1. Copy(r).status = "detaching"
    BY <1>1, <1>2 DEF RequestInv, Copy
  <2> QED
    BY <1>1, <1>2, <1>4, <2>1, Finishes
<1> QED
  BY <1>3, <1>4 DEF Detach

LEMMA ServeData ==
  ASSUME IInv, NEW r \in Requests, Serve(r)
  PROVE  DataInv'
<1>0. TypeOK /\ DataInv
  BY DEF IInv
<1>1. CASE Save(r)
  BY <1>0, <1>1, Returns DEF Save
<1>2. CASE Announce(r)
  BY <1>0, <1>2, GoesOn DEF Announce
<1>3. CASE SaveResized(r)
  BY <1>0, <1>3, GoesOn DEF SaveResized
<1>4. CASE SaveAttached(r)
  BY <1>0, <1>4, GoesOn, Returns DEF SaveAttached, Update
<1>5. CASE Unplug(r)
  BY <1>0, <1>5, Returns DEF Unplug
<1>6. CASE ForceDetach(r)
  BY <1>0, <1>6, GoesOn DEF ForceDetach
<1> QED
  BY <1>1, <1>2, <1>3, <1>4, <1>5, <1>6, CreateFileData, ResizeData, UnlinkData,
     SaveSizeData, DeleteRowData, ListData, PlugData, DetachData DEF Serve

LEMMA OthersData ==
  ASSUME IInv,
         \/ \E i \in Instances : PowerOff(i) \/ PowerOn(i) \/ Redefine(i)
         \/ UNCHANGED vars
  PROVE  DataInv'
<1>1. UNCHANGED <<rows, files, minted, req>>
  BY DEF PowerOff, PowerOn, Redefine, vars
<1>2. DataInv
  BY DEF IInv
<1> QED
  BY <1>1, <1>2 DEF DataInv, RowInv, RequestInv, CreateInv, Good, Named, Row,
                    Vol, Copy

LEMMA CrashData ==
  ASSUME IInv, Crash
  PROVE  DataInv'
<1>1. UNCHANGED <<rows, files, minted>> /\ \A r \in Requests : req'[r] = Idle
  BY DEF Crash
<1>2. \A v \in Volumes : RowInv(v)'
  BY <1>1 DEF IInv, DataInv, RowInv, Good, Named, Row
<1>3. \A r \in Requests : RequestInv(req[r])' /\ CreateInv(r)'
  BY <1>1, IdleQuiet DEF RequestInv, CreateInv
<1> QED
  BY <1>2, <1>3 DEF DataInv

----------------------------------------------------------------------------
(* The theorems.                                                           *)

LEMMA InitData == Init => DataInv /\ RootInv
<1> SUFFICES ASSUME Init PROVE DataInv /\ RootInv
  OBVIOUS
<1>1. \A v \in Volumes : RowInv(v)
  BY DEF Init, RowInv, Row, NoRow
<1>2. \A r \in Requests : RequestInv(req[r]) /\ CreateInv(r)
  BY IdleQuiet DEF Init, RequestInv, CreateInv
<1>3. RootInv
  BY DEF Init, RootInv, OnlyRoot, Devices
<1> QED
  BY <1>1, <1>2, <1>3 DEF DataInv

LEMMA StepKeeps == IInv /\ [Next]_vars => IInv'
<1> SUFFICES ASSUME IInv, [Next]_vars PROVE IInv'
  OBVIOUS
<1>1. TypeOK'
  <2>1. CASE UNCHANGED vars
    BY <2>1 DEF IInv, TypeOK, vars
  <2>2. CASE Next
    BY <2>2, RequestTyped, MachineTyped, CrashTyped DEF Next, IInv
  <2> QED
    BY <2>1, <2>2
<1>2. DataInv'
  BY ArriveData, ServeData, OthersData, CrashData DEF Next
<1> QED
  BY <1>1, <1>2, RootStays DEF IInv

\* Every step keeps the invariant, with any number of volumes and requests.
THEOREM Inductive == Spec => []IInv
<1>1. Init => IInv
  BY InitTyped, InitData DEF IInv
<1> QED
  BY <1>1, StepKeeps, PTL DEF Spec

\* The state keeps its shape.
THEOREM TypeCorrect == Spec => []TypeOK
<1>1. IInv => TypeOK
  BY DEF IInv
<1> QED
  BY <1>1, Inductive, PTL

\* No row ever shows more room than the image has, whatever overlaps, fails or
\* is written back late.
THEOREM SizesAreBacked == Spec => []SizeBacked
<1>1. IInv => SizeBacked
  BY DEF IInv, DataInv, RowInv, Good, SizeBacked
<1> QED
  BY <1>1, Inductive, PTL

\* An attached row always names a machine and one of its other devices, so a
\* detachment never takes out a root disk.
THEOREM AttachedRowsNameDevices == Spec => []AttachedRowNamesDevice
<1>1. IInv => AttachedRowNamesDevice
  BY DEF IInv, DataInv, RowInv, Good, Named, Row, AttachedRowNamesDevice
<1> QED
  BY <1>1, Inductive, PTL
=============================================================================
