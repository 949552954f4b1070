------------------------------ MODULE Snapshot ------------------------------
(***************************************************************************)
(* SnapshotService (internal/application/snapshot_service.go): a row of    *)
(* table snapshots and a snapshot of a machine in libvirt, which is known  *)
(* by its name only.  The row is written first and marked when libvirt has *)
(* answered; a deletion goes the other way round.  Nothing makes names     *)
(* unique: the default one is the second of the request.  A snapshot of an *)
(* unattached volume is a row and nothing else.                            *)
(***************************************************************************)
EXTENDS Naturals

CONSTANTS
  Snaps,      \* requests for a snapshot, and the rows they write
  Drops,      \* requests to delete one
  Machines,   \* domains of libvirt
  Names,      \* names of snapshots
  NoSnap, NoMachine

SnapAssumption ==
  /\ Snaps # {} /\ Names # {}
  /\ NoSnap \notin Snaps /\ NoMachine \notin Machines

VARIABLES
  snaps,      \* table snapshots, the requests that fill it and their end
  drops,      \* DeleteSnapshot and DeleteVolumeSnapshot
  defined,    \* machines that libvirt finds by name
  shots       \* its snapshots of each machine, and the request that made each

snapVars == <<snaps, drops, defined, shots>>

Snap == [pc : {"idle", "make", "mark", "done"},
         row : {"none", "pending", "ready", "failed", "deleted"},
         of : {"instance", "volume"},
         vm : Machines \cup {NoMachine},
         name : Names,
         outcome : {"ready", "failed"},   \* what the row is marked with
         doomed : BOOLEAN]                \* a deletion has read the row
Drop == [pc : {"idle", "unmake", "remove"}, snap : Snaps]

Present(s) == snaps[s].row \in {"pending", "ready", "failed"}
ShotOf(s) == shots[snaps[s].vm][snaps[s].name]

\* Another row has had the same name for the same machine.
Clash(s) == \E q \in Snaps \ {s} :
  /\ snaps[q].row # "none"
  /\ snaps[q].vm = snaps[s].vm /\ snaps[q].name = snaps[s].name

Init ==
  /\ snaps \in [Snaps -> {[pc |-> "idle", row |-> "none", of |-> "instance",
        vm |-> NoMachine, name |-> n, outcome |-> "ready", doomed |-> FALSE]
        : n \in {CHOOSE n \in Names : TRUE}}]
  /\ drops \in [Drops -> {[pc |-> "idle", snap |-> s] : s \in {CHOOSE s \in Snaps : TRUE}}]
  /\ defined = Machines
  /\ shots = [m \in Machines |-> [n \in Names |-> NoSnap]]

----------------------------------------------------------------------------
\* CreateSnapshot: the row; the statement may report an error after it.
CreateOf(s, m, n) ==
  /\ snaps[s].pc = "idle"
  /\ \E pc \in {"make", "done"} :
       snaps' = [snaps EXCEPT ![s] = [@ EXCEPT !.pc = pc, !.row = "pending",
                                               !.vm = m, !.name = n]]
  /\ UNCHANGED <<drops, defined, shots>>

\* CreateVolumeSnapshot: nothing is made unless the volume is attached.
CreateOfVolume(s, m, n) ==
  /\ snaps[s].pc = "idle"
  /\ \E pc \in {IF m = NoMachine THEN "mark" ELSE "make", "done"} :
       snaps' = [snaps EXCEPT ![s] = [@ EXCEPT !.pc = pc, !.row = "pending",
                              !.of = "volume", !.vm = m, !.name = n]]
  /\ UNCHANGED <<drops, defined, shots>>

Mark(s, outcome) ==
  snaps' = [snaps EXCEPT ![s].pc = "mark", ![s].outcome = outcome]

\* Fault: an error of libvirt is not looked at.
MakeAnyway(s) ==
  /\ snaps[s].pc = "make"
  /\ \/ /\ snaps[s].vm \in defined /\ ShotOf(s) = NoSnap
        /\ shots' = [shots EXCEPT ![snaps[s].vm][snaps[s].name] = s]
     \/ UNCHANGED shots
  /\ Mark(s, "ready")
  /\ UNCHANGED <<drops, defined>>

\* libvirtClient.CreateSnapshot: libvirt refuses a name it has; its answer may
\* be lost.
Make(s) ==
  /\ snaps[s].pc = "make"
  /\ \/ /\ snaps[s].vm \in defined /\ ShotOf(s) = NoSnap
        /\ shots' = [shots EXCEPT ![snaps[s].vm][snaps[s].name] = s]
        /\ \E outcome \in {"ready", "failed"} : Mark(s, outcome)
     \/ UNCHANGED shots /\ Mark(s, "failed")
  /\ UNCHANGED <<drops, defined>>

\* UpdateStatus, whose error is dropped; a deleted row stays deleted.
MarkRow(s) ==
  /\ snaps[s].pc = "mark"
  /\ \/ snaps' = [snaps EXCEPT ![s].pc = "done",
                    ![s].row = IF Present(s) THEN snaps[s].outcome ELSE @]
     \/ snaps' = [snaps EXCEPT ![s].pc = "done"]
  /\ UNCHANGED <<drops, defined, shots>>

----------------------------------------------------------------------------
\* DeleteSnapshot reads the row of an instance, DeleteVolumeSnapshot that of a
\* volume, whose libvirt snapshot it leaves alone.
StartDrop(d, s) ==
  /\ drops[d].pc = "idle" /\ Present(s)
  /\ drops' = [drops EXCEPT ![d] =
       [pc |-> IF snaps[s].of = "instance" THEN "unmake" ELSE "remove",
        snap |-> s]]
  /\ snaps' = [snaps EXCEPT ![s].doomed = TRUE]
  /\ UNCHANGED <<defined, shots>>

\* Fault: the row goes although libvirt still has the snapshot.
UnmakeAnyway(d) ==
  LET s == drops[d].snap IN
  /\ drops[d].pc = "unmake"
  /\ \/ /\ snaps[s].vm \in defined
        /\ shots' = [shots EXCEPT ![snaps[s].vm][snaps[s].name] = NoSnap]
     \/ UNCHANGED shots
  /\ drops' = [drops EXCEPT ![d].pc = "remove"]
  /\ UNCHANGED <<snaps, defined>>

\* libvirtClient.DeleteSnapshot deletes what has the name, whoever made it;
\* its answer may be lost, and an error ends the deletion.
Unmake(d) ==
  LET s == drops[d].snap IN
  /\ drops[d].pc = "unmake"
  /\ \/ /\ snaps[s].vm \in defined /\ ShotOf(s) # NoSnap
        /\ shots' = [shots EXCEPT ![snaps[s].vm][snaps[s].name] = NoSnap]
        /\ \E pc \in {"remove", "idle"} : drops' = [drops EXCEPT ![d].pc = pc]
     \/ UNCHANGED shots /\ drops' = [drops EXCEPT ![d].pc = "idle"]
  /\ UNCHANGED <<snaps, defined>>

RemoveRow(d) ==
  /\ drops[d].pc = "remove"
  /\ \/ snaps' = [snaps EXCEPT ![drops[d].snap].row = "deleted"]
     \/ UNCHANGED snaps
  /\ drops' = [drops EXCEPT ![d].pc = "idle"]
  /\ UNCHANGED <<defined, shots>>

----------------------------------------------------------------------------
\* The rows of a deleted volume go with it.
DeleteVolume(s) ==
  /\ Present(s) /\ snaps[s].of = "volume"
  /\ snaps' = [snaps EXCEPT ![s].row = "deleted"]
  /\ UNCHANGED <<drops, defined, shots>>

\* libvirt does not undefine a machine that has snapshots.
Undefine(m) ==
  /\ m \in defined /\ \A n \in Names : shots[m][n] = NoSnap
  /\ defined' = defined \ {m}
  /\ UNCHANGED <<snaps, drops, shots>>

Define(m) ==
  /\ m \notin defined /\ defined' = defined \cup {m}
  /\ UNCHANGED <<snaps, drops, shots>>

\* The process dies.
Crash ==
  /\ snaps' = [s \in Snaps |->
       IF snaps[s].pc = "idle" THEN snaps[s] ELSE [snaps[s] EXCEPT !.pc = "done"]]
  /\ drops' = [d \in Drops |-> [drops[d] EXCEPT !.pc = "idle"]]
  /\ UNCHANGED <<defined, shots>>

Next ==
  \/ \E s \in Snaps, n \in Names :
       \/ \E m \in Machines : CreateOf(s, m, n)
       \/ \E m \in Machines \cup {NoMachine} : CreateOfVolume(s, m, n)
  \/ \E s \in Snaps : Make(s) \/ MarkRow(s) \/ DeleteVolume(s)
  \/ \E d \in Drops : Unmake(d) \/ RemoveRow(d)
  \/ \E d \in Drops, s \in Snaps : StartDrop(d, s)
  \/ \E m \in Machines : Undefine(m) \/ Define(m)
  \/ Crash

Spec == Init /\ [][Next]_snapVars

----------------------------------------------------------------------------
(* Properties.                                                             *)

\* The table, the requests and libvirt have the shape of their types.
TypeOK ==
  /\ snaps \in [Snaps -> Snap] /\ drops \in [Drops -> Drop]
  /\ defined \subseteq Machines
  /\ shots \in [Machines -> [Names -> Snaps \cup {NoSnap}]]

\* libvirt has no snapshot of an instance whose row is gone, so that it can
\* still be deleted (and the machine be undefined), unless two rows have shared
\* a name; deletions, crashes and lost answers come between any two steps
\* (snapshot_service.go:118-124, 170-174).
NoOrphans ==
  \A m \in Machines, n \in Names :
    shots[m][n] # NoSnap /\ snaps[shots[m][n]].of = "instance" =>
      Present(shots[m][n]) \/ Clash(shots[m][n])

\* A row that says ready, made with a machine, has its snapshot there, unless a
\* deletion has begun or another row shared its name
\* (snapshot_service.go:65-72, 118-124).
ReadyIsThere ==
  \A s \in Snaps :
    snaps[s].row = "ready" /\ snaps[s].vm # NoMachine =>
      ShotOf(s) = s \/ snaps[s].doomed \/ Clash(s)
=============================================================================
