--------------------------- MODULE SnapshotProofs ---------------------------
(***************************************************************************)
(* Proofs about module Snapshot, for every set of requests, machines and   *)
(* names.                                                                  *)
(***************************************************************************)
EXTENDS Snapshot, TLAPS

----------------------------------------------------------------------------
(* The inductive invariant.                                                *)

Answered == {"mark", "done"}

\* libvirt has no snapshot of s and gets none, or s shares its name.
Gone(s) == Clash(s) \/ (snaps[s].pc \in Answered /\ ShotOf(s) # s)

\* libvirt has the snapshot of s, or it was given up, or s shares its name.
Kept(s) == ShotOf(s) = s \/ snaps[s].doomed \/ Clash(s)

Rows ==
  \A s \in Snaps :
    /\ snaps[s].pc = "idle" <=> snaps[s].row = "none"
    /\ snaps[s].pc = "make" => snaps[s].vm \in Machines
    /\ snaps[s].of = "instance" /\ snaps[s].row # "none" => snaps[s].vm \in Machines

Shots ==
  \A m \in Machines, n \in Names :
    shots[m][n] # NoSnap =>
      /\ snaps[shots[m][n]].vm = m /\ snaps[shots[m][n]].name = n
      /\ snaps[shots[m][n]].pc \in Answered

Explained(d) ==
  LET s == drops[d].snap IN
  /\ drops[d].pc # "idle" => snaps[s].doomed /\ snaps[s].row # "none"
  /\ drops[d].pc = "unmake" => snaps[s].of = "instance"
  /\ drops[d].pc = "remove" /\ snaps[s].of = "instance" => Gone(s)

Deletions == \A d \in Drops : Explained(d)

Deleted ==
  \A s \in Snaps :
    snaps[s].row = "deleted" /\ snaps[s].of = "instance" => Gone(s)

Marks ==
  \A s \in Snaps :
    /\ snaps[s].vm \in Machines
    /\ \/ snaps[s].row = "ready"
       \/ snaps[s].pc = "mark" /\ snaps[s].outcome = "ready"
    => Kept(s)

SnapInv == TypeOK /\ Rows /\ Shots /\ Deletions /\ Deleted /\ Marks

\* What no step takes from a row that was written ...
Grows ==
  \A s \in Snaps : snaps[s].row # "none" =>
    /\ snaps'[s].row # "none" /\ snaps'[s].of = snaps[s].of
    /\ snaps'[s].vm = snaps[s].vm /\ snaps'[s].name = snaps[s].name
    /\ snaps[s].doomed => snaps'[s].doomed
    /\ snaps[s].pc \in Answered => snaps'[s].pc \in Answered

\* ... and how its snapshot comes and goes.
Moves ==
  \A s \in Snaps : snaps[s].row # "none" /\ snaps[s].vm \in Machines =>
    LET now == shots'[snaps[s].vm][snaps[s].name] IN
    /\ now = s => ShotOf(s) = s \/ snaps[s].pc = "make"
    /\ ShotOf(s) = s => now = s \/ snaps[s].doomed \/ Clash(s)

----------------------------------------------------------------------------
(* What a step does to the parts.                                          *)

LEMMA ClashStays ==
  ASSUME Grows, NEW s \in Snaps, snaps[s].row # "none", Clash(s)
  PROVE  Clash(s)'
<1>1. PICK q \in Snaps \ {s} :
        /\ snaps[q].row # "none"
        /\ snaps[q].vm = snaps[s].vm /\ snaps[q].name = snaps[s].name
  BY DEF Clash
<1>2. /\ snaps'[q].row # "none"
      /\ snaps'[q].vm = snaps'[s].vm /\ snaps'[q].name = snaps'[s].name
  BY <1>1 DEF Grows
<1> QED
  BY <1>2 DEF Clash

LEMMA GoneStays ==
  ASSUME Grows, Moves, NEW s \in Snaps, snaps[s].row # "none",
         snaps[s].vm \in Machines, Gone(s)
  PROVE  Gone(s)'
<1>1. CASE Clash(s)
  BY <1>1, ClashStays DEF Gone
<1>2. CASE snaps[s].pc \in Answered /\ ShotOf(s) # s
  BY <1>2 DEF Grows, Moves, Gone, ShotOf, Answered
<1> QED
  BY <1>1, <1>2 DEF Gone

LEMMA KeptStays ==
  ASSUME Grows, Moves, NEW s \in Snaps, snaps[s].row # "none",
         snaps[s].vm \in Machines, Kept(s)
  PROVE  Kept(s)'
<1>1. CASE Clash(s)
  BY <1>1, ClashStays DEF Kept
<1>2. CASE snaps[s].doomed
  BY <1>2 DEF Grows, Kept
<1>3. CASE ShotOf(s) = s
  BY <1>3, <1>1, <1>2 DEF Grows, Moves, Kept, ShotOf
<1> QED
  BY <1>1, <1>2, <1>3 DEF Kept

----------------------------------------------------------------------------
(* Type correctness.                                                       *)

LEMMA SnapInitTyped == ASSUME SnapAssumption, Init PROVE TypeOK
<1>1. (CHOOSE n \in Names : TRUE) \in Names /\ (CHOOSE s \in Snaps : TRUE) \in Snaps
  BY Zenon DEF SnapAssumption
<1> DEFINE q(n) == [pc |-> "idle", row |-> "none", of |-> "instance", vm |-> NoMachine,
                    name |-> n, outcome |-> "ready", doomed |-> FALSE]
<1>2. \A n \in Names : q(n) \in Snap
  BY DEF Snap
<1>3. snaps \in [Snaps -> {q(n) : n \in {CHOOSE n \in Names : TRUE}}]
  BY Zenon DEF Init
<1>4. snaps \in [Snaps -> Snap]
  <2> HIDE DEF q
  <2> QED
    BY <1>1, <1>2, <1>3
<1>5. drops \in [Drops -> Drop]
  BY <1>1 DEF Init, Drop
<1> QED
  BY <1>4, <1>5 DEF Init, TypeOK

LEMMA RowTyped ==
  ASSUME NEW q \in Snap
  PROVE  /\ \A pc \in {"idle", "make", "mark", "done"} : [q EXCEPT !.pc = pc] \in Snap
         /\ \A row \in {"none", "pending", "ready", "failed", "deleted"} :
              /\ [q EXCEPT !.row = row] \in Snap
              /\ [[q EXCEPT !.pc = "done"] EXCEPT !.row = row] \in Snap
         /\ [q EXCEPT !.doomed = TRUE] \in Snap
BY DEF Snap

LEMMA CreateTyped ==
  ASSUME TypeOK, NEW s \in Snaps, NEW n \in Names,
         \/ \E m \in Machines : CreateOf(s, m, n)
         \/ \E m \in Machines \cup {NoMachine} : CreateOfVolume(s, m, n)
  PROVE  TypeOK'
<1>1. PICK q \in Snap : snaps' = [snaps EXCEPT ![s] = q]
  BY DEF CreateOf, CreateOfVolume, TypeOK, Snap
<1> QED
  BY <1>1 DEF CreateOf, CreateOfVolume, TypeOK

LEMMA MarkRowTyped ==
  ASSUME TypeOK, NEW s \in Snaps, MarkRow(s)
  PROVE  TypeOK'
<1>1. snaps[s] \in Snap
  BY DEF TypeOK
<1>2. (IF Present(s) THEN snaps[s].outcome ELSE snaps[s].row)
        \in {"none", "pending", "ready", "failed", "deleted"}
  BY <1>1 DEF Snap
<1> DEFINE q == [snaps[s] EXCEPT !.pc = "done"]
           r == [q EXCEPT !.row = IF Present(s) THEN snaps[s].outcome ELSE snaps[s].row]
<1>3. q \in Snap /\ r \in Snap
  BY <1>1, <1>2, RowTyped
<1>4. snaps' = [snaps EXCEPT ![s] = q] \/ snaps' = [snaps EXCEPT ![s] = r]
  BY <1>1 DEF MarkRow, TypeOK, Snap
<1> QED
  BY <1>3, <1>4 DEF MarkRow, TypeOK

LEMMA SnapNextTyped == ASSUME TypeOK, [Next]_snapVars PROVE TypeOK'
<1> USE DEF TypeOK
<1>1. ASSUME NEW s \in Snaps, Make(s)
      PROVE  TypeOK'
  <2>1. snaps[s] \in Snap /\ UNCHANGED <<drops, defined>>
    BY <1>1 DEF Make
  <2>2. snaps' \in [Snaps -> Snap]
    <3>1. PICK outcome \in {"ready", "failed"} : Mark(s, outcome)
      BY <1>1 DEF Make
    <3> DEFINE q == [snaps[s] EXCEPT !.pc = "mark", !.outcome = outcome]
    <3>2. q \in Snap
      BY <2>1 DEF Snap
    <3>3. snaps' = [snaps EXCEPT ![s] = q]
      BY <2>1, <3>1 DEF Mark, Snap
    <3> QED
      BY <3>2, <3>3
  <2>3. CASE UNCHANGED shots
    BY <2>1, <2>2, <2>3
  <2>4. CASE shots # shots'
    <3>1. snaps[s].vm \in Machines /\ snaps[s].name \in Names
      BY <1>1, <2>1, <2>4 DEF Make, Snap
    <3>2. shots' = [shots EXCEPT ![snaps[s].vm][snaps[s].name] = s]
      BY <1>1, <2>4 DEF Make
    <3> QED
      BY <2>1, <2>2, <3>1, <3>2
  <2> QED
    BY <2>3, <2>4
<1>2. ASSUME NEW s \in Snaps, DeleteVolume(s)
      PROVE  TypeOK'
  BY <1>2 DEF DeleteVolume, Snap
<1>3. ASSUME NEW d \in Drops, Unmake(d)
      PROVE  TypeOK'
  <2> DEFINE s == drops[d].snap
  <2>1. s \in Snaps /\ drops[d] \in Drop
    BY DEF Drop
  <2>2. drops' \in [Drops -> Drop]
    BY <1>3, <2>1 DEF Unmake, Drop
  <2>3. CASE UNCHANGED shots
    BY <1>3, <2>2, <2>3 DEF Unmake
  <2>4. CASE /\ s \in Snaps /\ snaps[s].vm \in defined
             /\ shots' = [shots EXCEPT ![snaps[s].vm][snaps[s].name] = NoSnap]
    <3>1. snaps[s].name \in Names /\ snaps[s].vm \in Machines
      BY <2>4 DEF Snap
    <3> QED
      BY <1>3, <2>2, <2>4, <3>1 DEF Unmake
  <2> QED
    BY <1>3, <2>1, <2>3, <2>4 DEF Unmake
<1>4. ASSUME NEW d \in Drops, RemoveRow(d)
      PROVE  TypeOK'
  <2>1. drops[d] \in Drop /\ drops[d].snap \in Snaps
    BY DEF Drop
  <2>2. drops' \in [Drops -> Drop]
    BY <1>4, <2>1 DEF RemoveRow, Drop
  <2>3. snaps' \in [Snaps -> Snap]
    <3>1. snaps[drops[d].snap] \in Snap
      BY <2>1
    <3> DEFINE q == [snaps[drops[d].snap] EXCEPT !.row = "deleted"]
    <3>2. q \in Snap
      BY <3>1, RowTyped
    <3>3. snaps' = snaps \/ snaps' = [snaps EXCEPT ![drops[d].snap] = q]
      BY <1>4 DEF RemoveRow
    <3> QED
      BY <2>1, <3>2, <3>3
  <2> QED
    BY <1>4, <2>2, <2>3 DEF RemoveRow
<1>5. ASSUME NEW d \in Drops, NEW s \in Snaps, StartDrop(d, s)
      PROVE  TypeOK'
  <2>1. drops' \in [Drops -> Drop]
    BY <1>5 DEF StartDrop, Drop
  <2> QED
    BY <1>5, <2>1, RowTyped DEF StartDrop
<1>6. ASSUME NEW m \in Machines, Undefine(m) \/ Define(m)
      PROVE  TypeOK'
  BY <1>6 DEF Undefine, Define
<1>7. CASE Crash
  <2>1. drops' \in [Drops -> Drop]
    BY <1>7 DEF Crash, Drop
  <2> QED
    BY <1>7, <2>1, RowTyped DEF Crash
<1>8. CASE UNCHANGED snapVars
  BY <1>8 DEF snapVars
<1> QED
  BY CreateTyped, MarkRowTyped, <1>1, <1>2, <1>3, <1>4, <1>5, <1>6, <1>7, <1>8 DEF Next

----------------------------------------------------------------------------
(* Every step keeps the invariant.                                         *)

LEMMA SnapInitKeeps ==
  ASSUME SnapAssumption, Init
  PROVE  SnapInv
<1>1. TypeOK
  BY SnapInitTyped
<1>2. \A s \in Snaps : snaps[s].pc = "idle" /\ snaps[s].row = "none" /\ ~snaps[s].doomed
  BY DEF Init
<1>3. \A d \in Drops : drops[d].pc = "idle" /\ drops[d].snap \in Snaps
  BY <1>1 DEF Init, TypeOK, Drop
<1>4. Shots
  BY DEF Init, Shots
<1> QED
  BY <1>1, <1>2, <1>3, <1>4 DEF SnapInv, Rows, Deletions, Explained, Deleted, Marks

\* What follows for the rows when no step goes back.
LEMMA RowsKeep ==
  ASSUME SnapInv, TypeOK', Grows, Moves, Rows', Shots',
         \A d \in Drops :
           \/ drops'[d].pc = "idle"
           \/ drops'[d] = drops[d]
           \/ Explained(d)',
         \A s \in Snaps : snaps'[s].row = "deleted" /\ snaps'[s].of = "instance" =>
           \/ snaps[s].row = "deleted" /\ snaps[s].of = "instance"
           \/ snaps[s].row # "none" /\ Gone(s),
         \A s \in Snaps : snaps'[s].row = "ready" =>
           snaps[s].row = "ready" \/ (snaps[s].pc = "mark" /\ snaps[s].outcome = "ready"),
         \A s \in Snaps :
           snaps'[s].pc = "mark" /\ snaps'[s].outcome = "ready" /\ snaps'[s].vm \in Machines =>
             snaps'[s] = snaps[s] \/ Kept(s)'
  PROVE  SnapInv'
<1>1. Deletions'
  <2>1. ASSUME NEW d \in Drops, drops'[d].pc = "idle"
        PROVE  Explained(d)'
    BY <2>1 DEF Explained
  <2>2. ASSUME NEW d \in Drops, drops'[d] = drops[d]
        PROVE  Explained(d)'
    <3>1. PICK s \in Snaps : s = drops[d].snap
      BY DEF SnapInv, TypeOK, Drop
    <3>2. CASE drops[d].pc # "idle"
      <4>1. snaps[s].row # "none" /\ snaps[s].doomed
        BY <3>1, <3>2 DEF SnapInv, Deletions, Explained
      <4>2. drops[d].pc = "remove" /\ snaps[s].of = "instance" => Gone(s)'
        BY <3>1, <4>1, GoneStays DEF SnapInv, Deletions, Explained, Rows
      <4>3. snaps'[s].doomed /\ snaps'[s].row # "none" /\ snaps'[s].of = snaps[s].of
        BY <4>1 DEF Grows
      <4>4. drops'[d].snap = s /\ drops'[d].pc = drops[d].pc
        BY <2>2, <3>1
      <4>5. drops[d].pc = "unmake" => snaps[s].of = "instance"
        BY <3>1 DEF SnapInv, Deletions, Explained
      <4> QED
        BY <4>2, <4>3, <4>4, <4>5 DEF Explained, Gone, Clash, ShotOf
    <3> QED
      BY <2>1, <2>2, <3>2
  <2> QED
    BY <2>1, <2>2 DEF Deletions
<1>2. Deleted'
  <2> SUFFICES ASSUME NEW s \in Snaps, snaps'[s].row = "deleted", snaps'[s].of = "instance"
               PROVE  Gone(s)'
    BY DEF Deleted, Gone, Clash, ShotOf
  <2>1. snaps[s].row # "none" /\ Gone(s)
    BY DEF SnapInv, Deleted, Grows
  <2>2. snaps[s].vm \in Machines
    BY <2>1 DEF SnapInv, Rows, Grows
  <2> QED
    BY <2>1, <2>2, GoneStays
<1>3. Marks'
  <2> SUFFICES ASSUME NEW s \in Snaps, snaps'[s].vm \in Machines,
                      \/ snaps'[s].row = "ready"
                      \/ snaps'[s].pc = "mark" /\ snaps'[s].outcome = "ready"
               PROVE  Kept(s)'
    BY DEF Marks, Kept, Clash, ShotOf
  <2>1. CASE Kept(s)'
    BY <2>1
  <2>2. CASE \/ snaps[s].row = "ready"
             \/ snaps[s].pc = "mark" /\ snaps[s].outcome = "ready"
    <3>1. snaps[s].row # "none"
      BY <2>2 DEF SnapInv, Rows
    <3>2. snaps[s].vm \in Machines
      BY <3>1 DEF Grows
    <3> QED
      BY <2>2, <3>1, <3>2, KeptStays DEF SnapInv, Marks
  <2> QED
    BY <2>1, <2>2
<1> QED
  BY <1>1, <1>2, <1>3 DEF SnapInv

LEMMA CreateKeeps ==
  ASSUME SnapAssumption, SnapInv, TypeOK', NEW s \in Snaps, NEW n \in Names,
         \/ \E m \in Machines : CreateOf(s, m, n)
         \/ \E m \in Machines \cup {NoMachine} : CreateOfVolume(s, m, n)
  PROVE  SnapInv'
<1>1. /\ snaps[s].pc = "idle" /\ UNCHANGED <<drops, shots>>
      /\ \A q \in Snaps \ {s} : snaps'[q] = snaps[q]
  BY DEF CreateOf, CreateOfVolume, SnapInv, TypeOK
<1>2. /\ snaps'[s].row = "pending"
      /\ snaps'[s].pc \in {"make", "mark", "done"}
      /\ snaps'[s].pc = "mark" => snaps'[s].vm \notin Machines
      /\ snaps'[s].pc = "make" => snaps'[s].vm \in Machines
      /\ snaps'[s].of = "instance" => snaps'[s].vm \in Machines
  <2>1. CASE \E m \in Machines : CreateOf(s, m, n)
    <3>1. PICK m \in Machines, pc \in {"make", "done"} :
            snaps'[s] = [snaps[s] EXCEPT !.pc = pc, !.row = "pending", !.vm = m, !.name = n]
      BY <2>1 DEF CreateOf, SnapInv, TypeOK
    <3> QED
      BY <3>1 DEF SnapInv, TypeOK, Snap
  <2>2. CASE \E m \in Machines \cup {NoMachine} : CreateOfVolume(s, m, n)
    <3>1. PICK m \in Machines \cup {NoMachine} :
            \E pc \in {IF m = NoMachine THEN "mark" ELSE "make", "done"} :
              snaps'[s] = [snaps[s] EXCEPT !.pc = pc, !.row = "pending",
                                           !.of = "volume", !.vm = m, !.name = n]
      BY <2>2 DEF CreateOfVolume, SnapInv, TypeOK
    <3> QED
      BY <3>1 DEF SnapInv, TypeOK, Snap, SnapAssumption
  <2> QED
    BY <2>1, <2>2
<1>3. snaps[s].row = "none"
  BY <1>1 DEF SnapInv, Rows
<1>4. Grows /\ Moves
  BY <1>1, <1>3 DEF Grows, Moves, ShotOf
<1>5. Rows'
  BY <1>1, <1>2 DEF SnapInv, Rows
<1>6. Shots'
  <2>1. \A m \in Machines, k \in Names : shots[m][k] # NoSnap =>
          shots[m][k] \in Snaps \ {s}
    BY <1>1 DEF SnapInv, TypeOK, Shots, Answered
  <2> QED
    BY <1>1, <2>1 DEF SnapInv, Shots
<1> QED
  BY <1>1, <1>2, <1>4, <1>5, <1>6, RowsKeep

LEMMA MakeKeeps ==
  ASSUME SnapAssumption, SnapInv, TypeOK', NEW s \in Snaps, Make(s)
  PROVE  SnapInv'
<1> DEFINE m == snaps[s].vm
           k == snaps[s].name
<1>1. /\ snaps[s].pc = "make" /\ UNCHANGED drops
      /\ \A q \in Snaps \ {s} : snaps'[q] = snaps[q]
      /\ snaps'[s].pc = "mark" /\ snaps'[s].row = snaps[s].row
      /\ snaps'[s].of = snaps[s].of /\ snaps'[s].vm = m /\ snaps'[s].name = k
      /\ snaps'[s].doomed = snaps[s].doomed
  BY DEF Make, Mark, SnapInv, TypeOK, Snap
<1>2. m \in Machines /\ k \in Names /\ snaps[s].row # "none" /\ NoSnap # s
  BY <1>1 DEF SnapInv, TypeOK, Snap, Rows, SnapAssumption
<1>3. \/ shots' = shots /\ snaps'[s].outcome = "failed"
      \/ ShotOf(s) = NoSnap /\ shots' = [shots EXCEPT ![m][k] = s]
  BY DEF Make, Mark, SnapInv, TypeOK, Snap
<1>4. Grows
  BY <1>1 DEF Grows, Answered
<1>5. \A a \in Machines, b \in Names :
        \/ shots'[a][b] = shots[a][b]
        \/ a = m /\ b = k /\ shots'[a][b] = s /\ shots[a][b] = NoSnap
  BY <1>2, <1>3 DEF SnapInv, TypeOK, ShotOf
<1>6. Moves
  <2> SUFFICES ASSUME NEW q \in Snaps, snaps[q].vm \in Machines
               PROVE  LET now == shots'[snaps[q].vm][snaps[q].name] IN
                      /\ now = q => ShotOf(q) = q \/ snaps[q].pc = "make"
                      /\ ShotOf(q) = q => now = q
    BY DEF Moves
  <2>1. snaps[q].name \in Names /\ q # NoSnap
    BY DEF SnapInv, TypeOK, Snap, SnapAssumption
  <2> QED
    BY <2>1, <1>1, <1>5 DEF ShotOf
<1>7. Rows'
  BY <1>1, <1>2 DEF SnapInv, Rows
<1>8. Shots'
  <2> SUFFICES ASSUME NEW a \in Machines, NEW b \in Names, shots'[a][b] # NoSnap
               PROVE  /\ snaps'[shots'[a][b]].vm = a /\ snaps'[shots'[a][b]].name = b
                      /\ snaps'[shots'[a][b]].pc \in Answered
    BY DEF Shots
  <2>1. CASE shots'[a][b] = s /\ a = m /\ b = k
    BY <2>1, <1>1 DEF Answered
  <2>2. CASE shots'[a][b] = shots[a][b]
    <3>1. shots[a][b] \in Snaps \ {s}
      BY <2>2, <1>1 DEF SnapInv, TypeOK, Shots, Answered
    <3> QED
      BY <2>2, <3>1, <1>1 DEF SnapInv, Shots
  <2> QED
    BY <1>5, <2>1, <2>2
<1>9. snaps'[s].outcome = "ready" => Kept(s)'
  BY <1>1, <1>2, <1>3 DEF Kept, ShotOf, SnapInv, TypeOK
<1> QED
  BY <1>1, <1>4, <1>6, <1>7, <1>8, <1>9, RowsKeep

\* Steps that change rows and deletions only.
LEMMA QuietMoves == ASSUME UNCHANGED shots PROVE Moves
BY DEF Moves, ShotOf

LEMMA QuietShots ==
  ASSUME SnapInv, UNCHANGED shots,
         \A s \in Snaps :
           /\ snaps'[s].vm = snaps[s].vm /\ snaps'[s].name = snaps[s].name
           /\ snaps[s].pc \in Answered => snaps'[s].pc \in Answered
  PROVE  Shots'
BY DEF SnapInv, TypeOK, Shots

LEMMA MarkRowKeeps ==
  ASSUME SnapInv, TypeOK', NEW s \in Snaps, MarkRow(s)
  PROVE  SnapInv'
<1>1. /\ snaps[s].pc = "mark" /\ UNCHANGED <<drops, shots>>
      /\ \A q \in Snaps \ {s} : snaps'[q] = snaps[q]
      /\ snaps'[s].pc = "done" /\ snaps'[s].of = snaps[s].of
      /\ snaps'[s].vm = snaps[s].vm /\ snaps'[s].name = snaps[s].name
      /\ snaps'[s].doomed = snaps[s].doomed
      /\ \/ snaps'[s].row = snaps[s].row
         \/ Present(s) /\ snaps'[s].row = snaps[s].outcome
      /\ snaps[s].outcome \in {"ready", "failed"}
  BY DEF MarkRow, SnapInv, TypeOK, Snap
<1>2. Grows
  BY <1>1 DEF Grows, Answered
<1>3. Rows'
  BY <1>1 DEF SnapInv, Rows, Present
<1>4. Shots'
  BY <1>1, QuietShots DEF Answered
<1> QED
  BY <1>1, <1>2, <1>3, <1>4, QuietMoves, RowsKeep

LEMMA DeleteVolumeKeeps ==
  ASSUME SnapInv, TypeOK', NEW s \in Snaps, DeleteVolume(s)
  PROVE  SnapInv'
<1>1. /\ snaps[s].row # "none" /\ snaps[s].of = "volume" /\ UNCHANGED <<drops, shots>>
      /\ \A q \in Snaps \ {s} : snaps'[q] = snaps[q]
      /\ snaps'[s].pc = snaps[s].pc /\ snaps'[s].of = snaps[s].of
      /\ snaps'[s].vm = snaps[s].vm /\ snaps'[s].name = snaps[s].name
      /\ snaps'[s].doomed = snaps[s].doomed /\ snaps'[s].outcome = snaps[s].outcome
      /\ snaps'[s].row = "deleted"
  BY DEF DeleteVolume, Present, SnapInv, TypeOK, Snap
<1>2. Grows
  BY <1>1 DEF Grows
<1>3. Rows'
  BY <1>1 DEF SnapInv, Rows
<1>4. Shots'
  BY <1>1, QuietShots
<1>5. snaps[s].pc = "mark" /\ snaps[s].outcome = "ready" /\ snaps[s].vm \in Machines => Kept(s)'
  BY <1>1, <1>2, QuietMoves, KeptStays DEF SnapInv, Marks
<1> QED
  BY <1>1, <1>2, <1>3, <1>4, <1>5, QuietMoves, RowsKeep

LEMMA StartDropKeeps ==
  ASSUME SnapInv, TypeOK', NEW d \in Drops, NEW s \in Snaps, StartDrop(d, s)
  PROVE  SnapInv'
<1>1. /\ snaps[s].row # "none" /\ UNCHANGED shots
      /\ \A q \in Snaps \ {s} : snaps'[q] = snaps[q]
      /\ snaps'[s] = [snaps[s] EXCEPT !.doomed = TRUE]
      /\ \A e \in Drops \ {d} : drops'[e] = drops[e]
      /\ drops'[d].snap = s
      /\ drops'[d].pc = IF snaps[s].of = "instance" THEN "unmake" ELSE "remove"
  BY DEF StartDrop, Present, SnapInv, TypeOK
<1>2. /\ snaps'[s].pc = snaps[s].pc /\ snaps'[s].of = snaps[s].of
      /\ snaps'[s].vm = snaps[s].vm /\ snaps'[s].name = snaps[s].name
      /\ snaps'[s].row = snaps[s].row /\ snaps'[s].outcome = snaps[s].outcome
      /\ snaps'[s].doomed /\ snaps[s].row # "none"
      /\ \A q \in Snaps \ {s} : snaps'[q] = snaps[q]
  BY <1>1 DEF SnapInv, TypeOK, Snap
<1>3. Grows
  BY <1>2 DEF Grows
<1>4. Rows'
  BY <1>2 DEF SnapInv, Rows
<1>5. Shots'
  BY <1>1, <1>2, QuietShots
<1>6. Explained(d)'
  BY <1>1, <1>2 DEF Explained
<1>7. Kept(s)'
  BY <1>2 DEF Kept
<1>8. UNCHANGED shots /\ \A e \in Drops \ {d} : drops'[e] = drops[e]
  BY <1>1
<1> QED
  BY <1>2, <1>8, <1>3, <1>4, <1>5, <1>6, <1>7, QuietMoves, RowsKeep

\* What has the name goes: the snapshot of the row, or one whose name it shares.
LEMMA UnmakeKeeps ==
  ASSUME SnapAssumption, SnapInv, TypeOK', NEW d \in Drops, Unmake(d)
  PROVE  SnapInv'
<1>1. PICK s \in Snaps : s = drops[d].snap
  BY DEF SnapInv, TypeOK, Drop
<1> DEFINE m == snaps[s].vm
           k == snaps[s].name
<1>2. /\ drops[d].pc = "unmake" /\ UNCHANGED snaps
      /\ \A e \in Drops \ {d} : drops'[e] = drops[e]
      /\ drops'[d].snap = s /\ drops'[d].pc \in {"remove", "idle"}
  BY <1>1 DEF Unmake, SnapInv, TypeOK, Drop
<1>3. /\ snaps[s].of = "instance" /\ snaps[s].doomed /\ snaps[s].row # "none"
      /\ m \in Machines /\ k \in Names /\ NoSnap # s
  BY <1>1, <1>2 DEF SnapInv, Deletions, Explained, Rows, TypeOK, Snap, SnapAssumption
<1>4. \/ shots' = shots /\ drops'[d].pc = "idle"
      \/ ShotOf(s) # NoSnap /\ shots' = [shots EXCEPT ![m][k] = NoSnap]
  BY <1>1 DEF Unmake, SnapInv, TypeOK, Drop
<1>5. \A a \in Machines, b \in Names :
        \/ shots'[a][b] = shots[a][b]
        \/ a = m /\ b = k /\ shots'[a][b] = NoSnap
  BY <1>3, <1>4 DEF SnapInv, TypeOK
<1>6. Grows
  BY <1>2 DEF Grows
<1>7. Moves
  <2> SUFFICES ASSUME NEW q \in Snaps, snaps[q].row # "none", snaps[q].vm \in Machines
               PROVE  LET now == shots'[snaps[q].vm][snaps[q].name] IN
                      /\ now = q => ShotOf(q) = q
                      /\ ShotOf(q) = q => now = q \/ snaps[q].doomed \/ Clash(q)
    BY DEF Moves
  <2>1. snaps[q].name \in Names /\ q # NoSnap
    BY DEF SnapInv, TypeOK, Snap, SnapAssumption
  <2>2. snaps[q].vm = m /\ snaps[q].name = k => q = s \/ Clash(q)
    BY <1>3 DEF Clash
  <2> QED
    BY <2>1, <2>2, <1>3, <1>5 DEF ShotOf
<1>8. Rows'
  BY <1>2 DEF SnapInv, Rows
<1>9. Shots'
  BY <1>2, <1>5 DEF SnapInv, Shots
<1>10. Explained(d)'
  <2>1. CASE drops'[d].pc = "idle"
    BY <2>1 DEF Explained
  <2>2. CASE ShotOf(s) # NoSnap /\ shots' = [shots EXCEPT ![m][k] = NoSnap]
    <3> DEFINE q == ShotOf(s)
    <3>1. q \in Snaps /\ snaps[q].vm = m /\ snaps[q].name = k /\ snaps[q].pc \in Answered
      BY <1>3, <2>2 DEF SnapInv, TypeOK, Shots, ShotOf
    <3>2. snaps[q].row # "none"
      BY <3>1 DEF SnapInv, Rows, Answered
    <3>3. Clash(s) \/ snaps[s].pc \in Answered
      BY <3>1, <3>2 DEF Clash
    <3>4. shots'[m][k] # s
      BY <1>3, <2>2 DEF SnapInv, TypeOK
    <3>5. Gone(s)'
      BY <3>3, <3>4, <1>2 DEF Gone, Clash, ShotOf
    <3> QED
      BY <3>5, <1>2, <1>3 DEF Explained, Gone, Clash, ShotOf
  <2> QED
    BY <2>1, <2>2, <1>4
<1> QED
  BY <1>2, <1>6, <1>7, <1>8, <1>9, <1>10, RowsKeep

LEMMA RemoveRowKeeps ==
  ASSUME SnapInv, TypeOK', NEW d \in Drops, RemoveRow(d)
  PROVE  SnapInv'
<1>1. PICK s \in Snaps : s = drops[d].snap
  BY DEF SnapInv, TypeOK, Drop
<1>2. /\ drops[d].pc = "remove" /\ UNCHANGED shots
      /\ \A e \in Drops \ {d} : drops'[e] = drops[e]
      /\ drops'[d].pc = "idle"
      /\ \A q \in Snaps \ {s} : snaps'[q] = snaps[q]
      /\ \/ snaps'[s] = snaps[s]
         \/ snaps'[s] = [snaps[s] EXCEPT !.row = "deleted"]
  BY <1>1 DEF RemoveRow, SnapInv, TypeOK, Drop
<1>3. /\ snaps'[s].pc = snaps[s].pc /\ snaps'[s].of = snaps[s].of
      /\ snaps'[s].vm = snaps[s].vm /\ snaps'[s].name = snaps[s].name
      /\ snaps'[s].doomed = snaps[s].doomed /\ snaps'[s].outcome = snaps[s].outcome
      /\ snaps'[s].row \in {snaps[s].row, "deleted"}
  BY <1>2 DEF SnapInv, TypeOK, Snap
<1>4. /\ snaps[s].row # "none" /\ snaps[s].doomed
      /\ snaps[s].of = "instance" => Gone(s)
  BY <1>1, <1>2 DEF SnapInv, Deletions, Explained
<1>5. Grows
  BY <1>2, <1>3, <1>4 DEF Grows
<1>6. Rows'
  BY <1>2, <1>3, <1>4 DEF SnapInv, Rows
<1>7. Shots'
  BY <1>2, <1>3, QuietShots
<1>8. Kept(s)'
  BY <1>3, <1>4 DEF Kept
<1> QED
  BY <1>2, <1>3, <1>4, <1>5, <1>6, <1>7, <1>8, QuietMoves, RowsKeep

LEMMA CrashKeeps ==
  ASSUME SnapInv, TypeOK', Crash
  PROVE  SnapInv'
<1>1. \A s \in Snaps :
        /\ snaps'[s].of = snaps[s].of /\ snaps'[s].row = snaps[s].row
        /\ snaps'[s].vm = snaps[s].vm /\ snaps'[s].name = snaps[s].name
        /\ snaps'[s].doomed = snaps[s].doomed
        /\ snaps'[s].pc = IF snaps[s].pc = "idle" THEN "idle" ELSE "done"
  BY DEF Crash, SnapInv, TypeOK, Snap
<1>2. UNCHANGED shots /\ \A d \in Drops : drops'[d].pc = "idle"
  BY DEF Crash, SnapInv, TypeOK, Drop
<1>3. Grows
  BY <1>1 DEF Grows, Answered
<1>4. Rows'
  BY <1>1 DEF SnapInv, Rows
<1>5. Shots'
  BY <1>1, <1>2, QuietShots DEF Answered
<1> QED
  BY <1>1, <1>2, <1>3, <1>4, <1>5, QuietMoves, RowsKeep

LEMMA SnapNextKeeps ==
  ASSUME SnapAssumption, SnapInv, [Next]_snapVars
  PROVE  SnapInv'
<1>1. TypeOK'
  BY SnapNextTyped DEF SnapInv
<1>2. CASE UNCHANGED <<snaps, drops, shots>>
  <2>1. Grows /\ Moves /\ Rows' /\ Shots'
    BY <1>2, QuietMoves, QuietShots DEF Grows, SnapInv, Rows
  <2> QED
    BY <1>1, <1>2, <2>1, RowsKeep
<1>3. CASE UNCHANGED snapVars \/ \E m \in Machines : Undefine(m) \/ Define(m)
  BY <1>2, <1>3 DEF snapVars, Undefine, Define
<1> QED
  BY <1>1, <1>3, CreateKeeps, MakeKeeps, MarkRowKeeps, DeleteVolumeKeeps, StartDropKeeps,
     UnmakeKeeps, RemoveRowKeeps, CrashKeeps DEF Next

----------------------------------------------------------------------------
(* Theorems.                                                               *)

\* The table, the requests and libvirt always have the shape of their types.
THEOREM SnapshotsTyped == ASSUME SnapAssumption PROVE Spec => []TypeOK
<1>1. Init => TypeOK
  BY SnapInitTyped
<1>2. TypeOK /\ [Next]_snapVars => TypeOK'
  BY SnapNextTyped
<1> QED
  BY <1>1, <1>2, PTL DEF Spec

\* libvirt never has a snapshot of an instance that no row names any more,
\* except after two rows have shared a name, whatever is lost and wherever a
\* process dies (snapshot_service.go:118-124, 170-174).
THEOREM SnapshotsHaveRows == ASSUME SnapAssumption PROVE Spec => []NoOrphans
<1>1. Init => SnapInv
  BY SnapInitKeeps
<1>2. SnapInv /\ [Next]_snapVars => SnapInv'
  BY SnapNextKeeps
<1>3. SnapInv => NoOrphans
  <2> SUFFICES ASSUME SnapInv, NEW m \in Machines, NEW n \in Names, shots[m][n] # NoSnap,
                      snaps[shots[m][n]].of = "instance"
               PROVE  Present(shots[m][n]) \/ Clash(shots[m][n])
    BY DEF NoOrphans
  <2> DEFINE s == shots[m][n]
  <2>1. s \in Snaps /\ snaps[s] \in Snap /\ snaps[s].row # "none" /\ ShotOf(s) = s
    BY DEF SnapInv, TypeOK, Shots, Rows, Answered, ShotOf
  <2>2. snaps[s].row = "deleted" => Clash(s)
    BY <2>1 DEF SnapInv, Deleted, Gone
  <2> QED
    BY <2>1, <2>2 DEF Present, Snap
<1> QED
  BY <1>1, <1>2, <1>3, PTL DEF Spec

\* A row never says ready without its snapshot in libvirt, except once a
\* deletion has begun or after two rows have shared a name
\* (snapshot_service.go:65-72, 118-124).
THEOREM ReadyRowsAreTrue == ASSUME SnapAssumption PROVE Spec => []ReadyIsThere
<1>1. Init => SnapInv
  BY SnapInitKeeps
<1>2. SnapInv /\ [Next]_snapVars => SnapInv'
  BY SnapNextKeeps
<1>3. SnapInv => ReadyIsThere
  BY DEF SnapInv, TypeOK, Snap, Marks, Kept, ReadyIsThere
<1> QED
  BY <1>1, <1>2, <1>3, PTL DEF Spec
=============================================================================
