---------------------------- MODULE RolloutProofs ----------------------------
(***************************************************************************)
(* Proofs about module Rollout, for every number of rollouts, every finite *)
(* set of hosts and every choice of versions.                              *)
(***************************************************************************)
EXTENDS Rollout, FiniteSetTheorems, TLAPS

----------------------------------------------------------------------------
(* The inductive invariant, of the request q of a rollout, its goroutines w *)
(* and its row.                                                             *)

Early == {"none", "preflight", "create", "announce"}
Counting == {"collect", "returned"}
Busy == {"count", "probe", "cancel", "check", "push", "book"}

\* Goroutines work while their request collects, and decide once.
Workers(q, w) ==
  \A h \in HostIds :
    /\ w[h].pc \in Busy => q.pc = "collect"
    /\ w[h].pc \notin {"none", "dead"} => h \in q.listed
    /\ w[h].pc \notin {"sent", "dead"} => w[h].verdict = "none"
    /\ q.pc \in Early => w[h] = NoWorker

\* Nothing was counted, and nothing went wrong, before there are goroutines.
Untouched(q, row) ==
  q.pc \in Early =>
    /\ q.collected = {} /\ q.ok = 0 /\ q.failed = 0
    /\ ~q.s3Err /\ ~q.cancelled
    /\ row.ok = 0 /\ row.failed = 0

Accepted(q, w) == {h \in q.collected : w[h].verdict = "ok"}

\* The counters count what was collected, and that was decided.
Counts(q, w) ==
  q.pc \in Counting =>
    /\ q.collected \subseteq q.listed
    /\ \A h \in q.collected : w[h].pc \in {"sent", "dead"}
    /\ q.pc = "returned" => q.collected = q.listed
    /\ q.ok = Cardinality(Accepted(q, w))
    /\ q.ok + q.failed = Cardinality(q.collected)

Stored(q, row) ==
  /\ q.pc = "collect" => row.ok = 0 /\ row.failed = 0
  /\ q.pc = "returned" => row.ok + row.failed \in {0, Cardinality(q.listed)}

\* A kept error is known to a goroutine that cancels, or that finds the
\* rollout stopped next, or that has found it stopped.
Known(q, w) ==
  \E h \in q.listed :
    \/ w[h].pc = "cancel"
    \/ w[h].pc = "check" /\ q.cancelled
    \/ w[h].verdict = "aborted"

Causes(q, w) ==
  q.pc \in Counting =>
    /\ q.cancelled => q.s3Err
    /\ \A h \in HostIds : w[h].pc = "cancel" => q.s3Err
    /\ \A h \in HostIds : w[h].verdict = "aborted" => q.s3Err \/ q.gone
    /\ q.s3Err => Known(q, w)

Good(q, w, row) ==
  /\ Workers(q, w) /\ Untouched(q, row) /\ Counts(q, w)
  /\ Stored(q, row) /\ Causes(q, w)

AllGood == \A r \in Rollouts : Good(run[r], worker[r], rollouts[r])
IInv == TypeOK /\ AllGood

USE HostsAssumption, ProbeAssumption

----------------------------------------------------------------------------
(* Type correctness.                                                       *)

LEMMA NewTyped == NewRun \in Run /\ NoWorker \in Worker
BY DEF NewRun, NoWorker, Run, Worker

LEMMA InitTyped == Init => TypeOK
BY NewTyped DEF Init, TypeOK, Row, Status

LEMMA ContinueTyped ==
  ASSUME TypeOK, NEW r \in Rollouts, NEW q \in Run, Continue(r, q)
  PROVE  run' \in [Rollouts -> Run]
BY DEF TypeOK, Continue

LEMMA RefuseTyped ==
  ASSUME TypeOK, NEW r \in Rollouts, Refuse(r)
  PROVE  run' \in [Rollouts -> Run]
<1>1. [NewRun EXCEPT !.pc = "refused"] \in Run
  BY NewTyped DEF Run
<1> QED
  BY <1>1, ContinueTyped DEF Refuse

LEMMA GotoTyped ==
  ASSUME TypeOK, NEW r \in Rollouts, NEW pc \in {"create", "collect", "returned"},
         Goto(r, pc)
  PROVE  run' \in [Rollouts -> Run]
<1>1. run[r] \in Run
  BY DEF TypeOK
<1>2. [run[r] EXCEPT !.pc = pc] \in Run
  BY <1>1 DEF Run
<1> QED
  BY <1>2, ContinueTyped DEF Goto

LEMMA StepTyped ==
  ASSUME TypeOK, NEW r \in Rollouts, NEW h \in HostIds,
         NEW pc \in {"probe", "cancel", "check", "push", "book", "lost"},
         Step(r, h, pc)
  PROVE  worker' \in [Rollouts -> [HostIds -> Worker]]
<1>1. worker[r] \in [HostIds -> Worker] /\ worker[r][h] \in Worker
  BY DEF TypeOK
<1>2. [worker[r][h] EXCEPT !.pc = pc] \in Worker
  BY <1>1 DEF Worker
<1>3. worker' = [worker EXCEPT ![r] = [worker[r] EXCEPT ![h] =
                                         [worker[r][h] EXCEPT !.pc = pc]]]
  BY <1>1 DEF Step, TypeOK
<1> QED
  BY <1>1, <1>2, <1>3 DEF TypeOK

LEMMA SendTyped ==
  ASSUME TypeOK, NEW r \in Rollouts, NEW h \in HostIds,
         NEW verdict \in {"ok", "failed", "aborted"}, Send(r, h, verdict)
  PROVE  worker' \in [Rollouts -> [HostIds -> Worker]]
<1>1. [pc |-> "sent", verdict |-> verdict] \in Worker
  BY DEF Worker
<1> QED
  BY <1>1 DEF Send, TypeOK

LEMMA OneMoreTyped ==
  ASSUME NEW q \in Run
  PROVE  /\ [q EXCEPT !.ok = q.ok + 1] \in Run
         /\ [q EXCEPT !.failed = q.failed + 1] \in Run
BY DEF Run

LEMMA BookedTyped ==
  ASSUME TypeOK, NEW r, NEW h
  PROVE  Booked(r, h) \in [Rollouts -> [HostIds -> Status]]
BY DEF Booked, TypeOK, Status

LEMMA ServeTyped ==
  ASSUME TypeOK, NEW r \in Rollouts, List(r) \/ Serve(r) \/ Leave(r)
  PROVE  TypeOK'
<1>q. run[r] \in Run /\ rollouts[r] \in Row
  BY DEF TypeOK
<1>1. CASE List(r)
  <2>1. [run[r] EXCEPT !.pc = "preflight", !.listed = hosts] \in Run
    BY <1>q DEF TypeOK, Run
  <2> QED
    BY <1>1, <2>1, ContinueTyped, RefuseTyped DEF List, TypeOK
<1>2. CASE Preflight(r)
  BY <1>2, GotoTyped, RefuseTyped DEF Preflight, TypeOK
<1>3. CASE CreateRollout(r)
  <2>1. [run[r] EXCEPT !.pc = "announce", !.todo = run[r].listed] \in Run
    BY <1>q DEF Run
  <2>2. [rollouts EXCEPT ![r].known = TRUE] \in [Rollouts -> Row]
    BY <1>q DEF TypeOK, Row
  <2>3. run' \in [Rollouts -> Run]
    BY <1>3, <2>1, ContinueTyped, RefuseTyped DEF CreateRollout
  <2>4. rollouts' \in [Rollouts -> Row]
    BY <1>3, <2>2 DEF CreateRollout, TypeOK
  <2> QED
    BY <1>3, <2>3, <2>4 DEF CreateRollout, TypeOK
<1>4. CASE Announce(r)
  <2>1. PICK h \in run[r].todo :
          /\ \/ statuses' = [statuses EXCEPT ![r][h] = "pending"]
             \/ UNCHANGED statuses
          /\ Continue(r, [run[r] EXCEPT !.todo = run[r].todo \ {h}])
    BY <1>4 DEF Announce
  <2>2. h \in HostIds /\ [run[r] EXCEPT !.todo = run[r].todo \ {h}] \in Run
    BY <1>q DEF Run
  <2>3. statuses' \in [Rollouts -> [HostIds -> Status]]
    <3>1. [statuses EXCEPT ![r][h] = "pending"] =
          [statuses EXCEPT ![r] = [statuses[r] EXCEPT ![h] = "pending"]]
      BY <2>2 DEF TypeOK
    <3>2. [statuses[r] EXCEPT ![h] = "pending"] \in [HostIds -> Status]
      BY <2>2 DEF TypeOK, Status
    <3> QED
      BY <2>1, <3>1, <3>2 DEF TypeOK
  <2> QED
    BY <1>4, <2>1, <2>2, <2>3, ContinueTyped DEF Announce, TypeOK
<1>5. CASE Spawn(r)
  <2>1. [pc |-> "count", verdict |-> "none"] \in Worker
    BY DEF Worker
  <2>2. worker' \in [Rollouts -> [HostIds -> Worker]]
    BY <1>5, <2>1, NewTyped DEF Spawn, TypeOK
  <2> QED
    BY <1>5, <2>2, GotoTyped DEF Spawn, TypeOK
<1>6. CASE Collect(r)
  <2>1. PICK h \in run[r].listed \ run[r].collected :
          Continue(r, [run[r] EXCEPT
            !.collected = run[r].collected \cup {h},
            !.ok = IF worker[r][h].verdict = "ok" THEN @ + 1 ELSE @,
            !.failed = IF worker[r][h].verdict = "ok" THEN @ ELSE @ + 1])
    BY <1>6 DEF Collect
  <2> DEFINE q == [run[r] EXCEPT !.collected = run[r].collected \cup {h}]
  <2>2. q \in Run
    BY <1>q DEF Run
  <2>3. CASE worker[r][h].verdict = "ok"
    <3>1. Continue(r, [q EXCEPT !.ok = q.ok + 1])
      BY <1>q, <2>1, <2>3 DEF Run, Continue
    <3>2. [q EXCEPT !.ok = q.ok + 1] \in Run
      BY <2>2, OneMoreTyped
    <3> QED
      BY <1>6, <3>1, <3>2, ContinueTyped DEF Collect, TypeOK
  <2>4. CASE worker[r][h].verdict # "ok"
    <3>1. Continue(r, [q EXCEPT !.failed = q.failed + 1])
      BY <1>q, <2>1, <2>4 DEF Run, Continue
    <3>2. [q EXCEPT !.failed = q.failed + 1] \in Run
      BY <2>2, OneMoreTyped
    <3> QED
      BY <1>6, <3>1, <3>2, ContinueTyped DEF Collect, TypeOK
  <2> QED
    BY <2>3, <2>4
<1>7. CASE Finish(r)
  <2>1. [rollouts[r] EXCEPT !.ok = run[r].ok, !.failed = run[r].failed,
                            !.s3 = run[r].s3Err] \in Row
    BY <1>q DEF Run, Row
  <2>2. rollouts' \in [Rollouts -> Row]
    BY <1>7, <2>1 DEF Finish, TypeOK
  <2> QED
    BY <1>7, <2>2, GotoTyped DEF Finish, TypeOK
<1>8. CASE Leave(r)
  <2>1. [run[r] EXCEPT !.gone = TRUE] \in Run
    BY <1>q DEF Run
  <2> QED
    BY <1>8, <2>1, ContinueTyped DEF Leave, TypeOK
<1> QED
  BY <1>1, <1>2, <1>3, <1>4, <1>5, <1>6, <1>7, <1>8 DEF Serve

LEMMA WorkTyped ==
  ASSUME TypeOK, NEW r \in Rollouts, NEW h \in HostIds, Work(r, h) \/ Push(r, h)
  PROVE  TypeOK'
<1>q. run[r] \in Run
  BY DEF TypeOK
<1>1. CASE Count(r, h)
  <2>1. [run[r] EXCEPT !.counter = run[r].counter + 1] \in Run
    BY <1>q DEF Run
  <2> QED
    BY <1>1, <2>1, ContinueTyped, StepTyped DEF Count, TypeOK
<1>2. CASE Probe(r, h)
  <2>1. [run[r] EXCEPT !.s3Err = TRUE] \in Run
    BY <1>q DEF Run
  <2> QED
    BY <1>2, <2>1, ContinueTyped, StepTyped DEF Probe, TypeOK
<1>3. CASE Cancel(r, h)
  <2>1. [run[r] EXCEPT !.cancelled = TRUE] \in Run
    BY <1>q DEF Run
  <2> QED
    BY <1>3, <2>1, ContinueTyped, StepTyped DEF Cancel, TypeOK
<1>4. CASE Check(r, h)
  BY <1>4, StepTyped, SendTyped DEF Check, TypeOK
<1>5. CASE Push(r, h)
  BY <1>5, StepTyped, SendTyped DEF Push, TypeOK
<1>6. CASE Book(r, h)
  BY <1>6, SendTyped, BookedTyped DEF Book, TypeOK
<1> QED
  BY <1>1, <1>2, <1>3, <1>4, <1>5, <1>6 DEF Work

LEMMA CrashTyped == ASSUME TypeOK, Crash PROVE TypeOK'
<1>1. [NewRun EXCEPT !.pc = "dead"] \in Run
  BY NewTyped DEF Run
<1>2. \A r \in Rollouts, h \in HostIds :
        [worker[r][h] EXCEPT !.pc = "dead"] \in Worker
  BY DEF TypeOK, Worker
<1>3. run' \in [Rollouts -> Run]
  BY <1>1 DEF Crash, TypeOK
<1>4. worker' \in [Rollouts -> [HostIds -> Worker]]
  BY <1>2 DEF Crash, TypeOK
<1> QED
  BY <1>3, <1>4 DEF Crash, TypeOK

LEMMA NextTyped == ASSUME TypeOK, [Next]_vars PROVE TypeOK'
<1>1. ASSUME NEW h \in HostIds, Join(h) PROVE TypeOK'
  BY <1>1 DEF Join, TypeOK
<1>2. CASE UNCHANGED vars
  BY <1>2 DEF vars, TypeOK
<1> QED
  BY <1>1, <1>2, ServeTyped, WorkTyped, CrashTyped DEF Next

\* Every reachable state of the rollouts is well typed.
THEOREM TypeCorrect == Spec => []TypeOK
<1>1. Init => TypeOK
  BY InitTyped
<1>2. TypeOK /\ [Next]_vars => TypeOK'
  BY NextTyped
<1> QED
  BY <1>1, <1>2, PTL DEF Spec

----------------------------------------------------------------------------
(* The invariant, for the rollout that moves.                               *)

LEMMA OnlyOne ==
  ASSUME AllGood, NEW r \in Rollouts,
         Good(run'[r], worker'[r], rollouts'[r]),
         \A q \in Rollouts \ {r} :
           run'[q] = run[q] /\ worker'[q] = worker[q] /\ rollouts'[q] = rollouts[q]
  PROVE  AllGood'
BY DEF AllGood

LEMMA NoneAccepted ==
  ASSUME NEW q, NEW w, q.collected = {}
  PROVE  Cardinality(Accepted(q, w)) = 0 /\ Cardinality(q.collected) = 0
<1>1. Accepted(q, w) = {}
  BY DEF Accepted
<1> QED
  BY <1>1, FS_EmptySet

LEMMA InitGood == Init => AllGood
<1> SUFFICES ASSUME Init, NEW r \in Rollouts
             PROVE  Good(run[r], worker[r], rollouts[r])
  BY DEF AllGood
<1>1. run[r] = NewRun /\ \A h \in HostIds : worker[r][h] = NoWorker
  BY DEF Init
<1>2. rollouts[r].ok = 0 /\ rollouts[r].failed = 0
  BY DEF Init
<1> QED
  BY <1>1, <1>2 DEF Good, Workers, Untouched, Counts, Stored, Causes, NewRun,
                    NoWorker, Early, Counting, Busy

\* The request before it has goroutines, or when its client leaves.
LEMMA QuietGood ==
  ASSUME NEW q, NEW q2, NEW w, NEW row, NEW row2, Good(q, w, row),
         row2.ok = row.ok, row2.failed = row.failed,
         \/ /\ q.pc \in Early /\ q2.pc \in Early
            /\ q2.collected = q.collected /\ q2.ok = q.ok /\ q2.failed = q.failed
            /\ q2.s3Err = q.s3Err /\ q2.cancelled = q.cancelled
         \/ q.pc \in Early /\ q2.pc = "refused"
  PROVE  Good(q2, w, row2)
BY DEF Good, Workers, Untouched, Counts, Stored, Causes, NoWorker, Early,
       Counting, Busy

LEMMA LeaveGood ==
  ASSUME NEW q \in Run, NEW w, NEW row, Good(q, w, row)
  PROVE  Good([q EXCEPT !.gone = TRUE], w, row)
<1> DEFINE q2 == [q EXCEPT !.gone = TRUE]
<1>1. /\ q2.pc = q.pc /\ q2.listed = q.listed /\ q2.collected = q.collected
      /\ q2.ok = q.ok /\ q2.failed = q.failed /\ q2.s3Err = q.s3Err
      /\ q2.cancelled = q.cancelled /\ q2.gone
  BY DEF Run
<1> HIDE DEF q2
<1>2. Workers(q2, w) /\ Untouched(q2, row) /\ Counts(q2, w) /\ Stored(q2, row)
  BY <1>1 DEF Good, Workers, Untouched, Counts, Stored, Accepted
<1>3. Causes(q2, w)
  BY <1>1 DEF Good, Causes, Known
<1> QED
  BY <1>2, <1>3 DEF Good, q2

LEMMA SpawnGood ==
  ASSUME NEW q \in Run, NEW q2, NEW w, NEW w2, NEW row, Good(q, w, row),
         q.pc = "announce", q2 = [q EXCEPT !.pc = "collect"],
         \A h \in HostIds :
           w2[h] = IF h \in q.listed THEN [pc |-> "count", verdict |-> "none"]
                                     ELSE NoWorker
  PROVE  Good(q2, w2, row)
<1>1. /\ q2.pc = "collect" /\ q2.listed = q.listed
      /\ q2.collected = {} /\ q2.ok = 0 /\ q2.failed = 0
      /\ ~q2.s3Err /\ ~q2.cancelled /\ row.ok = 0 /\ row.failed = 0
  BY DEF Good, Untouched, Early, Run
<1>2. \A h \in HostIds :
        /\ w2[h].verdict = "none" /\ w2[h].pc \in {"count", "none"}
        /\ w2[h].pc = "count" => h \in q.listed
  BY DEF NoWorker
<1>3. Workers(q2, w2) /\ Untouched(q2, row) /\ Stored(q2, row)
  BY <1>1, <1>2 DEF Workers, Untouched, Stored, Early, Busy
<1>4. Counts(q2, w2)
  <2>1. Cardinality(Accepted(q2, w2)) = 0 /\ Cardinality(q2.collected) = 0
    BY <1>1, NoneAccepted
  <2>2. q2.ok + q2.failed = 0
    BY <1>1
  <2> QED
    BY <1>1, <2>1, <2>2 DEF Counts
<1>5. Causes(q2, w2)
  BY <1>1, <1>2 DEF Causes
<1> QED
  BY <1>3, <1>4, <1>5 DEF Good

LEMMA CollectGood ==
  ASSUME NEW q \in Run, NEW q2, NEW w, NEW row, Good(q, w, row),
         q.pc = "collect", NEW h \in q.listed \ q.collected, w[h].pc = "sent",
         q2.pc = "collect", q2.listed = q.listed,
         q2.collected = q.collected \cup {h},
         q2.ok = IF w[h].verdict = "ok" THEN q.ok + 1 ELSE q.ok,
         q2.failed = IF w[h].verdict = "ok" THEN q.failed ELSE q.failed + 1,
         q2.s3Err = q.s3Err, q2.cancelled = q.cancelled, q2.gone = q.gone
  PROVE  Good(q2, w, row)
<1>1. Workers(q2, w) /\ Untouched(q2, row) /\ Stored(q2, row)
  BY DEF Good, Workers, Untouched, Stored, Early
<1>2. Causes(q2, w)
  BY DEF Good, Causes, Known
<1>3. IsFiniteSet(q.collected) /\ IsFiniteSet(Accepted(q, w))
  <2>1. q.collected \in SUBSET HostIds /\ Accepted(q, w) \in SUBSET HostIds
    BY DEF Run, Accepted
  <2> QED
    BY <2>1, FS_Subset
<1>4. Cardinality(q2.collected) = Cardinality(q.collected) + 1
  BY <1>3, FS_AddElement
<1>5. Cardinality(Accepted(q2, w)) =
        IF w[h].verdict = "ok" THEN Cardinality(Accepted(q, w)) + 1
                               ELSE Cardinality(Accepted(q, w))
  <2>1. CASE w[h].verdict = "ok"
    <3>1. Accepted(q2, w) = Accepted(q, w) \cup {h} /\ h \notin Accepted(q, w)
      BY <2>1 DEF Accepted
    <3> QED
      BY <1>3, <2>1, <3>1, FS_AddElement
  <2>2. CASE w[h].verdict # "ok"
    <3>1. Accepted(q2, w) = Accepted(q, w)
      BY <2>2 DEF Accepted
    <3> QED
      BY <2>2, <3>1
  <2> QED
    BY <2>1, <2>2
<1>6. q2.ok = Cardinality(Accepted(q2, w)) /\ q.ok = Cardinality(Accepted(q, w))
  BY <1>5 DEF Good, Counts, Counting
<1>7. q2.ok + q2.failed = Cardinality(q2.collected)
  <2>1. q.ok + q.failed = Cardinality(q.collected) /\ q.ok \in Nat /\ q.failed \in Nat
    BY DEF Good, Counts, Counting, Run
  <2> QED
    BY <1>4, <2>1
<1>8. Counts(q2, w)
  BY <1>6, <1>7 DEF Good, Counts, Counting
<1> QED
  BY <1>1, <1>2, <1>8 DEF Good

LEMMA FinishGood ==
  ASSUME NEW q \in Run, NEW q2, NEW w, NEW row, NEW row2, Good(q, w, row),
         q.pc = "collect", q.collected = q.listed,
         q2 = [q EXCEPT !.pc = "returned"],
         \/ row2.ok = q.ok /\ row2.failed = q.failed
         \/ row2.ok = row.ok /\ row2.failed = row.failed
  PROVE  Good(q2, w, row2)
<1>1. /\ q2.pc = "returned" /\ q2.listed = q.listed /\ q2.collected = q.collected
      /\ q2.ok = q.ok /\ q2.failed = q.failed /\ q2.s3Err = q.s3Err
      /\ q2.cancelled = q.cancelled /\ q2.gone = q.gone
  BY DEF Run
<1>2. Workers(q2, w)
  BY <1>1 DEF Good, Workers, Counts, Counting, Busy, Early
<1>3. Counts(q2, w) /\ Untouched(q2, row2)
  BY <1>1 DEF Good, Counts, Counting, Accepted, Untouched, Early
<1>4. Stored(q2, row2)
  BY <1>1, <1>3 DEF Good, Stored, Counts, Counting
<1>5. Causes(q2, w)
  BY <1>1 DEF Good, Causes, Counting, Known
<1> QED
  BY <1>2, <1>3, <1>4, <1>5 DEF Good

\* A step of one goroutine.
LEMMA WorkGood ==
  ASSUME NEW q \in Run, NEW q2, NEW w, NEW w2, NEW row, Good(q, w, row),
         NEW h \in HostIds, w[h].pc \in Busy,
         \A g \in HostIds \ {h} : w2[g] = w[g],
         w2[h].pc \in (Busy \cup {"lost", "sent"}),
         w2[h].pc # "sent" => w2[h].verdict = "none",
         q2.pc = q.pc, q2.listed = q.listed, q2.collected = q.collected,
         q2.ok = q.ok, q2.failed = q.failed, Causes(q2, w2)
  PROVE  Good(q2, w2, row)
<1>1. q.pc = "collect" /\ h \in q.listed
  BY DEF Good, Workers, Busy
<1>2. Workers(q2, w2) /\ Untouched(q2, row) /\ Stored(q2, row)
  BY <1>1 DEF Good, Workers, Untouched, Stored, Busy, Early
<1>3. h \notin q.collected /\ q.collected \subseteq HostIds
  BY <1>1 DEF Good, Counts, Counting, Busy, Run
<1>4. Accepted(q2, w2) = Accepted(q, w)
  BY <1>3 DEF Accepted
<1>5. Counts(q2, w2)
  BY <1>1, <1>3, <1>4 DEF Good, Counts, Counting
<1> QED
  BY <1>2, <1>5 DEF Good

----------------------------------------------------------------------------
(* The invariant, action by action.                                         *)

LEMMA ServeGood ==
  ASSUME IInv, NEW r \in Rollouts, List(r) \/ Serve(r) \/ Leave(r)
  PROVE  AllGood'
<1> USE DEF IInv
<1> DEFINE q == run[r]
           w == worker[r]
           row == rollouts[r]
           q2 == run'[r]
           w2 == worker'[r]
           row2 == rollouts'[r]
<1>q. q \in Run /\ Good(q, w, row)
  BY DEF TypeOK, AllGood
<1>n. NewRun.pc = "none" /\ [NewRun EXCEPT !.pc = "refused"].pc = "refused"
  BY DEF NewRun
<1>r. ASSUME q.pc \in Early, Refuse(r), row2.ok = row.ok, row2.failed = row.failed
      PROVE  Good(q2, w, row2)
  <2>1. q2.pc = "refused"
    BY <1>r, <1>n DEF Refuse, Continue, TypeOK
  <2> QED
    BY <1>q, <1>r, <2>1, QuietGood
<1>1. CASE List(r)
  <2>1. q.pc = "none"
    BY <1>1 DEF List
  <2>2. Good(q2, w, row)
    <3>1. CASE Refuse(r)
      <4>1. row2 = row
        BY <1>1 DEF List
      <4> QED
        BY <1>r, <2>1, <3>1, <4>1 DEF Early
    <3>2. CASE Continue(r, [run[r] EXCEPT !.pc = "preflight", !.listed = hosts])
      <4>1. /\ q2.pc = "preflight" /\ q2.collected = q.collected /\ q2.ok = q.ok
            /\ q2.failed = q.failed /\ q2.s3Err = q.s3Err /\ q2.cancelled = q.cancelled
        BY <1>q, <3>2 DEF Continue, TypeOK, Run
      <4> QED
        BY <1>q, <2>1, <4>1, QuietGood DEF Early
    <3> QED
      BY <1>1, <3>1, <3>2 DEF List
  <2>3. \A p \in Rollouts \ {r} : run'[p] = run[p]
    BY <1>1 DEF List, Continue, Refuse, TypeOK
  <2> QED
    BY <1>1, <2>2, <2>3, OnlyOne DEF List
<1>2. CASE Preflight(r)
  <2>1. q.pc = "preflight"
    BY <1>2 DEF Preflight
  <2>2. Good(q2, w, row)
    <3>1. CASE Refuse(r)
      <4>1. row2 = row
        BY <1>2 DEF Preflight
      <4> QED
        BY <1>r, <2>1, <3>1, <4>1 DEF Early
    <3>2. CASE Goto(r, "create")
      <4>1. /\ q2.pc = "create" /\ q2.collected = q.collected /\ q2.ok = q.ok
            /\ q2.failed = q.failed /\ q2.s3Err = q.s3Err /\ q2.cancelled = q.cancelled
        BY <1>q, <3>2 DEF Goto, Continue, TypeOK, Run
      <4> QED
        BY <1>q, <2>1, <4>1, QuietGood DEF Early
    <3> QED
      BY <1>2, <3>1, <3>2 DEF Preflight
  <2>3. \A p \in Rollouts \ {r} : run'[p] = run[p]
    BY <1>2 DEF Preflight, Goto, Continue, Refuse, TypeOK
  <2> QED
    BY <1>2, <2>2, <2>3, OnlyOne DEF Preflight
<1>3. CASE CreateRollout(r)
  <2>1. q.pc = "create"
    BY <1>3 DEF CreateRollout
  <2>2. /\ row2.ok = row.ok /\ row2.failed = row.failed
        /\ \A p \in Rollouts \ {r} : rollouts'[p] = rollouts[p]
    BY <1>3 DEF CreateRollout, TypeOK, Row
  <2>3. Good(q2, w, row2)
    <3>1. CASE Refuse(r)
      BY <1>r, <2>1, <2>2, <3>1 DEF Early
    <3>2. CASE Continue(r, [run[r] EXCEPT !.pc = "announce", !.todo = run[r].listed])
      <4>1. /\ q2.pc = "announce" /\ q2.collected = q.collected /\ q2.ok = q.ok
            /\ q2.failed = q.failed /\ q2.s3Err = q.s3Err /\ q2.cancelled = q.cancelled
        BY <1>q, <3>2 DEF Continue, TypeOK, Run
      <4> QED
        BY <1>q, <2>1, <2>2, <4>1, QuietGood DEF Early
    <3> QED
      BY <1>3, <3>1, <3>2 DEF CreateRollout
  <2>4. \A p \in Rollouts \ {r} : run'[p] = run[p]
    BY <1>3 DEF CreateRollout, Continue, Refuse, TypeOK
  <2> QED
    BY <1>3, <2>2, <2>3, <2>4, OnlyOne DEF CreateRollout
<1>4. CASE Announce(r)
  <2>1. PICK h \in run[r].todo : Continue(r, [run[r] EXCEPT !.todo = run[r].todo \ {h}])
    BY <1>4 DEF Announce
  <2>2. /\ q.pc = "announce" /\ q2.pc = "announce"
        /\ q2.collected = q.collected /\ q2.ok = q.ok
        /\ q2.failed = q.failed /\ q2.s3Err = q.s3Err /\ q2.cancelled = q.cancelled
    BY <1>4, <1>q, <2>1 DEF Announce, Continue, TypeOK, Run
  <2>3. Good(q2, w, row)
    BY <1>q, <2>2, QuietGood DEF Early
  <2>4. \A p \in Rollouts \ {r} : run'[p] = run[p]
    BY <2>1 DEF Continue, TypeOK
  <2> QED
    BY <1>4, <2>3, <2>4, OnlyOne DEF Announce
<1>5. CASE Spawn(r)
  <2>1. q2 = [q EXCEPT !.pc = "collect"] /\ q.pc = "announce"
    BY <1>5 DEF Spawn, Goto, Continue, TypeOK
  <2>2. \A h \in HostIds :
          w2[h] = IF h \in q.listed THEN [pc |-> "count", verdict |-> "none"]
                                    ELSE NoWorker
    BY <1>5 DEF Spawn, TypeOK
  <2>3. Good(q2, w2, row)
    BY <1>q, <2>1, <2>2, SpawnGood
  <2>4. \A p \in Rollouts \ {r} : run'[p] = run[p] /\ worker'[p] = worker[p]
    BY <1>5 DEF Spawn, Goto, Continue, TypeOK
  <2> QED
    BY <1>5, <2>3, <2>4, OnlyOne DEF Spawn
<1>6. CASE Collect(r)
  <2>1. PICK h \in run[r].listed \ run[r].collected :
          /\ w[h].pc = "sent"
          /\ Continue(r, [run[r] EXCEPT
               !.collected = run[r].collected \cup {h},
               !.ok = IF worker[r][h].verdict = "ok" THEN @ + 1 ELSE @,
               !.failed = IF worker[r][h].verdict = "ok" THEN @ ELSE @ + 1])
    BY <1>6 DEF Collect
  <2>2. /\ q.pc = "collect" /\ q2.pc = "collect" /\ q2.listed = q.listed
        /\ q2.collected = q.collected \cup {h}
        /\ q2.ok = IF w[h].verdict = "ok" THEN q.ok + 1 ELSE q.ok
        /\ q2.failed = IF w[h].verdict = "ok" THEN q.failed ELSE q.failed + 1
        /\ q2.s3Err = q.s3Err /\ q2.cancelled = q.cancelled /\ q2.gone = q.gone
    BY <1>6, <1>q, <2>1 DEF Collect, Continue, TypeOK, Run
  <2>3. Good(q2, w, row)
    BY <1>q, <2>1, <2>2, CollectGood
  <2>4. \A p \in Rollouts \ {r} : run'[p] = run[p]
    BY <2>1 DEF Continue, TypeOK
  <2> QED
    BY <1>6, <2>3, <2>4, OnlyOne DEF Collect
<1>7. CASE Finish(r)
  <2>1. /\ q.pc = "collect" /\ q.collected = q.listed
        /\ q2 = [q EXCEPT !.pc = "returned"]
    BY <1>7 DEF Finish, Goto, Continue, TypeOK
  <2>2. \/ row2.ok = q.ok /\ row2.failed = q.failed
        \/ row2.ok = row.ok /\ row2.failed = row.failed
    BY <1>7 DEF Finish, TypeOK, Row
  <2>3. Good(q2, w, row2)
    BY <1>q, <2>1, <2>2, FinishGood
  <2>4. \A p \in Rollouts \ {r} : run'[p] = run[p] /\ rollouts'[p] = rollouts[p]
    BY <1>7 DEF Finish, Goto, Continue, TypeOK
  <2> QED
    BY <1>7, <2>3, <2>4, OnlyOne DEF Finish
<1>8. CASE Leave(r)
  <2>1. q2 = [q EXCEPT !.gone = TRUE] /\ \A p \in Rollouts \ {r} : run'[p] = run[p]
    BY <1>8 DEF Leave, Continue, TypeOK
  <2>2. Good(q2, w, row)
    BY <1>q, <2>1, LeaveGood
  <2> QED
    BY <1>8, <2>1, <2>2, OnlyOne DEF Leave
<1> QED
  BY <1>1, <1>2, <1>3, <1>4, <1>5, <1>6, <1>7, <1>8 DEF Serve

LEMMA StepOne ==
  ASSUME TypeOK, NEW r \in Rollouts, NEW h \in HostIds, NEW pc, Step(r, h, pc)
  PROVE  /\ worker'[r][h].pc = pc /\ worker'[r][h].verdict = worker[r][h].verdict
         /\ \A g \in HostIds \ {h} : worker'[r][g] = worker[r][g]
         /\ \A p \in Rollouts \ {r} : worker'[p] = worker[p]
<1>1. worker[r] \in [HostIds -> Worker] /\ worker[r][h] \in Worker
  BY DEF TypeOK
<1>2. worker'[r] = [worker[r] EXCEPT ![h] = [worker[r][h] EXCEPT !.pc = pc]]
  BY <1>1 DEF Step, TypeOK
<1>3. worker'[r][h] = [worker[r][h] EXCEPT !.pc = pc]
  BY <1>1, <1>2
<1> QED
  BY <1>1, <1>2, <1>3 DEF Step, TypeOK, Worker

LEMMA SendOne ==
  ASSUME TypeOK, NEW r \in Rollouts, NEW h \in HostIds, NEW verdict,
         Send(r, h, verdict)
  PROVE  /\ worker'[r][h].pc = "sent" /\ worker'[r][h].verdict = verdict
         /\ \A g \in HostIds \ {h} : worker'[r][g] = worker[r][g]
         /\ \A p \in Rollouts \ {r} : worker'[p] = worker[p]
BY DEF TypeOK, Send

LEMMA WorkAllGood ==
  ASSUME IInv, NEW r \in Rollouts, NEW h \in HostIds, Work(r, h) \/ Push(r, h)
  PROVE  AllGood'
<1> USE DEF IInv
<1> DEFINE q == run[r]
           w == worker[r]
           row == rollouts[r]
           q2 == run'[r]
           w2 == worker'[r]
<1>q. q \in Run /\ Good(q, w, row)
  BY DEF TypeOK, AllGood
<1>b. ASSUME w[h].pc \in Busy
      PROVE  /\ q.pc = "collect" /\ h \in q.listed /\ w[h].verdict = "none"
             /\ Causes(q, w)
  BY <1>q, <1>b DEF Good, Workers, Busy
<1>1. CASE Count(r, h)
  <2>1. w[h].pc = "count"
    BY <1>1 DEF Count
  <2>2. /\ w2[h].pc \in {"probe", "check"} /\ w2[h].verdict = w[h].verdict
        /\ \A g \in HostIds \ {h} : w2[g] = w[g]
        /\ \A p \in Rollouts \ {r} : worker'[p] = worker[p]
    BY <1>1, StepOne DEF Count
  <2>3. /\ q2 = [q EXCEPT !.counter = q.counter + 1]
        /\ \A p \in Rollouts \ {r} : run'[p] = run[p]
    BY <1>1 DEF Count, Continue, TypeOK
  <2>4. /\ q2.pc = q.pc /\ q2.listed = q.listed /\ q2.collected = q.collected
        /\ q2.ok = q.ok /\ q2.failed = q.failed /\ q2.s3Err = q.s3Err
        /\ q2.cancelled = q.cancelled /\ q2.gone = q.gone
    BY <1>q, <2>3 DEF Run
  <2>5. Causes(q2, w2)
    BY <1>q, <1>b, <2>1, <2>2, <2>4 DEF Causes, Known, Busy, Run
  <2>6. Good(q2, w2, row)
    BY <1>q, <1>b, <2>1, <2>2, <2>4, <2>5, WorkGood DEF Busy
  <2> QED
    BY <1>1, <2>2, <2>3, <2>6, OnlyOne DEF Count
<1>2. CASE Probe(r, h)
  <2>1. w[h].pc = "probe"
    BY <1>2 DEF Probe
  <2>2. CASE Step(r, h, "check") /\ UNCHANGED run
    <3>1. /\ w2[h].pc = "check" /\ w2[h].verdict = w[h].verdict
          /\ \A g \in HostIds \ {h} : w2[g] = w[g]
          /\ \A p \in Rollouts \ {r} : worker'[p] = worker[p]
      BY <2>2, StepOne
    <3>2. Causes(q2, w2)
      BY <1>q, <1>b, <2>1, <2>2, <3>1 DEF Causes, Known, Busy, Run
    <3>3. Good(q2, w2, row)
      BY <1>q, <1>b, <2>1, <2>2, <3>1, <3>2, WorkGood DEF Busy
    <3> QED
      BY <1>2, <2>2, <3>1, <3>3, OnlyOne DEF Probe
  <2>3. CASE Continue(r, [run[r] EXCEPT !.s3Err = TRUE]) /\ Step(r, h, "cancel")
    <3>1. /\ w2[h].pc = "cancel" /\ w2[h].verdict = w[h].verdict
          /\ \A g \in HostIds \ {h} : w2[g] = w[g]
          /\ \A p \in Rollouts \ {r} : worker'[p] = worker[p]
      BY <2>3, StepOne
    <3>2. /\ q2 = [q EXCEPT !.s3Err = TRUE]
          /\ \A p \in Rollouts \ {r} : run'[p] = run[p]
      BY <2>3 DEF Continue, TypeOK
    <3>3. /\ q2.pc = q.pc /\ q2.listed = q.listed /\ q2.collected = q.collected
          /\ q2.ok = q.ok /\ q2.failed = q.failed /\ q2.s3Err
      BY <1>q, <3>2 DEF Run
    <3>4. Causes(q2, w2)
      BY <1>b, <2>1, <3>1, <3>3 DEF Causes, Known, Busy
    <3>5. Good(q2, w2, row)
      BY <1>q, <1>b, <2>1, <3>1, <3>3, <3>4, WorkGood DEF Busy
    <3> QED
      BY <1>2, <3>1, <3>2, <3>5, OnlyOne DEF Probe
  <2> QED
    BY <1>2, <2>2, <2>3 DEF Probe
<1>3. CASE Cancel(r, h)
  <2>1. w[h].pc = "cancel"
    BY <1>3 DEF Cancel
  <2>2. /\ w2[h].pc = "check" /\ w2[h].verdict = w[h].verdict
        /\ \A g \in HostIds \ {h} : w2[g] = w[g]
        /\ \A p \in Rollouts \ {r} : worker'[p] = worker[p]
    BY <1>3, StepOne DEF Cancel
  <2>3. /\ q2 = [q EXCEPT !.cancelled = TRUE]
        /\ \A p \in Rollouts \ {r} : run'[p] = run[p]
    BY <1>3 DEF Cancel, Continue, TypeOK
  <2>4. /\ q2.pc = q.pc /\ q2.listed = q.listed /\ q2.collected = q.collected
        /\ q2.ok = q.ok /\ q2.failed = q.failed /\ q2.s3Err = q.s3Err /\ q2.cancelled
    BY <1>q, <2>3 DEF Run
  <2>5. q.s3Err
    BY <1>b, <2>1 DEF Causes, Busy, Counting
  <2>6. Causes(q2, w2)
    BY <1>b, <2>1, <2>2, <2>4, <2>5 DEF Causes, Known, Busy
  <2>7. Good(q2, w2, row)
    BY <1>q, <1>b, <2>1, <2>2, <2>4, <2>6, WorkGood DEF Busy
  <2> QED
    BY <1>3, <2>2, <2>3, <2>7, OnlyOne DEF Cancel
<1>4. CASE Check(r, h)
  <2>1. w[h].pc = "check"
    BY <1>4 DEF Check
  <2>2. CASE Stopped(r)
    <3>1. /\ w2[h].pc = "sent" /\ w2[h].verdict = "aborted"
          /\ \A g \in HostIds \ {h} : w2[g] = w[g]
          /\ \A p \in Rollouts \ {r} : worker'[p] = worker[p]
      BY <1>4, <2>2, SendOne DEF Check
    <3>2. Causes(q, w2)
      BY <1>b, <2>1, <2>2, <3>1 DEF Causes, Known, Busy, Counting, Stopped
    <3>3. Good(q, w2, row)
      BY <1>q, <1>b, <2>1, <3>1, <3>2, WorkGood DEF Busy
    <3> QED
      BY <1>4, <3>1, <3>3, OnlyOne DEF Check
  <2>3. CASE ~Stopped(r)
    <3>1. /\ w2[h].pc = "push" /\ w2[h].verdict = w[h].verdict
          /\ \A g \in HostIds \ {h} : w2[g] = w[g]
          /\ \A p \in Rollouts \ {r} : worker'[p] = worker[p]
      BY <1>4, <2>3, StepOne DEF Check
    <3>2. Causes(q, w2)
      BY <1>b, <1>q, <2>1, <2>3, <3>1 DEF Causes, Known, Busy, Stopped, Run
    <3>3. Good(q, w2, row)
      BY <1>q, <1>b, <2>1, <3>1, <3>2, WorkGood DEF Busy
    <3> QED
      BY <1>4, <3>1, <3>3, OnlyOne DEF Check
  <2> QED
    BY <2>2, <2>3
<1>5. CASE Push(r, h) \/ Book(r, h)
  <2>1. w[h].pc \in {"push", "book"}
    BY <1>5 DEF Push, Book
  <2>2. /\ w2[h].pc \in {"book", "lost", "sent"}
        /\ w2[h].verdict \in {"none", "ok", "failed"}
        /\ w2[h].pc # "sent" => w2[h].verdict = "none"
        /\ \A g \in HostIds \ {h} : w2[g] = w[g]
        /\ \A p \in Rollouts \ {r} : worker'[p] = worker[p]
    <3>1. w[h].verdict = "none"
      BY <1>b, <2>1 DEF Busy
    <3> QED
      BY <1>5, <3>1, StepOne, SendOne DEF Push, Book
  <2>3. Causes(q, w2)
    BY <1>b, <1>q, <2>1, <2>2 DEF Causes, Known, Busy, Run
  <2>4. Good(q, w2, row)
    BY <1>q, <1>b, <2>1, <2>2, <2>3, WorkGood DEF Busy
  <2> QED
    BY <1>5, <2>2, <2>4, OnlyOne DEF Push, Book
<1> QED
  BY <1>1, <1>2, <1>3, <1>4, <1>5 DEF Work

\* What a crash leaves of a rollout.
LEMMA CrashGood == ASSUME IInv, Crash PROVE AllGood'
<1> SUFFICES ASSUME NEW r \in Rollouts
             PROVE  Good(run'[r], worker'[r], rollouts[r])
  BY DEF AllGood, Crash
<1> DEFINE q == run[r]
           w == worker[r]
           w2 == worker'[r]
<1>q. q \in Run /\ w \in [HostIds -> Worker] /\ Good(q, w, rollouts[r])
  BY DEF IInv, TypeOK, AllGood
<1>1. \A h \in HostIds :
        /\ w2[h].pc = IF w[h].pc = "none" THEN "none" ELSE "dead"
        /\ w2[h].verdict = w[h].verdict
        /\ w[h].pc = "none" => w2[h] = w[h]
  BY <1>q DEF Crash, Worker
<1>2. CASE Working(r)
  <2>1. run'[r].pc = "dead"
    BY <1>2 DEF Crash, NewRun
  <2> QED
    BY <1>q, <1>1, <2>1 DEF Good, Workers, Untouched, Counts, Stored, Causes,
                            Early, Counting, Busy, Worker
<1>3. CASE ~Working(r)
  <2>1. run'[r] = q /\ q.pc \in {"none", "returned", "refused", "dead"}
    BY <1>q, <1>3 DEF Crash, Working, Run
  <2>2. Workers(q, w2)
    BY <1>q, <1>1 DEF Good, Workers, Busy, NoWorker
  <2>3. Accepted(q, w2) = Accepted(q, w)
    BY <1>q, <1>1 DEF Accepted, Run
  <2>4. Counts(q, w2)
    BY <1>q, <1>1, <2>3 DEF Good, Counts, Run
  <2>5. Causes(q, w2)
    <3>1. SUFFICES ASSUME q.pc = "returned" PROVE Causes(q, w2)
      BY <2>1 DEF Causes, Counting
    <3>2. \A h \in q.listed : w[h].pc \in {"sent", "dead"}
      BY <1>q, <3>1 DEF Good, Counts, Counting
    <3> QED
      BY <1>q, <1>1, <3>1, <3>2 DEF Good, Causes, Known, Counting, Run
  <2> QED
    BY <1>q, <2>1, <2>2, <2>4, <2>5 DEF Good
<1> QED
  BY <1>2, <1>3

LEMMA NextGood == ASSUME IInv, [Next]_vars PROVE AllGood'
<1>1. ASSUME NEW h \in HostIds, Join(h) PROVE AllGood'
  BY <1>1 DEF Join, IInv, AllGood
<1>2. CASE UNCHANGED vars
  BY <1>2 DEF vars, IInv, AllGood
<1> QED
  BY <1>1, <1>2, ServeGood, WorkAllGood, CrashGood DEF Next

LEMMA Invariance == Spec => []IInv
<1>1. Init => IInv
  BY InitTyped, InitGood DEF IInv
<1>2. IInv /\ [Next]_vars => IInv'
  BY NextTyped, NextGood DEF IInv
<1> QED
  BY <1>1, <1>2, PTL DEF Spec

----------------------------------------------------------------------------
(* What the invariant says.                                                 *)

\* A rollout that returns has counted each host once, as its agent answered,
\* and left that count in its row or nothing (host_service.go:172-188).
THEOREM SummariesAddUp == Spec => []SummaryAddsUp
<1>1. ASSUME IInv, NEW r \in Rollouts, run[r].pc = "returned"
      PROVE  /\ run[r].ok = Cardinality(Verdicts(r, "ok"))
             /\ run[r].ok + run[r].failed = Cardinality(run[r].listed)
             /\ rollouts[r].ok + rollouts[r].failed \in {0, Cardinality(run[r].listed)}
  <2>1. Good(run[r], worker[r], rollouts[r])
    BY <1>1 DEF IInv, AllGood
  <2>2. run[r].collected = run[r].listed
    BY <1>1, <2>1 DEF Good, Counts, Counting
  <2>3. Verdicts(r, "ok") = Accepted(run[r], worker[r])
    BY <2>2 DEF Verdicts, Accepted
  <2> QED
    BY <1>1, <2>1, <2>2, <2>3 DEF Good, Counts, Counting, Stored
<1>2. IInv => SummaryAddsUp
  BY <1>1 DEF SummaryAddsUp
<1> QED
  BY <1>2, Invariance, PTL

\* Skipped hosts and a lost object store explain each other in the summary,
\* unless the client has left (host_service.go:141-150, 182).
THEOREM SkipsAreExplainedAlways == Spec => []SkipsAreExplained
<1>1. ASSUME IInv, NEW r \in Rollouts, run[r].pc = "returned"
      PROVE  /\ Verdicts(r, "aborted") # {} => run[r].s3Err \/ run[r].gone
             /\ run[r].s3Err => Verdicts(r, "aborted") # {}
  <2>1. Good(run[r], worker[r], rollouts[r]) /\ run[r].listed \subseteq HostIds
    BY <1>1 DEF IInv, AllGood, TypeOK, Run
  <2>2. \A h \in run[r].listed : worker[r][h].pc \in {"sent", "dead"}
    BY <1>1, <2>1 DEF Good, Counts, Counting
  <2> QED
    BY <1>1, <2>1, <2>2 DEF Good, Causes, Known, Counting, Verdicts
<1>2. IInv => SkipsAreExplained
  BY <1>1 DEF SkipsAreExplained
<1> QED
  BY <1>2, Invariance, PTL

----------------------------------------------------------------------------
(* Failures and their causes.                                               *)

\* A verdict is for good.
LEMMA VerdictsLast ==
  ASSUME IInv, [Next]_vars, NEW r \in Rollouts, NEW h \in HostIds,
         worker[r][h].verdict = "failed"
  PROVE  worker'[r][h].verdict = "failed"
<1>g. Good(run[r], worker[r], rollouts[r])
  BY DEF IInv, AllGood
<1>d. worker[r][h].pc \in {"sent", "dead"}
  BY <1>g DEF Good, Workers
<1>1. ASSUME NEW s \in Rollouts, Spawn(s) PROVE worker'[r][h].verdict = "failed"
  <2>1. r # s
    BY <1>1, <1>g DEF Spawn, Good, Workers, Early, NoWorker
  <2> QED
    BY <1>1, <2>1 DEF Spawn, IInv, TypeOK
<1>2. ASSUME NEW s \in Rollouts, NEW g \in HostIds, Work(s, g) \/ Push(s, g)
      PROVE  worker'[r][h].verdict = "failed"
  <2>1. s # r \/ g # h
    BY <1>2, <1>d DEF Work, Count, Probe, Cancel, Check, Book, Push
  <2>2. \/ \E pc \in {"probe", "cancel", "check", "push", "book", "lost"} : Step(s, g, pc)
        \/ \E v \in {"ok", "failed", "aborted"} : Send(s, g, v)
    BY <1>2 DEF Work, Count, Probe, Cancel, Check, Book, Push
  <2>3. worker'[r][h] = worker[r][h]
    BY <2>1, <2>2, StepOne, SendOne DEF IInv
  <2> QED
    BY <2>3
<1>3. CASE Crash
  BY <1>3 DEF Crash, IInv, TypeOK, Worker
<1>4. CASE UNCHANGED worker
  BY <1>4
<1> QED
  BY <1>1, <1>2, <1>3, <1>4
     DEF Next, Serve, List, Preflight, CreateRollout, Announce, Collect, Finish,
         Leave, Join, vars

LEMMA FailuresCaused ==
  ASSUME IInv, FailureHasCause, [Next]_vars
  PROVE  FailureHasCause'
<1> SUFFICES ASSUME NEW r \in Rollouts, NEW h \in HostIds, statuses'[r][h] = "failed"
             PROVE  \E q \in Rollouts : /\ VersionOf[q] = VersionOf[r]
                                        /\ worker'[q][h].verdict = "failed"
  BY DEF FailureHasCause
<1>1. CASE statuses[r][h] = "failed"
  BY <1>1, VerdictsLast DEF FailureHasCause
<1>2. CASE statuses[r][h] # "failed"
  <2>1. CASE \E s \in Rollouts, g \in HostIds : Book(s, g)
    <3>1. PICK s \in Rollouts, g \in HostIds : Book(s, g)
      BY <2>1
    <3>2. g = h /\ VersionOf[s] = VersionOf[r]
      BY <1>2, <3>1 DEF Book, Booked
    <3>3. worker'[s][g].verdict = "failed"
      BY <3>1, SendOne DEF Book, IInv
    <3> QED
      BY <3>2, <3>3
  <2>2. CASE \E s \in Rollouts : Announce(s)
    BY <1>2, <2>2 DEF Announce, IInv, TypeOK
  <2>3. CASE UNCHANGED statuses
    BY <1>2, <2>3
  <2> QED
    BY <2>1, <2>2, <2>3
       DEF Next, Serve, Work, List, Preflight, CreateRollout, Spawn, Collect,
           Finish, Leave, Join, Crash, Count, Probe, Cancel, Check, Push, vars
<1> QED
  BY <1>1, <1>2

\* A status row says failed only if a push of its version to its host failed,
\* in whichever rollout (agent_repo.go:50-61).
THEOREM FailuresHaveCauses == Spec => []FailureHasCause
<1>1. Init => FailureHasCause
  BY DEF Init, FailureHasCause
<1>2. IInv /\ FailureHasCause /\ [Next]_vars => FailureHasCause'
  BY FailuresCaused
<1> QED
  BY <1>1, <1>2, Invariance, PTL DEF Spec
=============================================================================
