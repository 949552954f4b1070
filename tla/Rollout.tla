------------------------------- MODULE Rollout -------------------------------
(***************************************************************************)
(* HostService.RolloutAgentUpdate (internal/application/host_service.go):  *)
(* the agents of all registered hosts are told to install a version.       *)
(*                                                                         *)
(* The request writes a row of agent_rollouts and a pending row of         *)
(* agent_update_statuses for each host, starts a goroutine per host        *)
(* (worker) and counts the results they send through a channel that has    *)
(* room for all of them.  Rollouts may overlap and may be of one version.  *)
(* Statements fail; the client may leave, which cancels the context of the *)
(* request; a crash ends every goroutine.                                  *)
(***************************************************************************)
EXTENDS Naturals, FiniteSets

CONSTANTS
  HostIds,     \* ids of hosts, chosen by the agents
  Uuids,       \* those that uuid.Parse accepts
  Rollouts,    \* the requests, each served once
  VersionOf,   \* the version a rollout installs
  ProbeEvery   \* each worker of this ordinal looks at the object store again

ASSUME HostsAssumption == IsFiniteSet(HostIds) /\ Uuids \subseteq HostIds
ASSUME ProbeAssumption == ProbeEvery \in Nat \ {0}

VARIABLES
  hosts,     \* ids in table hosts
  rollouts,  \* table agent_rollouts
  statuses,  \* table agent_update_statuses, by rollout and host
  run,       \* RolloutAgentUpdate and its local variables
  worker     \* its goroutines and what they send

vars == <<hosts, rollouts, statuses, run, worker>>

Row == [known : BOOLEAN, ok : Nat, failed : Nat, s3 : BOOLEAN]
Status == {"none", "pending", "failed"}
Run == [pc : {"none", "preflight", "create", "announce", "collect", "returned",
              "refused", "dead"},
        listed : SUBSET HostIds,     \* hosts
        todo : SUBSET HostIds,       \* hosts without a status row yet
        collected : SUBSET HostIds,  \* received from the channel
        counter : Nat,
        s3Err : BOOLEAN,
        cancelled : BOOLEAN,         \* cancel() was called
        gone : BOOLEAN,              \* the request's own context is done
        ok : Nat, failed : Nat]
Worker == [pc : {"none", "count", "probe", "cancel", "check", "push", "book",
                 "sent", "lost", "dead"},
           verdict : {"none", "ok", "failed", "aborted"}]

NewRun == [pc |-> "none", listed |-> {}, todo |-> {}, collected |-> {},
           counter |-> 0, s3Err |-> FALSE, cancelled |-> FALSE, gone |-> FALSE,
           ok |-> 0, failed |-> 0]
NoWorker == [pc |-> "none", verdict |-> "none"]

Init ==
  /\ hosts = {}
  /\ rollouts = [r \in Rollouts |->
                  [known |-> FALSE, ok |-> 0, failed |-> 0, s3 |-> FALSE]]
  /\ statuses = [r \in Rollouts |-> [h \in HostIds |-> "none"]]
  /\ run = [r \in Rollouts |-> NewRun]
  /\ worker = [r \in Rollouts |-> [h \in HostIds |-> NoWorker]]

\* A statement with the request's context fails once that is done.
Alive(r) == ~run[r].gone
\* rolloutCtx is done when it was cancelled or its parent is.
Stopped(r) == run[r].cancelled \/ run[r].gone

Continue(r, q) == run' = [run EXCEPT ![r] = q]
Goto(r, pc) == Continue(r, [run[r] EXCEPT !.pc = pc])
Refuse(r) == Continue(r, [NewRun EXCEPT !.pc = "refused"])

----------------------------------------------------------------------------
(* The request.                                                            *)

\* ListAll.
List(r) ==
  /\ run[r].pc = "none"
  /\ \/ Continue(r, [run[r] EXCEPT !.pc = "preflight", !.listed = hosts])
     \/ Refuse(r)
  /\ UNCHANGED <<hosts, rollouts, statuses, worker>>

\* FetchAgentPresignedURL and validateS3URL.
Preflight(r) ==
  /\ run[r].pc = "preflight"
  /\ Goto(r, "create") \/ Refuse(r)
  /\ UNCHANGED <<hosts, rollouts, statuses, worker>>

\* CreateRollout; an error may come after the row was written.
CreateRollout(r) ==
  LET created == [rollouts EXCEPT ![r].known = TRUE] IN
  /\ run[r].pc = "create"
  /\ \/ /\ Alive(r)
        /\ rollouts' = created
        /\ Continue(r, [run[r] EXCEPT !.pc = "announce", !.todo = run[r].listed])
     \/ rollouts' \in {rollouts, created} /\ Refuse(r)
  /\ UNCHANGED <<hosts, statuses, worker>>

\* Fault: the row says that the update was sent.
AnnounceSent(r) ==
  /\ run[r].pc = "announce"
  /\ \E h \in run[r].todo :
       /\ statuses' = [statuses EXCEPT ![r][h] = "sent"]
       /\ Continue(r, [run[r] EXCEPT !.todo = run[r].todo \ {h}])
  /\ UNCHANGED <<hosts, rollouts, worker>>

\* InsertUpdateStatus for one host after the other; errors are dropped.
Announce(r) ==
  /\ run[r].pc = "announce"
  /\ \E h \in run[r].todo :
       /\ \/ Alive(r) /\ statuses' = [statuses EXCEPT ![r][h] = "pending"]
          \/ UNCHANGED statuses
       /\ Continue(r, [run[r] EXCEPT !.todo = run[r].todo \ {h}])
  /\ UNCHANGED <<hosts, rollouts, worker>>

\* A goroutine for each host.
Spawn(r) ==
  /\ run[r].pc = "announce" /\ run[r].todo = {}
  /\ Goto(r, "collect")
  /\ worker' = [worker EXCEPT ![r] = [h \in HostIds |->
       IF h \in run[r].listed THEN [pc |-> "count", verdict |-> "none"]
                              ELSE NoWorker]]
  /\ UNCHANGED <<hosts, rollouts, statuses>>

\* One result is received and counted.
Collect(r) ==
  /\ run[r].pc = "collect"
  /\ \E h \in run[r].listed \ run[r].collected :
       /\ worker[r][h].pc = "sent"
       /\ Continue(r, [run[r] EXCEPT
            !.collected = run[r].collected \cup {h},
            !.ok = IF worker[r][h].verdict = "ok" THEN @ + 1 ELSE @,
            !.failed = IF worker[r][h].verdict = "ok" THEN @ ELSE @ + 1])
  /\ UNCHANGED <<hosts, rollouts, statuses, worker>>

\* Fault: the collector does not wait for a rollout that was stopped.
FinishStopped(r) ==
  /\ run[r].pc = "collect"
  /\ run[r].collected = run[r].listed \/ Stopped(r)
  /\ \/ Alive(r) /\ rollouts' = [rollouts EXCEPT ![r] =
          [@ EXCEPT !.ok = run[r].ok, !.failed = run[r].failed,
                    !.s3 = run[r].s3Err]]
     \/ UNCHANGED rollouts
  /\ Goto(r, "returned")
  /\ UNCHANGED <<hosts, statuses, worker>>

\* s3Err is loaded, UpdateRolloutSummary, whose error is dropped.
Finish(r) ==
  /\ run[r].pc = "collect" /\ run[r].collected = run[r].listed
  /\ \/ Alive(r) /\ rollouts' = [rollouts EXCEPT ![r] =
          [@ EXCEPT !.ok = run[r].ok, !.failed = run[r].failed,
                    !.s3 = run[r].s3Err]]
     \/ UNCHANGED rollouts
  /\ Goto(r, "returned")
  /\ UNCHANGED <<hosts, statuses, worker>>

----------------------------------------------------------------------------
(* The goroutine of rollout r for host h.                                  *)

Step(r, h, pc) == worker' = [worker EXCEPT ![r][h].pc = pc]
Send(r, h, verdict) ==
  worker' = [worker EXCEPT ![r][h] = [pc |-> "sent", verdict |-> verdict]]

Count(r, h) ==
  LET n == run[r].counter + 1 IN
  /\ worker[r][h].pc = "count"
  /\ Continue(r, [run[r] EXCEPT !.counter = n])
  /\ Step(r, h, IF n % ProbeEvery = 0 THEN "probe" ELSE "check")
  /\ UNCHANGED <<hosts, rollouts, statuses>>

\* Fault: the error is not kept.
ProbeForgetting(r, h) ==
  /\ worker[r][h].pc = "probe"
  /\ Step(r, h, "check") \/ Step(r, h, "cancel")
  /\ UNCHANGED <<hosts, rollouts, statuses, run>>

\* validateS3URL; an error is kept in s3Err.
Probe(r, h) ==
  /\ worker[r][h].pc = "probe"
  /\ \/ Step(r, h, "check") /\ UNCHANGED run
     \/ /\ Continue(r, [run[r] EXCEPT !.s3Err = TRUE])
        /\ Step(r, h, "cancel")
  /\ UNCHANGED <<hosts, rollouts, statuses>>

\* cancel() ends rolloutCtx.
Cancel(r, h) ==
  /\ worker[r][h].pc = "cancel"
  /\ Continue(r, [run[r] EXCEPT !.cancelled = TRUE])
  /\ Step(r, h, "check")
  /\ UNCHANGED <<hosts, rollouts, statuses>>

\* Fault: a worker that finds the rollout stopped just ends.
CheckSilently(r, h) ==
  /\ worker[r][h].pc = "check"
  /\ IF Stopped(r) THEN Step(r, h, "dead") ELSE Step(r, h, "push")
  /\ UNCHANGED <<hosts, rollouts, statuses, run>>

Check(r, h) ==
  /\ worker[r][h].pc = "check"
  /\ IF Stopped(r) THEN Send(r, h, "aborted") ELSE Step(r, h, "push")
  /\ UNCHANGED <<hosts, rollouts, statuses, run>>

\* pushUpdateToAgent: the agent accepts, or it refuses, cannot be reached or
\* its answer is lost.  Without a uuid there is nothing to book and the
\* goroutine returns before it sends.
Push(r, h) ==
  /\ worker[r][h].pc = "push"
  /\ \/ Send(r, h, "ok")
     \/ Step(r, h, IF h \in Uuids THEN "book" ELSE "lost")
  /\ UNCHANGED <<hosts, rollouts, statuses, run>>

\* Fault: the statement does not name the host.
BookedForAll(r, h) ==
  [q \in Rollouts |-> [g \in HostIds |->
     IF /\ statuses[q][g] = "pending"
        /\ rollouts[q].known /\ VersionOf[q] = VersionOf[r]
     THEN "failed" ELSE statuses[q][g]]]

\* UpdateStatusByHostAndVersion: pending rows of h in every rollout that
\* installs this version.
Booked(r, h) ==
  [q \in Rollouts |-> [g \in HostIds |->
     IF /\ g = h /\ statuses[q][g] = "pending"
        /\ rollouts[q].known /\ VersionOf[q] = VersionOf[r]
     THEN "failed" ELSE statuses[q][g]]]


Book(r, h) ==
  /\ worker[r][h].pc = "book"
  /\ \/ Alive(r) /\ statuses' = Booked(r, h)
     \/ UNCHANGED statuses
  /\ Send(r, h, "failed")
  /\ UNCHANGED <<hosts, rollouts, run>>

----------------------------------------------------------------------------
\* The first heartbeat of a host.
Join(h) ==
  /\ hosts' = hosts \cup {h}
  /\ UNCHANGED <<rollouts, statuses, run, worker>>

Working(r) == run[r].pc \notin {"none", "returned", "refused", "dead"}

\* The client closes its connection.
Leave(r) ==
  /\ Working(r)
  /\ Continue(r, [run[r] EXCEPT !.gone = TRUE])
  /\ UNCHANGED <<hosts, rollouts, statuses, worker>>

\* The process dies.
Crash ==
  /\ run' = [r \in Rollouts |->
       IF Working(r) THEN [NewRun EXCEPT !.pc = "dead"] ELSE run[r]]
  /\ worker' = [r \in Rollouts |-> [h \in HostIds |->
       IF worker[r][h].pc = "none" THEN worker[r][h]
       ELSE [worker[r][h] EXCEPT !.pc = "dead"]]]
  /\ UNCHANGED <<hosts, rollouts, statuses>>

Serve(r) ==
  \/ Preflight(r) \/ CreateRollout(r) \/ Announce(r) \/ Spawn(r)
  \/ Collect(r) \/ Finish(r)
\* What a worker does on its own; a push waits for the agent.
Work(r, h) ==
  Count(r, h) \/ Probe(r, h) \/ Cancel(r, h) \/ Check(r, h) \/ Book(r, h)

Next ==
  \/ \E r \in Rollouts : List(r) \/ Serve(r) \/ Leave(r)
  \/ \E r \in Rollouts, h \in HostIds : Work(r, h) \/ Push(r, h)
  \/ \E h \in HostIds : Join(h)
  \/ Crash

Spec == Init /\ [][Next]_vars

----------------------------------------------------------------------------
(* Properties.                                                             *)

\* The tables, the requests and the goroutines have the shape of their types.
TypeOK ==
  /\ hosts \subseteq HostIds
  /\ rollouts \in [Rollouts -> Row]
  /\ statuses \in [Rollouts -> [HostIds -> Status]]
  /\ run \in [Rollouts -> Run]
  /\ worker \in [Rollouts -> [HostIds -> Worker]]

Verdicts(r, v) == {h \in run[r].listed : worker[r][h].verdict = v}

\* A rollout that returns has counted each host it listed once, as OK if and
\* only if its agent accepted, whatever was cancelled meanwhile; and what it
\* left in agent_rollouts is that count or nothing (host_service.go:172-188).
SummaryAddsUp ==
  \A r \in Rollouts : run[r].pc = "returned" =>
    /\ run[r].ok = Cardinality(Verdicts(r, "ok"))
    /\ run[r].ok + run[r].failed = Cardinality(run[r].listed)
    /\ rollouts[r].ok + rollouts[r].failed \in {0, Cardinality(run[r].listed)}

\* Hosts are skipped for a reason that the summary gives or the client knows,
\* and a rollout that reports the object store as lost has skipped at least the
\* host whose worker found out: the error and the cancellation are seen by all
\* goroutines in the order they were made (host_service.go:141-150, 182).
SkipsAreExplained ==
  \A r \in Rollouts : run[r].pc = "returned" =>
    /\ Verdicts(r, "aborted") # {} => run[r].s3Err \/ run[r].gone
    /\ run[r].s3Err => Verdicts(r, "aborted") # {}

\* A status row says failed only if a push of its version to its host failed,
\* although a booking touches the rows of other rollouts (agent_repo.go:50-61).
FailureHasCause ==
  \A r \in Rollouts, h \in HostIds : statuses[r][h] = "failed" =>
    \E q \in Rollouts : /\ VersionOf[q] = VersionOf[r]
                        /\ worker[q][h].verdict = "failed"

\* A rollout returns, unless it waits for ever: for an agent that took the
\* connection and does not answer (the client has no timeout), or for the result
\* of a host whose id is no uuid (host_service.go:160-163).
Ended(r) == run[r].pc \in {"returned", "refused", "dead"}
RolloutReturns ==
  \A r \in Rollouts :
    run[r].pc # "none" ~>
      Ended(r) \/ [](\E h \in HostIds : worker[r][h].pc \in {"push", "lost"})

----------------------------------------------------------------------------
\* Goroutines are scheduled and every statement and probe (10 seconds) returns;
\* nothing is assumed of the agents and of the client.
Fairness ==
  /\ \A r \in Rollouts : WF_vars(Serve(r))
  /\ \A r \in Rollouts, h \in HostIds : WF_vars(Work(r, h))
FairSpec == Spec /\ Fairness
=============================================================================
