------------------------------- MODULE Scaling -------------------------------
(***************************************************************************)
(* InstanceService.EnforceScaling (internal/application                    *)
(* /scaling_service.go): every scaling message is handled in a goroutine   *)
(* of its own (infra/messaging/nats_subscriber.go), which counts the       *)
(* replicas of its target and then creates one or deletes one.  The        *)
(* machines are those of one tenant with one image; a group is the         *)
(* machines of one VPC, and new machines go to the default one.            *)
(***************************************************************************)
EXTENDS Naturals, FiniteSets

CONSTANTS
  Handlers,   \* goroutines of scaling messages
  MaxVms,     \* bound: machines ever created
  Capacity    \* max_capacity of the policy; 0 is no limit

ScaleAssumption ==
  IsFiniteSet(Handlers) /\ MaxVms \in Nat \ {0} /\ Capacity \in Nat

VARIABLES
  vms,        \* table instances, in the order of created_at
  scaler,     \* EnforceScaling
  ours        \* history: machines that a scale-out of the default VPC with a
              \* limit created and that have been active there ever since

scaleVars == <<vms, scaler, ours>>

Ids == 1..MaxVms
Row == [status : {"none", "pending", "running", "off"},
                            \* off: restarting, stopped or terminated
        home : BOOLEAN]     \* in the default VPC
Scaler == [pc : {"idle", "count", "create", "find", "delete"},
           target : Ids,      \* baseInstance, or the replica to delete
           home : BOOLEAN,    \* its VPC, as GetInstance read it
           limited : BOOLEAN] \* its creation was counted for the default VPC

Active(i) == vms[i].status \in {"pending", "running"}
Exists(i) == vms[i].status # "none"
ActiveIn(home) == {i \in Ids : Active(i) /\ vms[i].home = home}

Free == [pc |-> "idle", target |-> 1, home |-> TRUE, limited |-> FALSE]

ScalingInit ==
  /\ vms = [i \in Ids |-> [status |-> "none", home |-> TRUE]]
  /\ scaler = [h \in Handlers |-> Free]
  /\ ours = {}

Finish(h) == scaler' = [scaler EXCEPT ![h] = Free]

\* GetInstance dereferences nil when the row's host id names no host: in a
\* goroutine without a recover that ends the process and every handler in it.
\* Which rows those are is not kept (Instance has it): a lookup of any row may
\* end so, like any other crash.
HandlersDie ==
  /\ scaler' = [h \in Handlers |-> Free]
  /\ UNCHANGED <<vms, ours>>

TurnOff(i) ==
  /\ vms' = [vms EXCEPT ![i].status = "off"]
  /\ ours' = ours \ {i}

\* CreateInstance: the row goes to the default VPC; its host comes later.
Add(i) ==
  /\ ~Exists(i) /\ \A j \in Ids : j < i => Exists(j)
  /\ vms' = [vms EXCEPT ![i] = [status |-> "pending", home |-> TRUE]]

----------------------------------------------------------------------------
(* EnforceScaling.                                                         *)

\* GetInstance; a machine that is terminated keeps its row, and is a target
\* like any other.
Deliver(h, i) ==
  /\ scaler[h].pc = "idle" /\ Exists(i)
  /\ \E pc \in {"count", "find"} :
       scaler' = [scaler EXCEPT ![h] = [pc |-> pc, target |-> i,
                                        home |-> vms[i].home, limited |-> FALSE]]
  /\ UNCHANGED <<vms, ours>>

\* Fault: machines that have not booted do not count.
CountRunning(h) ==
  LET own == scaler[h].home IN
  /\ scaler[h].pc = "count"
  /\ IF Capacity > 0
        /\ Cardinality({i \in ActiveIn(own) : vms[i].status = "running"}) >= Capacity
     THEN Finish(h)
     ELSE scaler' = [scaler EXCEPT ![h].pc = "create",
                                   ![h].limited = own /\ Capacity > 0]
  /\ UNCHANGED <<vms, ours>>

\* handleScaleOut: the count, which may fail.
Count(h) ==
  LET own == scaler[h].home IN
  /\ scaler[h].pc = "count"
  /\ \/ Finish(h)
     \/ /\ Capacity = 0 \/ Cardinality(ActiveIn(own)) < Capacity
        /\ scaler' = [scaler EXCEPT ![h].pc = "create",
                                    ![h].limited = own /\ Capacity > 0]
  /\ UNCHANGED <<vms, ours>>

\* handleScaleOut: CreateInstance, which may fail with or without a row.
CreateReplica(h) ==
  /\ scaler[h].pc = "create"
  /\ Finish(h)
  /\ \/ \E i \in Ids :
          Add(i) /\ ours' = IF scaler[h].limited THEN ours \cup {i} ELSE ours
     \/ UNCHANGED <<vms, ours>>

\* handleScaleIn: the last of the replicas, newest first, that is not the target.
Find(h) ==
  LET replicas == ActiveIn(scaler[h].home) \ {scaler[h].target} IN
  /\ scaler[h].pc = "find"
  /\ \/ Finish(h)
     \/ \E i \in replicas :
          /\ \A j \in replicas : i <= j
          /\ scaler' = [scaler EXCEPT ![h] = [@ EXCEPT !.pc = "delete", !.target = i]]
  /\ UNCHANGED <<vms, ours>>

\* handleScaleIn: DeleteInstance of the replica it found.
Delete(h) ==
  /\ scaler[h].pc = "delete"
  /\ Finish(h)
  /\ TurnOff(scaler[h].target) \/ UNCHANGED <<vms, ours>>

----------------------------------------------------------------------------
(* What users, creations and other messages do to the rows.                *)

\* CreateInstance of a user or of HandleProvision.
Launch ==
  /\ \E i \in Ids : Add(i)
  /\ UNCHANGED <<scaler, ours>>

\* The creation or a request writes that the machine is active, some from a
\* copy of the row made before it was terminated.
Activate(i, st) ==
  /\ Exists(i) /\ vms[i].status # st
  /\ vms' = [vms EXCEPT ![i].status = st]
  /\ UNCHANGED <<scaler, ours>>

\* A creation that failed, or a request.
Deactivate(i) == Exists(i) /\ TurnOff(i) /\ UNCHANGED scaler

\* AssignVPC of a user: to the default VPC or away from it.
Move(i) ==
  /\ Exists(i) /\ UNCHANGED scaler
  /\ vms' = [vms EXCEPT ![i].home = ~@]
  /\ ours' = ours \ {i}

ScalingNext ==
  \/ \E h \in Handlers :
       \/ Count(h) \/ CreateReplica(h) \/ Find(h) \/ Delete(h)
       \/ \E i \in Ids : Deliver(h, i)
  \/ \E i \in Ids :
       \/ Move(i) \/ Deactivate(i)
       \/ \E st \in {"pending", "running"} : Activate(i, st)
  \/ Launch \/ HandlersDie

ScalingSpec == ScalingInit /\ [][ScalingNext]_scaleVars

----------------------------------------------------------------------------
(* Properties.                                                             *)

\* The rows and the handlers have the shape of their types.
ScalingTyped ==
  /\ vms \in [Ids -> Row] /\ scaler \in [Handlers -> Scaler]
  /\ ours \in SUBSET Ids

\* Scale-outs that run at the same time pass the maximum of the policy by at
\* most one machine for each further message: those that are being created
\* count, and only machines that users start, launch or move come on top
\* (scaling_service.go:57-76).
OvershootBounded ==
  Capacity > 0 => Cardinality(ours) < Capacity + Cardinality(Handlers)
=============================================================================
