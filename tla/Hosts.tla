-------------------------------- MODULE Hosts --------------------------------
(***************************************************************************)
(* The host registry and HostService.SelectBestHost                        *)
(* (internal/application/host_service.go, infra/repository                 *)
(* /host_repository.go): hosts send heartbeats; a launch takes the next of *)
(* the best hosts in turn.  What makes a host better than another changes  *)
(* with every heartbeat and is not modelled: a query may return the fresh  *)
(* hosts in any order.                                                     *)
(***************************************************************************)
EXTENDS Naturals, Sequences

CONSTANTS
  HostIds,     \* ids of hosts
  Selectors,   \* launches that select a host
  Best         \* GetBestHosts(10)

BestAssumption == Best \in Nat \ {0}

VARIABLES
  fresh,      \* active hosts whose last heartbeat is less than 12 hours old
  mu,         \* HostService.mu is held
  offset,     \* lastSelectionOffset
  selection,  \* SelectBestHost and its local variable hosts
  listed,     \* history: the hosts the last selection chose from
  turns       \* history: the last choices from that list, as many as it has

hostVars == <<fresh, mu, offset, selection, listed, turns>>

\* At most Best of the hosts, each once; a query that breaks off after some
\* rows returns those.
Lists(S) ==
  UNION {{l \in [1..n -> S] : \A i, j \in 1..n : l[i] = l[j] => i = j}
         : n \in 0..Best}
Selection == [pc : {"idle", "query", "advance", "pick"}, hosts : Lists(HostIds)]

HostsInit ==
  /\ fresh = {} /\ mu = FALSE /\ offset = 0
  /\ selection = [s \in Selectors |-> [pc |-> "idle", hosts |-> <<>>]]
  /\ listed = <<>> /\ turns = <<>>

\* HandleHeartbeat: the row is written or replaced.
Heartbeat(h) ==
  /\ fresh' = fresh \cup {h}
  /\ UNCHANGED <<mu, offset, selection, listed, turns>>

Expire(h) ==
  /\ fresh' = fresh \ {h}
  /\ UNCHANGED <<mu, offset, selection, listed, turns>>

Unlocked(s) ==
  /\ mu' = FALSE
  /\ selection' = [selection EXCEPT ![s] = [pc |-> "idle", hosts |-> <<>>]]

Lock(s) ==
  /\ selection[s].pc = "idle" /\ ~mu /\ mu' = TRUE
  /\ selection' = [selection EXCEPT ![s].pc = "query"]
  /\ UNCHANGED <<fresh, offset, listed, turns>>

\* Fault: the mutex is kept when there is no host.
QueryKeepingLock(s) ==
  /\ selection[s].pc = "query"
  /\ \/ /\ selection' = [selection EXCEPT ![s].pc = "idle"]
        /\ UNCHANGED mu
     \/ \E l \in Lists(fresh) \ {<<>>} :
          /\ selection' = [selection EXCEPT ![s] = [pc |-> "advance", hosts |-> l]]
          /\ UNCHANGED mu
  /\ UNCHANGED <<fresh, offset, listed, turns>>

\* GetBestHosts; without a host, or with an error, the selection returns.
Query(s) ==
  /\ selection[s].pc = "query"
  /\ \/ Unlocked(s)
     \/ \E l \in Lists(fresh) \ {<<>>} :
          /\ selection' = [selection EXCEPT ![s] = [pc |-> "advance", hosts |-> l]]
          /\ UNCHANGED mu
  /\ UNCHANGED <<fresh, offset, listed, turns>>

\* Fault: the offset is not kept from one selection to the next.
AdvanceAfresh(s) ==
  /\ selection[s].pc = "advance"
  /\ offset' = 1 % Len(selection[s].hosts)
  /\ selection' = [selection EXCEPT ![s].pc = "pick"]
  /\ UNCHANGED <<fresh, mu, listed, turns>>

Advance(s) ==
  /\ selection[s].pc = "advance"
  /\ offset' = (offset + 1) % Len(selection[s].hosts)
  /\ selection' = [selection EXCEPT ![s].pc = "pick"]
  /\ UNCHANGED <<fresh, mu, listed, turns>>

\* hosts[lastSelectionOffset], and the deferred unlock.
Pick(s) ==
  LET l == selection[s].hosts
      recent == IF l # listed THEN <<>>
                ELSE IF Len(turns) = Len(l) THEN Tail(turns) ELSE turns IN
  /\ selection[s].pc = "pick"
  /\ listed' = l /\ turns' = Append(recent, l[offset + 1])
  /\ Unlocked(s)
  /\ UNCHANGED <<fresh, offset>>

Select(s) == Query(s) \/ Advance(s) \/ Pick(s)
HostsNext ==
  \/ \E h \in HostIds : Heartbeat(h) \/ Expire(h)
  \/ \E s \in Selectors : Lock(s) \/ Select(s)

HostsSpec == HostsInit /\ [][HostsNext]_hostVars

----------------------------------------------------------------------------
(* Properties.                                                             *)

\* The registry and the selections have the shape of their types.
HostsTyped ==
  /\ fresh \subseteq HostIds /\ mu \in BOOLEAN /\ offset \in Nat
  /\ selection \in [Selectors -> Selection]
  /\ listed \in Lists(HostIds) /\ turns \in Seq(HostIds)

\* As long as the best hosts stay the same, launches take them in turn: among
\* as many choices in a row as there are hosts no host occurs twice, whichever
\* launches run at the same time (host_service.go:322-339).
TakesTurns == \A i, j \in 1..Len(turns) : turns[i] = turns[j] => i = j

\* Every selection gives the mutex back, whatever the query returns: the next
\* launch would wait for ever (host_service.go:323-324).
LockReleased == mu ~> ~mu

----------------------------------------------------------------------------
\* A selection that holds the mutex goes on; queries return.
SelectFairness == \A s \in Selectors : WF_hostVars(Select(s))
=============================================================================
