----------------------------- MODULE Placement -----------------------------
(***************************************************************************)
(* What the instance service promises of its machines, without rows that   *)
(* are written back, failures of the steps in between and requests that    *)
(* overlap: an instance is given to one host, once, and registered; from   *)
(* then on its machine may exist there and nowhere else.                   *)
(***************************************************************************)
CONSTANTS Instances, Hosts, None

VARIABLES
  home,   \* the host an instance was given to
  known,  \* instances with a row
  placed  \* pairs <<instance, host>>: the machines that exist

placement == <<home, known, placed>>

Init ==
  /\ home = [i \in Instances |-> None]
  /\ known = {}
  /\ placed = {}

Choose(i, h) ==
  /\ home[i] = None
  /\ home' = [home EXCEPT ![i] = h]
  /\ UNCHANGED <<known, placed>>

Register(i) ==
  /\ home[i] # None
  /\ known' = known \cup {i}
  /\ UNCHANGED <<home, placed>>

Place(i) ==
  /\ i \in known
  /\ placed' = placed \cup {<<i, home[i]>>}
  /\ UNCHANGED <<home, known>>

Remove(i) ==
  /\ placed' = placed \ {<<i, home[i]>>}
  /\ UNCHANGED <<home, known>>

Next ==
  \E i \in Instances :
    \/ \E h \in Hosts : Choose(i, h)
    \/ Register(i) \/ Place(i) \/ Remove(i)

Spec == Init /\ [][Next]_placement
=============================================================================
