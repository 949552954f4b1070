------------------------------ MODULE Delivery ------------------------------
(***************************************************************************)
(* What a publisher promises to those who publish: every message gets one  *)
(* verdict, which is final; it is good only for a message that has         *)
(* arrived, that is sent without asking, or that an outage excuses; and    *)
(* nothing arrives that nobody published.  A message that failed may have  *)
(* arrived all the same.                                                   *)
(***************************************************************************)
CONSTANTS
  Sent,       \* messages
  Unasked     \* those whose arrival nobody waits for

VARIABLES
  verdict,    \* of each message
  arrived,    \* messages that have arrived
  excused     \* messages an outage may have taken unseen

vars == <<verdict, arrived, excused>>

Init ==
  /\ verdict = [m \in Sent |-> "none"]
  /\ arrived = {} /\ excused = {}

Pending == {m \in Sent : verdict[m] = "pending"}
Judge(m, v) == verdict' = [verdict EXCEPT ![m] = v]

Begin(m) ==
  /\ verdict[m] = "none" /\ (Judge(m, "pending") \/ Judge(m, "failed"))
  /\ UNCHANGED <<arrived, excused>>

Arrive(m) ==
  /\ verdict[m] # "none" /\ arrived' = arrived \cup {m}
  /\ UNCHANGED <<verdict, excused>>

\* An outage from before is no excuse for what is sent again.
Retry(m) ==
  /\ m \in Pending /\ excused' = excused \ {m}
  /\ \/ UNCHANGED verdict
     \/ m \in Unasked /\ Judge(m, "ok")
  /\ UNCHANGED arrived

Confirm(m) ==
  /\ m \in Pending /\ m \in arrived \cup excused /\ Judge(m, "ok")
  /\ UNCHANGED <<arrived, excused>>

\* Some of those who wait are told so, others are not.
Outage(told, excuse) ==
  /\ verdict' = [m \in Sent |-> IF m \in told THEN "failed" ELSE verdict[m]]
  /\ excused' = excused \cup excuse
  /\ UNCHANGED arrived

Next ==
  \/ \E m \in Sent : Begin(m) \/ Arrive(m) \/ Retry(m) \/ Confirm(m)
  \/ \E told, excuse \in SUBSET Pending : Outage(told, excuse)

Spec == Init /\ [][Next]_vars
=============================================================================
