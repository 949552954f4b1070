----------------------------- MODULE MCRollout -----------------------------
(* A small instance of Rollout for TLC.                                    *)
EXTENDS Rollout, TLC

CONSTANTS u1, n1, r1, r2

\* The rollouts install one version, so that their bookings meet.
OneVersion == [r \in Rollouts |-> "1.0.2"]

\* Bound: the rollout r2 lists the hosts before n1 sends its first heartbeat.
Early == run'[r2].listed \subseteq {u1}

MCSpec == Init /\ [][Next /\ Early]_vars /\ Fairness
=============================================================================
