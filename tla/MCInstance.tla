----------------------------- MODULE MCInstance -----------------------------
(* Small instances of Instance for TLC.                                    *)
EXTENDS Instance, TLC

CONSTANTS h1, h2, a1

\* One agent reports a uuid as its id, the other its address: requests find
\* no address for the first, and the host for the second.
Ips == (h1 :> a1) @@ (h2 :> h2)

Symmetry == Permutations(Requests)
=============================================================================
