--------------------------- MODULE NodeSupervisor ---------------------------
(***************************************************************************)
(* What the shim is meant to be for a controller: a supervisor that keeps  *)
(* at most one node per launch file, comes to know the node it started and *)
(* nothing else, and forgets a node only when it no longer runs.           *)
(***************************************************************************)
CONSTANTS
    Launches,
    Pids,
    None

VARIABLES
    node,   \* [Launches -> the pids of the groups whose node runs]
    known   \* [Launches -> the pid that a stop would act on, or None]

supervised == <<node, known>>

Empty ==
    /\ node = [lf \in Launches |-> {}]
    /\ known = [lf \in Launches |-> None]

Start(lf, p) ==
    /\ node[lf] = {}
    /\ known[lf] = None
    /\ \A k \in Launches : p \notin node[k]
    /\ node' = [node EXCEPT ![lf] = {p}]
    /\ UNCHANGED known

\* The node may have exited in the meantime.
Learn(lf, p) ==
    /\ known[lf] = None
    /\ node[lf] \subseteq {p}
    /\ known' = [known EXCEPT ![lf] = p]
    /\ UNCHANGED node

Exit(lf) ==
    /\ node' = [node EXCEPT ![lf] = {}]
    /\ UNCHANGED known

Forget(lf) ==
    /\ node[lf] = {}
    /\ known' = [known EXCEPT ![lf] = None]
    /\ UNCHANGED node

\* The supervisor is gone; what still runs is nobody's.
Lose == Empty'

Next ==
    \/ \E lf \in Launches, p \in Pids : Start(lf, p) \/ Learn(lf, p)
    \/ \E lf \in Launches : Exit(lf) \/ Forget(lf)
    \/ Lose

Spec == Empty /\ [][Next]_supervised
=============================================================================
