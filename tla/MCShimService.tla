--------------------------- MODULE MCShimService ---------------------------
(***************************************************************************)
(* ShimService on small sets.  Process ids and handler slots are           *)
(* interchangeable in every run that checks safety only; launch files are  *)
(* too.  Worker slots and task ids are taken in any order by the same      *)
(* actions, so they may be permuted as well.                               *)
(***************************************************************************)
EXTENDS ShimRefinements, TLC

Symmetry ==
    Permutations(Pids) \cup Permutations(Calls) \cup Permutations(Launches)
        \cup Permutations(Workers) \cup Permutations(TaskIds)
=============================================================================
