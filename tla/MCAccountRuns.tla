---------------------------- MODULE MCAccountRuns ----------------------------
(* AccountRuns with the values TLC checks it for. *)
EXTENDS AccountRuns, TLC

\* Thread, row and contact ids are interchangeable (not for liveness runs).
Symmetry == Permutations(Threads) \cup Permutations(Runs)
              \cup Permutations(Contacts)
==============================================================================
