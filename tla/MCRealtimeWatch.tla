--------------------------- MODULE MCRealtimeWatch ---------------------------
(* RealtimeWatch with the values TLC checks it for. *)
EXTENDS RealtimeWatch, TLC

\* Objects and callers are interchangeable (not for liveness runs).
Symmetry == Permutations(Watchers) \cup Permutations(Browsers)
              \cup Permutations(Residents) \cup Permutations(Callers)
==============================================================================
