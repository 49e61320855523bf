------------------------------- MODULE MCSM3 -------------------------------
(* SM3 with blocks of 5 bytes: two for the length, messages up to 11. *)
EXTENDS SM3

\* Messages whose bytes tell their places.
Text(from, n) == [k \in 1 .. n |-> from + k]
MCInputs == {Text(0, n) : n \in 0 .. 11} \cup {Text(20, n) : n \in {1, 4, 6}}
=============================================================================
