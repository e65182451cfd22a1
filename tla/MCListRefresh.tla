--------------------------- MODULE MCListRefresh ---------------------------
(* Instances of ListRefresh for TLC. *)
EXTENDS ListRefresh, TLC

CONSTANTS A, B, text, api1, api2

Symmetry == Permutations({api1, api2}) \cup Permutations({A, B})
=============================================================================
