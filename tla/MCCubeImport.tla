--------------------------- MODULE MCCubeImport ---------------------------
(* Instance of CubeImport for TLC: two cubes of the same name.             *)
EXTENDS CubeImport, TLC

CONSTANTS alpha, beta, title, api, job

MCName == alpha :> title @@ beta :> title
Symmetry == Permutations({alpha, beta})
=============================================================================
