------------------------------ MODULE MCIngreso ------------------------------
(* Ingreso for TLC.  No definition tells one user from another, so their      *)
(* permutations are a symmetry of the runs without liveness.                   *)
EXTENDS Ingreso, TLC

Simetria == Permutations(Usuarios)
==============================================================================
