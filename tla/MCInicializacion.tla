--------------------------- MODULE MCInicializacion ---------------------------
(* The download with a symmetry set: nothing distinguishes two numbers of a  *)
(* terminal but being equal, and the run checks invariants only.             *)
EXTENDS Inicializacion, TLC

Simetria == Permutations(Terminales)

===============================================================================
