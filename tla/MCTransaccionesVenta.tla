------------------------ MODULE MCTransaccionesVenta ------------------------
(***************************************************************************)
(* The instance of TransaccionesVenta that TLC checks.                     *)
(***************************************************************************)
EXTENDS InvariantesVenta
=============================================================================
