--------------------------- MODULE CobroAbstracto ---------------------------
(***************************************************************************)
(* What the terminal promises about every financial request it makes.      *)
(*                                                                         *)
(* A STAN is at risk from the moment its request may reach the host until  *)
(* the terminal knows the outcome; one STAN at most is at risk at a time.  *)
(* It leaves that state recorded, and then the host has it approved for    *)
(* good; or closed, and then the host has nothing under it; or exposed:    *)
(* the books of the two sides may disagree and nobody will repair them.    *)
(***************************************************************************)
CONSTANT Trazas

VARIABLES estado, vigente

Estados == {"sinUsar", "riesgo", "registrada", "cerrada", "expuesta"}

Init == estado = [t \in Trazas |-> "sinUsar"] /\ vigente = {}

Pasar(t, desde, hacia) ==
    /\ estado[t] \in desde
    /\ estado' = [estado EXCEPT ![t] = hacia]
    /\ UNCHANGED vigente

Gastar(t)    == Pasar(t, {"sinUsar"}, "cerrada")
Arriesgar(t) == /\ \A u \in Trazas : estado[u] # "riesgo"
                /\ Pasar(t, {"cerrada", "expuesta"}, "riesgo")
Registrar(t) == t \in vigente /\ Pasar(t, {"riesgo", "expuesta"}, "registrada")
Cerrar(t)    == t \notin vigente /\ Pasar(t, {"riesgo"}, "cerrada")
Exponer(t)   == Pasar(t, {"riesgo", "cerrada"}, "expuesta")

Aprobar(t) ==
    /\ estado[t] \in {"riesgo", "expuesta"}
    /\ vigente' = vigente \cup {t}
    /\ UNCHANGED estado

Reversar(t) ==
    /\ estado[t] \in {"riesgo", "expuesta"}
    /\ vigente' = vigente \ {t}
    /\ UNCHANGED estado

Next == \E t \in Trazas :
            \/ Gastar(t) \/ Arriesgar(t) \/ Registrar(t) \/ Cerrar(t)
            \/ Exponer(t) \/ Aprobar(t) \/ Reversar(t)

Spec == Init /\ [][Next]_<<estado, vigente>>
=============================================================================
