--------------------------- MODULE PuntosColombia ---------------------------
(***************************************************************************)
(* Accumulation and consultation of loyalty points (Venta/puntosColombia,  *)
(* solicitudPuntosColombia in Caja/CajaIP.cpp), which keep a reversal file *)
(* of their own, REVPC, next to REVERSO.TXT of the card operations.  The   *)
(* gate verificarReversoExistente (Base/comunicaciones.cpp) stands before  *)
(* both, and lets the result of the second reversal overwrite that of the  *)
(* first.                                                                  *)
(*                                                                         *)
(* One exchange with a server is one step.  A card operation is only its   *)
(* reversal file here: the rest of it is in TransaccionesVenta.            *)
(***************************************************************************)
EXTENDS Naturals, Sequences

CONSTANT MaxAcumulaciones   \* bound: accumulations a behaviour may start

ASSUME MaxAcumulacionesAssumption == MaxAcumulaciones \in Nat \ {0}

VARIABLES
    \* files
    reverso,        \* whether REVERSO.TXT exists
    revpc,          \* REVPC: the accumulations it would undo, in order
    revaux,         \* REVAUXPC: the accumulation under way, 0 if absent
    registradas,    \* accumulations in the journal
    \* the process
    op, pc,         \* JNI operation under way and the place in it
    actual,         \* the accumulation under way
    \* the points server
    acumuladas,     \* accumulations that stand
    \* history
    iniciadas,      \* accumulations started
    huecos          \* accumulations in a gap of the protocol

archivos == <<reverso, revpc, revaux, registradas>>
lugar    == <<op, pc, actual>>
historia == <<iniciadas, huecos>>
vars == <<archivos, lugar, acumuladas, historia>>

Acumulaciones == 1 .. MaxAcumulaciones

Init ==
    /\ reverso = FALSE /\ revpc = <<>> /\ revaux = 0 /\ registradas = {}
    /\ op = "ninguna" /\ pc = "libre" /\ actual = 0
    /\ acumuladas = {}
    /\ iniciadas = 0 /\ huecos = {}

\* The JNI function returns.
Terminar == op' = "ninguna" /\ pc' = "libre" /\ actual' = 0

Ir(lugarNuevo) == pc' = lugarNuevo /\ UNCHANGED <<op, actual>>

\* The pending accumulation, which anulacionPuntosColombia reads as the first
\* record of REVPC.
Pendientes == {revpc[i] : i \in DOMAIN revpc}

-----------------------------------------------------------------------------
(* The client.                                                               *)

\* realizarTransaccion starts with the gate.
Empezar(operacion) ==
    /\ op' = operacion
    /\ pc' = IF reverso THEN "reversoTarjeta" ELSE "reversoPuntos"

(* acumularPuntosColombia: solicitudPuntosColombia keeps the record of the   *)
(* accumulation, marked RV, in REVAUXPC before the gate.                     *)
acumularPuntosColombia ==
    /\ pc = "libre" /\ iniciadas < MaxAcumulaciones
    /\ iniciadas' = iniciadas + 1
    /\ revaux' = iniciadas + 1 /\ actual' = iniciadas + 1
    /\ Empezar("acumular")
    /\ UNCHANGED <<reverso, revpc, registradas, acumuladas, huecos>>

redimirPuntosColombiaConsulta ==
    /\ pc = "libre"
    /\ Empezar("consultar") /\ UNCHANGED actual
    /\ UNCHANGED <<archivos, acumuladas, historia>>

iniciarVenta ==
    /\ pc = "libre"
    /\ Empezar("venta") /\ UNCHANGED actual
    /\ UNCHANGED <<archivos, acumuladas, historia>>

(* leerArchivo of a file that is not there: fseek(NULL) comes before the     *)
(* test for NULL, and the C library of the terminal ends the process.        *)
LeerAusente == Terminar

(* eliminarReversoExistente reads REVERSO.TXT first, whichever of the two    *)
(* files verificarReverso found; and having read it deletes both.            *)
eliminarReversoExistente ==
    /\ pc = "libre"
    /\ \/ /\ reverso
          /\ reverso' = FALSE /\ revpc' = <<>>
          /\ huecos' = huecos \cup Pendientes
          /\ UNCHANGED lugar
       \/ /\ ~reverso /\ revpc # <<>>
          /\ Terminar
          /\ UNCHANGED <<reverso, revpc, huecos>>
    /\ UNCHANGED <<revaux, registradas, acumuladas, iniciadas>>

\* enviarReverso of the menu sends REVERSO.TXT only.
enviarReverso ==
    /\ pc = "libre" /\ reverso
    /\ reverso' \in BOOLEAN
    /\ UNCHANGED <<revpc, revaux, registradas, lugar, acumuladas, historia>>

-----------------------------------------------------------------------------
(* The gate.                                                                 *)

\* Faulty variant: the reversal of the points is not looked at when that of the
\* card was answered.
reversoSoloTarjeta ==
    /\ pc = "reversoTarjeta"
    /\ \/ reverso' = FALSE /\ Ir("enviar")
       \/ UNCHANGED reverso /\ Ir("reversoPuntos")
    /\ UNCHANGED <<revpc, revaux, registradas, acumuladas, historia>>

(* generarReverso.  Unanswered, its result is lost if REVPC exists: the gate *)
(* goes on with the result of anulacionPuntosColombia.                       *)
generarReverso ==
    /\ pc = "reversoTarjeta"
    /\ reverso' \in BOOLEAN
    /\ IF reverso' /\ revpc = <<>> THEN Terminar ELSE Ir("reversoPuntos")
    /\ UNCHANGED <<revpc, revaux, registradas, acumuladas, historia>>

sinPendiente ==
    /\ pc = "reversoPuntos" /\ revpc = <<>>
    /\ Ir("enviar")
    /\ UNCHANGED <<archivos, acumuladas, historia>>

Anulacion == pc = "reversoPuntos" /\ revpc # <<>>

\* Faulty variant: the file stays when the reversal was made.
anulacionSinBorrar ==
    /\ Anulacion
    /\ acumuladas' = acumuladas \ {Head(revpc)}
    /\ Ir("enviar")
    /\ UNCHANGED <<archivos, historia>>

\* anulacionPuntosColombia, reversed.
anulacionAprobada ==
    /\ Anulacion
    /\ acumuladas' = acumuladas \ {Head(revpc)}
    /\ revpc' = <<>>
    /\ Ir("enviar")
    /\ UNCHANGED <<reverso, revaux, registradas, historia>>

\* What a request left without effect may have done all the same.
QuizaAnulada == acumuladas' \in {acumuladas, acumuladas \ {Head(revpc)}}
QuizaAcumulada == acumuladas' \in {acumuladas, acumuladas \cup {actual}}

(* A code 01 .. 15 in front of the answer (the points system does not        *)
(* respond, cannot be reached, does not know the operation ...) deletes      *)
(* REVPC, also when the request was the reversal itself; the operation that  *)
(* waits behind the gate fails.                                              *)
anulacionRechazada ==
    /\ Anulacion
    /\ QuizaAnulada
    /\ revpc' = <<>> /\ huecos' = huecos \cup Pendientes
    /\ Terminar
    /\ UNCHANGED <<reverso, revaux, registradas, iniciadas>>

\* Declined inside the answer, answered with something else, or not at all.
anulacionPendiente ==
    /\ Anulacion
    /\ QuizaAnulada
    /\ Terminar
    /\ UNCHANGED <<archivos, historia>>

-----------------------------------------------------------------------------
\* Not connected, no request goes out and no reversal file is written; what
\* REVAUXPC holds stays.
sinConexion ==
    /\ pc = "enviar"
    /\ Terminar
    /\ UNCHANGED <<archivos, acumuladas, historia>>

(* A card operation, as far as REVERSO.TXT goes.                             *)

enviarVenta ==
    /\ op = "venta" /\ pc = "enviar"
    /\ reverso' = TRUE /\ Ir("esperar")
    /\ UNCHANGED <<revpc, revaux, registradas, acumuladas, historia>>

respuestaVenta ==
    /\ op = "venta" /\ pc = "esperar"
    /\ reverso' \in BOOLEAN
    /\ Terminar
    /\ UNCHANGED <<revpc, revaux, registradas, acumuladas, historia>>

-----------------------------------------------------------------------------
(* solicitudPuntosColombia after the gate.                                   *)

Puntos == op \in {"acumular", "consultar"}

(* crearReversoPuntosColombia, for a consultation too: it appends REVAUXPC   *)
(* to REVPC, and a consultation has none unless an accumulation left it.     *)
escribirReversoPuntos ==
    /\ Puntos /\ pc = "enviar"
    /\ IF revaux = 0 THEN LeerAusente /\ UNCHANGED revpc
       ELSE revpc' = Append(revpc, revaux) /\ Ir("borrarAuxiliar")
    /\ UNCHANGED <<reverso, revaux, registradas, acumuladas, historia>>

\* Faulty variant: REVAUXPC stays.
dejarAuxiliar ==
    /\ pc = "borrarAuxiliar"
    /\ Ir("esperar")
    /\ UNCHANGED <<archivos, acumuladas, historia>>

borrarAuxiliar ==
    /\ pc = "borrarAuxiliar"
    /\ revaux' = 0 /\ Ir("esperar")
    /\ UNCHANGED <<reverso, revpc, registradas, acumuladas, historia>>

Respuesta == Puntos /\ pc = "esperar"

\* 00 outside and inside: REVPC goes before the journal is written.
aprobada ==
    /\ Respuesta
    /\ revpc' = <<>>
    /\ IF op = "acumular"
         THEN acumuladas' = acumuladas \cup {actual} /\ Ir("guardar")
         ELSE UNCHANGED acumuladas /\ Terminar
    /\ UNCHANGED <<reverso, revaux, registradas, historia>>

\* 00 outside and an error inside: declined.
declinada ==
    /\ Respuesta
    /\ revpc' = <<>> /\ Terminar
    /\ UNCHANGED <<reverso, revaux, registradas, acumuladas, historia>>

\* A code 01 .. 15 outside: the points system may have acted before.
rechazada ==
    /\ Respuesta /\ op = "acumular"
    /\ QuizaAcumulada
    /\ revpc' = <<>> /\ huecos' = huecos \cup {actual}
    /\ Terminar
    /\ UNCHANGED <<reverso, revaux, registradas, iniciadas>>

\* Faulty variant: no answer is taken for a refusal.
silencioBorra ==
    /\ Respuesta
    /\ IF op = "acumular" THEN QuizaAcumulada ELSE UNCHANGED acumuladas
    /\ revpc' = <<>> /\ Terminar
    /\ UNCHANGED <<reverso, revaux, registradas, historia>>

\* No answer, or one that cannot be read: ERROR_NO_RESPONDE.
sinRespuesta ==
    /\ Respuesta
    /\ IF op = "acumular" THEN QuizaAcumulada ELSE UNCHANGED acumuladas
    /\ Terminar
    /\ UNCHANGED <<archivos, historia>>

guardarTransaccion ==
    /\ pc = "guardar"
    /\ registradas' = registradas \cup {actual}
    /\ Terminar
    /\ UNCHANGED <<reverso, revpc, revaux, acumuladas, historia>>

-----------------------------------------------------------------------------
\* The process ends.
caida ==
    /\ pc # "libre"
    /\ huecos' = IF pc = "guardar" THEN huecos \cup {actual} ELSE huecos
    /\ Terminar
    /\ UNCHANGED <<archivos, acumuladas, iniciadas>>

PasoGate == \/ generarReverso \/ sinPendiente \/ anulacionAprobada
            \/ anulacionRechazada \/ anulacionPendiente

PasoTerminal ==
    \/ PasoGate \/ enviarVenta \/ respuestaVenta \/ sinConexion
    \/ escribirReversoPuntos \/ borrarAuxiliar \/ aprobada \/ declinada
    \/ rechazada \/ sinRespuesta \/ guardarTransaccion

PasoCliente == \/ acumularPuntosColombia \/ redimirPuntosColombiaConsulta
               \/ iniciarVenta \/ eliminarReversoExistente \/ enviarReverso

Next == PasoTerminal \/ PasoCliente \/ caida

Spec == Init /\ [][Next]_vars

(* The terminal goes on, the user sells from time to time, and the points    *)
(* server answers a reversal that is sent for ever.                          *)
SpecJusta ==
    /\ Spec
    /\ WF_vars(PasoTerminal)
    /\ SF_vars(iniciarVenta)
    /\ SF_vars(anulacionAprobada \/ anulacionRechazada)

-----------------------------------------------------------------------------
(* Properties.                                                               *)

\* Files, locals and books have their types.
TypeOK ==
    /\ reverso \in BOOLEAN /\ revpc \in Seq(Acumulaciones)
    /\ revaux \in 0 .. MaxAcumulaciones /\ registradas \subseteq Acumulaciones
    /\ op \in {"ninguna", "acumular", "consultar", "venta"}
    /\ pc \in {"libre", "reversoTarjeta", "reversoPuntos", "enviar",
               "borrarAuxiliar", "esperar", "guardar"}
    /\ actual \in 0 .. MaxAcumulaciones
    /\ acumuladas \subseteq Acumulaciones /\ huecos \subseteq Acumulaciones
    /\ iniciadas \in 0 .. MaxAcumulaciones

\* One reversal is pending at most, in one file or the other: the gate may
\* overwrite the result of the first reversal (comunicaciones.cpp:498) because
\* the second one is never there with it, and what is read from REVPC, appended
\* to (704) and read into a buffer of one record, is one record.
UnSoloPendiente == Len(revpc) + (IF reverso THEN 1 ELSE 0) <= 1

\* An accumulation that stands at the server is in the journal, on its way to
\* it, pending in REVPC, or in a gap: a code 01 .. 15 that made the terminal
\* forget it, the menu, or the end of the process before the journal.
PuntosCubiertos ==
    \A a \in acumuladas :
        \/ a \in registradas \cup huecos \cup Pendientes
        \/ pc = "guardar" /\ a = actual

\* An accumulation in the journal is never reversed afterwards, whatever file
\* an earlier operation left behind.
RegistroVigente == registradas \subseteq acumuladas

\* A pending reversal of points is settled, and with it every operation that
\* waits behind the gate (comunicaciones.cpp:56).
PuntosSeResuelven == revpc # <<>> ~> revpc = <<>>
=============================================================================
