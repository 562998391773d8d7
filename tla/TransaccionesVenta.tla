------------------------- MODULE TransaccionesVenta -------------------------
(***************************************************************************)
(* The card operations of the terminal over the dialogue of module         *)
(* Comunicaciones: EMV sale (Venta/emv_venta.cpp), void of a recorded sale *)
(* (Venta/anulacion_venta.cpp), balance query (Venta/saldo_venta.cpp) and  *)
(* the reversal menu (Base/menu.cpp), with power cuts, the network and the *)
(* acquirer's host.                                                        *)
(*                                                                         *)
(* The client calls one JNI function at a time, and consults the receipt   *)
(* right before it voids it.                                               *)
(***************************************************************************)
EXTENDS Comunicaciones

Init ==
    /\ archivoReverso = <<>> /\ respaldo = 0 /\ journal = {}
    /\ tipo = "venta" /\ consecutivo = 0
    /\ objetivo = [t \in Trazas |-> 0]
    /\ op = "ninguna" /\ pc = "libre" /\ trama = 0 /\ intentos = 0
    /\ generaReverso = REVERSO_NO_GENERADO /\ origen = "ninguno"
    /\ conectado = 0
    /\ peticion = Nada /\ respuesta = SinRespuesta /\ vigente = {}
    /\ eliminadas = {} /\ negadas = {} /\ cortadas = {} /\ sinReverso = {}

-----------------------------------------------------------------------------
(* Starting an operation.  Without a connection the JNI functions return     *)
(* before they touch anything, so only the connected case is a step.         *)

\* generarSystemTraceNumber: the STAN of a new frame.
NuevaTraza == consecutivo + 1

Empezar(operacion, t, conReverso) ==
    /\ pc = "libre"
    /\ op' = operacion /\ pc' = "verificar"
    /\ trama' = t /\ intentos' = 0 /\ generaReverso' = conReverso
    /\ conectado' = 1

(* realizarVentaEMV up to its first realizarTransaccion.  TIPO_TRANSACCION   *)
(* is read before verificarReversoExistente sets it: it is the type of the   *)
(* previous operation that decides whether this sale leaves a reversal.      *)
iniciarVenta ==
    /\ NuevaTraza \in Trazas
    /\ Empezar("venta", NuevaTraza,
               IF tipo # "saldo" THEN REVERSO_GENERADO ELSE REVERSO_NO_GENERADO)
    /\ consecutivo' = NuevaTraza
    /\ respaldo' = NuevaTraza
    /\ UNCHANGED <<archivoReverso, journal, tipo, objetivo, origen,
                   peticion, respuesta, vigente, historia>>

(* A sale of amount zero spends its STAN and is never sent, unless the       *)
(* previous operation was a balance query.                                   *)
ventaSinValor ==
    /\ pc = "libre"
    /\ NuevaTraza \in Trazas
    /\ tipo # "saldo"
    /\ consecutivo' = NuevaTraza
    /\ respaldo' = NuevaTraza
    /\ UNCHANGED <<archivoReverso, journal, tipo, objetivo, op, pc,
                   trama, intentos, generaReverso, origen, conectado, peticion,
                   respuesta, vigente, historia>>

\* estadoTransaccion of the record of sale s is "1".
Activa(s) == /\ s \in journal /\ objetivo[s] = 0
             /\ \A v \in journal : objetivo[v] # s

(* realizarConsultaReciboAnulacion found an active sale with that receipt,   *)
(* and anularTransaccion builds the frame that voids it.                     *)
iniciarAnulacion(s) ==
    /\ Activa(s)
    /\ NuevaTraza \in Trazas
    /\ Empezar("anulacion", NuevaTraza, REVERSO_GENERADO)
    /\ consecutivo' = NuevaTraza
    /\ objetivo' = [objetivo EXCEPT ![NuevaTraza] = s]
    /\ UNCHANGED <<archivoReverso, respaldo, journal, tipo, origen,
                   peticion, respuesta, vigente, historia>>

(* consultarSaldo.  Its STAN is not told apart from another's: nothing is    *)
(* recorded or reversed under it.                                            *)
iniciarSaldo ==
    /\ Empezar("saldo", 0, REVERSO_NO_GENERADO)
    /\ UNCHANGED <<archivoReverso, persistente, tipo, origen, peticion,
                   respuesta, vigente, historia>>

(* enviarReverso of the menu: mostrarReverso, mostrarDetalleReverso.         *)
mostrarReverso ==
    /\ pc = "libre" /\ archivoReverso # <<>>
    /\ op' = "menu" /\ pc' = "enviarReverso" /\ origen' = "menu"
    /\ conectado' = 1
    /\ UNCHANGED <<archivoReverso, persistente, tipo, trama, intentos,
                   generaReverso, peticion, respuesta, vigente, historia>>

(* eliminarReversoExistente: the user drops the pending reversal.            *)
capturarEliminarReverso ==
    /\ pc = "libre" /\ archivoReverso # <<>>
    /\ archivoReverso' = <<>>
    /\ eliminadas' = eliminadas \cup {Head(archivoReverso)}
    /\ UNCHANGED <<persistente, tipo, op, pc, trama, intentos, generaReverso,
                   origen, conectado, peticion, respuesta, vigente, negadas,
                   cortadas, sinReverso>>

-----------------------------------------------------------------------------
(* The reply to a sale or a void.                                            *)

Recibida == pc = "esperar" /\ respuesta # SinRespuesta

\* enviarAnulacion and consultarSaldo ask for CANAL_DEMANDA, the sale does not.
CierraCanal == op # "venta"

\* verificacionLlegadaTrama and validarRespuesta: the fields of the reply are
\* those of the frame.  A sale sent as a balance query is not verified.
verificacionLlegadaTrama(r) == r.coincide \/ generaReverso = REVERSO_NO_GENERADO

respuestaAprobada ==
    /\ Recibida /\ op \in {"venta", "anulacion"}
    /\ respuesta.codigo = "00" /\ verificacionLlegadaTrama(respuesta)
    /\ pc' = IF op = "venta" THEN "borrar" ELSE "guardar"
    /\ respuesta' = SinRespuesta
    /\ SoltarSocket(CierraCanal)
    /\ UNCHANGED <<archivoReverso, persistente, tipo, op, trama, intentos,
                   generaReverso, origen, peticion, vigente, historia>>

\* Faulty variant: the frame is sent again without reversing the approval.
desajusteSinReversar ==
    /\ Recibida /\ op \in {"venta", "anulacion"}
    /\ respuesta.codigo = "00" /\ ~verificacionLlegadaTrama(respuesta)
    /\ intentos + 1 < MAX_INTENTOS_VENTA
    /\ archivoReverso' = <<>>
    /\ pc' = "escribir" /\ intentos' = intentos + 1
    /\ respuesta' = SinRespuesta
    /\ SoltarSocket(CierraCanal)
    /\ UNCHANGED <<persistente, op, trama, generaReverso, origen, tipo,
                   peticion, vigente, historia>>

(* The approval is not for the frame that was sent: it is reversed, and the  *)
(* operation ends if there is nothing to reverse.                            *)
respuestaDesajustada ==
    /\ Recibida /\ op \in {"venta", "anulacion"}
    /\ respuesta.codigo = "00" /\ ~verificacionLlegadaTrama(respuesta)
    /\ \/ /\ archivoReverso # <<>>
          /\ pc' = "enviarReverso" /\ origen' = "desajuste"
          /\ respuesta' = SinRespuesta
          /\ SoltarSocket(CierraCanal)
          /\ UNCHANGED <<op, trama, intentos, generaReverso>>
       \/ /\ archivoReverso = <<>>
          /\ Terminar
    /\ UNCHANGED <<archivoReverso, persistente, tipo, peticion, vigente,
                   historia>>

(* Any other response code deletes the reversal and ends the operation.      *)
respuestaDeclinada ==
    /\ Recibida /\ op \in {"venta", "anulacion"}
    /\ respuesta.codigo # "00"
    /\ archivoReverso' = <<>>
    /\ Terminar
    /\ UNCHANGED <<persistente, tipo, peticion, vigente, historia>>

(* consultarSaldo: code "55" (wrong PIN) sends the query again with the same *)
(* PIN block, any other code ends it.                                        *)
respuestaSaldo ==
    /\ Recibida /\ op = "saldo"
    /\ \/ /\ respuesta.codigo = "55"
          /\ pc' = "verificar"
          /\ respuesta' = SinRespuesta
          /\ SoltarSocket(CierraCanal)
          /\ UNCHANGED <<op, trama, intentos, generaReverso, origen>>
       \/ /\ respuesta.codigo # "55"
          /\ Terminar
    /\ UNCHANGED <<archivoReverso, persistente, tipo, peticion, vigente,
                   historia>>

-----------------------------------------------------------------------------
(* Recording an approved operation, in the order of the code: the sale       *)
(* deletes its reversal and then writes the journal, the void updates the    *)
(* journal and then deletes its reversal.                                    *)

\* Faulty variant: the sale forgets to delete its reversal.
ventaSinBorrar ==
    /\ pc = "borrar" /\ op = "venta"
    /\ respaldo' = 0
    /\ pc' = "guardar"
    /\ UNCHANGED <<archivoReverso, journal, consecutivo, objetivo, tipo, op,
                   trama, intentos, generaReverso, origen, conectado, peticion,
                   respuesta, vigente, historia>>

borrarReversoVenta ==
    /\ pc = "borrar" /\ op = "venta"
    /\ archivoReverso' = <<>>
    /\ respaldo' = 0
    /\ pc' = "guardar"
    /\ UNCHANGED <<journal, consecutivo, objetivo, tipo, op, trama,
                   intentos, generaReverso, origen, conectado, peticion,
                   respuesta, vigente, historia>>

guardarTransaccion ==
    /\ pc = "guardar" /\ op = "venta"
    /\ journal' = journal \cup {trama}
    /\ Terminar
    /\ UNCHANGED <<archivoReverso, respaldo, consecutivo, objetivo,
                   tipo, peticion, vigente, historia>>

\* Faulty variant: the record of the sale keeps its state.
anulacionSinRegistrar ==
    /\ pc = "guardar" /\ op = "anulacion"
    /\ pc' = "borrar"
    /\ UNCHANGED <<archivoReverso, persistente, tipo, op, trama, intentos,
                   generaReverso, origen, conectado, peticion, respuesta,
                   vigente, historia>>

cambiarEstadoTransaccion ==
    /\ pc = "guardar" /\ op = "anulacion"
    /\ journal' = journal \cup {trama}
    /\ pc' = "borrar"
    /\ UNCHANGED <<archivoReverso, respaldo, consecutivo, objetivo, tipo, op,
                   trama, intentos, generaReverso, origen, conectado,
                   peticion, respuesta, vigente, historia>>

borrarReversoAnulacion ==
    /\ pc = "borrar" /\ op = "anulacion"
    /\ archivoReverso' = <<>>
    /\ Terminar
    /\ UNCHANGED <<persistente, tipo, peticion, vigente, historia>>

-----------------------------------------------------------------------------
(* External: the acquirer, the network and the power.                        *)

\* A reply reaches the terminal only while it waits on that connection.
Contestar(r) ==
    /\ peticion' = Nada
    /\ respuesta' = IF pc \in {"esperar", "esperarReverso"} THEN r
                    ELSE SinRespuesta

hostFinanciera ==
    /\ peticion.mti = "0200"
    /\ \/ /\ vigente' = vigente \cup {peticion.traza}
          /\ \E c \in BOOLEAN :
                Contestar([mti |-> "0210", codigo |-> "00", coincide |-> c])
       \/ /\ Contestar([mti |-> "0210", codigo |-> "otro", coincide |-> TRUE])
          /\ UNCHANGED vigente
    /\ UNCHANGED <<archivoReverso, persistente, tipo, op, pc, trama, intentos,
                   generaReverso, origen, conectado, historia>>

hostReverso ==
    /\ peticion.mti = "0400"
    /\ \E m \in {"0410", "otro"} :
         \/ /\ vigente' = vigente \ {peticion.traza}
            /\ Contestar([mti |-> m, codigo |-> "00", coincide |-> TRUE])
         \/ /\ Contestar([mti |-> m, codigo |-> "otro", coincide |-> TRUE])
            /\ UNCHANGED vigente
    /\ UNCHANGED <<archivoReverso, persistente, tipo, op, pc, trama, intentos,
                   generaReverso, origen, conectado, historia>>

hostSaldo ==
    /\ peticion.mti = "0100"
    /\ \E c \in {"00", "55", "otro"} :
         Contestar([mti |-> "0110", codigo |-> c, coincide |-> TRUE])
    /\ UNCHANGED <<archivoReverso, persistente, tipo, op, pc, trama, intentos,
                   generaReverso, origen, conectado, vigente, historia>>

perder ==
    /\ peticion # Nada \/ respuesta # SinRespuesta
    /\ peticion' = Nada /\ respuesta' = SinRespuesta
    /\ UNCHANGED <<archivoReverso, persistente, tipo, op, pc, trama, intentos,
                   generaReverso, origen, conectado, vigente, historia>>

\* The files stay as they are; an approved operation cut between its two
\* writes is remembered in "cortadas".
caida ==
    /\ pc # "libre"
    /\ Terminar
    /\ cortadas' = IF \/ op = "venta" /\ pc = "guardar"
                      \/ op = "anulacion" /\ pc = "borrar"
                   THEN cortadas \cup {trama} ELSE cortadas
    /\ UNCHANGED <<archivoReverso, persistente, tipo, peticion, vigente,
                   eliminadas, negadas, sinReverso>>

-----------------------------------------------------------------------------
PasoTerminal ==
    \/ verificarReversoExistente \/ enviarReverso \/ reversoRespondido
    \/ reversoPendiente \/ escribirReverso \/ enviarTrama \/ conexionFallida
    \/ tiempoAgotado \/ respuestaAprobada \/ respuestaDesajustada
    \/ respuestaDeclinada \/ respuestaSaldo \/ borrarReversoVenta
    \/ guardarTransaccion \/ cambiarEstadoTransaccion
    \/ borrarReversoAnulacion

PasoCliente ==
    \/ iniciarVenta \/ ventaSinValor \/ iniciarSaldo \/ mostrarReverso
    \/ capturarEliminarReverso
    \/ \E s \in Trazas : iniciarAnulacion(s)

PasoExterno == hostFinanciera \/ hostReverso \/ hostSaldo \/ perder \/ caida

Next == PasoTerminal \/ PasoCliente \/ PasoExterno

Spec == Init /\ [][Next]_vars

-----------------------------------------------------------------------------
(* Properties.                                                               *)

\* Every variable has its type: the parameters, files and locals named above.
TypeOK ==
    /\ archivoReverso \in Seq(Trazas)
    /\ respaldo \in 0 .. MaxTrazas /\ consecutivo \in 0 .. MaxTrazas
    /\ journal \subseteq Trazas
    /\ objetivo \in [Trazas -> 0 .. MaxTrazas]
    /\ tipo \in Operaciones /\ op \in Operaciones /\ pc \in Puntos
    /\ trama \in 0 .. MaxTrazas /\ intentos \in Nat
    /\ generaReverso \in {0, 1} /\ conectado \in {0, 1}
    /\ origen \in {"ninguno", "previo", "desajuste", "menu"}
    /\ peticion \in Peticiones /\ respuesta \in Respuestas
    /\ vigente \subseteq Trazas
    /\ eliminadas \subseteq Trazas /\ negadas \subseteq Trazas
    /\ cortadas \subseteq Trazas /\ sinReverso \subseteq Trazas

Pendientes == {archivoReverso[i] : i \in 1 .. Len(archivoReverso)}

\* STANs whose outcome the terminal still has to settle: the reversal on file,
\* and the sale whose reversal is gone and whose journal record is to come.
EnRiesgo == Pendientes \cup (IF op = "venta" /\ pc = "guardar" THEN {trama}
                             ELSE {})

\* REVERSO.TXT is opened for append and generarReverso unpacks one message and
\* deletes the file: a second frame in it would be lost unreversed.  There is
\* never a second one (comunicaciones.cpp:157, 262, 355, 405-413).
UnSoloReverso == Len(archivoReverso) <= 1

\* An approval in the host's books is recorded in the journal, or is still to
\* be settled, or slipped through one of the four known gaps: the user deleted
\* the reversal, the host refused it, the power went between the two writes, or
\* the request went out without one.  No other interleaving of answers, lost
\* messages, time-outs and power cuts loses money.
Cubierta ==
    \A t \in vigente :
        t \in journal \cup EnRiesgo \cup eliminadas \cup negadas
              \cup cortadas \cup sinReverso

\* What the journal records is approved in the host's books: a recorded sale is
\* never reversed, and a recorded void only if the power went before the void
\* deleted its reversal (anulacion_venta.cpp:547-599).
JournalVigente ==
    \A t \in journal : t \in vigente \/ (t \in cortadas /\ objetivo[t] # 0)

\* While a financial request may be in the host's hands its reversal is the
\* content of REVERSO.TXT, also after a time-out or a power cut, unless the user
\* deleted it or the sale was sent without one.
ReversoAntesDeEnviar ==
    peticion.mti = "0200" =>
        \/ archivoReverso = <<peticion.traza>>
        \/ peticion.traza \in sinReverso \cup eliminadas

\* A frame is sent (first time or retry) only when nothing is approved under
\* its STAN, or the host refused to reverse that approval: a customer is not
\* charged twice by the retry loop of realizarVentaEMV and anularTransaccion.
NoDobleCargo ==
    [][(pc = "enviar" /\ pc' = "esperar" /\ op # "saldo") =>
            trama \notin vigente \ negadas]_vars

\* A recorded sale is voided once: two voids of one sale are both approved only
\* if the user deleted, or the host refused, the reversal of one of them.
UnaSolaAnulacion ==
    \A v, w \in vigente :
        (v # w /\ objetivo[v] = objetivo[w] /\ objetivo[v] # 0) =>
            v \in eliminadas \cup negadas \/ w \in eliminadas \cup negadas

-----------------------------------------------------------------------------
(* What the host and the files together do to each STAN, as CobroAbstracto   *)
(* promises it.                                                              *)
EstadoDe(t) ==
    CASE t \in cortadas                                    -> "expuesta"
      [] t \notin cortadas /\ t \in EnRiesgo               -> "riesgo"
      [] t \notin cortadas \cup EnRiesgo /\ t \in journal   -> "registrada"
      [] t \notin cortadas \cup EnRiesgo \cup journal
         /\ t \in eliminadas \cup negadas \cup sinReverso  -> "expuesta"
      [] t \notin cortadas \cup EnRiesgo \cup journal \cup eliminadas
                 \cup negadas \cup sinReverso
         -> IF t <= consecutivo THEN "cerrada" ELSE "sinUsar"

EstadoCobro == [t \in Trazas |-> EstadoDe(t)]

Cobro == INSTANCE CobroAbstracto WITH estado <- EstadoCobro

\* The detailed protocol implements CobroAbstracto.
ImplementaCobro == Cobro!Spec

-----------------------------------------------------------------------------
(* Liveness.  The terminal's own steps are one thread that always runs on:   *)
(* every wait ends after 30 s at the latest.                                 *)
SpecTerminal == Spec /\ WF_vars(PasoTerminal)

\* The acquirer answers a reversal with a 0410 (whatever its response code).
hostContestaReverso == hostReverso /\ respuesta'.mti = "0410"

\* Environment: the user keeps coming back to the reversal menu, and the
\* acquirer cannot be out of reach at every one of those attempts.
SpecInsistente == /\ SpecTerminal
                  /\ SF_vars(mostrarReverso) /\ SF_vars(enviarReverso)
                  /\ SF_vars(hostContestaReverso) /\ SF_vars(reversoRespondido)

\* A sale, a void or a reversal sent from the menu ends, whatever the host and
\* the network do: the retry loops are bounded.  A balance query is left out:
\* its loop sends the same PIN block for as long as the host answers "55".
OperacionTermina == (op \notin {"ninguna", "saldo"}) ~> (op = "ninguna")

\* A pending reversal does not block the terminal for ever.
PendienteSeResuelve == (archivoReverso # <<>>) ~> (archivoReverso = <<>>)
=============================================================================
