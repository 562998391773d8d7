---------------------------- MODULE PruebasVenta ----------------------------
(***************************************************************************)
(* Proofs, for every number of STANs, either channel and every number of   *)
(* attempts, of the safety properties of TransaccionesVenta: that IInv is  *)
(* inductive, one lemma per part of it, the theorems that follow, and that *)
(* TransaccionesVenta implements CobroAbstracto.                           *)
(***************************************************************************)
EXTENDS InvariantesVenta, TLAPS, SequenceTheorems

USE MaxTrazasAssumption, CanalAssumption, MaxIntentosAssumption

TipoControl == TypeOK /\ Control

\* The messages that stand for "none" are messages.
LEMMA MensajesVacios == Nada \in Peticiones /\ SinRespuesta \in Respuestas
  BY DEF Nada, SinRespuesta, Peticiones, Respuestas

\* The types and the control part of the invariant hold at the start.
LEMMA TipoControlInicial == Init => TipoControl
<1> SUFFICES ASSUME Init PROVE TipoControl
  OBVIOUS
<1>1. TypeOK
  BY MensajesVacios DEF Init, TypeOK, Trazas, Operaciones, Puntos,
     REVERSO_GENERADO, REVERSO_NO_GENERADO
<1>2. Control
  BY DEF Init, Control, Financiera, EnReverso, Nada, REVERSO_GENERADO,
     REVERSO_NO_GENERADO
<1> QED
  BY <1>1, <1>2 DEF TipoControl

\* Every step keeps the types.  They are not inductive alone: that the STAN of a
\* financial operation is a real one keeps 0 out of the journal and the file.
LEMMA TipoInductivo == TipoControl /\ [Next]_vars => TypeOK'
<1> SUFFICES ASSUME TipoControl, [Next]_vars PROVE TypeOK'
  OBVIOUS
<1> USE MensajesVacios DEF TipoControl, TypeOK, Trazas, Operaciones, Puntos,
        persistente, historia, REVERSO_GENERADO, REVERSO_NO_GENERADO
<1>1. CASE UNCHANGED vars
  BY <1>1 DEF vars
<1>2. CASE PasoTerminal
  <2>1. CASE verificarReversoExistente
    BY <2>1 DEF verificarReversoExistente
  <2>2. CASE enviarReverso
    <3>1. Head(archivoReverso) \in Trazas
      BY <2>2 DEF enviarReverso, Control, EnReverso
    <3>2. peticion' \in Peticiones
      BY <2>2, <3>1 DEF enviarReverso, Peticiones
    <3> QED
      BY <2>2, <3>2 DEF enviarReverso, Conectar
  <2>3. CASE reversoRespondido
    <3>1. Head(archivoReverso) \in Trazas /\ <<>> \in Seq(Trazas)
      BY <2>3 DEF reversoRespondido, Control, EnReverso
    <3>2. archivoReverso' \in Seq(Trazas) /\ negadas' \subseteq Trazas
      BY <2>3, <3>1 DEF reversoRespondido
    <3>3. /\ UNCHANGED <<persistente, tipo, peticion, vigente, eliminadas,
                        cortadas, sinReverso>>
          /\ SeguirTrasReverso
      BY <2>3 DEF reversoRespondido
    <3>4. /\ op' \in Operaciones /\ pc' \in Puntos
          /\ trama' \in 0 .. MaxTrazas /\ intentos' \in Nat
          /\ generaReverso' \in {0, 1} /\ conectado' \in {0, 1}
          /\ origen' \in {"ninguno", "previo", "desajuste", "menu"}
          /\ respuesta' \in Respuestas
      BY <3>3 DEF SeguirTrasReverso, Terminar, SoltarSocket
    <3> QED
      BY <3>2, <3>3, <3>4
  <2>4. CASE reversoPendiente
    BY <2>4 DEF reversoPendiente, Terminar
  <2>5. CASE escribirReverso
    <3>1. generaReverso = REVERSO_GENERADO => trama \in Trazas
      BY <2>5 DEF escribirReverso, Control, Financiera, EnReverso
    <3>2. archivoReverso' \in Seq(Trazas)
      <4>1. CASE generaReverso = REVERSO_GENERADO
        <5>1. Append(archivoReverso, trama) \in Seq(Trazas)
          BY <3>1, <4>1
        <5> QED
          BY <2>5, <4>1, <5>1 DEF escribirReverso
      <4> QED
        BY <2>5, <4>1 DEF escribirReverso
    <3> QED
      BY <2>5, <3>2 DEF escribirReverso, Conectar
  <2>6. CASE enviarTrama
    BY <2>6 DEF enviarTrama, Control, Financiera, EnReverso, Peticiones
  <2>7. CASE conexionFallida
    BY <2>7 DEF conexionFallida, Terminar
  <2>8. CASE tiempoAgotado
    BY <2>8 DEF tiempoAgotado, Terminar
  <2>9. CASE respuestaAprobada
    BY <2>9 DEF respuestaAprobada, Recibida, verificacionLlegadaTrama,
       SoltarSocket
  <2>10. CASE respuestaDesajustada
    <3>1. CASE archivoReverso # <<>>
      BY <2>10, <3>1 DEF respuestaDesajustada, SoltarSocket
    <3>2. CASE archivoReverso = <<>>
      BY <2>10, <3>2 DEF respuestaDesajustada, Terminar
    <3> QED
      BY <3>1, <3>2
  <2>11. CASE respuestaDeclinada
    BY <2>11 DEF respuestaDeclinada, Recibida, Terminar
  <2>12. CASE respuestaSaldo
    <3>1. UNCHANGED <<archivoReverso, persistente, tipo, peticion, vigente,
                      historia>>
      BY <2>12 DEF respuestaSaldo
    <3>2. CASE Terminar
      <4>1. /\ op' \in Operaciones /\ pc' \in Puntos
            /\ trama' \in 0 .. MaxTrazas /\ intentos' \in Nat
            /\ generaReverso' \in {0, 1} /\ conectado' \in {0, 1}
            /\ origen' \in {"ninguno", "previo", "desajuste", "menu"}
            /\ respuesta' \in Respuestas
        BY <3>2, MaxTrazasAssumption DEF Terminar
      <4> QED
        BY <3>1, <4>1
    <3>3. CASE /\ pc' = "verificar" /\ respuesta' = SinRespuesta
               /\ SoltarSocket(CierraCanal)
               /\ UNCHANGED <<op, trama, intentos, generaReverso, origen>>
      <4>1. conectado' \in {0, 1}
        BY <3>3 DEF SoltarSocket
      <4> QED
        BY <3>1, <3>3, <4>1
    <3> QED
      BY <2>12, <3>2, <3>3 DEF respuestaSaldo
  <2>13. CASE borrarReversoVenta
    BY <2>13 DEF borrarReversoVenta
  <2>14. CASE guardarTransaccion
    BY <2>14 DEF guardarTransaccion, Terminar, Control, Financiera,
       EnReverso
  <2>15. CASE cambiarEstadoTransaccion
    BY <2>15 DEF cambiarEstadoTransaccion, Control, Financiera, EnReverso
  <2>16. CASE borrarReversoAnulacion
    BY <2>16 DEF borrarReversoAnulacion, Terminar
  <2> QED
    BY <1>2, <2>1, <2>2, <2>3, <2>4, <2>5, <2>6, <2>7, <2>8, <2>9, <2>10,
       <2>11, <2>12, <2>13, <2>14, <2>15, <2>16 DEF PasoTerminal
<1>3. CASE PasoCliente
  <2>1. CASE iniciarVenta
    BY <2>1 DEF iniciarVenta, Empezar, NuevaTraza
  <2>2. CASE ventaSinValor
    BY <2>2 DEF ventaSinValor, NuevaTraza
  <2>3. CASE iniciarSaldo
    BY <2>3 DEF iniciarSaldo, Empezar
  <2>4. CASE mostrarReverso
    BY <2>4 DEF mostrarReverso
  <2>5. CASE capturarEliminarReverso
    <3>1. Head(archivoReverso) \in Trazas /\ <<>> \in Seq(Trazas)
      BY <2>5 DEF capturarEliminarReverso
    <3> QED
      BY <2>5, <3>1 DEF capturarEliminarReverso
  <2>6. ASSUME NEW s \in Trazas, iniciarAnulacion(s) PROVE TypeOK'
    BY <2>6 DEF iniciarAnulacion, Activa, Empezar, NuevaTraza
  <2> QED
    BY <1>3, <2>1, <2>2, <2>3, <2>4, <2>5, <2>6 DEF PasoCliente
<1>4. CASE PasoExterno
  <2>1. CASE hostFinanciera
    <3>1. peticion.traza \in Trazas /\ vigente' \subseteq Trazas
      BY <2>1 DEF hostFinanciera, Control
    <3>2. peticion' \in Peticiones /\ respuesta' \in Respuestas
      <4>1. \A c \in BOOLEAN : [mti |-> "0210", codigo |-> "00",
                                coincide |-> c] \in Respuestas
        BY DEF Respuestas
      <4>2. [mti |-> "0210", codigo |-> "otro", coincide |-> TRUE] \in Respuestas
        BY DEF Respuestas
      <4> QED
        BY <2>1, <4>1, <4>2 DEF hostFinanciera, Contestar
    <3> QED
      BY <2>1, <3>1, <3>2 DEF hostFinanciera
  <2>2. CASE hostReverso
    <3>1. peticion' \in Peticiones /\ respuesta' \in Respuestas
      <4>1. \A m \in {"0410", "otro"}, c \in {"00", "otro"} :
              [mti |-> m, codigo |-> c, coincide |-> TRUE] \in Respuestas
        BY DEF Respuestas
      <4> QED
        BY <2>2, <4>1 DEF hostReverso, Contestar
    <3>2. vigente' \subseteq Trazas
      BY <2>2 DEF hostReverso
    <3> QED
      BY <2>2, <3>1, <3>2 DEF hostReverso
  <2>3. CASE hostSaldo
    <3>1. peticion' \in Peticiones /\ respuesta' \in Respuestas
      <4>1. \A c \in {"00", "55", "otro"} :
              [mti |-> "0110", codigo |-> c, coincide |-> TRUE] \in Respuestas
        BY DEF Respuestas
      <4> QED
        BY <2>3, <4>1 DEF hostSaldo, Contestar
    <3> QED
      BY <2>3, <3>1 DEF hostSaldo
  <2>4. CASE perder
    BY <2>4 DEF perder
  <2>5. CASE caida
    BY <2>5 DEF caida, Terminar, Control, Financiera, EnReverso
  <2> QED
    BY <1>4, <2>1, <2>2, <2>3, <2>4, <2>5 DEF PasoExterno
<1> QED
  BY <1>1, <1>2, <1>3, <1>4 DEF Next

\* Every step keeps the control part of the invariant.
LEMMA ControlInductivo == TipoControl /\ [Next]_vars => Control'
<1> SUFFICES ASSUME TipoControl, [Next]_vars PROVE Control'
  OBVIOUS
<1> USE DEF Nada, TipoControl, TypeOK, Control, Financiera, EnReverso, Trazas,
        Operaciones, Puntos, persistente, historia, REVERSO_GENERADO,
        REVERSO_NO_GENERADO
<1>1. CASE UNCHANGED vars
  BY <1>1 DEF vars
<1>2. CASE PasoTerminal
  <2>1. CASE verificarReversoExistente
    BY <2>1 DEF verificarReversoExistente
  <2>2. CASE enviarReverso
    BY <2>2 DEF enviarReverso, Conectar
  <2>3. CASE reversoRespondido
    BY <2>3 DEF reversoRespondido, verificacionTramaReverso,
       SeguirTrasReverso, Terminar, SoltarSocket
  <2>4. CASE reversoPendiente
    BY <2>4 DEF reversoPendiente, Terminar
  <2>5. CASE escribirReverso
    BY <2>5 DEF escribirReverso, Conectar
  <2>6. CASE enviarTrama
    BY <2>6 DEF enviarTrama
  <2>7. CASE conexionFallida
    BY <2>7 DEF conexionFallida, Terminar
  <2>8. CASE tiempoAgotado
    BY <2>8 DEF tiempoAgotado, Terminar
  <2>9. CASE respuestaAprobada
    BY <2>9 DEF respuestaAprobada, Recibida, verificacionLlegadaTrama,
       SoltarSocket
  <2>10. CASE respuestaDesajustada
    <3>1. CASE archivoReverso # <<>>
      <4>1. generaReverso # REVERSO_NO_GENERADO
        BY <2>10 DEF respuestaDesajustada, verificacionLlegadaTrama
      <4>2. /\ pc' = "enviarReverso" /\ origen' = "desajuste"
            /\ UNCHANGED <<op, trama, intentos, generaReverso>>
        BY <2>10, <3>1 DEF respuestaDesajustada
      <4>3. /\ pc = "esperar" /\ op \in {"venta", "anulacion"}
            /\ UNCHANGED <<archivoReverso, persistente, peticion>>
        BY <2>10 DEF respuestaDesajustada, Recibida
      <4> QED
        BY <3>1, <4>1, <4>2, <4>3
    <3>2. CASE archivoReverso = <<>>
      BY <2>10, <3>2 DEF respuestaDesajustada, Terminar
    <3> QED
      BY <3>1, <3>2
  <2>11. CASE respuestaDeclinada
    BY <2>11 DEF respuestaDeclinada, Recibida, Terminar
  <2>12. CASE respuestaSaldo
    BY <2>12 DEF respuestaSaldo, Recibida, Terminar, SoltarSocket
  <2>13. CASE borrarReversoVenta
    BY <2>13 DEF borrarReversoVenta
  <2>14. CASE guardarTransaccion
    BY <2>14 DEF guardarTransaccion, Terminar
  <2>15. CASE cambiarEstadoTransaccion
    BY <2>15 DEF cambiarEstadoTransaccion
  <2>16. CASE borrarReversoAnulacion
    BY <2>16 DEF borrarReversoAnulacion, Terminar
  <2> QED
    BY <1>2, <2>1, <2>2, <2>3, <2>4, <2>5, <2>6, <2>7, <2>8, <2>9, <2>10,
       <2>11, <2>12, <2>13, <2>14, <2>15, <2>16 DEF PasoTerminal
<1>3. CASE PasoCliente
  <2>1. CASE iniciarVenta
    BY <2>1 DEF iniciarVenta, Empezar, NuevaTraza
  <2>2. CASE ventaSinValor
    BY <2>2 DEF ventaSinValor, NuevaTraza
  <2>3. CASE iniciarSaldo
    BY <2>3 DEF iniciarSaldo, Empezar
  <2>4. CASE mostrarReverso
    BY <2>4 DEF mostrarReverso
  <2>5. CASE capturarEliminarReverso
    BY <2>5 DEF capturarEliminarReverso
  <2>6. ASSUME NEW s \in Trazas, iniciarAnulacion(s) PROVE Control'
    BY <2>6 DEF iniciarAnulacion, Activa, Empezar, NuevaTraza
  <2> QED
    BY <1>3, <2>1, <2>2, <2>3, <2>4, <2>5, <2>6 DEF PasoCliente
<1>4. CASE PasoExterno
  <2>1. CASE hostFinanciera
    BY <2>1 DEF hostFinanciera, Contestar
  <2>2. CASE hostReverso
    BY <2>2 DEF hostReverso, Contestar
  <2>3. CASE hostSaldo
    BY <2>3 DEF hostSaldo, Contestar
  <2>4. CASE perder
    BY <2>4 DEF perder
  <2>5. CASE caida
    BY <2>5 DEF caida, Terminar
  <2> QED
    BY <1>4, <2>1, <2>2, <2>3, <2>4, <2>5 DEF PasoExterno
<1> QED
  BY <1>1, <1>2, <1>3, <1>4 DEF Next

\* Every variable of the terminal, the network and the host keeps its type.
THEOREM TipoCorrecto == Spec => []TypeOK
<1>1. TipoControl /\ [Next]_vars => TipoControl'
  BY TipoInductivo, ControlInductivo DEF TipoControl
<1>2. TipoControl => TypeOK
  BY DEF TipoControl
<1> QED
  BY TipoControlInicial, <1>1, <1>2, PTL DEF Spec
-----------------------------------------------------------------------------
\* Every step keeps what REVERSO.TXT holds at each point of an operation.
LEMMA ArchivoInductivo == TipoControl /\ Archivo /\ [Next]_vars => Archivo'
<1> SUFFICES ASSUME TipoControl, Archivo, [Next]_vars PROVE Archivo'
  OBVIOUS
<1> USE DEF TipoControl, TypeOK, Control, Archivo, UnSoloReverso, Financiera,
        EnReverso, Trazas, Operaciones, Puntos, persistente, historia,
        REVERSO_GENERADO, REVERSO_NO_GENERADO
<1>0. archivoReverso # <<consecutivo + 1>>
  <2>1. ASSUME archivoReverso = <<consecutivo + 1>> PROVE FALSE
    <3>1. Head(archivoReverso) = consecutivo + 1
      BY <2>1
    <3> QED
      BY <2>1, <3>1
  <2> QED
    BY <2>1
<1>1. CASE UNCHANGED vars
  BY <1>1 DEF vars
<1>2. CASE PasoTerminal
  <2>1. CASE verificarReversoExistente
    BY <2>1 DEF verificarReversoExistente
  <2>2. CASE enviarReverso
    BY <2>2 DEF enviarReverso, Conectar
  <2>3. CASE reversoRespondido
    BY <2>3 DEF reversoRespondido, verificacionTramaReverso,
       SeguirTrasReverso, Terminar, SoltarSocket
  <2>4. CASE reversoPendiente
    BY <2>4 DEF reversoPendiente, Terminar
  <2>5. CASE escribirReverso
    BY <2>5 DEF escribirReverso, Conectar
  <2>6. CASE enviarTrama
    BY <2>6 DEF enviarTrama
  <2>7. CASE conexionFallida
    BY <2>7 DEF conexionFallida, Terminar
  <2>8. CASE tiempoAgotado
    BY <2>8 DEF tiempoAgotado, Terminar
  <2>9. CASE respuestaAprobada
    BY <2>9 DEF respuestaAprobada, Recibida, verificacionLlegadaTrama,
       SoltarSocket
  <2>10. CASE respuestaDesajustada
    BY <2>10 DEF respuestaDesajustada, Recibida, verificacionLlegadaTrama,
       Terminar, SoltarSocket
  <2>11. CASE respuestaDeclinada
    BY <2>11 DEF respuestaDeclinada, Recibida, Terminar
  <2>12. CASE respuestaSaldo
    BY <2>12 DEF respuestaSaldo, Recibida, Terminar, SoltarSocket
  <2>13. CASE borrarReversoVenta
    BY <2>13 DEF borrarReversoVenta
  <2>14. CASE guardarTransaccion
    BY <2>14 DEF guardarTransaccion, Terminar
  <2>15. CASE cambiarEstadoTransaccion
    BY <2>15 DEF cambiarEstadoTransaccion
  <2>16. CASE borrarReversoAnulacion
    BY <2>16 DEF borrarReversoAnulacion, Terminar
  <2> QED
    BY <1>2, <2>1, <2>2, <2>3, <2>4, <2>5, <2>6, <2>7, <2>8, <2>9, <2>10,
       <2>11, <2>12, <2>13, <2>14, <2>15, <2>16 DEF PasoTerminal
<1>3. CASE PasoCliente
  <2>1. CASE iniciarVenta
    BY <2>1, <1>0 DEF iniciarVenta, Empezar, NuevaTraza
  <2>2. CASE ventaSinValor
    BY <2>2 DEF ventaSinValor, NuevaTraza
  <2>3. CASE iniciarSaldo
    BY <2>3 DEF iniciarSaldo, Empezar
  <2>4. CASE mostrarReverso
    BY <2>4 DEF mostrarReverso
  <2>5. CASE capturarEliminarReverso
    BY <2>5 DEF capturarEliminarReverso
  <2>6. ASSUME NEW s \in Trazas, iniciarAnulacion(s) PROVE Archivo'
    BY <2>6, <1>0 DEF iniciarAnulacion, Empezar, NuevaTraza
  <2> QED
    BY <1>3, <2>1, <2>2, <2>3, <2>4, <2>5, <2>6 DEF PasoCliente
<1>4. CASE PasoExterno
  <2>1. CASE hostFinanciera
    BY <2>1 DEF hostFinanciera, Contestar
  <2>2. CASE hostReverso
    BY <2>2 DEF hostReverso, Contestar
  <2>3. CASE hostSaldo
    BY <2>3 DEF hostSaldo, Contestar
  <2>4. CASE perder
    BY <2>4 DEF perder
  <2>5. CASE caida
    BY <2>5 DEF caida, Terminar
  <2> QED
    BY <1>4, <2>1, <2>2, <2>3, <2>4, <2>5 DEF PasoExterno
<1> QED
  BY <1>1, <1>2, <1>3, <1>4 DEF Next

-----------------------------------------------------------------------------
(* What may be on the network.  That the reversal is on file while a          *)
(* financial request is at large rests on Archivo and, for what is already    *)
(* recorded, on Libros.                                                       *)

\* The fields of the messages that stand for "none".
LEMMA CamposVacios == /\ Nada.mti = "nada" /\ Nada.traza = 0
                      /\ SinRespuesta.mti = "nada" /\ SinRespuesta.codigo = ""
  BY DEF Nada, SinRespuesta

\* A sequence with one frame in it.
LEMMA ArchivoVacio ==
    ASSUME NEW t PROVE Len(<<t>>) = 1 /\ <<t>> # <<>> /\ Head(<<t>>) = t
  <1>1. Len(<<t>>) = 1 /\ Len(<<>>) = 0 /\ Head(<<t>>) = t
    OBVIOUS
  <1> QED
    BY <1>1

\* A sequence of one element at most is empty or its head.
LEMMA UnaSola ==
    ASSUME NEW S, NEW s \in Seq(S), Len(s) <= 1, s # <<>> PROVE s = <<Head(s)>>
  <1>1. Len(s) # 0 /\ Len(s) \in Nat
    BY EmptySeq, LenProperties
  <1>2. Len(<<Head(s)>>) = 1 /\ <<Head(s)>>[1] = Head(s) /\ Head(s) = s[1]
    BY <1>1
  <1>3. Head(s) \in S
    BY <1>1
  <1>4. Len(s) = 1
    <2>1. \A n \in Nat : n # 0 /\ n <= 1 => n = 1
      OBVIOUS
    <2> QED
      BY <1>1, <2>1, Zenon
  <1>5. <<Head(s)>> \in Seq(S)
    BY <1>3
  <1> QED
    BY <1>2, <1>4, <1>5, SeqEqual

\* The frame that generarReverso unpacks is pending.
LEMMA CabezaPendiente ==
    ASSUME TypeOK, archivoReverso # <<>> PROVE Head(archivoReverso) \in Pendientes
  BY DEF TypeOK, Pendientes

\* The whole invariant holds at the start.
LEMMA IInvInicial == Init => IInv
<1> SUFFICES ASSUME Init PROVE IInv
  OBVIOUS
<1>1. TypeOK /\ Control
  BY TipoControlInicial DEF TipoControl
<1>2. Archivo
  BY DEF Init, Archivo, UnSoloReverso, Financiera
<1>3. Red
  BY <1>1, CamposVacios DEF Init, Red, ReversoAntesDeEnviar, TypeOK, Financiera
<1>4. JournalVigente /\ Cubierta /\ EnCurso
  BY CamposVacios DEF Init, JournalVigente, Cubierta, EnCurso, Financiera
<1>5. Pendientes = {}
  BY DEF Init, Pendientes
<1>6. Nuevas /\ PendienteSinRegistrar
  BY <1>5 DEF Init, Nuevas, PendienteSinRegistrar
<1>7. ReversoEnviado /\ Anulaciones
  BY CamposVacios DEF Init, ReversoEnviado, Anulaciones
<1> QED
  BY <1>1, <1>2, <1>3, <1>4, <1>6, <1>7 DEF IInv, Libros

\* Every step keeps what may be on the network.
LEMMA RedInductiva == IInv /\ [Next]_vars => Red'
<1> SUFFICES ASSUME IInv, [Next]_vars PROVE Red'
  OBVIOUS
<1>a. /\ peticion.traza \in Nat /\ consecutivo \in Nat
      /\ peticion.mti # "nada" => peticion.traza <= consecutivo
  BY DEF IInv, TypeOK, Peticiones, Red
<1>b. peticion.mti # "nada" => /\ peticion.traza <= consecutivo + 1
                              /\ peticion.traza # consecutivo + 1
  BY <1>a
<1>d. trama = 0 \/ trama \in 1 .. consecutivo => trama <= consecutivo
  BY <1>a
<1>c. (archivoReverso # <<>> /\ archivoReverso # <<trama>>) =>
         Head(archivoReverso) # trama
  <2>1. archivoReverso # <<>> => archivoReverso = <<Head(archivoReverso)>>
    BY UnaSola DEF IInv, TypeOK, Archivo, UnSoloReverso
  <2> QED
    BY <2>1
<1> USE DEF IInv, TypeOK, Control, Archivo, Red, UnSoloReverso,
        ReversoAntesDeEnviar, Financiera, EnReverso, Trazas, Operaciones,
        Puntos, persistente, historia, REVERSO_GENERADO, REVERSO_NO_GENERADO
<1> USE CamposVacios
<1>0. peticion.traza \in 0 .. MaxTrazas
  BY DEF Peticiones
<1>1. CASE UNCHANGED vars
  BY <1>1, <1>0 DEF vars
<1>2. CASE PasoTerminal
  <2>1. CASE verificarReversoExistente
    BY <2>1, <1>0 DEF verificarReversoExistente
  <2>2. CASE enviarReverso
    <3>1. \/ Head(archivoReverso) \notin journal
          \/ /\ Head(archivoReverso) \in cortadas
             /\ objetivo[Head(archivoReverso)] # 0
      BY <2>2, CabezaPendiente DEF enviarReverso, Libros,
         PendienteSinRegistrar
    <3> QED
      BY <2>2, <3>1, <1>0, <1>c DEF enviarReverso, Conectar
  <2>3. CASE reversoRespondido
    BY <2>3, <1>0 DEF reversoRespondido, verificacionTramaReverso,
       SeguirTrasReverso, Terminar, SoltarSocket
  <2>4. CASE reversoPendiente
    BY <2>4, <1>0 DEF reversoPendiente, Terminar
  <2>5. CASE escribirReverso
    <3>1. peticion.mti = "0200" => peticion.traza \in sinReverso \cup eliminadas
      BY <2>5, ArchivoVacio DEF escribirReverso
    <3> QED
      BY <2>5, <3>1, <1>0 DEF escribirReverso, Conectar
  <2>6. CASE enviarTrama
    <3>1. op # "saldo" => trama \notin journal
      BY <2>6 DEF enviarTrama, Libros, EnCurso
    <3>2. op # "saldo" => archivoReverso = <<trama>> \/ trama \in sinReverso'
      BY <2>6 DEF enviarTrama
    <3>3. /\ peticion'.mti = IF op = "saldo" THEN "0100" ELSE "0200"
          /\ peticion'.traza = trama
      BY <2>6 DEF enviarTrama
    <3>4. /\ op' = op /\ pc' = "esperar" /\ respuesta' = SinRespuesta
          /\ UNCHANGED <<archivoReverso, persistente, origen, trama, eliminadas,
                        cortadas>>
      BY <2>6 DEF enviarTrama
    <3>5. op \in {"saldo", "venta", "anulacion"}
      BY <2>6 DEF enviarTrama
    <3>8. trama <= consecutivo
      <4>1. trama = 0 \/ trama \in 1 .. consecutivo
        BY <3>5
      <4> QED
        BY <1>d, <4>1
    <3>9. (peticion.traza <= consecutivo)'
      BY <3>3, <3>4, <3>8
    <3>6. CASE op = "saldo"
      BY <3>3, <3>4, <3>6, <3>9
    <3>7. CASE op \in {"venta", "anulacion"}
      BY <3>9, <3>1, <3>2, <3>3, <3>4, <3>7
    <3> QED
      BY <3>5, <3>6, <3>7

  <2>7. CASE conexionFallida
    BY <2>7, <1>0 DEF conexionFallida, Terminar
  <2>8. CASE tiempoAgotado
    BY <2>8, <1>0 DEF tiempoAgotado, Terminar
  <2>9. CASE respuestaAprobada
    BY <2>9, <1>0 DEF respuestaAprobada, Recibida,
       verificacionLlegadaTrama, SoltarSocket
  <2>10. CASE respuestaDesajustada
    BY <2>10, <1>0 DEF respuestaDesajustada, Recibida,
       verificacionLlegadaTrama, Terminar, SoltarSocket
  <2>11. CASE respuestaDeclinada
    BY <2>11, <1>0 DEF respuestaDeclinada, Recibida, Terminar
  <2>12. CASE respuestaSaldo
    BY <2>12, <1>0 DEF respuestaSaldo, Recibida, Terminar, SoltarSocket
  <2>13. CASE borrarReversoVenta
    BY <2>13, <1>0 DEF borrarReversoVenta
  <2>14. CASE guardarTransaccion
    BY <2>14, <1>0 DEF guardarTransaccion, Terminar
  <2>15. CASE cambiarEstadoTransaccion
    BY <2>15, <1>0 DEF cambiarEstadoTransaccion
  <2>16. CASE borrarReversoAnulacion
    BY <2>16, <1>0 DEF borrarReversoAnulacion, Terminar
  <2> QED
    BY <1>2, <2>1, <2>2, <2>3, <2>4, <2>5, <2>6, <2>7, <2>8, <2>9, <2>10,
       <2>11, <2>12, <2>13, <2>14, <2>15, <2>16 DEF PasoTerminal
<1>3. CASE PasoCliente
  <2>1. CASE iniciarVenta
    <3>1. consecutivo' = consecutivo + 1 /\ trama' = consecutivo + 1
      BY <2>1 DEF iniciarVenta, Empezar, NuevaTraza
    <3>2. /\ peticion.mti # "nada" => peticion.traza <= consecutivo'
          /\ peticion.mti # "nada" => peticion.traza # trama'
      BY <3>1, <1>b
    <3> QED
      BY <2>1, <3>2, <1>0 DEF iniciarVenta, Empezar
  <2>2. CASE ventaSinValor
    <3>1. peticion.mti # "nada" => peticion.traza <= consecutivo'
      BY <2>2, <1>b DEF ventaSinValor, NuevaTraza
    <3> QED
      BY <2>2, <3>1, <1>0 DEF ventaSinValor
  <2>3. CASE iniciarSaldo
    BY <2>3, <1>0 DEF iniciarSaldo, Empezar
  <2>4. CASE mostrarReverso
    BY <2>4, <1>0 DEF mostrarReverso
  <2>5. CASE capturarEliminarReverso
    <3>1. peticion.mti = "0200" =>
             peticion.traza \in sinReverso \cup eliminadas'
      BY <2>5, ArchivoVacio DEF capturarEliminarReverso
    <3> QED
      BY <2>5, <3>1, <1>0 DEF capturarEliminarReverso
  <2>6. ASSUME NEW s \in Trazas, iniciarAnulacion(s) PROVE Red'
    <3>1. /\ consecutivo' = consecutivo + 1 /\ trama' = consecutivo + 1
          /\ objetivo' = [objetivo EXCEPT ![consecutivo + 1] = s]
      BY <2>6 DEF iniciarAnulacion, Empezar, NuevaTraza
    <3>2. peticion.mti # "nada" =>
             /\ peticion.traza <= consecutivo'
             /\ peticion.traza # trama'
      BY <3>1, <1>b
    <3>3. peticion.mti \in {"0200", "0400"} =>
             objetivo'[peticion.traza] = objetivo[peticion.traza]
      BY <3>1, <3>2, <1>0
    <3> QED
      BY <2>6, <3>2, <3>3, <1>0 DEF iniciarAnulacion, Empezar
  <2> QED
    BY <1>3, <2>1, <2>2, <2>3, <2>4, <2>5, <2>6 DEF PasoCliente
<1>4. CASE PasoExterno
  <2>1. CASE hostFinanciera
    BY <2>1, <1>0 DEF hostFinanciera, Contestar
  <2>2. CASE hostReverso
    BY <2>2, <1>0 DEF hostReverso, Contestar
  <2>3. CASE hostSaldo
    BY <2>3, <1>0 DEF hostSaldo, Contestar
  <2>4. CASE perder
    BY <2>4, <1>0 DEF perder
  <2>5. CASE caida
    BY <2>5, <1>0 DEF caida, Terminar
  <2> QED
    BY <1>4, <2>1, <2>2, <2>3, <2>4, <2>5 DEF PasoExterno
<1> QED
  BY <1>1, <1>2, <1>3, <1>4 DEF Next

-----------------------------------------------------------------------------
(* The journal, the pending reversals and the host's books, one lemma per     *)
(* conjunct of Libros.                                                        *)

\* The pending frames before and after a step, from the content of the file.
LEMMA PasoPendientes ==
    ASSUME TypeOK, UnSoloReverso
    PROVE  /\ archivoReverso' = archivoReverso => Pendientes' = Pendientes
           /\ archivoReverso' = <<>> => Pendientes' = {}
           /\ \A t : archivoReverso' = <<t>> => Pendientes' = {t}
           /\ archivoReverso = <<>> => Pendientes = {}
           /\ archivoReverso # <<>> => Pendientes = {Head(archivoReverso)}
           /\ \A t : archivoReverso = <<t>> => Pendientes = {t}
<1>1. archivoReverso' = archivoReverso => Pendientes' = Pendientes
  BY DEF Pendientes
<1>2. Len(<<>>) = 0 /\ \A t : Len(<<t>>) = 1 /\ <<t>>[1] = t
  OBVIOUS
<1>3. archivoReverso = <<>> => Pendientes = {}
  BY <1>2 DEF Pendientes
<1>4. archivoReverso' = <<>> => Pendientes' = {}
  BY <1>2 DEF Pendientes
<1>5. \A t : archivoReverso = <<t>> => Pendientes = {t}
  BY <1>2 DEF Pendientes
<1>6. \A t : archivoReverso' = <<t>> => Pendientes' = {t}
  BY <1>2 DEF Pendientes
<1>7. archivoReverso # <<>> => archivoReverso = <<Head(archivoReverso)>>
  BY UnaSola DEF TypeOK, UnSoloReverso
<1> QED
  BY <1>1, <1>3, <1>4, <1>5, <1>6, <1>7

\* A sale that leaves no reversal is remembered when it is sent.
LEMMA EnviarSinReverso ==
    ASSUME enviarTrama, op = "venta", generaReverso = REVERSO_NO_GENERADO
    PROVE  trama \in sinReverso'
  BY DEF enviarTrama, REVERSO_GENERADO, REVERSO_NO_GENERADO

\* Every step keeps what the journal records approved.
LEMMA JournalInductivo == IInv /\ [Next]_vars => JournalVigente'
<1> SUFFICES ASSUME IInv, [Next]_vars PROVE JournalVigente'
  OBVIOUS
<1>i. TypeOK /\ Control /\ JournalVigente /\ EnCurso /\ Red /\ Nuevas
  BY DEF IInv, Libros
<1> USE <1>i DEF JournalVigente, Trazas, Operaciones, Puntos, persistente,
        historia, REVERSO_GENERADO, REVERSO_NO_GENERADO
<1>1. CASE UNCHANGED vars
  BY <1>1 DEF vars
<1>2. CASE PasoTerminal
  <2>1. CASE verificarReversoExistente
    BY <2>1 DEF verificarReversoExistente
  <2>2. CASE enviarReverso
    BY <2>2 DEF enviarReverso, Conectar
  <2>3. CASE reversoRespondido
    BY <2>3 DEF reversoRespondido, verificacionTramaReverso,
       SeguirTrasReverso, Terminar, SoltarSocket
  <2>4. CASE reversoPendiente
    BY <2>4 DEF reversoPendiente, Terminar
  <2>5. CASE escribirReverso
    BY <2>5 DEF escribirReverso, Conectar
  <2>6. CASE enviarTrama
    BY <2>6 DEF enviarTrama
  <2>7. CASE conexionFallida
    BY <2>7 DEF conexionFallida, Terminar
  <2>8. CASE tiempoAgotado
    BY <2>8 DEF tiempoAgotado, Terminar
  <2>9. CASE respuestaAprobada
    BY <2>9 DEF respuestaAprobada, Recibida, verificacionLlegadaTrama,
       SoltarSocket
  <2>10. CASE respuestaDesajustada
    BY <2>10 DEF respuestaDesajustada, Recibida, verificacionLlegadaTrama,
       Terminar, SoltarSocket
  <2>11. CASE respuestaDeclinada
    BY <2>11 DEF respuestaDeclinada, Recibida, Terminar
  <2>12. CASE respuestaSaldo
    BY <2>12 DEF respuestaSaldo, Recibida, Terminar, SoltarSocket
  <2>13. CASE borrarReversoVenta
    BY <2>13 DEF borrarReversoVenta
  <2>14. CASE guardarTransaccion
    <3>1. trama \in vigente
      BY <2>14 DEF guardarTransaccion, EnCurso
    <3> QED
      BY <2>14, <3>1 DEF guardarTransaccion
  <2>15. CASE cambiarEstadoTransaccion
    <3>1. trama \in vigente
      BY <2>15 DEF cambiarEstadoTransaccion, EnCurso
    <3> QED
      BY <2>15, <3>1 DEF cambiarEstadoTransaccion
  <2>16. CASE borrarReversoAnulacion
    BY <2>16 DEF borrarReversoAnulacion, Terminar
  <2> QED
    BY <1>2, <2>1, <2>2, <2>3, <2>4, <2>5, <2>6, <2>7, <2>8, <2>9, <2>10,
       <2>11, <2>12, <2>13, <2>14, <2>15, <2>16 DEF PasoTerminal
<1>3. CASE PasoCliente
  <2>1. CASE iniciarVenta
    BY <2>1 DEF iniciarVenta, Empezar, NuevaTraza
  <2>2. CASE ventaSinValor
    BY <2>2 DEF ventaSinValor, NuevaTraza
  <2>3. CASE iniciarSaldo
    BY <2>3 DEF iniciarSaldo, Empezar
  <2>4. CASE mostrarReverso
    BY <2>4 DEF mostrarReverso
  <2>5. CASE capturarEliminarReverso
    BY <2>5 DEF capturarEliminarReverso
  <2>6. ASSUME NEW s \in Trazas, iniciarAnulacion(s) PROVE JournalVigente'
    BY <2>6 DEF iniciarAnulacion, Activa, Empezar, NuevaTraza
  <2> QED
    BY <1>3, <2>1, <2>2, <2>3, <2>4, <2>5, <2>6 DEF PasoCliente
<1>4. CASE PasoExterno
  <2>1. CASE hostFinanciera
    BY <2>1 DEF hostFinanciera, Contestar
  <2>2. CASE hostReverso
    <3>1. \/ peticion.traza \notin journal
          \/ peticion.traza \in cortadas /\ objetivo[peticion.traza] # 0
      BY <2>2 DEF hostReverso, Red
    <3>2. vigente' = vigente \/ vigente' = vigente \ {peticion.traza}
      BY <2>2 DEF hostReverso
    <3> QED
      BY <2>2, <3>1, <3>2 DEF hostReverso
  <2>3. CASE hostSaldo
    BY <2>3 DEF hostSaldo, Contestar
  <2>4. CASE perder
    BY <2>4 DEF perder
  <2>5. CASE caida
    BY <2>5 DEF caida, Terminar
  <2> QED
    BY <1>4, <2>1, <2>2, <2>3, <2>4, <2>5 DEF PasoExterno
<1> QED
  BY <1>1, <1>2, <1>3, <1>4 DEF Next

\* Every step keeps what the host has approved covered.
LEMMA CubiertaInductiva == IInv /\ [Next]_vars => Cubierta'
<1> SUFFICES ASSUME IInv, [Next]_vars PROVE Cubierta'
  OBVIOUS
<1>i. TypeOK /\ Control /\ Archivo /\ Cubierta /\ EnCurso /\ ReversoAntesDeEnviar
  BY DEF IInv, Libros, Red
<1>p. /\ archivoReverso' = archivoReverso => Pendientes' = Pendientes
      /\ archivoReverso' = <<>> => Pendientes' = {}
      /\ \A t : archivoReverso' = <<t>> => Pendientes' = {t}
      /\ archivoReverso = <<>> => Pendientes = {}
      /\ archivoReverso # <<>> => Pendientes = {Head(archivoReverso)}
      /\ \A t : archivoReverso = <<t>> => Pendientes = {t}
  BY PasoPendientes DEF IInv, Archivo
<1> USE <1>i DEF Cubierta, EnRiesgo, Trazas, Operaciones, Puntos,
        persistente, historia, REVERSO_GENERADO, REVERSO_NO_GENERADO
<1>1. CASE UNCHANGED vars
  BY <1>1, <1>p DEF vars
<1>2. CASE PasoTerminal
  <2>1. CASE verificarReversoExistente
    BY <2>1, <1>p DEF verificarReversoExistente
  <2>2. CASE enviarReverso
    BY <2>2, <1>p DEF enviarReverso, Conectar
  <2>3. CASE reversoRespondido
    <3>1. Head(archivoReverso) \in vigente => Head(archivoReverso) \in negadas'
      BY <2>3 DEF reversoRespondido, verificacionTramaReverso, EnCurso
    <3>2. Pendientes' = {} /\ Pendientes = {Head(archivoReverso)}
      BY <2>3, <1>p DEF reversoRespondido, Control, EnReverso
    <3>3. pc = "esperarReverso" /\ negadas \subseteq negadas'
      BY <2>3 DEF reversoRespondido
    <3>4. UNCHANGED <<vigente, journal, eliminadas, cortadas, sinReverso>>
      BY <2>3 DEF reversoRespondido
    <3> QED
      BY <3>1, <3>2, <3>3, <3>4
  <2>4. CASE reversoPendiente
    BY <2>4, <1>p DEF reversoPendiente, Terminar
  <2>5. CASE escribirReverso
    <3>1. Pendientes = {}
      BY <2>5, <1>p DEF escribirReverso, Archivo
    <3>2. /\ pc = "escribir" /\ UNCHANGED <<vigente, journal>>
          /\ UNCHANGED <<eliminadas, negadas, cortadas, sinReverso>>
      BY <2>5 DEF escribirReverso
    <3> QED
      BY <3>1, <3>2
  <2>6. CASE enviarTrama
    BY <2>6, <1>p DEF enviarTrama
  <2>7. CASE conexionFallida
    BY <2>7, <1>p DEF conexionFallida, Terminar
  <2>8. CASE tiempoAgotado
    BY <2>8, <1>p DEF tiempoAgotado, Terminar
  <2>9. CASE respuestaAprobada
    BY <2>9, <1>p DEF respuestaAprobada, Recibida,
       verificacionLlegadaTrama, SoltarSocket
  <2>10. CASE respuestaDesajustada
    BY <2>10, <1>p DEF respuestaDesajustada, Recibida,
       verificacionLlegadaTrama, Terminar, SoltarSocket
  <2>11. CASE respuestaDeclinada
    <3>1. trama \notin vigente \ negadas
      BY <2>11 DEF respuestaDeclinada, Recibida, EnCurso, SinAprobar, Financiera
    <3>2. Pendientes \subseteq {trama}
      BY <2>11, <1>p DEF respuestaDeclinada, Recibida, Archivo
    <3>3. /\ pc = "esperar" /\ UNCHANGED <<vigente, journal>>
          /\ UNCHANGED <<eliminadas, negadas, cortadas, sinReverso>>
      BY <2>11 DEF respuestaDeclinada, Recibida
    <3> QED
      BY <3>1, <3>2, <3>3
  <2>12. CASE respuestaSaldo
    BY <2>12, <1>p DEF respuestaSaldo, Recibida, Terminar, SoltarSocket
  <2>13. CASE borrarReversoVenta
    <3>1. Pendientes \subseteq {trama}
      BY <2>13, <1>p DEF borrarReversoVenta, Archivo
    <3>2. EnRiesgo' = Pendientes' \cup {trama} /\ EnRiesgo = Pendientes
      BY <2>13 DEF borrarReversoVenta
    <3>3. /\ UNCHANGED <<vigente, journal>>
          /\ UNCHANGED <<eliminadas, negadas, cortadas, sinReverso>>
      BY <2>13 DEF borrarReversoVenta
    <3> QED
      BY <3>1, <3>2, <3>3
  <2>14. CASE guardarTransaccion
    BY <2>14, <1>p DEF guardarTransaccion, Terminar
  <2>15. CASE cambiarEstadoTransaccion
    BY <2>15, <1>p DEF cambiarEstadoTransaccion
  <2>16. CASE borrarReversoAnulacion
    <3>1. Pendientes \subseteq {trama}
      BY <2>16, <1>p DEF borrarReversoAnulacion, Archivo, Control
    <3>2. trama \in journal
      BY <2>16 DEF borrarReversoAnulacion, EnCurso
    <3>3. /\ pc = "borrar" /\ UNCHANGED <<vigente, journal>>
          /\ UNCHANGED <<eliminadas, negadas, cortadas, sinReverso>>
      BY <2>16 DEF borrarReversoAnulacion
    <3> QED
      BY <3>1, <3>2, <3>3
  <2> QED
    BY <1>2, <2>1, <2>2, <2>3, <2>4, <2>5, <2>6, <2>7, <2>8, <2>9, <2>10,
       <2>11, <2>12, <2>13, <2>14, <2>15, <2>16 DEF PasoTerminal
<1>3. CASE PasoCliente
  <2>1. CASE iniciarVenta
    BY <2>1, <1>p DEF iniciarVenta, Empezar, NuevaTraza
  <2>2. CASE ventaSinValor
    BY <2>2, <1>p DEF ventaSinValor, NuevaTraza
  <2>3. CASE iniciarSaldo
    BY <2>3, <1>p DEF iniciarSaldo, Empezar
  <2>4. CASE mostrarReverso
    BY <2>4, <1>p DEF mostrarReverso
  <2>5. CASE capturarEliminarReverso
    BY <2>5, <1>p DEF capturarEliminarReverso
  <2>6. ASSUME NEW s \in Trazas, iniciarAnulacion(s) PROVE Cubierta'
    BY <2>6, <1>p DEF iniciarAnulacion, Activa, Empezar, NuevaTraza
  <2> QED
    BY <1>3, <2>1, <2>2, <2>3, <2>4, <2>5, <2>6 DEF PasoCliente
<1>4. CASE PasoExterno
  <2>1. CASE hostFinanciera
    <3>1. peticion.traza \in Pendientes \cup sinReverso \cup eliminadas
      BY <2>1, <1>p DEF hostFinanciera, ReversoAntesDeEnviar
    <3>2. vigente' \subseteq vigente \cup {peticion.traza}
      BY <2>1 DEF hostFinanciera
    <3>3. /\ UNCHANGED <<journal, pc, op, trama, archivoReverso>>
          /\ UNCHANGED <<eliminadas, negadas, cortadas, sinReverso>>
      BY <2>1 DEF hostFinanciera
    <3>4. EnRiesgo' = EnRiesgo
      BY <3>3, <1>p
    <3> QED
      BY <3>1, <3>2, <3>3, <3>4
  <2>2. CASE hostReverso
    BY <2>2, <1>p DEF hostReverso, Contestar
  <2>3. CASE hostSaldo
    BY <2>3, <1>p DEF hostSaldo, Contestar
  <2>4. CASE perder
    BY <2>4, <1>p DEF perder
  <2>5. CASE caida
    BY <2>5, <1>p DEF caida, Terminar
  <2> QED
    BY <1>4, <2>1, <2>2, <2>3, <2>4, <2>5 DEF PasoExterno
<1> QED
  BY <1>1, <1>2, <1>3, <1>4 DEF Next

\* Every step leaves the STANs not handed out yet unused.
LEMMA NuevasInductiva == IInv /\ [Next]_vars => Nuevas'
<1> SUFFICES ASSUME IInv, [Next]_vars PROVE Nuevas'
  OBVIOUS
<1>i. TypeOK /\ Control /\ Archivo /\ Nuevas /\ Red
  BY DEF IInv, Libros
<1>p. /\ archivoReverso' = archivoReverso => Pendientes' = Pendientes
      /\ archivoReverso' = <<>> => Pendientes' = {}
      /\ \A t : archivoReverso' = <<t>> => Pendientes' = {t}
      /\ archivoReverso = <<>> => Pendientes = {}
      /\ archivoReverso # <<>> => Pendientes = {Head(archivoReverso)}
      /\ \A t : archivoReverso = <<t>> => Pendientes = {t}
  BY PasoPendientes DEF IInv, Archivo
<1>t. Financiera => \A t \in Trazas : t > consecutivo => t # trama
  BY <1>i DEF TypeOK, Control, Trazas
<1>r. peticion.mti = "0200" =>
         \A t \in Trazas : t > consecutivo => t # peticion.traza
  BY <1>i DEF TypeOK, Control, Red, Trazas
<1>m. \A t \in Trazas : t > consecutivo + 1 => t > consecutivo
  BY <1>i DEF TypeOK, Trazas
<1> USE <1>i DEF Nuevas, Trazas, Operaciones, Puntos, persistente, historia,
        REVERSO_GENERADO, REVERSO_NO_GENERADO
<1>1. CASE UNCHANGED vars
  BY <1>1, <1>p DEF vars
<1>2. CASE PasoTerminal
  <2>1. CASE verificarReversoExistente
    BY <2>1, <1>p DEF verificarReversoExistente
  <2>2. CASE enviarReverso
    BY <2>2, <1>p DEF enviarReverso, Conectar
  <2>3. CASE reversoRespondido
    <3>1. Pendientes = {Head(archivoReverso)} /\ Pendientes' = {}
      BY <2>3, <1>p DEF reversoRespondido, Control, EnReverso
    <3>2. negadas' \subseteq negadas \cup Pendientes
      BY <2>3, <3>1 DEF reversoRespondido
    <3>3. UNCHANGED <<vigente, journal, eliminadas, cortadas, sinReverso,
                      consecutivo>>
      BY <2>3 DEF reversoRespondido
    <3> QED
      BY <3>1, <3>2, <3>3
  <2>4. CASE reversoPendiente
    BY <2>4, <1>p DEF reversoPendiente, Terminar
  <2>5. CASE escribirReverso
    <3>1. CASE generaReverso = REVERSO_NO_GENERADO
      BY <2>5, <3>1, <1>p DEF escribirReverso
    <3>2. CASE generaReverso = REVERSO_GENERADO
      <4>1. Financiera /\ archivoReverso = <<>>
        BY <2>5, <3>2 DEF escribirReverso, Control, Archivo, EnReverso, Financiera,
           TypeOK
      <4>2. Append(<<>>, trama) = <<trama>>
        OBVIOUS
      <4>3. Pendientes' = {trama}
        BY <2>5, <3>2, <4>1, <4>2, <1>p DEF escribirReverso
      <4>4. UNCHANGED <<historia, vigente, journal, consecutivo>>
        BY <2>5 DEF escribirReverso
      <4> QED
        BY <4>1, <4>3, <4>4, <1>t
    <3> QED
      BY <3>1, <3>2 DEF TypeOK
  <2>6. CASE enviarTrama
    <3>1. sinReverso' \subseteq sinReverso \cup (IF Financiera THEN {trama} ELSE {})
      BY <2>6 DEF enviarTrama, Control, EnReverso, Financiera, TypeOK
    <3>2. UNCHANGED <<archivoReverso, vigente, journal, eliminadas, negadas,
                      cortadas, consecutivo>>
      BY <2>6 DEF enviarTrama
    <3> QED
      BY <3>1, <3>2, <1>t, <1>p
  <2>7. CASE conexionFallida
    BY <2>7, <1>p DEF conexionFallida, Terminar
  <2>8. CASE tiempoAgotado
    BY <2>8, <1>p DEF tiempoAgotado, Terminar
  <2>9. CASE respuestaAprobada
    BY <2>9, <1>p DEF respuestaAprobada, Recibida,
       verificacionLlegadaTrama, SoltarSocket
  <2>10. CASE respuestaDesajustada
    BY <2>10, <1>p DEF respuestaDesajustada, Recibida,
       verificacionLlegadaTrama, Terminar, SoltarSocket
  <2>11. CASE respuestaDeclinada
    BY <2>11, <1>p DEF respuestaDeclinada, Recibida, Terminar
  <2>12. CASE respuestaSaldo
    BY <2>12, <1>p DEF respuestaSaldo, Recibida, Terminar, SoltarSocket
  <2>13. CASE borrarReversoVenta
    BY <2>13, <1>p DEF borrarReversoVenta
  <2>14. CASE guardarTransaccion
    <3>1. /\ UNCHANGED <<archivoReverso, historia, vigente, consecutivo>>
          /\ journal' = journal \cup {trama} /\ Financiera
      BY <2>14 DEF guardarTransaccion, Financiera
    <3> QED
      BY <3>1, <1>t, <1>p
  <2>15. CASE cambiarEstadoTransaccion
    <3>1. /\ UNCHANGED <<archivoReverso, historia, vigente, consecutivo>>
          /\ journal' = journal \cup {trama} /\ Financiera
      BY <2>15 DEF cambiarEstadoTransaccion, Financiera
    <3> QED
      BY <3>1, <1>t, <1>p
  <2>16. CASE borrarReversoAnulacion
    BY <2>16, <1>p DEF borrarReversoAnulacion, Terminar
  <2> QED
    BY <1>2, <2>1, <2>2, <2>3, <2>4, <2>5, <2>6, <2>7, <2>8, <2>9, <2>10,
       <2>11, <2>12, <2>13, <2>14, <2>15, <2>16 DEF PasoTerminal
<1>3. CASE PasoCliente
  <2>1. CASE iniciarVenta
    <3>1. /\ UNCHANGED <<archivoReverso, historia, journal, vigente>>
          /\ consecutivo' = consecutivo + 1
      BY <2>1 DEF iniciarVenta, NuevaTraza
    <3> QED
      BY <3>1, <1>m, <1>p
  <2>2. CASE ventaSinValor
    <3>1. /\ UNCHANGED <<archivoReverso, historia, journal, vigente>>
          /\ consecutivo' = consecutivo + 1
      BY <2>2 DEF ventaSinValor, NuevaTraza
    <3> QED
      BY <3>1, <1>m, <1>p
  <2>3. CASE iniciarSaldo
    BY <2>3, <1>p DEF iniciarSaldo, Empezar
  <2>4. CASE mostrarReverso
    BY <2>4, <1>p DEF mostrarReverso
  <2>5. CASE capturarEliminarReverso
    BY <2>5, <1>p DEF capturarEliminarReverso
  <2>6. ASSUME NEW s \in Trazas, iniciarAnulacion(s) PROVE Nuevas'
    <3>1. /\ UNCHANGED <<archivoReverso, historia, journal, vigente>>
          /\ consecutivo' = consecutivo + 1
      BY <2>6 DEF iniciarAnulacion, NuevaTraza
    <3> QED
      BY <3>1, <1>m, <1>p
  <2> QED
    BY <1>3, <2>1, <2>2, <2>3, <2>4, <2>5, <2>6 DEF PasoCliente
<1>4. CASE PasoExterno
  <2>1. CASE hostFinanciera
    <3>1. /\ UNCHANGED <<archivoReverso, historia, journal, consecutivo>>
          /\ vigente' \subseteq vigente \cup {peticion.traza}
      BY <2>1 DEF hostFinanciera
    <3> QED
      BY <2>1, <3>1, <1>r, <1>p DEF hostFinanciera
  <2>2. CASE hostReverso
    BY <2>2, <1>p DEF hostReverso, Contestar
  <2>3. CASE hostSaldo
    BY <2>3, <1>p DEF hostSaldo, Contestar
  <2>4. CASE perder
    BY <2>4, <1>p DEF perder
  <2>5. CASE caida
    <3>1. /\ UNCHANGED <<archivoReverso, eliminadas, negadas, sinReverso, vigente,
                         journal, consecutivo>>
          /\ cortadas' \subseteq cortadas \cup (IF Financiera THEN {trama} ELSE {})
      BY <2>5 DEF caida, Financiera
    <3> QED
      BY <3>1, <1>t, <1>p
  <2> QED
    BY <1>4, <2>1, <2>2, <2>3, <2>4, <2>5 DEF PasoExterno
<1> QED
  BY <1>1, <1>2, <1>3, <1>4 DEF Next

\* Every step keeps the pending frames out of the journal.
LEMMA PendienteInductivo == IInv /\ [Next]_vars => PendienteSinRegistrar'
<1> SUFFICES ASSUME IInv, [Next]_vars PROVE PendienteSinRegistrar'
  OBVIOUS
<1>i. TypeOK /\ Control /\ Archivo /\ Nuevas /\ PendienteSinRegistrar /\ EnCurso
  BY DEF IInv, Libros
<1>p. /\ archivoReverso' = archivoReverso => Pendientes' = Pendientes
      /\ archivoReverso' = <<>> => Pendientes' = {}
      /\ \A t : archivoReverso' = <<t>> => Pendientes' = {t}
      /\ archivoReverso = <<>> => Pendientes = {}
      /\ archivoReverso # <<>> => Pendientes = {Head(archivoReverso)}
      /\ \A t : archivoReverso = <<t>> => Pendientes = {t}
  BY PasoPendientes DEF IInv, Archivo
<1> USE <1>i DEF PendienteSinRegistrar, Trazas, Operaciones, Puntos,
        persistente, historia, REVERSO_GENERADO, REVERSO_NO_GENERADO
<1>1. CASE UNCHANGED vars
  BY <1>1, <1>p DEF vars
<1>2. CASE PasoTerminal
  <2>1. CASE verificarReversoExistente
    BY <2>1, <1>p DEF verificarReversoExistente
  <2>2. CASE enviarReverso
    BY <2>2, <1>p DEF enviarReverso, Conectar
  <2>3. CASE reversoRespondido
    BY <2>3, <1>p DEF reversoRespondido, verificacionTramaReverso,
       SeguirTrasReverso, Terminar, SoltarSocket
  <2>4. CASE reversoPendiente
    BY <2>4, <1>p DEF reversoPendiente, Terminar
  <2>5. CASE escribirReverso
    <3>1. CASE generaReverso = REVERSO_NO_GENERADO
      BY <2>5, <3>1, <1>p DEF escribirReverso
    <3>2. CASE generaReverso = REVERSO_GENERADO
      <4>1. Financiera /\ archivoReverso = <<>>
        BY <2>5, <3>2 DEF escribirReverso, Control, Archivo, EnReverso, Financiera,
           TypeOK
      <4>2. Append(<<>>, trama) = <<trama>>
        OBVIOUS
      <4>3. Pendientes' = {trama}
        BY <2>5, <3>2, <4>1, <4>2, <1>p DEF escribirReverso
      <4>4. trama \notin journal /\ journal' = journal
        BY <2>5, <4>1 DEF escribirReverso, EnCurso
      <4> QED
        BY <4>3, <4>4
    <3> QED
      BY <3>1, <3>2 DEF TypeOK
  <2>6. CASE enviarTrama
    BY <2>6, <1>p DEF enviarTrama
  <2>7. CASE conexionFallida
    BY <2>7, <1>p DEF conexionFallida, Terminar
  <2>8. CASE tiempoAgotado
    BY <2>8, <1>p DEF tiempoAgotado, Terminar
  <2>9. CASE respuestaAprobada
    BY <2>9, <1>p DEF respuestaAprobada, Recibida,
       verificacionLlegadaTrama, SoltarSocket
  <2>10. CASE respuestaDesajustada
    BY <2>10, <1>p DEF respuestaDesajustada, Recibida,
       verificacionLlegadaTrama, Terminar, SoltarSocket
  <2>11. CASE respuestaDeclinada
    BY <2>11, <1>p DEF respuestaDeclinada, Recibida, Terminar
  <2>12. CASE respuestaSaldo
    BY <2>12, <1>p DEF respuestaSaldo, Recibida, Terminar, SoltarSocket
  <2>13. CASE borrarReversoVenta
    BY <2>13, <1>p DEF borrarReversoVenta
  <2>14. CASE guardarTransaccion
    <3>1. Pendientes' = {}
      BY <2>14, <1>p DEF guardarTransaccion, Archivo
    <3> QED
      BY <3>1
  <2>15. CASE cambiarEstadoTransaccion
    <3>1. Pendientes' = {trama} /\ objetivo[trama] # 0
      BY <2>15, <1>p DEF cambiarEstadoTransaccion, Archivo, Control
    <3>2. pc' = "borrar" /\ UNCHANGED <<trama, objetivo>>
      BY <2>15 DEF cambiarEstadoTransaccion
    <3> QED
      BY <3>1, <3>2
  <2>16. CASE borrarReversoAnulacion
    BY <2>16, <1>p DEF borrarReversoAnulacion, Terminar
  <2> QED
    BY <1>2, <2>1, <2>2, <2>3, <2>4, <2>5, <2>6, <2>7, <2>8, <2>9, <2>10,
       <2>11, <2>12, <2>13, <2>14, <2>15, <2>16 DEF PasoTerminal
<1>3. CASE PasoCliente
  <2>1. CASE iniciarVenta
    BY <2>1, <1>p DEF iniciarVenta, Empezar, NuevaTraza
  <2>2. CASE ventaSinValor
    BY <2>2, <1>p DEF ventaSinValor, NuevaTraza
  <2>3. CASE iniciarSaldo
    BY <2>3, <1>p DEF iniciarSaldo, Empezar
  <2>4. CASE mostrarReverso
    BY <2>4, <1>p DEF mostrarReverso
  <2>5. CASE capturarEliminarReverso
    BY <2>5, <1>p DEF capturarEliminarReverso
  <2>6. ASSUME NEW s \in Trazas, iniciarAnulacion(s) PROVE PendienteSinRegistrar'
    BY <2>6, <1>p DEF iniciarAnulacion, Activa, Empezar, NuevaTraza
  <2> QED
    BY <1>3, <2>1, <2>2, <2>3, <2>4, <2>5, <2>6 DEF PasoCliente
<1>4. CASE PasoExterno
  <2>1. CASE hostFinanciera
    BY <2>1, <1>p DEF hostFinanciera, Contestar
  <2>2. CASE hostReverso
    BY <2>2, <1>p DEF hostReverso, Contestar
  <2>3. CASE hostSaldo
    BY <2>3, <1>p DEF hostSaldo, Contestar
  <2>4. CASE perder
    BY <2>4, <1>p DEF perder
  <2>5. CASE caida
    <3>1. /\ UNCHANGED <<archivoReverso, journal, objetivo>>
          /\ cortadas \subseteq cortadas'
      BY <2>5 DEF caida
    <3>2. (pc = "borrar" /\ op = "anulacion") => trama \in cortadas'
      BY <2>5 DEF caida
    <3>3. (pc = "borrar" /\ op = "venta") => trama \notin journal
      BY <1>i DEF EnCurso, Financiera
    <3>4. pc = "borrar" => op \in {"venta", "anulacion"}
      BY <1>i DEF Control, Financiera
    <3> QED
      BY <3>1, <3>2, <3>3, <3>4, <1>p
  <2> QED
    BY <1>4, <2>1, <2>2, <2>3, <2>4, <2>5 DEF PasoExterno
<1> QED
  BY <1>1, <1>2, <1>3, <1>4 DEF Next

\* Every step keeps what the books hold under the STAN in progress.
LEMMA EnCursoInductivo == IInv /\ [Next]_vars => EnCurso'
<1> SUFFICES ASSUME IInv, [Next]_vars PROVE EnCurso'
  OBVIOUS
<1>i. TypeOK /\ Control /\ Archivo /\ Nuevas /\ EnCurso /\ Red
  BY DEF IInv, Libros
<1>n. consecutivo + 1 \in Trazas => consecutivo + 1 \notin journal \cup vigente
  <2>1. consecutivo \in Nat
    BY <1>i DEF TypeOK
  <2>2. consecutivo + 1 > consecutivo
    BY <2>1
  <2> QED
    BY <1>i, <2>2 DEF Nuevas
<1> USE CamposVacios, <1>i DEF EnCurso, Control, SinAprobar, Financiera,
        EnReverso, Trazas, Operaciones, Puntos, persistente, historia,
        REVERSO_GENERADO, REVERSO_NO_GENERADO
<1>1. CASE UNCHANGED vars
  BY <1>1 DEF vars
<1>2. CASE PasoTerminal
  <2>1. CASE verificarReversoExistente
    BY <2>1 DEF verificarReversoExistente
  <2>2. CASE enviarReverso
    BY <2>2 DEF enviarReverso, Conectar
  <2>3. CASE reversoRespondido
    <3>1. /\ pc = "esperarReverso"
          /\ Head(archivoReverso) \notin vigente \/ Head(archivoReverso) \in negadas'
          /\ UNCHANGED <<vigente, journal, sinReverso>> /\ negadas \subseteq negadas'
      BY <2>3 DEF reversoRespondido, verificacionTramaReverso
    <3>2. CASE origen = "previo"
      <4>1. /\ pc' = "escribir" /\ origen' = "ninguno"
            /\ UNCHANGED <<op, trama, generaReverso>>
        BY <2>3, <3>2 DEF reversoRespondido, SeguirTrasReverso
      <4> QED
        BY <3>1, <3>2, <4>1
    <3>3. CASE origen = "desajuste" /\ pc' = "verificar"
      <4>1. Head(archivoReverso) = trama
        BY <3>3, ArchivoVacio DEF Archivo
      <4>2. origen' = "ninguno" /\ trama' = trama /\ op' = op
        BY <2>3, <3>1, <3>3 DEF reversoRespondido, SeguirTrasReverso, Terminar
      <4> QED
        BY <3>1, <3>3, <4>1, <4>2
    <3>4. CASE Terminar
      BY <3>4 DEF Terminar
    <3> QED
      BY <2>3, <3>2, <3>3, <3>4 DEF reversoRespondido, SeguirTrasReverso
  <2>4. CASE reversoPendiente
    BY <2>4 DEF reversoPendiente, Terminar
  <2>5. CASE escribirReverso
    BY <2>5 DEF escribirReverso, Conectar
  <2>6. CASE enviarTrama
    <3>1. /\ op' = op /\ pc' = "esperar" /\ respuesta' = SinRespuesta
          /\ UNCHANGED <<trama, journal, vigente, negadas, generaReverso, origen>>
          /\ pc = "enviar" /\ sinReverso \subseteq sinReverso'
      BY <2>6 DEF enviarTrama
    <3>2. op = "venta" /\ generaReverso = REVERSO_NO_GENERADO =>
             trama \in sinReverso'
      BY <2>6, EnviarSinReverso
    <3> QED
      BY <3>1, <3>2
  <2>7. CASE conexionFallida
    BY <2>7 DEF conexionFallida, Terminar
  <2>8. CASE tiempoAgotado
    BY <2>8 DEF tiempoAgotado, Terminar
  <2>9. CASE respuestaAprobada
    BY <2>9 DEF respuestaAprobada, Recibida, verificacionLlegadaTrama,
       SoltarSocket
  <2>10. CASE respuestaDesajustada
    BY <2>10 DEF respuestaDesajustada, Recibida, verificacionLlegadaTrama,
       Terminar, SoltarSocket
  <2>11. CASE respuestaDeclinada
    BY <2>11 DEF respuestaDeclinada, Recibida, Terminar
  <2>12. CASE respuestaSaldo
    BY <2>12 DEF respuestaSaldo, Recibida, Terminar, SoltarSocket
  <2>13. CASE borrarReversoVenta
    BY <2>13 DEF borrarReversoVenta
  <2>14. CASE guardarTransaccion
    BY <2>14 DEF guardarTransaccion, Terminar
  <2>15. CASE cambiarEstadoTransaccion
    BY <2>15 DEF cambiarEstadoTransaccion
  <2>16. CASE borrarReversoAnulacion
    BY <2>16 DEF borrarReversoAnulacion, Terminar
  <2> QED
    BY <1>2, <2>1, <2>2, <2>3, <2>4, <2>5, <2>6, <2>7, <2>8, <2>9, <2>10,
       <2>11, <2>12, <2>13, <2>14, <2>15, <2>16 DEF PasoTerminal
<1>3. CASE PasoCliente
  <2>1. CASE iniciarVenta
    <3>1. /\ op' = "venta" /\ pc' = "verificar" /\ trama' = consecutivo + 1
          /\ UNCHANGED <<journal, vigente, negadas, origen, respuesta>>
      BY <2>1 DEF iniciarVenta, Empezar, NuevaTraza
    <3>2. consecutivo + 1 \notin journal \cup vigente
      BY <2>1, <1>n DEF iniciarVenta, NuevaTraza
    <3> QED
      BY <3>1, <3>2
  <2>2. CASE ventaSinValor
    BY <2>2 DEF ventaSinValor, NuevaTraza
  <2>3. CASE iniciarSaldo
    BY <2>3 DEF iniciarSaldo, Empezar
  <2>4. CASE mostrarReverso
    BY <2>4 DEF mostrarReverso
  <2>5. CASE capturarEliminarReverso
    BY <2>5 DEF capturarEliminarReverso
  <2>6. ASSUME NEW s \in Trazas, iniciarAnulacion(s) PROVE EnCurso'
    <3>1. /\ op' = "anulacion" /\ pc' = "verificar" /\ trama' = consecutivo + 1
          /\ UNCHANGED <<journal, vigente, negadas, origen, respuesta>>
      BY <2>6 DEF iniciarAnulacion, Empezar, NuevaTraza
    <3>2. consecutivo + 1 \notin journal \cup vigente
      BY <2>6, <1>n DEF iniciarAnulacion, NuevaTraza
    <3> QED
      BY <3>1, <3>2
  <2> QED
    BY <1>3, <2>1, <2>2, <2>3, <2>4, <2>5, <2>6 DEF PasoCliente
<1>4. CASE PasoExterno
  <2>1. CASE hostFinanciera
    <3>1. /\ UNCHANGED <<op, pc, trama, origen, generaReverso, journal, negadas,
                         sinReverso, archivoReverso>>
          /\ peticion.mti = "0200" /\ peticion'.mti = "nada"
          /\ pc # "esperarReverso"
      BY <2>1 DEF hostFinanciera, Contestar, Red
    <3>2. \/ /\ vigente' = vigente \cup {peticion.traza}
             /\ \/ respuesta' = SinRespuesta
                \/ pc = "esperar" /\ respuesta'.codigo = "00"
          \/ /\ vigente' = vigente
             /\ \/ respuesta' = SinRespuesta
                \/ pc = "esperar" /\ respuesta'.codigo = "otro"
      <4>1. ASSUME NEW c \in BOOLEAN,
                   Contestar([mti |-> "0210", codigo |-> "00", coincide |-> c])
            PROVE  \/ respuesta' = SinRespuesta
                   \/ pc = "esperar" /\ respuesta'.codigo = "00"
        BY <3>1, <4>1 DEF Contestar
      <4>2. ASSUME Contestar([mti |-> "0210", codigo |-> "otro", coincide |-> TRUE])
            PROVE  \/ respuesta' = SinRespuesta
                   \/ pc = "esperar" /\ respuesta'.codigo = "otro"
        BY <3>1, <4>2 DEF Contestar
      <4> QED
        BY <2>1, <4>1, <4>2 DEF hostFinanciera
    <3>3. pc = "esperar" => peticion.traza = trama
      BY <3>1 DEF Red
    <3>4. Financiera /\ pc # "esperar" /\ origen # "desajuste" =>
             peticion.traza # trama
      BY <3>1 DEF Red
    <3>5. pc \notin {"borrar", "guardar"}
      BY <3>1 DEF Red
    <3> QED
      BY <3>1, <3>2, <3>3, <3>4, <3>5
  <2>2. CASE hostReverso
    <3>1. /\ UNCHANGED <<op, pc, trama, origen, generaReverso, journal, negadas,
                         sinReverso, archivoReverso>>
          /\ peticion.mti = "0400" /\ peticion'.mti = "nada"
      BY <2>2 DEF hostReverso, Contestar
    <3>2. pc \notin {"esperar", "borrar", "guardar"}
      BY <3>1 DEF Red
    <3>3. pc = "esperarReverso" => peticion.traza = Head(archivoReverso)
      BY <3>1 DEF Red
    <3>4. \/ vigente' = vigente \ {peticion.traza}
          \/ /\ vigente' = vigente
             /\ respuesta' = SinRespuesta \/ respuesta'.codigo = "otro"
      <4>1. ASSUME NEW m, NEW c, Contestar([mti |-> m, codigo |-> c, coincide |-> TRUE])
            PROVE  respuesta' = SinRespuesta \/ respuesta'.codigo = c
        BY <4>1 DEF Contestar
      <4> QED
        BY <2>2, <4>1 DEF hostReverso
    <3> QED
      BY <3>1, <3>2, <3>3, <3>4
  <2>3. CASE hostSaldo
    <3>1. /\ UNCHANGED <<op, pc, trama, origen, generaReverso, journal, negadas,
                         sinReverso, archivoReverso, vigente>>
          /\ peticion.mti = "0100" /\ peticion'.mti = "nada"
          /\ pc \notin {"esperar", "esperarReverso"} => respuesta' = SinRespuesta
      BY <2>3 DEF hostSaldo, Contestar
    <3>2. pc # "esperarReverso" /\ (pc = "esperar" => op = "saldo")
      BY <3>1 DEF Red
    <3> QED
      BY <3>1, <3>2
  <2>4. CASE perder
    BY <2>4 DEF perder
  <2>5. CASE caida
    BY <2>5 DEF caida, Terminar
  <2> QED
    BY <1>4, <2>1, <2>2, <2>3, <2>4, <2>5 DEF PasoExterno
<1> QED
  BY <1>1, <1>2, <1>3, <1>4 DEF Next
-----------------------------------------------------------------------------
(* Reversals at large and open voids.                                         *)

\* What Pendientes is before and after a step of a state with the invariant.
LEMMA IInvPendientes ==
    ASSUME IInv
    PROVE  /\ archivoReverso' = archivoReverso => Pendientes' = Pendientes
           /\ archivoReverso' = <<>> => Pendientes' = {}
           /\ \A t : archivoReverso' = <<t>> => Pendientes' = {t}
           /\ archivoReverso = <<>> => Pendientes = {}
           /\ archivoReverso # <<>> => Pendientes = {Head(archivoReverso)}
           /\ \A t : archivoReverso = <<t>> => Pendientes = {t}
           /\ Pendientes \subseteq Trazas
<1>1. TypeOK /\ UnSoloReverso
  BY DEF IInv, Archivo
<1>2. Pendientes \subseteq Trazas
  BY <1>1 DEF TypeOK, Pendientes
<1> QED
  BY <1>1, <1>2, PasoPendientes

\* Every step keeps a reversal on the network that of the pending frame, or of
\* one the user deleted.
LEMMA EnviadoInductivo == IInv /\ [Next]_vars => ReversoEnviado'
<1> SUFFICES ASSUME IInv, [Next]_vars PROVE ReversoEnviado'
  OBVIOUS
<1>p. /\ archivoReverso' = archivoReverso => Pendientes' = Pendientes
      /\ archivoReverso = <<>> => Pendientes = {}
      /\ archivoReverso # <<>> => Pendientes = {Head(archivoReverso)}
  BY IInvPendientes
<1>i. ReversoEnviado /\ Red /\ Archivo /\ Control /\ TypeOK
  BY DEF IInv
<1> USE <1>p, CamposVacios DEF ReversoEnviado
<1>a. ASSUME UNCHANGED <<archivoReverso, eliminadas>>,
             peticion' \in {peticion, Nada}
      PROVE  ReversoEnviado'
  BY <1>a, <1>i
<1>b. ASSUME peticion.mti = "nada", UNCHANGED peticion PROVE ReversoEnviado'
  BY <1>b
<1>1. CASE UNCHANGED vars
  BY <1>1, <1>a DEF vars, historia
<1>2. CASE PasoTerminal
  <2>1. CASE verificarReversoExistente
    BY <2>1, <1>a DEF verificarReversoExistente, historia
  <2>2. CASE enviarReverso
    <3>1. archivoReverso # <<>>
      BY <2>2, <1>i DEF enviarReverso, Control, EnReverso
    <3>2. /\ peticion'.traza = Head(archivoReverso)
          /\ UNCHANGED <<archivoReverso, eliminadas>>
      BY <2>2 DEF enviarReverso, historia
    <3> QED
      BY <3>1, <3>2
  <2>3. CASE reversoRespondido
    BY <2>3, <1>b, <1>i DEF reversoRespondido, Red
  <2>4. CASE reversoPendiente
    BY <2>4, <1>a DEF reversoPendiente, historia
  <2>5. CASE escribirReverso
    BY <2>5, <1>i DEF escribirReverso, Archivo, historia
  <2>6. CASE enviarTrama
    BY <2>6 DEF enviarTrama
  <2>7. CASE conexionFallida
    BY <2>7, <1>a DEF conexionFallida, historia
  <2>8. CASE tiempoAgotado
    BY <2>8, <1>a DEF tiempoAgotado, historia
  <2>9. CASE respuestaAprobada
    BY <2>9, <1>a DEF respuestaAprobada, historia
  <2>10. CASE respuestaDesajustada
    BY <2>10, <1>a DEF respuestaDesajustada, historia
  <2>11. CASE respuestaDeclinada
    BY <2>11, <1>b, <1>i DEF respuestaDeclinada, Recibida, Red
  <2>12. CASE respuestaSaldo
    BY <2>12, <1>a DEF respuestaSaldo, historia
  <2>13. CASE borrarReversoVenta
    BY <2>13, <1>b, <1>i DEF borrarReversoVenta, Red
  <2>14. CASE guardarTransaccion
    BY <2>14, <1>a DEF guardarTransaccion, historia
  <2>15. CASE cambiarEstadoTransaccion
    BY <2>15, <1>a DEF cambiarEstadoTransaccion, historia
  <2>16. CASE borrarReversoAnulacion
    BY <2>16, <1>b, <1>i DEF borrarReversoAnulacion, Red
  <2> QED
    BY <1>2, <2>1, <2>2, <2>3, <2>4, <2>5, <2>6, <2>7, <2>8, <2>9, <2>10,
       <2>11, <2>12, <2>13, <2>14, <2>15, <2>16 DEF PasoTerminal
<1>3. CASE PasoCliente
  <2>1. CASE iniciarVenta
    BY <2>1, <1>a DEF iniciarVenta, historia
  <2>2. CASE ventaSinValor
    BY <2>2, <1>a DEF ventaSinValor, historia
  <2>3. CASE iniciarSaldo
    BY <2>3, <1>a DEF iniciarSaldo, historia
  <2>4. CASE mostrarReverso
    BY <2>4, <1>a DEF mostrarReverso, historia
  <2>5. CASE capturarEliminarReverso
    BY <2>5, <1>i DEF capturarEliminarReverso
  <2>6. ASSUME NEW s \in Trazas, iniciarAnulacion(s) PROVE ReversoEnviado'
    BY <2>6, <1>a DEF iniciarAnulacion, historia
  <2> QED
    BY <1>3, <2>1, <2>2, <2>3, <2>4, <2>5, <2>6 DEF PasoCliente
<1>4. CASE PasoExterno
  <2>1. CASE hostFinanciera
    BY <2>1 DEF hostFinanciera, Contestar
  <2>2. CASE hostReverso
    BY <2>2 DEF hostReverso, Contestar
  <2>3. CASE hostSaldo
    BY <2>3 DEF hostSaldo, Contestar
  <2>4. CASE perder
    BY <2>4 DEF perder
  <2>5. CASE caida
    BY <2>5, <1>a DEF caida, historia
  <2> QED
    BY <1>4, <2>1, <2>2, <2>3, <2>4, <2>5 DEF PasoExterno
<1> QED
  BY <1>1, <1>2, <1>3, <1>4 DEF Next

\* A step that changes no book, no frame and no operation, or that ends the
\* operation with the pending frame as it was or gone, keeps Anulaciones.
LEMMA AnulacionesQuietas ==
    ASSUME IInv, Pendientes' \subseteq Pendientes,
           op' # "anulacion" \/ UNCHANGED <<op, trama>>,
           UNCHANGED <<journal, objetivo>>,
           cortadas' \subseteq cortadas, sinReverso' \subseteq sinReverso
    PROVE  Anulaciones'
<1>1. Anulaciones
  BY DEF IInv
<1>2. AnulacionesAbiertas' \subseteq AnulacionesAbiertas
  BY DEF AnulacionesAbiertas
<1> QED
  BY <1>1, <1>2 DEF Anulaciones

\* Every step keeps what is recorded of the voids.
LEMMA AnulacionesInductiva == IInv /\ [Next]_vars => Anulaciones'
<1> SUFFICES ASSUME IInv, [Next]_vars PROVE Anulaciones'
  OBVIOUS
<1>p. /\ archivoReverso' = archivoReverso => Pendientes' = Pendientes
      /\ archivoReverso' = <<>> => Pendientes' = {}
      /\ \A t : archivoReverso' = <<t>> => Pendientes' = {t}
      /\ archivoReverso = <<>> => Pendientes = {}
      /\ \A t : archivoReverso = <<t>> => Pendientes = {t}
      /\ Pendientes \subseteq Trazas
  BY IInvPendientes
<1>i. TypeOK /\ Control /\ Archivo /\ Red /\ Nuevas /\ EnCurso /\ Anulaciones
  BY DEF IInv, Libros
<1>t. Terminar => op' # "anulacion"
  BY DEF Terminar
<1>q. ASSUME archivoReverso' \in {archivoReverso, <<>>},
             op' # "anulacion" \/ UNCHANGED <<op, trama>>,
             UNCHANGED <<journal, objetivo, cortadas, sinReverso>>
      PROVE  Anulaciones'
  BY <1>q, <1>p, AnulacionesQuietas
<1>1. CASE UNCHANGED vars
  BY <1>1, <1>q DEF vars, historia, persistente
<1>2. CASE PasoTerminal
  <2>1. CASE verificarReversoExistente
    BY <2>1, <1>q DEF verificarReversoExistente, historia, persistente
  <2>2. CASE enviarReverso
    BY <2>2, <1>q DEF enviarReverso, historia, persistente
  <2>3. CASE reversoRespondido
    <3>1. op' # "anulacion" \/ UNCHANGED <<op, trama>>
      BY <2>3, <1>t DEF reversoRespondido, SeguirTrasReverso
    <3> QED
      BY <2>3, <3>1, <1>q DEF reversoRespondido, persistente
  <2>4. CASE reversoPendiente
    BY <2>4, <1>q, <1>t DEF reversoPendiente, historia, persistente
  <2>5. CASE escribirReverso
    <3>1. /\ UNCHANGED <<op, trama, journal, objetivo, cortadas, sinReverso>>
          /\ archivoReverso = <<>>
      BY <2>5, <1>i DEF escribirReverso, Archivo, historia, persistente
    <3>2. Append(<<>>, trama) = <<trama>>
      OBVIOUS
    <3>3. CASE generaReverso = REVERSO_GENERADO
      <4>1. Pendientes' = {trama}
        BY <2>5, <3>1, <3>2, <3>3, <1>p DEF escribirReverso
      <4>2. op = "anulacion" \/ (op = "venta" /\ objetivo[trama] = 0)
        BY <2>5, <1>i, <3>3 DEF escribirReverso, Control, EnReverso, TypeOK,
           Operaciones, REVERSO_GENERADO, REVERSO_NO_GENERADO
      <4>3. AnulacionesAbiertas' \subseteq AnulacionesAbiertas
        BY <4>1, <4>2, <3>1 DEF AnulacionesAbiertas
      <4> QED
        BY <4>3, <3>1, <1>i DEF Anulaciones
    <3>4. CASE generaReverso # REVERSO_GENERADO
      BY <2>5, <3>4, <3>1, <1>q DEF escribirReverso
    <3> QED
      BY <3>3, <3>4
  <2>6. CASE enviarTrama
    <3>1. UNCHANGED <<archivoReverso, op, trama, journal, objetivo, cortadas>>
      BY <2>6 DEF enviarTrama, persistente
    <3>2. AnulacionesAbiertas' = AnulacionesAbiertas
      BY <3>1, <1>p DEF AnulacionesAbiertas
    <3>3. sinReverso' = sinReverso
             \/ (sinReverso' = sinReverso \cup {trama} /\ objetivo[trama] = 0)
      BY <2>6, <1>i DEF enviarTrama, Control, EnReverso, TypeOK, Operaciones,
         REVERSO_GENERADO, REVERSO_NO_GENERADO
    <3> QED
      BY <3>1, <3>2, <3>3, <1>i DEF Anulaciones
  <2>7. CASE conexionFallida
    BY <2>7, <1>q, <1>t DEF conexionFallida, historia, persistente
  <2>8. CASE tiempoAgotado
    BY <2>8, <1>q, <1>t DEF tiempoAgotado, historia, persistente
  <2>9. CASE respuestaAprobada
    BY <2>9, <1>q DEF respuestaAprobada, historia, persistente
  <2>10. CASE respuestaDesajustada
    BY <2>10, <1>q, <1>t DEF respuestaDesajustada, historia, persistente
  <2>11. CASE respuestaDeclinada
    BY <2>11, <1>q, <1>t DEF respuestaDeclinada, historia, persistente
  <2>12. CASE respuestaSaldo
    BY <2>12, <1>q, <1>t DEF respuestaSaldo, historia, persistente
  <2>13. CASE borrarReversoVenta
    BY <2>13, <1>q DEF borrarReversoVenta, historia
  <2>14. CASE guardarTransaccion
    <3>1. /\ UNCHANGED <<archivoReverso, objetivo, cortadas, sinReverso>>
          /\ journal' = journal \cup {trama} /\ op' # "anulacion"
          /\ objetivo[trama] = 0
      BY <2>14, <1>i, <1>t DEF guardarTransaccion, Control, historia
    <3>2. AnulacionesAbiertas' \subseteq AnulacionesAbiertas
      BY <3>1, <1>p DEF AnulacionesAbiertas
    <3>3. \A w \in AnulacionesAbiertas' : objetivo[w] # 0
      BY <3>1 DEF AnulacionesAbiertas
    <3> QED
      BY <3>1, <3>2, <3>3, <1>i DEF Anulaciones
  <2>15. CASE cambiarEstadoTransaccion
    <3>1. /\ UNCHANGED <<archivoReverso, op, trama, objetivo, cortadas, sinReverso>>
          /\ journal' = journal \cup {trama} /\ op = "anulacion"
          /\ objetivo[trama] # 0
      BY <2>15, <1>i DEF cambiarEstadoTransaccion, Control, historia
    <3>2. archivoReverso = <<trama>>
      BY <2>15, <1>i DEF cambiarEstadoTransaccion, Archivo, Control,
         REVERSO_GENERADO, REVERSO_NO_GENERADO
    <3>3. /\ AnulacionesAbiertas = {trama}
          /\ AnulacionesAbiertas' = {trama}
      BY <3>1, <3>2, <1>p DEF AnulacionesAbiertas
    <3>4. \A v \in journal : v # trama => objetivo[v] # objetivo[trama]
      BY <3>3, <1>i DEF Anulaciones
    <3> QED
      BY <3>1, <3>3, <3>4, <1>i DEF Anulaciones
  <2>16. CASE borrarReversoAnulacion
    BY <2>16, <1>q, <1>t DEF borrarReversoAnulacion, historia, persistente
  <2> QED
    BY <1>2, <2>1, <2>2, <2>3, <2>4, <2>5, <2>6, <2>7, <2>8, <2>9, <2>10,
       <2>11, <2>12, <2>13, <2>14, <2>15, <2>16 DEF PasoTerminal
<1>3. CASE PasoCliente
  <2>1. CASE iniciarVenta
    BY <2>1, <1>q DEF iniciarVenta, Empezar, historia
  <2>2. CASE ventaSinValor
    BY <2>2, <1>q DEF ventaSinValor, historia
  <2>3. CASE iniciarSaldo
    BY <2>3, <1>q DEF iniciarSaldo, Empezar, historia, persistente
  <2>4. CASE mostrarReverso
    BY <2>4, <1>q DEF mostrarReverso, historia, persistente
  <2>5. CASE capturarEliminarReverso
    BY <2>5, <1>q DEF capturarEliminarReverso, persistente
  <2>6. ASSUME NEW s \in Trazas, iniciarAnulacion(s) PROVE Anulaciones'
    <3>1. /\ UNCHANGED <<archivoReverso, journal, cortadas, sinReverso>>
          /\ NuevaTraza \in Trazas /\ NuevaTraza > consecutivo
          /\ objetivo' = [objetivo EXCEPT ![NuevaTraza] = s]
          /\ op' = "anulacion" /\ trama' = NuevaTraza
          /\ \A v \in journal : objetivo[v] # s
      BY <2>6, <1>i DEF iniciarAnulacion, Activa, Empezar, historia, NuevaTraza,
         TypeOK
    <3>2. NuevaTraza \notin journal \cup cortadas \cup sinReverso \cup Pendientes
      BY <3>1, <1>i DEF Nuevas
    <3>3. /\ \A t \in Trazas : t # NuevaTraza => objetivo'[t] = objetivo[t]
          /\ objetivo'[NuevaTraza] = s
      BY <3>1, <1>i DEF TypeOK
    <3>4. /\ journal \subseteq Trazas /\ cortadas \subseteq Trazas
          /\ sinReverso \subseteq Trazas /\ Pendientes \subseteq Trazas
      BY <1>i, <1>p DEF TypeOK
    <3>5. AnulacionesAbiertas' \subseteq AnulacionesAbiertas \cup {NuevaTraza}
      BY <3>1, <3>2, <3>3, <3>4, <1>p DEF AnulacionesAbiertas
    <3>6. \A w \in AnulacionesAbiertas, v \in journal :
             v # w => objetivo'[v] # objetivo'[w]
      <4>1. NuevaTraza \notin AnulacionesAbiertas
        BY <2>6, <3>2, <1>i DEF iniciarAnulacion, Empezar, AnulacionesAbiertas,
           Control
      <4>2. AnulacionesAbiertas \subseteq Trazas
        BY <2>6, <3>4, <1>i DEF iniciarAnulacion, Empezar, AnulacionesAbiertas,
           Control
      <4> QED
        BY <4>1, <4>2, <3>2, <3>3, <3>4, <1>i DEF Anulaciones
    <3>7. \A v \in journal : objetivo'[v] # objetivo'[NuevaTraza]
      BY <3>1, <3>2, <3>3, <3>4
    <3>8. \A w \in AnulacionesAbiertas', v \in journal :
             v # w => objetivo'[v] # objetivo'[w]
      BY <3>5, <3>6, <3>7
    <3>9. /\ \A t \in journal : objetivo'[t] = objetivo[t]
          /\ \A t \in cortadas : objetivo'[t] = objetivo[t]
          /\ \A t \in sinReverso : objetivo'[t] = objetivo[t]
      BY <3>2, <3>3, <3>4
    <3> QED
      BY <3>1, <3>8, <3>9, <1>i DEF Anulaciones
  <2> QED
    BY <1>3, <2>1, <2>2, <2>3, <2>4, <2>5, <2>6 DEF PasoCliente
<1>4. CASE PasoExterno
  <2>1. CASE hostFinanciera
    BY <2>1, <1>q DEF hostFinanciera, historia, persistente
  <2>2. CASE hostReverso
    BY <2>2, <1>q DEF hostReverso, historia, persistente
  <2>3. CASE hostSaldo
    BY <2>3, <1>q DEF hostSaldo, historia, persistente
  <2>4. CASE perder
    BY <2>4, <1>q DEF perder, historia, persistente
  <2>5. CASE caida
    <3>1. /\ UNCHANGED <<archivoReverso, journal, objetivo, sinReverso>>
          /\ op' # "anulacion"
          /\ \A t \in cortadas' : t \notin cortadas =>
                t = trama /\ (objetivo[t] = 0 \/ t \in journal)
      BY <2>5, <1>i, <1>t DEF caida, persistente, Control, EnCurso, Financiera
    <3>2. AnulacionesAbiertas' \subseteq AnulacionesAbiertas
      BY <3>1, <1>p DEF AnulacionesAbiertas
    <3> QED
      BY <3>1, <3>2, <1>i DEF Anulaciones
  <2> QED
    BY <1>4, <2>1, <2>2, <2>3, <2>4, <2>5 DEF PasoExterno
<1> QED
  BY <1>1, <1>2, <1>3, <1>4 DEF Next
-----------------------------------------------------------------------------
\* IInv is an invariant of the specification.
THEOREM Invariante == Spec => []IInv
<1>1. IInv /\ [Next]_vars => IInv'
  <2> SUFFICES ASSUME IInv, [Next]_vars PROVE IInv'
    OBVIOUS
  <2>1. TipoControl
    BY DEF IInv, TipoControl
  <2>2. TypeOK' /\ Control'
    BY <2>1, TipoInductivo, ControlInductivo
  <2>3. Archivo'
    BY <2>1, ArchivoInductivo DEF IInv
  <2>4. Red'
    BY RedInductiva
  <2>5. Libros'
    BY JournalInductivo, CubiertaInductiva, NuevasInductiva,
       PendienteInductivo, EnCursoInductivo DEF Libros
  <2>6. ReversoEnviado' /\ Anulaciones'
    BY EnviadoInductivo, AnulacionesInductiva
  <2> QED
    BY <2>2, <2>3, <2>4, <2>5, <2>6 DEF IInv
<1> QED
  BY IInvInicial, <1>1, PTL DEF Spec

\* REVERSO.TXT is appended to and read as one message: it never holds two.
THEOREM UnicoReverso == Spec => []UnSoloReverso
<1>1. IInv => UnSoloReverso
  BY DEF IInv, Archivo
<1> QED
  BY Invariante, <1>1, PTL

\* A financial request at large has its reversal on file, or is one of the two
\* exceptions the property names.
THEOREM ReversoPrevio == Spec => []ReversoAntesDeEnviar
<1>1. IInv => ReversoAntesDeEnviar
  BY DEF IInv, Red
<1> QED
  BY Invariante, <1>1, PTL

\* Whatever the host approved is recorded, pending, or in a named gap.
THEOREM AprobadaCubierta == Spec => []Cubierta
<1>1. IInv => Cubierta
  BY DEF IInv, Libros
<1> QED
  BY Invariante, <1>1, PTL

\* Whatever the journal records stands in the host's books.
THEOREM RegistradaVigente == Spec => []JournalVigente
<1>1. IInv => JournalVigente
  BY DEF IInv, Libros
<1> QED
  BY Invariante, <1>1, PTL

\* A recorded sale is voided once, whatever is lost, repeated or cut: an approved
\* void is recorded or on file, and the journal and the file together hold one
\* void of a sale at most.
THEOREM AnulacionUnica == Spec => []UnaSolaAnulacion
<1>1. IInv => UnaSolaAnulacion
  <2> SUFFICES ASSUME IInv, NEW v \in vigente, NEW w \in vigente,
                      v # w, objetivo[v] = objetivo[w], objetivo[v] # 0,
                      v \notin eliminadas \cup negadas,
                      w \notin eliminadas \cup negadas
               PROVE  FALSE
    BY DEF UnaSolaAnulacion
  <2>1. Cubierta /\ Anulaciones /\ Control
    BY DEF IInv, Libros
  <2>2. ASSUME NEW t \in {v, w} PROVE t \in journal \cup Pendientes
    <3>1. t \notin sinReverso /\ (t \in cortadas => t \in journal)
      BY <2>1, <2>2 DEF Anulaciones
    <3>2. t \in EnRiesgo => t \in Pendientes
      BY <2>1, <2>2 DEF EnRiesgo, Control
    <3> QED
      BY <2>1, <2>2, <3>1, <3>2 DEF Cubierta
  <2>3. Pendientes = {} \/ \E t : Pendientes = {t}
    BY IInvPendientes
  <2>4. \A t \in {v, w} \cap Pendientes : t \in AnulacionesAbiertas
    BY DEF AnulacionesAbiertas
  <2> QED
    BY <2>1, <2>2, <2>3, <2>4 DEF Anulaciones
<1> QED
  BY Invariante, <1>1, PTL

\* No frame is sent over an approval that the host was not asked to reverse:
\* the retry loops do not charge twice.
THEOREM SinDobleCargo == Spec => NoDobleCargo
<1>1. IInv /\ [Next]_vars =>
         [(pc = "enviar" /\ pc' = "esperar" /\ op # "saldo") =>
             trama \notin vigente \ negadas]_vars
  <2> SUFFICES ASSUME IInv, pc = "enviar", op # "saldo"
               PROVE  trama \notin vigente \ negadas
    OBVIOUS
  <2>1. Financiera
    BY DEF IInv, TypeOK, Control, Operaciones, EnReverso, Financiera
  <2> QED
    BY <2>1 DEF IInv, Libros, EnCurso, SinAprobar
<1> QED
  BY Invariante, <1>1, PTL DEF Spec, NoDobleCargo

-----------------------------------------------------------------------------
(* The refinement: what each handler does to the state of one STAN, and the  *)
(* step of the abstract specification it is.                                 *)

\* STANs nobody will settle: deleted, refused or sent without a reversal.
Sueltas == eliminadas \cup negadas \cup sinReverso

\* The five states of a STAN, before a step.
LEMMA CasosDeEstado ==
    ASSUME NEW t
    PROVE  /\ t \in cortadas => EstadoDe(t) = "expuesta"
           /\ t \notin cortadas /\ t \in EnRiesgo => EstadoDe(t) = "riesgo"
           /\ t \notin cortadas \cup EnRiesgo /\ t \in journal =>
                 EstadoDe(t) = "registrada"
           /\ t \notin cortadas \cup EnRiesgo \cup journal /\ t \in Sueltas =>
                 EstadoDe(t) = "expuesta"
           /\ t \notin cortadas \cup EnRiesgo \cup journal \cup Sueltas =>
                 EstadoDe(t) = IF t <= consecutivo THEN "cerrada" ELSE "sinUsar"
  BY DEF EstadoDe, Sueltas

\* The same five states after a step.
LEMMA CasosDeEstadoTras ==
    ASSUME NEW t
    PROVE  /\ t \in cortadas' => EstadoDe(t)' = "expuesta"
           /\ t \notin cortadas' /\ t \in EnRiesgo' => EstadoDe(t)' = "riesgo"
           /\ t \notin cortadas' \cup EnRiesgo' /\ t \in journal' =>
                 EstadoDe(t)' = "registrada"
           /\ t \notin cortadas' \cup EnRiesgo' \cup journal' /\ t \in Sueltas' =>
                 EstadoDe(t)' = "expuesta"
           /\ t \notin cortadas' \cup EnRiesgo' \cup journal' \cup Sueltas' =>
                 EstadoDe(t)' = IF t <= consecutivo' THEN "cerrada" ELSE "sinUsar"
  BY DEF EstadoDe, Sueltas

\* A step that treats a STAN in no set and moves no counter past it keeps its
\* state.
LEMMA EstadoQuieto ==
    ASSUME NEW t,
           t \in cortadas' <=> t \in cortadas,
           t \in EnRiesgo' <=> t \in EnRiesgo,
           t \in journal' <=> t \in journal,
           t \in Sueltas' <=> t \in Sueltas,
           t <= consecutivo' <=> t <= consecutivo
    PROVE  EstadoDe(t)' = EstadoDe(t)
  BY CasosDeEstado, CasosDeEstadoTras

\* A step that moves one STAN changes the map of states at that STAN only.
LEMMA UnaSolaCambia ==
    ASSUME NEW u \in Trazas, NEW x,
           \A t \in Trazas \ {u} : EstadoDe(t)' = EstadoDe(t),
           EstadoDe(u)' = x
    PROVE  EstadoCobro' = [EstadoCobro EXCEPT ![u] = x]
  BY DEF EstadoCobro

\* A step that moves no STAN is a stutter of the abstract specification.
LEMMA NingunaCambia ==
    ASSUME \A t \in Trazas : EstadoDe(t)' = EstadoDe(t)
    PROVE  EstadoCobro' = EstadoCobro
  BY DEF EstadoCobro

\* The step of the abstract specification that moves the STAN u to the state x.
LEMMA PasoDeUna ==
    ASSUME NEW u \in Trazas,
           \A t \in Trazas \ {u} : EstadoDe(t)' = EstadoDe(t),
           vigente' = vigente,
           \/ EstadoDe(u)' = EstadoDe(u)
           \/ EstadoDe(u) = "sinUsar" /\ EstadoDe(u)' = "cerrada"
           \/ /\ EstadoDe(u) \in {"cerrada", "expuesta"} /\ EstadoDe(u)' = "riesgo"
              /\ \A t \in Trazas : EstadoDe(t) # "riesgo"
           \/ /\ EstadoDe(u) \in {"riesgo", "expuesta"}
              /\ EstadoDe(u)' = "registrada" /\ u \in vigente
           \/ /\ EstadoDe(u) = "riesgo" /\ EstadoDe(u)' = "cerrada"
              /\ u \notin vigente
           \/ EstadoDe(u) \in {"riesgo", "cerrada"} /\ EstadoDe(u)' = "expuesta"
    PROVE  [Cobro!Next]_<<EstadoCobro, vigente>>
<1>1. \A t \in Trazas : EstadoCobro[t] = EstadoDe(t)
  BY DEF EstadoCobro
<1>2. EstadoCobro' = [EstadoCobro EXCEPT ![u] = EstadoDe(u)']
  BY UnaSolaCambia
<1>3. CASE EstadoDe(u)' = EstadoDe(u)
  BY <1>3, NingunaCambia
<1>4. CASE EstadoDe(u) = "sinUsar" /\ EstadoDe(u)' = "cerrada"
  <2>1. Cobro!Gastar(u)
    BY <1>1, <1>2, <1>4 DEF Cobro!Gastar, Cobro!Pasar
  <2> QED
    BY <2>1 DEF Cobro!Next
<1>5. CASE /\ EstadoDe(u) \in {"cerrada", "expuesta"} /\ EstadoDe(u)' = "riesgo"
           /\ \A t \in Trazas : EstadoDe(t) # "riesgo"
  <2>1. Cobro!Arriesgar(u)
    BY <1>1, <1>2, <1>5 DEF Cobro!Arriesgar, Cobro!Pasar
  <2> QED
    BY <2>1 DEF Cobro!Next
<1>6. CASE /\ EstadoDe(u) \in {"riesgo", "expuesta"}
           /\ EstadoDe(u)' = "registrada" /\ u \in vigente
  <2>1. Cobro!Registrar(u)
    BY <1>1, <1>2, <1>6 DEF Cobro!Registrar, Cobro!Pasar
  <2> QED
    BY <2>1 DEF Cobro!Next
<1>7. CASE /\ EstadoDe(u) = "riesgo" /\ EstadoDe(u)' = "cerrada"
           /\ u \notin vigente
  <2>1. Cobro!Cerrar(u)
    BY <1>1, <1>2, <1>7 DEF Cobro!Cerrar, Cobro!Pasar
  <2> QED
    BY <2>1 DEF Cobro!Next
<1>8. CASE EstadoDe(u) \in {"riesgo", "cerrada"} /\ EstadoDe(u)' = "expuesta"
  <2>1. Cobro!Exponer(u)
    BY <1>1, <1>2, <1>8 DEF Cobro!Exponer, Cobro!Pasar
  <2> QED
    BY <2>1 DEF Cobro!Next
<1> QED
  BY <1>3, <1>4, <1>5, <1>6, <1>7, <1>8

\* Every step of the terminal, the client, the network, the host and the power
\* is one step of CobroAbstracto or none.
LEMMA PasoDeCobro ==
    IInv /\ [Next]_vars => [Cobro!Next]_<<EstadoCobro, vigente>>
<1> SUFFICES ASSUME IInv, [Next]_vars
             PROVE  [Cobro!Next]_<<EstadoCobro, vigente>>
  OBVIOUS
<1>i. /\ TypeOK /\ Control /\ Archivo /\ Red /\ Nuevas /\ EnCurso
      /\ PendienteSinRegistrar /\ ReversoEnviado
  BY DEF IInv, Libros
<1>p. /\ archivoReverso' = archivoReverso => Pendientes' = Pendientes
      /\ archivoReverso' = <<>> => Pendientes' = {}
      /\ \A t : archivoReverso' = <<t>> => Pendientes' = {t}
      /\ archivoReverso = <<>> => Pendientes = {}
      /\ archivoReverso # <<>> => Pendientes = {Head(archivoReverso)}
      /\ \A t : archivoReverso = <<t>> => Pendientes = {t}
      /\ Pendientes \subseteq Trazas
  BY IInvPendientes
<1>o. op \in {"venta", "anulacion"} => trama \in Trazas /\ trama <= consecutivo
  BY <1>i DEF Control, Financiera, TypeOK, Trazas
<1>r. /\ pc # "guardar" \/ op # "venta" => EnRiesgo = Pendientes
      /\ pc' # "guardar" \/ op' # "venta" => EnRiesgo' = Pendientes'
      /\ pc = "guardar" /\ op = "venta" => EnRiesgo = Pendientes \cup {trama}
      /\ pc' = "guardar" /\ op' = "venta" => EnRiesgo' = Pendientes' \cup {trama'}
  BY DEF EnRiesgo
\* Steps that leave the books, the file and the history alone.
<1>q. ASSUME UNCHANGED <<archivoReverso, journal, consecutivo, vigente, historia>>,
             pc # "guardar" \/ op # "venta", pc' # "guardar" \/ op' # "venta"
      PROVE  [Cobro!Next]_<<EstadoCobro, vigente>>
  <2>1. EnRiesgo' = EnRiesgo /\ Sueltas' = Sueltas
    BY <1>q, <1>p, <1>r DEF Sueltas, historia
  <2>2. \A t : EstadoDe(t)' = EstadoDe(t)
    BY <1>q, <2>1, EstadoQuieto DEF historia
  <2> QED
    BY <1>q, <2>2, NingunaCambia
\* Steps that hand out a STAN and leave the rest of the books alone.
<1>n. ASSUME UNCHANGED <<archivoReverso, journal, vigente, historia>>,
             pc = "libre", pc' # "guardar",
             NuevaTraza \in Trazas, consecutivo' = NuevaTraza
      PROVE  [Cobro!Next]_<<EstadoCobro, vigente>>
  <2>1. EnRiesgo' = EnRiesgo /\ Sueltas' = Sueltas /\ EnRiesgo = Pendientes
    BY <1>n, <1>p, <1>r DEF Sueltas, historia
  <2>2. NuevaTraza > consecutivo /\ NuevaTraza = consecutivo + 1
    BY <1>i DEF NuevaTraza, TypeOK
  <2>u. PICK u \in Trazas : u = NuevaTraza
    BY <1>n
  <2>3. u \notin cortadas \cup EnRiesgo \cup journal \cup Sueltas
    BY <1>n, <1>i, <2>1, <2>2, <2>u DEF Nuevas, Sueltas
  <2>4. \A t \in Trazas \ {u} : (t <= consecutivo') <=> (t <= consecutivo)
    BY <1>n, <1>i, <2>2, <2>u DEF TypeOK, Trazas
  <2>5. \A t \in Trazas \ {u} : EstadoDe(t)' = EstadoDe(t)
    BY <1>n, <2>1, <2>4, EstadoQuieto DEF historia
  <2>6. ~(u <= consecutivo) /\ u <= consecutivo'
    BY <1>n, <1>i, <2>2, <2>u DEF TypeOK
  <2>7. EstadoDe(u) = "sinUsar"
    BY <2>3, <2>6, CasosDeEstado
  <2>8. u \notin cortadas' \cup EnRiesgo' \cup journal' \cup Sueltas'
    BY <1>n, <2>1, <2>3 DEF historia
  <2>9. EstadoDe(u)' = "cerrada"
    BY <2>6, <2>8, CasosDeEstadoTras
  <2> QED
    BY <1>n, <2>5, <2>7, <2>9, PasoDeUna
\* Steps that empty the file without recording anything: the frame in it is
\* closed if the host has nothing under it, and exposed otherwise.
<1>b. ASSUME archivoReverso # <<>>, archivoReverso' = <<>>,
             UNCHANGED <<journal, consecutivo, vigente, cortadas>>,
             pc \notin {"guardar", "borrar"}, pc' # "guardar",
             \/ Sueltas' = Sueltas \cup {Head(archivoReverso)}
             \/ Sueltas' = Sueltas /\ Head(archivoReverso) \notin vigente \ Sueltas
      PROVE  [Cobro!Next]_<<EstadoCobro, vigente>>
  <2>u. PICK u \in Trazas : u = Head(archivoReverso)
    BY <1>b, <1>p
  <2>1. EnRiesgo = {u} /\ EnRiesgo' = {} /\ u <= consecutivo
    BY <1>b, <2>u, <1>p, <1>r, <1>i DEF Archivo
  <2>2. \A t \in Trazas \ {u} : EstadoDe(t)' = EstadoDe(t)
    BY <1>b, <2>u, <2>1, EstadoQuieto
  <2>3. u \in cortadas \/ u \notin journal
    BY <1>b, <2>u, <2>1, <1>p, <1>i DEF PendienteSinRegistrar
  <2>4. CASE u \in cortadas
    <3>1. EstadoDe(u) = "expuesta" /\ EstadoDe(u)' = "expuesta"
      BY <1>b, <2>4, CasosDeEstado, CasosDeEstadoTras
    <3> QED
      BY <1>b, <2>1, <2>2, <3>1, PasoDeUna
  <2>5. CASE u \notin cortadas
    <3>1. EstadoDe(u) = "riesgo"
      BY <2>1, <2>5, CasosDeEstado
    <3>2. u \notin cortadas' \cup EnRiesgo' \cup journal'
      BY <1>b, <2>1, <2>3, <2>5
    <3>3. CASE u \in Sueltas'
      <4>1. EstadoDe(u)' = "expuesta"
        BY <3>2, <3>3, CasosDeEstadoTras
      <4> QED
        BY <1>b, <2>1, <2>2, <3>1, <4>1, PasoDeUna
    <3>4. CASE u \notin Sueltas'
      <4>1. u \notin vigente
        BY <1>b, <2>u, <3>4
      <4>2. EstadoDe(u)' = "cerrada"
        BY <1>b, <2>1, <3>2, <3>4, CasosDeEstadoTras
      <4> QED
        BY <1>b, <2>1, <2>2, <3>1, <4>1, <4>2, PasoDeUna
    <3> QED
      BY <3>3, <3>4
  <2> QED
    BY <2>4, <2>5
<1>1. CASE UNCHANGED vars
  <2>1. EstadoCobro' = EstadoCobro
    BY <1>1 DEF vars, persistente, historia, EstadoCobro, EstadoDe, EnRiesgo,
       Pendientes
  <2> QED
    BY <1>1, <2>1 DEF vars
<1>2. CASE PasoTerminal
  <2>1. CASE verificarReversoExistente
    BY <2>1, <1>q DEF verificarReversoExistente, persistente
  <2>2. CASE enviarReverso
    BY <2>2, <1>q DEF enviarReverso, persistente
  <2>3. CASE reversoRespondido
    <3>1. archivoReverso # <<>>
      BY <2>3, <1>i DEF reversoRespondido, Control, EnReverso
    <3>2. /\ archivoReverso' = <<>> /\ pc = "esperarReverso" /\ pc' # "guardar"
          /\ UNCHANGED <<journal, consecutivo, vigente, cortadas>>
      BY <2>3 DEF reversoRespondido, SeguirTrasReverso, Terminar, persistente
    <3>3. CASE respuesta.codigo = "00"
      <4>1. Head(archivoReverso) \notin vigente
        BY <3>2, <3>3, <1>i DEF EnCurso
      <4>2. Sueltas' = Sueltas
        BY <2>3, <3>3 DEF reversoRespondido, Sueltas
      <4> QED
        BY <3>1, <3>2, <4>1, <4>2, <1>b
    <3>4. CASE respuesta.codigo # "00"
      <4>1. Sueltas' = Sueltas \cup {Head(archivoReverso)}
        BY <2>3, <3>4 DEF reversoRespondido, Sueltas
      <4> QED
        BY <3>1, <3>2, <4>1, <1>b
    <3> QED
      BY <3>3, <3>4
  <2>4. CASE reversoPendiente
    BY <2>4, <1>q DEF reversoPendiente, Terminar, persistente
  <2>5. CASE escribirReverso
    <3>1. CASE generaReverso # REVERSO_GENERADO
      BY <2>5, <3>1, <1>q DEF escribirReverso, persistente
    <3>2. CASE generaReverso = REVERSO_GENERADO
      <4>1. /\ UNCHANGED <<journal, consecutivo, vigente, historia>>
            /\ archivoReverso = <<>> /\ pc = "escribir" /\ pc' = "enviar"
        BY <2>5, <1>i DEF escribirReverso, persistente, Archivo
      <4>2. op \in {"venta", "anulacion"}
        BY <4>1, <3>2, <1>i DEF Control, EnReverso, TypeOK, Operaciones,
           REVERSO_GENERADO, REVERSO_NO_GENERADO
      <4>u. PICK u \in Trazas : u = trama
        BY <4>2, <1>o
      <4>3. EnRiesgo = {} /\ EnRiesgo' = {u} /\ Sueltas' = Sueltas
        <5>1. Append(<<>>, trama) = <<trama>>
          OBVIOUS
        <5> QED
          BY <2>5, <3>2, <4>1, <4>u, <5>1, <1>p, <1>r DEF escribirReverso, Sueltas, historia
      <4>4. \A t \in Trazas \ {u} : EstadoDe(t)' = EstadoDe(t)
        BY <4>1, <4>3, EstadoQuieto DEF historia
      <4>5. u \in Trazas /\ u <= consecutivo /\ u \notin journal
        BY <4>1, <4>2, <4>u, <1>o, <1>i DEF EnCurso, Financiera
      <4>6. \A t \in Trazas : EstadoDe(t) # "riesgo"
        BY <4>3, CasosDeEstado
      <4>7. CASE u \in cortadas
        <5>1. EstadoDe(u)' = EstadoDe(u)
          BY <4>1, <4>7, CasosDeEstado, CasosDeEstadoTras DEF historia
        <5> QED
          BY <4>1, <4>4, <4>5, <5>1, PasoDeUna
      <4>8. CASE u \notin cortadas
        <5>1. EstadoDe(u) \in {"cerrada", "expuesta"}
          BY <4>3, <4>5, <4>8, CasosDeEstado
        <5>2. EstadoDe(u)' = "riesgo"
          BY <4>1, <4>3, <4>8, CasosDeEstadoTras DEF historia
        <5> QED
          BY <4>1, <4>4, <4>5, <4>6, <5>1, <5>2, PasoDeUna
      <4> QED
        BY <4>7, <4>8
    <3> QED
      BY <3>1, <3>2
  <2>6. CASE enviarTrama
    <3>1. CASE sinReverso' = sinReverso
      BY <2>6, <3>1, <1>q DEF enviarTrama, persistente, historia
    <3>2. CASE sinReverso' # sinReverso
      <4>1. /\ UNCHANGED <<archivoReverso, journal, consecutivo, vigente, cortadas>>
            /\ Sueltas' = Sueltas \cup {trama} /\ pc = "enviar" /\ pc' = "esperar"
            /\ generaReverso # REVERSO_GENERADO /\ op # "saldo"
        BY <2>6, <3>2 DEF enviarTrama, persistente, Sueltas
      <4>2. op \in {"venta", "anulacion"}
        BY <4>1, <1>i DEF Control, EnReverso, TypeOK, Operaciones
      <4>u. PICK u \in Trazas : u = trama
        BY <4>2, <1>o
      <4>3. EnRiesgo = {} /\ EnRiesgo' = {}
        BY <4>1, <4>2, <1>i, <1>p, <1>r DEF Archivo
      <4>4. \A t \in Trazas \ {u} : EstadoDe(t)' = EstadoDe(t)
        BY <4>1, <4>3, <4>u, EstadoQuieto
      <4>5. u \in Trazas /\ u <= consecutivo /\ u \notin journal
        BY <4>1, <4>2, <4>u, <1>o, <1>i DEF EnCurso, Financiera
      <4>6. EstadoDe(u) \in {"cerrada", "expuesta"}
        BY <4>3, <4>5, CasosDeEstado
      <4>7. EstadoDe(u)' = "expuesta"
        BY <4>1, <4>3, <4>5, <4>u, CasosDeEstadoTras
      <4> QED
        BY <4>1, <4>4, <4>5, <4>6, <4>7, PasoDeUna
    <3> QED
      BY <3>1, <3>2
  <2>7. CASE conexionFallida
    BY <2>7, <1>q DEF conexionFallida, Terminar, persistente
  <2>8. CASE tiempoAgotado
    BY <2>8, <1>q DEF tiempoAgotado, Terminar, persistente
  <2>9. CASE respuestaAprobada
    BY <2>9, <1>q DEF respuestaAprobada, Recibida, persistente
  <2>10. CASE respuestaDesajustada
    BY <2>10, <1>q DEF respuestaDesajustada, Recibida, Terminar, persistente
  <2>11. CASE respuestaDeclinada
    <3>1. /\ UNCHANGED <<journal, consecutivo, vigente, historia>>
          /\ archivoReverso' = <<>> /\ pc = "esperar" /\ pc' # "guardar"
          /\ op \in {"venta", "anulacion"} /\ respuesta # SinRespuesta
          /\ respuesta.codigo # "00"
      BY <2>11 DEF respuestaDeclinada, Recibida, Terminar, persistente
    <3>2. CASE archivoReverso = <<>>
      BY <3>1, <3>2, <1>q
    <3>3. CASE archivoReverso # <<>>
      <4>1. archivoReverso = <<trama>>
        BY <3>1, <3>3, <1>i DEF Archivo
      <4>2. Head(archivoReverso) = trama
        BY <4>1
      <4>3. trama \notin vigente \ negadas
        BY <3>1, <1>i DEF EnCurso, SinAprobar, Financiera
      <4>4. Sueltas' = Sueltas /\ trama \notin vigente \ Sueltas
        BY <3>1, <4>3 DEF Sueltas, historia
      <4> QED
        BY <3>1, <3>3, <4>2, <4>4, <1>b DEF historia
    <3> QED
      BY <3>2, <3>3
  <2>12. CASE respuestaSaldo
    BY <2>12, <1>q DEF respuestaSaldo, Recibida, Terminar, persistente
  <2>13. CASE borrarReversoVenta
    <3>1. /\ UNCHANGED <<journal, consecutivo, vigente, historia, trama>>
          /\ archivoReverso' = <<>> /\ pc = "borrar" /\ pc' = "guardar"
          /\ op = "venta" /\ op' = "venta"
      BY <2>13 DEF borrarReversoVenta
    <3>u. PICK u \in Trazas : u = trama
      BY <3>1, <1>o
    <3>2. EnRiesgo' = {u} /\ EnRiesgo = Pendientes /\ Sueltas' = Sueltas
      BY <3>1, <3>u, <1>p, <1>r DEF Sueltas, historia
    <3>3. /\ u \in Trazas /\ u <= consecutivo /\ u \notin journal
      BY <3>1, <3>u, <1>o, <1>i DEF EnCurso, Financiera
    <3>4. CASE archivoReverso # <<>>
      <4>1. EnRiesgo = {u}
        BY <3>1, <3>u, <3>2, <3>4, <1>i, <1>p DEF Archivo
      <4>2. \A t : EstadoDe(t)' = EstadoDe(t)
        BY <3>1, <3>2, <4>1, EstadoQuieto DEF historia
      <4> QED
        BY <3>1, <4>2, NingunaCambia
    <3>5. CASE archivoReverso = <<>>
      <4>1. EnRiesgo = {}
        BY <3>2, <3>5, <1>p
      <4>2. u \in Sueltas
        <5>1. generaReverso # REVERSO_GENERADO
          <6>1. <<trama>> # <<>>
            BY ArchivoVacio
          <6> QED
            BY <3>1, <3>5, <6>1, <1>i DEF Archivo
        <5>2. generaReverso = REVERSO_NO_GENERADO
          BY <5>1, <1>i DEF TypeOK, REVERSO_GENERADO, REVERSO_NO_GENERADO
        <5> QED
          BY <3>1, <3>u, <5>2, <1>i DEF EnCurso, Sueltas
      <4>3. \A t \in Trazas \ {u} : EstadoDe(t)' = EstadoDe(t)
        BY <3>1, <3>2, <4>1, EstadoQuieto DEF historia
      <4>4. EstadoDe(u) = "expuesta"
        BY <3>3, <4>1, <4>2, CasosDeEstado
      <4>5. EstadoDe(u)' \in {"expuesta", "riesgo"}
        BY <3>2, CasosDeEstadoTras
      <4>6. \A t \in Trazas : EstadoDe(t) # "riesgo"
        BY <4>1, CasosDeEstado
      <4> QED
        BY <3>1, <3>3, <4>3, <4>4, <4>5, <4>6, PasoDeUna
    <3> QED
      BY <3>4, <3>5
  <2>14. CASE guardarTransaccion
    <3>1. /\ UNCHANGED <<archivoReverso, consecutivo, vigente, historia>>
          /\ journal' = journal \cup {trama} /\ pc = "guardar" /\ pc' = "libre"
          /\ op = "venta"
      BY <2>14 DEF guardarTransaccion, Terminar
    <3>u. PICK u \in Trazas : u = trama
      BY <3>1, <1>o
    <3>2. EnRiesgo = {u} /\ EnRiesgo' = {} /\ Sueltas' = Sueltas
      BY <3>1, <3>u, <1>p, <1>r, <1>i DEF Sueltas, historia, Archivo
    <3>3. u \in Trazas /\ u \in vigente
      BY <3>1, <3>u, <1>o, <1>i DEF EnCurso
    <3>4. \A t \in Trazas \ {u} : EstadoDe(t)' = EstadoDe(t)
      BY <3>1, <3>u, <3>2, EstadoQuieto DEF historia
    <3>5. \/ EstadoDe(u) = "expuesta" /\ EstadoDe(u)' = "expuesta"
          \/ EstadoDe(u) = "riesgo" /\ EstadoDe(u)' = "registrada"
      BY <3>1, <3>u, <3>2, CasosDeEstado, CasosDeEstadoTras DEF historia
    <3> QED
      BY <3>1, <3>3, <3>4, <3>5, PasoDeUna
  <2>15. CASE cambiarEstadoTransaccion
    <3>1. /\ UNCHANGED <<archivoReverso, consecutivo, vigente, historia>>
          /\ journal' = journal \cup {trama} /\ pc = "guardar" /\ pc' = "borrar"
          /\ op = "anulacion"
      BY <2>15 DEF cambiarEstadoTransaccion
    <3>2. archivoReverso = <<trama>>
      BY <3>1, <1>i DEF Archivo, Control, REVERSO_GENERADO, REVERSO_NO_GENERADO
    <3>u. PICK u \in Trazas : u = trama
      BY <3>1, <1>o
    <3>3. EnRiesgo = {u} /\ EnRiesgo' = {u} /\ Sueltas' = Sueltas
      BY <3>1, <3>u, <3>2, <1>p, <1>r DEF Sueltas, historia
    <3>4. u \in Trazas
      BY <3>1, <3>u, <1>o
    <3>5. \A t \in Trazas \ {u} : EstadoDe(t)' = EstadoDe(t)
      BY <3>1, <3>u, <3>3, EstadoQuieto DEF historia
    <3>6. EstadoDe(u)' = EstadoDe(u)
      BY <3>1, <3>u, <3>3, CasosDeEstado, CasosDeEstadoTras DEF historia
    <3> QED
      BY <3>1, <3>4, <3>5, <3>6, PasoDeUna
  <2>16. CASE borrarReversoAnulacion
    <3>1. /\ UNCHANGED <<journal, consecutivo, vigente, historia>>
          /\ archivoReverso' = <<>> /\ pc = "borrar" /\ pc' = "libre"
          /\ op = "anulacion"
      BY <2>16 DEF borrarReversoAnulacion, Terminar, persistente
    <3>2. archivoReverso = <<trama>>
      BY <3>1, <1>i DEF Archivo, Control, REVERSO_GENERADO, REVERSO_NO_GENERADO
    <3>u. PICK u \in Trazas : u = trama
      BY <3>1, <1>o
    <3>3. EnRiesgo = {u} /\ EnRiesgo' = {} /\ Sueltas' = Sueltas
      BY <3>1, <3>u, <3>2, <1>p, <1>r DEF Sueltas, historia
    <3>4. u \in Trazas /\ u \in journal /\ u \in vigente
      BY <3>1, <3>u, <1>o, <1>i DEF EnCurso
    <3>5. \A t \in Trazas \ {u} : EstadoDe(t)' = EstadoDe(t)
      BY <3>1, <3>3, EstadoQuieto DEF historia
    <3>6. \/ EstadoDe(u) = "expuesta" /\ EstadoDe(u)' = "expuesta"
          \/ EstadoDe(u) = "riesgo" /\ EstadoDe(u)' = "registrada"
      BY <3>1, <3>3, <3>4, CasosDeEstado, CasosDeEstadoTras DEF historia
    <3> QED
      BY <3>1, <3>4, <3>5, <3>6, PasoDeUna
  <2> QED
    BY <1>2, <2>1, <2>2, <2>3, <2>4, <2>5, <2>6, <2>7, <2>8, <2>9, <2>10,
       <2>11, <2>12, <2>13, <2>14, <2>15, <2>16 DEF PasoTerminal
<1>3. CASE PasoCliente
  <2>1. CASE iniciarVenta
    BY <2>1, <1>n DEF iniciarVenta, Empezar
  <2>2. CASE ventaSinValor
    BY <2>2, <1>n DEF ventaSinValor
  <2>3. CASE iniciarSaldo
    BY <2>3, <1>q DEF iniciarSaldo, Empezar, persistente
  <2>4. CASE mostrarReverso
    BY <2>4, <1>q DEF mostrarReverso, persistente
  <2>5. CASE capturarEliminarReverso
    <3>1. /\ archivoReverso # <<>> /\ archivoReverso' = <<>>
          /\ UNCHANGED <<journal, consecutivo, vigente, cortadas>>
          /\ pc = "libre" /\ pc' = "libre"
          /\ Sueltas' = Sueltas \cup {Head(archivoReverso)}
      BY <2>5 DEF capturarEliminarReverso, persistente, Sueltas
    <3> QED
      BY <3>1, <1>b
  <2>6. ASSUME NEW s \in Trazas, iniciarAnulacion(s)
        PROVE  [Cobro!Next]_<<EstadoCobro, vigente>>
    BY <2>6, <1>n DEF iniciarAnulacion, Empezar
  <2> QED
    BY <1>3, <2>1, <2>2, <2>3, <2>4, <2>5, <2>6 DEF PasoCliente
<1>4. CASE PasoExterno
  \* Only the host's book changes.
  <2>h. ASSUME UNCHANGED <<archivoReverso, journal, consecutivo, op, pc, trama,
                           historia>>
        PROVE  EstadoCobro' = EstadoCobro
    <3>1. EnRiesgo' = EnRiesgo /\ Sueltas' = Sueltas
      BY <2>h, <1>p DEF EnRiesgo, Sueltas, historia
    <3>2. \A t : EstadoDe(t)' = EstadoDe(t)
      BY <2>h, <3>1, EstadoQuieto DEF historia
    <3> QED
      BY <3>2, NingunaCambia
  \* The STAN of a financial request or a reversal on the network is exposed.
  <2>e. ASSUME peticion.mti \in {"0200", "0400"}
        PROVE  /\ peticion.traza \in Trazas
               /\ EstadoCobro[peticion.traza] \in {"riesgo", "expuesta"}
    <3> DEFINE u == peticion.traza
    <3>1. u \in Trazas /\ (u \in cortadas \/ u \notin journal)
      BY <2>e, <1>i DEF Control, Red
    <3>2. u \in Pendientes \cup Sueltas
      BY <2>e, <1>p, <1>i DEF Red, ReversoAntesDeEnviar, ReversoEnviado, Sueltas
    <3>3. EstadoDe(u) \in {"riesgo", "expuesta"}
      BY <3>1, <3>2, CasosDeEstado DEF EnRiesgo
    <3> QED
      BY <3>1, <3>3 DEF EstadoCobro
  <2>1. CASE hostFinanciera
    <3>1. EstadoCobro' = EstadoCobro
      BY <2>1, <2>h DEF hostFinanciera, persistente
    <3>2. CASE vigente' = vigente \cup {peticion.traza}
      <4>1. Cobro!Aprobar(peticion.traza)
        BY <2>1, <2>e, <3>1, <3>2 DEF hostFinanciera, Cobro!Aprobar
      <4> QED
        BY <2>1, <2>e, <4>1 DEF hostFinanciera, Cobro!Next
    <3> QED
      BY <2>1, <3>1, <3>2 DEF hostFinanciera
  <2>2. CASE hostReverso
    <3>1. EstadoCobro' = EstadoCobro
      BY <2>2, <2>h DEF hostReverso, persistente
    <3>2. CASE vigente' = vigente \ {peticion.traza}
      <4>1. Cobro!Reversar(peticion.traza)
        BY <2>2, <2>e, <3>1, <3>2 DEF hostReverso, Cobro!Reversar
      <4> QED
        BY <2>2, <2>e, <4>1 DEF hostReverso, Cobro!Next
    <3> QED
      BY <2>2, <3>1, <3>2 DEF hostReverso
  <2>3. CASE hostSaldo
    BY <2>3, <2>h DEF hostSaldo, persistente
  <2>4. CASE perder
    BY <2>4, <2>h DEF perder, persistente
  <2>5. CASE caida
    <3>1. /\ UNCHANGED <<archivoReverso, journal, consecutivo, vigente>>
          /\ pc' = "libre" /\ Sueltas' = Sueltas
      BY <2>5 DEF caida, Terminar, persistente, Sueltas
    <3>2. CASE cortadas' = cortadas /\ (pc # "guardar" \/ op # "venta")
      BY <2>5, <3>1, <3>2, <1>q DEF caida, historia
    <3>3. CASE \/ op = "venta" /\ pc = "guardar"
               \/ op = "anulacion" /\ pc = "borrar"
      <4>u. PICK u \in Trazas : u = trama
        BY <3>3, <1>o
      <4>1. cortadas' = cortadas \cup {u} /\ u \in Trazas
        BY <2>5, <3>3, <4>u DEF caida
      <4>2. EnRiesgo = {u}
        <5>1. CASE op = "venta" /\ pc = "guardar"
          BY <5>1, <4>u, <1>p, <1>r, <1>i DEF Archivo
        <5>2. CASE op = "anulacion" /\ pc = "borrar"
          <6>1. archivoReverso = <<u>>
            BY <5>2, <4>u, <1>i DEF Archivo, Control, REVERSO_GENERADO,
               REVERSO_NO_GENERADO
          <6> QED
            BY <5>2, <6>1, <1>p, <1>r
        <5> QED
          BY <3>3, <5>1, <5>2
      <4>3. \A t \in Trazas \ {u} : t \in EnRiesgo' <=> t \in EnRiesgo
        <5>1. EnRiesgo' = Pendientes /\ Pendientes \subseteq EnRiesgo
          BY <3>1, <1>p, <1>r DEF EnRiesgo
        <5> QED
          BY <4>2, <5>1
      <4>4. \A t \in Trazas \ {u} : EstadoDe(t)' = EstadoDe(t)
        BY <3>1, <4>1, <4>3, EstadoQuieto
      <4>5. EstadoDe(u) \in {"riesgo", "expuesta"} /\ EstadoDe(u)' = "expuesta"
        BY <4>1, <4>2, CasosDeEstado, CasosDeEstadoTras
      <4> QED
        BY <3>1, <4>1, <4>4, <4>5, PasoDeUna
    <3> QED
      BY <2>5, <3>2, <3>3 DEF caida
  <2> QED
    BY <1>4, <2>1, <2>2, <2>3, <2>4, <2>5 DEF PasoExterno
<1> QED
  BY <1>1, <1>2, <1>3, <1>4 DEF Next

\* The protocol of reversals implements what the terminal promises about every
\* financial request: one STAN at risk at a time, recorded only what the host
\* has approved, closed only what it has not, and never recorded or closed and
\* then approved or reversed behind the terminal's back.
THEOREM CobroImplementado == Spec => ImplementaCobro
<1>1. Init => Cobro!Init
  <2> SUFFICES ASSUME Init PROVE Cobro!Init
    OBVIOUS
  <2>1. EnRiesgo = {} /\ Sueltas = {} /\ cortadas = {} /\ journal = {}
    BY IInvInicial, IInvPendientes DEF Init, EnRiesgo, Sueltas
  <2>2. \A t \in Trazas : EstadoDe(t) = "sinUsar"
    <3>1. \A t \in Trazas : ~(t <= consecutivo)
      BY DEF Init, Trazas
    <3> QED
      BY <2>1, <3>1, CasosDeEstado
  <2>3. EstadoCobro = [t \in Trazas |-> "sinUsar"]
    BY <2>2 DEF EstadoCobro
  <2> QED
    BY <2>3 DEF Init, Cobro!Init
<1> QED
  BY <1>1, PasoDeCobro, Invariante, PTL DEF Spec, ImplementaCobro, Cobro!Spec
=============================================================================
