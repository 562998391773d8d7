--------------------------- MODULE Comunicaciones ---------------------------
(***************************************************************************)
(* The terminal's side of the ISO-8583 dialogue with the acquirer, as      *)
(* Base/comunicaciones.cpp keeps it for every financial operation: one     *)
(* request at a time, a reversal written to REVERSO.TXT before the request *)
(* goes out, and a pending reversal sent before any new request.           *)
(*                                                                         *)
(* A frame is known by its system trace number (STAN, field 11), a         *)
(* "traza" here.  The module declares the whole state; the operations that *)
(* use the protocol (sale, void, balance query, reversal menu) are in      *)
(* TransaccionesVenta, which extends this module.                          *)
(***************************************************************************)
EXTENDS Naturals, Sequences, FiniteSets

CONSTANTS
    MaxTrazas,            \* bound: STANs a behaviour may consume
    Canal,                \* TIPO_CANAL: "tls" (2) or "tcp" (any other value)
    MAX_INTENTOS_VENTA    \* times a frame is sent in one operation

ASSUME MaxTrazasAssumption   == MaxTrazas \in Nat \ {0}
ASSUME CanalAssumption       == Canal \in {"tls", "tcp"}
ASSUME MaxIntentosAssumption == MAX_INTENTOS_VENTA \in Nat \ {0}

Trazas == 1 .. MaxTrazas

\* Definiciones.h
REVERSO_GENERADO    == 1
REVERSO_NO_GENERADO == 0

VARIABLES
    \* files and parameters of the terminal: they survive a power cut
    archivoReverso,   \* REVERSO.TXT: the frames appended to it, <<>> if absent
    respaldo,         \* RESPALDO: the frame of the sale, 0 if absent
    journal,          \* JOURNAL: STANs of the recorded sales and of the voids
                      \* whose approval was written over a recorded sale
    tipo,             \* parameter TIPO_TRANSACCION
    consecutivo,      \* parameter CONSECUTIVO: the last STAN handed out
    objetivo,         \* what the frame of a STAN voids: 0 for a sale
    \* memory of the process
    op,               \* JNI operation under way
    pc,               \* where it is
    trama,            \* STAN of the frame being exchanged, 0 outside
    intentos,         \* replies rejected so far
    generaReverso,    \* REVERSO_GENERADO or not, for realizarTransaccion
    origen,           \* who called generarReverso
    conectado,        \* 1 while the socket is connected
    \* network and acquirer
    peticion,         \* last request not yet taken by the host
    respuesta,        \* reply not yet read by the terminal
    vigente,          \* STANs approved and not reversed in the host's books
    \* history
    eliminadas,       \* reversals the user deleted
    negadas,          \* reversals the host refused and the terminal dropped
    cortadas,         \* a power cut fell between journal and REVERSO.TXT
    sinReverso        \* financial requests sent without a reversal

persistente == <<respaldo, journal, consecutivo, objetivo>>
historia    == <<eliminadas, negadas, cortadas, sinReverso>>
vars == <<archivoReverso, persistente, tipo, op, pc, trama, intentos,
          generaReverso, origen, conectado, peticion, respuesta, vigente,
          historia>>

Nada == [mti |-> "nada", traza |-> 0]
SinRespuesta == [mti |-> "nada", codigo |-> "", coincide |-> FALSE]

Operaciones == {"ninguna", "venta", "anulacion", "saldo", "menu"}
Puntos == {"libre", "verificar", "enviarReverso", "esperarReverso",
           "escribir", "enviar", "esperar", "borrar", "guardar"}
Peticiones == [mti : {"nada", "0100", "0200", "0400"}, traza : 0 .. MaxTrazas]
Respuestas == [mti : {"nada", "0110", "0210", "0410", "otro"},
               codigo : {"", "00", "55", "otro"}, coincide : BOOLEAN]

\* What an operation leaves behind when its JNI function returns: the
\* connection is closed and with it any reply still on its way.
Terminar ==
    /\ op' = "ninguna" /\ pc' = "libre" /\ trama' = 0 /\ intentos' = 0
    /\ generaReverso' = REVERSO_NO_GENERADO /\ origen' = "ninguno"
    /\ conectado' = 0 /\ respuesta' = SinRespuesta

\* CANAL_DEMANDA closes the TCP socket after the exchange; over TLS the
\* connection is the operation's own and stays open.
SoltarSocket(cierraCanal) ==
    conectado' = IF Canal = "tcp" /\ cierraCanal THEN 0 ELSE conectado

\* A socket that CANAL_DEMANDA closed is connected again, over TCP only, when
\* the next frame is sent.
Conectar == (conectado = 1 \/ Canal = "tcp") /\ conectado' = 1

-----------------------------------------------------------------------------
\* Faulty variant: the pending reversal is not looked for.
verificarSinReverso ==
    /\ pc = "verificar"
    /\ tipo' = op /\ pc' = "escribir"
    /\ UNCHANGED <<archivoReverso, persistente, op, trama, intentos,
                   generaReverso, origen, conectado, peticion, respuesta,
                   vigente, historia>>

(* verificarReversoExistente: the type of the operation becomes the current *)
(* TIPO_TRANSACCION and a pending reversal goes first.                       *)
verificarReversoExistente ==
    /\ pc = "verificar"
    /\ tipo' = op
    /\ IF archivoReverso = <<>>
         THEN pc' = "escribir" /\ UNCHANGED origen
         ELSE pc' = "enviarReverso" /\ origen' = "previo"
    /\ UNCHANGED <<archivoReverso, persistente, op, trama, intentos,
                   generaReverso, conectado, peticion, respuesta, vigente,
                   historia>>

(* generarReverso reads the file and unpacks one message, the first; it is   *)
(* sent again as a 0400 with its own STAN.                                   *)
enviarReverso ==
    /\ pc = "enviarReverso"
    /\ Conectar
    /\ peticion' = [mti |-> "0400", traza |-> Head(archivoReverso)]
    /\ respuesta' = SinRespuesta
    /\ pc' = "esperarReverso"
    /\ UNCHANGED <<archivoReverso, persistente, tipo, op, trama, intentos,
                   generaReverso, origen, vigente, historia>>

(* verificacionTramaReverso looks at the message type and at nothing else.   *)
verificacionTramaReverso(r) == r.mti = "0410"

\* Faulty variant: the retry is not counted.
SeguirSinContar ==
    \/ /\ origen = "previo"
       /\ pc' = "escribir" /\ origen' = "ninguno"
       /\ respuesta' = SinRespuesta /\ SoltarSocket(TRUE)
       /\ UNCHANGED <<op, trama, intentos, generaReverso>>
    \/ /\ origen = "desajuste"
       /\ pc' = "verificar" /\ origen' = "ninguno"
       /\ respuesta' = SinRespuesta /\ SoltarSocket(TRUE)
       /\ UNCHANGED <<op, trama, intentos, generaReverso>>
    \/ origen = "menu" /\ Terminar

(* After a reversal that the code takes as done: the frame it was blocking   *)
(* goes out, the rejected frame is sent again while attempts remain, or the  *)
(* menu is left.                                                             *)
SeguirTrasReverso ==
    \/ /\ origen = "previo"
       /\ pc' = "escribir" /\ origen' = "ninguno"
       /\ respuesta' = SinRespuesta /\ SoltarSocket(TRUE)
       /\ UNCHANGED <<op, trama, intentos, generaReverso>>
    \/ /\ origen = "desajuste" /\ intentos + 1 < MAX_INTENTOS_VENTA
       /\ pc' = "verificar" /\ origen' = "ninguno"
       /\ intentos' = intentos + 1
       /\ trama' = IF op = "venta" THEN respaldo ELSE trama
       /\ respuesta' = SinRespuesta /\ SoltarSocket(TRUE)
       /\ UNCHANGED <<op, generaReverso>>
    \/ /\ origen = "desajuste" /\ intentos + 1 >= MAX_INTENTOS_VENTA
       /\ Terminar
    \/ /\ origen = "menu"
       /\ Terminar

\* Faulty variant: the file stays after the 0410.
reversoSinBorrar ==
    /\ pc = "esperarReverso"
    /\ respuesta # SinRespuesta
    /\ verificacionTramaReverso(respuesta)
    /\ SeguirTrasReverso
    /\ UNCHANGED <<archivoReverso, persistente, tipo, peticion, vigente,
                   historia>>

\* Faulty variant: only a 0410 with code "00" deletes the file.
reversoSoloAprobado ==
    /\ pc = "esperarReverso"
    /\ respuesta # SinRespuesta
    /\ verificacionTramaReverso(respuesta)
    /\ archivoReverso' = IF respuesta.codigo = "00" THEN <<>> ELSE archivoReverso
    /\ IF respuesta.codigo = "00" THEN SeguirTrasReverso ELSE Terminar
    /\ UNCHANGED <<persistente, tipo, peticion, vigente, historia>>

(* A 0410 ends the reversal whatever its response code: with "00" the host   *)
(* reversed it, with any other code the file is dropped all the same.        *)
reversoRespondido ==
    /\ pc = "esperarReverso"
    /\ respuesta # SinRespuesta
    /\ verificacionTramaReverso(respuesta)
    /\ archivoReverso' = <<>>
    /\ negadas' = IF respuesta.codigo = "00" THEN negadas
                  ELSE negadas \cup {Head(archivoReverso)}
    /\ SeguirTrasReverso
    /\ UNCHANGED <<persistente, tipo, peticion, vigente, eliminadas, cortadas,
                   sinReverso>>

(* "REVERSO PENDIENTE": the reply is not a 0410, the operation is abandoned  *)
(* and the file stays.                                                       *)
reversoPendiente ==
    /\ pc = "esperarReverso"
    /\ respuesta # SinRespuesta
    /\ ~verificacionTramaReverso(respuesta)
    /\ Terminar
    /\ UNCHANGED <<archivoReverso, persistente, tipo, peticion, vigente,
                   historia>>

\* Faulty variant: the reversal is not written.
escribirNada ==
    /\ pc = "escribir"
    /\ Conectar
    /\ pc' = "enviar"
    /\ UNCHANGED <<archivoReverso, persistente, tipo, op, trama, intentos,
                   generaReverso, origen, peticion, respuesta, vigente,
                   historia>>

\* Faulty variant: the reversal is written only on a connection that was still
\* open, not on one just opened again.
escribirSiConectado ==
    /\ pc = "escribir"
    /\ Conectar
    /\ archivoReverso' = IF generaReverso = REVERSO_GENERADO /\ conectado = 1
                         THEN Append(archivoReverso, trama)
                         ELSE archivoReverso
    /\ pc' = "enviar"
    /\ UNCHANGED <<persistente, tipo, op, trama, intentos, generaReverso,
                   origen, peticion, respuesta, vigente, historia>>

(* conectarTls and realizarTransaccionTCP: the request is appended to        *)
(* REVERSO.TXT before it is written to the socket.                           *)
escribirReverso ==
    /\ pc = "escribir"
    /\ Conectar
    /\ archivoReverso' = IF generaReverso = REVERSO_GENERADO
                         THEN Append(archivoReverso, trama)
                         ELSE archivoReverso
    /\ pc' = "enviar"
    /\ UNCHANGED <<persistente, tipo, op, trama, intentos, generaReverso,
                   origen, peticion, respuesta, vigente, historia>>

enviarTrama ==
    /\ pc = "enviar"
    /\ peticion' = [mti   |-> IF op = "saldo" THEN "0100" ELSE "0200",
                    traza |-> trama]
    /\ respuesta' = SinRespuesta
    /\ sinReverso' = IF generaReverso = REVERSO_GENERADO \/ op = "saldo"
                     THEN sinReverso ELSE sinReverso \cup {trama}
    /\ pc' = "esperar"
    /\ UNCHANGED <<archivoReverso, persistente, tipo, op, trama, intentos,
                   generaReverso, origen, conectado, vigente, eliminadas,
                   negadas, cortadas>>

\* Faulty variant: a failed connection drops the pending reversal.
conexionFallidaBorra ==
    /\ pc \in {"enviarReverso", "escribir"}
    /\ Canal = "tcp" /\ conectado = 0
    /\ archivoReverso' = <<>>
    /\ Terminar
    /\ UNCHANGED <<persistente, tipo, peticion, vigente, historia>>

(* connect() failed on a socket that CANAL_DEMANDA had closed: no reversal   *)
(* is written, the send on the unconnected socket fails, the result is -3.   *)
conexionFallida ==
    /\ pc \in {"enviarReverso", "escribir"}
    /\ Canal = "tcp" /\ conectado = 0
    /\ Terminar
    /\ UNCHANGED <<archivoReverso, persistente, tipo, peticion, vigente,
                   historia>>

\* Faulty variant: a time-out drops the reversal.
tiempoAgotadoBorra ==
    /\ pc \in {"esperar", "esperarReverso"}
    /\ archivoReverso' = <<>>
    /\ Terminar
    /\ UNCHANGED <<persistente, tipo, peticion, vigente, historia>>

(* -3: no answer in 30 s, or a broken socket.  A reply that arrives later    *)
(* finds the connection closed.                                              *)
tiempoAgotado ==
    /\ pc \in {"esperar", "esperarReverso"}
    /\ Terminar
    /\ UNCHANGED <<archivoReverso, persistente, tipo, peticion, vigente,
                   historia>>
=============================================================================
