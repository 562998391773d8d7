-------------------------- MODULE InvariantesVenta --------------------------
(***************************************************************************)
(* The inductive invariant behind the safety properties of                 *)
(* TransaccionesVenta, in parts: files, network, books, voids.             *)
(***************************************************************************)
EXTENDS TransaccionesVenta

Financiera == op \in {"venta", "anulacion"}
EnReverso  == pc \in {"enviarReverso", "esperarReverso"}

\* Where each operation can be, and what its locals hold there.
Control ==
    /\ (pc = "libre") <=> (op = "ninguna")
    /\ op = "menu" => EnReverso
    /\ (pc \in {"borrar", "guardar"}) => Financiera
    /\ op = "saldo" => generaReverso = REVERSO_NO_GENERADO /\ trama = 0
    /\ op = "anulacion" => generaReverso = REVERSO_GENERADO
    /\ Financiera => trama \in 1 .. consecutivo
    /\ (op = "venta" /\ pc # "guardar") => respaldo = trama
    /\ op = "venta" => objetivo[trama] = 0
    /\ op = "anulacion" => objetivo[trama] # 0
    /\ EnReverso <=> (origen # "ninguno")
    /\ EnReverso => archivoReverso # <<>>
    /\ (origen = "menu") <=> (op = "menu")
    /\ origen = "desajuste" => Financiera /\ generaReverso = REVERSO_GENERADO
    /\ peticion.mti \in {"0200", "0400"} => peticion.traza \in Trazas
    /\ \A t \in Trazas : t > consecutivo => objetivo[t] = 0

\* What REVERSO.TXT holds at each point of an operation.
Archivo ==
    /\ UnSoloReverso
    /\ archivoReverso # <<>> => Head(archivoReverso) <= consecutivo
    /\ origen = "desajuste" => archivoReverso = <<trama>>
    /\ (Financiera /\ origen # "desajuste"
            /\ pc \in {"verificar", "enviarReverso", "esperarReverso"}) =>
           archivoReverso # <<trama>>
    /\ pc = "escribir" => archivoReverso = <<>>
    /\ (\/ pc \in {"enviar", "esperar", "borrar"}
        \/ pc = "guardar" /\ op = "anulacion") =>
           archivoReverso = IF generaReverso = REVERSO_GENERADO THEN <<trama>>
                            ELSE <<>>
    /\ (pc = "guardar" /\ op = "venta") => archivoReverso = <<>>

\* What may be on the network, and whose it is.
Red ==
    /\ respuesta # SinRespuesta => peticion.mti = "nada"
    /\ (pc \notin {"esperar", "esperarReverso"}) => respuesta = SinRespuesta
    /\ (pc \in {"borrar", "guardar"}) => peticion.mti = "nada"
    /\ peticion.mti # "nada" => peticion.traza <= consecutivo
    /\ pc = "esperar" => peticion.mti # "0400"
    /\ (pc = "esperar" /\ peticion.mti = "0100") => op = "saldo"
    /\ pc = "esperarReverso" =>
           \/ peticion.mti = "nada"
           \/ peticion.mti = "0400" /\ peticion.traza = Head(archivoReverso)
    /\ (pc = "esperar" /\ peticion.mti = "0200") =>
           Financiera /\ peticion.traza = trama
    /\ (Financiera /\ pc # "esperar" /\ origen # "desajuste") =>
           peticion.mti = "nada" \/ peticion.traza # trama
    /\ ReversoAntesDeEnviar
    /\ peticion.mti \in {"0200", "0400"} =>
           \/ peticion.traza \notin journal
           \/ peticion.traza \in cortadas /\ objetivo[peticion.traza] # 0

\* The STANs above the last one handed out are untouched.
Nuevas ==
    \A t \in Trazas : t > consecutivo =>
        t \notin vigente \cup journal \cup eliminadas \cup negadas
                 \cup cortadas \cup sinReverso \cup Pendientes

\* A frame with its reversal on file is not in the journal: but for a void cut
\* between its two writes.
PendienteSinRegistrar ==
    \A t \in Pendientes :
        \/ t \notin journal
        \/ objetivo[t] # 0 /\ (t \in cortadas \/ (pc = "borrar" /\ t = trama))

\* An operation that has not been answered yet has nothing approved under its
\* STAN that the host would not have refused to reverse.
SinAprobar == trama \notin vigente \ negadas

\* What the books hold under the STAN of the operation under way.
EnCurso ==
    /\ (Financiera /\ ~(op = "anulacion" /\ pc = "borrar")) => trama \notin journal
    /\ (op = "anulacion" /\ pc = "borrar") => trama \in journal
    /\ (pc \in {"borrar", "guardar"}
            \/ (Financiera /\ pc = "esperar" /\ respuesta.codigo = "00")) =>
           trama \in vigente
    /\ (Financiera /\ (\/ pc \in {"verificar", "escribir", "enviar"}
                       \/ origen = "previo"
                       \/ pc = "esperar" /\ peticion.mti = "0200"
                       \/ pc = "esperar" /\ respuesta # SinRespuesta
                             /\ respuesta.codigo # "00")) => SinAprobar
    /\ (pc = "esperarReverso" /\ respuesta.codigo = "00") =>
           Head(archivoReverso) \notin vigente
    /\ (/\ op = "venta" /\ generaReverso = REVERSO_NO_GENERADO
        /\ pc \in {"esperar", "borrar", "guardar"}) => trama \in sinReverso

\* The journal, the pending reversals and the host's books.
Libros == /\ JournalVigente /\ Cubierta /\ Nuevas
          /\ PendienteSinRegistrar /\ EnCurso

\* A reversal on the network is that of the pending frame, or of one the user
\* deleted since: a stale 0400 never names a frame that is settled otherwise.
ReversoEnviado ==
    peticion.mti = "0400" => peticion.traza \in Pendientes \cup eliminadas

\* Voids under way: the one on file and the one the client asked for.
AnulacionesAbiertas ==
    {t \in Pendientes \cup (IF op = "anulacion" THEN {trama} ELSE {}) :
        objetivo[t] # 0}

\* The journal records one void of a sale at most and none while another void
\* of that sale is open; a void cut half way is recorded, and none is ever sent
\* without its reversal.
Anulaciones ==
    /\ \A v, w \in journal :
           v # w /\ objetivo[v] = objetivo[w] => objetivo[v] = 0
    /\ \A w \in AnulacionesAbiertas, v \in journal :
           v # w => objetivo[v] # objetivo[w]
    /\ \A t \in cortadas : objetivo[t] # 0 => t \in journal
    /\ \A t \in sinReverso : objetivo[t] = 0

IInv == /\ TypeOK /\ Control /\ Archivo /\ Red /\ Libros
        /\ ReversoEnviado /\ Anulaciones
=============================================================================
