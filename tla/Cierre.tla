------------------------------- MODULE Cierre -------------------------------
(***************************************************************************)
(* A batch of card sales from its first record to its settlement: sales    *)
(* and voids as they reach the files of module Diario, the consultation of *)
(* a receipt before its void, and _cierreVenta_ (Venta/cierre_venta.cpp),  *)
(* which sends the totals, uploads the sales one by one when the host does *)
(* not agree, and erases the journal; with power cuts, lost messages and   *)
(* the host's own batch.                                                   *)
(*                                                                         *)
(* One exchange with the host is one step here: the steps inside it are    *)
(* those of TransaccionesVenta.                                            *)
(***************************************************************************)
EXTENDS Diario

CONSTANT LimiteConteo   \* totals hold counts below it: three digits, 1000

ASSUME LimiteConteoAssumption == LimiteConteo \in Nat \ {0}

VARIABLES
    reverso,        \* REVERSO.TXT: what it would undo, Nada if absent
    \* memory of the process
    consultada,     \* globalTramaVenta: the record read by the consultation
    op, pc,         \* JNI operation under way and the place in it
    venta, recibo,  \* the sale it is about, and its receipt
    indice,         \* loop counter: fields of a void, records of an upload
    \* the acquirer's host
    cobradas,       \* sales that stand in its open batch
    entregadas,     \* sales of batches it closed, or that it got by upload
    vigente,        \* whether the frame on file was approved
    \* history
    ventas,         \* sales started
    huecos,         \* sales in a gap of the reversal protocol
    inconclusa      \* a settlement ended before its last answer

lugar    == <<op, pc, venta, recibo, indice>>
anfitrion == <<cobradas, entregadas>>
historia == <<ventas, huecos, inconclusa>>
vars == <<archivos, invoice, reverso, consultada, lugar, anfitrion, vigente,
          historia>>

Nada == [tipo |-> "nada", venta |-> 0]
Reversos == [tipo : {"venta", "anulacion"}, venta : Ventas] \cup {Nada}
SinRegistro == [venta |-> 0, recibo |-> 0, anulados |-> {}]

Init ==
    /\ journal = <<>> /\ directorio = <<>> /\ invoice = ReciboInicial
    /\ reverso = Nada /\ vigente = FALSE
    /\ consultada = SinRegistro
    /\ op = "ninguna" /\ pc = "libre" /\ venta = 0 /\ recibo = 0 /\ indice = 0
    /\ cobradas = {} /\ entregadas = {}
    /\ ventas = 0 /\ huecos = {} /\ inconclusa = FALSE

\* The JNI function returns: the locals are gone.
Terminar == /\ op' = "ninguna" /\ pc' = "libre"
            /\ venta' = 0 /\ recibo' = 0 /\ indice' = 0

Ir(lugarNuevo) == /\ pc' = lugarNuevo
                  /\ UNCHANGED <<op, venta, recibo, indice>>

\* An operation meets the pending reversal before anything else.
Empezar(operacion) ==
    /\ op' = operacion
    /\ pc' = IF reverso = Nada THEN "enviar" ELSE "verificar"

-----------------------------------------------------------------------------
(* The client.                                                               *)

(* realizarVentaEMV draws the receipt when it builds the frame, so a sale    *)
(* that is not approved spends one too.                                      *)
iniciarVenta ==
    /\ pc = "libre" /\ ventas < MaxVentas
    /\ ventas' = ventas + 1 /\ invoice' = NuevoRecibo
    /\ Empezar("venta")
    /\ venta' = ventas + 1 /\ recibo' = NuevoRecibo /\ indice' = 0
    /\ UNCHANGED <<archivos, reverso, consultada, anfitrion, vigente, huecos,
                   inconclusa>>

(* realizarConsultaReciboAnulacion: the first entry of the directory with    *)
(* that receipt says where to read, and the receipt of what is read is not   *)
(* looked at.  Only an active sale is kept in globalTramaVenta.              *)
realizarConsultaReciboAnulacion(r) ==
    LET e == buscarReciboMulticorresponsal(r)
        i == IF e = 0 THEN 0 ELSE directorio[e].posicion
        hallada == i \in DOMAIN journal /\ Activa(journal[i])
    IN /\ pc = "libre"
       /\ consultada' = IF hallada THEN journal[i] ELSE SinRegistro
       /\ UNCHANGED <<archivos, invoice, reverso, lugar, anfitrion, vigente,
                      historia>>

(* realizarTransaccionAnulacion voids what globalTramaVenta holds, whatever  *)
(* receipt it is called with.                                                *)
iniciarAnulacion ==
    /\ pc = "libre" /\ consultada # SinRegistro
    /\ Empezar("anulacion")
    /\ venta' = consultada.venta /\ recibo' = consultada.recibo /\ indice' = 1
    /\ UNCHANGED <<archivos, invoice, reverso, consultada, anfitrion, vigente,
                   historia>>

\* _cierreVenta_: without records it ends at once.
iniciarCierre ==
    /\ pc = "libre" /\ journal # <<>>
    /\ Empezar("cierre") /\ indice' = 1
    /\ UNCHANGED <<archivos, invoice, reverso, consultada, venta, recibo,
                   anfitrion, vigente, historia>>

\* eliminarReversoExistente of the menu.
eliminarReverso ==
    /\ pc = "libre" /\ reverso # Nada
    /\ reverso' = Nada /\ vigente' = FALSE
    /\ huecos' = huecos \cup {reverso.venta}
    /\ UNCHANGED <<archivos, invoice, consultada, lugar, anfitrion, ventas,
                   inconclusa>>

-----------------------------------------------------------------------------
(* realizarTransaccion: a pending reversal goes first.                       *)

\* What the reversal of an approved frame does to the open batch.
Deshacer ==
    /\ vigente' = FALSE
    /\ cobradas' = IF ~vigente THEN cobradas
                   ELSE IF reverso.tipo = "venta" THEN cobradas \ {reverso.venta}
                   ELSE cobradas \cup {reverso.venta}

\* Faulty variant: a settlement does not send the pending reversal.
reversoSinCierre ==
    /\ pc = "verificar"
    /\ \/ /\ op # "cierre"
          /\ reverso' = Nada /\ Ir("enviar") /\ Deshacer /\ UNCHANGED huecos
       \/ /\ op = "cierre"
          /\ Ir("enviar") /\ UNCHANGED <<reverso, huecos, vigente, cobradas>>
    /\ UNCHANGED <<archivos, invoice, consultada, entregadas, ventas,
                   inconclusa>>

(* generarReverso: answered, the file is dropped whether the host reversed   *)
(* or refused; unanswered, the operation ends and the file stays.            *)
verificarReversoExistente ==
    /\ pc = "verificar"
    /\ \/ /\ reverso' = Nada /\ Ir("enviar") /\ Deshacer
          /\ UNCHANGED huecos
       \/ /\ reverso' = Nada /\ Ir("enviar")
          /\ huecos' = huecos \cup {reverso.venta}
          /\ vigente' = FALSE /\ UNCHANGED cobradas
       \/ /\ Terminar
          /\ Deshacer \/ UNCHANGED <<vigente, cobradas>>
          /\ UNCHANGED <<reverso, huecos>>
    /\ UNCHANGED <<archivos, invoice, consultada, entregadas, ventas,
                   inconclusa>>

-----------------------------------------------------------------------------
(* A sale or a void at the host.                                             *)

Financiera == op \in {"venta", "anulacion"} /\ pc = "enviar"

\* The host's books after it approved the frame.
Aprobar ==
    /\ op = "anulacion" => venta \in cobradas
    /\ cobradas' = IF op = "venta" THEN cobradas \cup {venta}
                   ELSE cobradas \ {venta}

aprobada ==
    /\ Financiera /\ Aprobar
    /\ reverso' = [tipo |-> op, venta |-> venta] /\ vigente' = TRUE
    /\ Ir(IF op = "venta" THEN "borrar" ELSE "campos")
    /\ UNCHANGED <<archivos, invoice, consultada, entregadas, historia>>

declinada ==
    /\ Financiera
    /\ Terminar
    /\ UNCHANGED <<archivos, invoice, reverso, consultada, anfitrion, vigente,
                   historia>>

\* No answer: the reversal stays on file, whatever the host did.
sinRespuesta ==
    /\ Financiera
    /\ reverso' = [tipo |-> op, venta |-> venta]
    /\ \/ Aprobar /\ vigente' = TRUE
       \/ UNCHANGED cobradas /\ vigente' = FALSE
    /\ Terminar
    /\ UNCHANGED <<archivos, invoice, consultada, entregadas, historia>>

\* The sale after a balance query leaves no reversal.
sinReverso ==
    /\ Financiera /\ op = "venta"
    /\ Aprobar
    /\ huecos' = huecos \cup {venta}
    /\ Terminar
    /\ UNCHANGED <<archivos, invoice, reverso, consultada, entregadas,
                   vigente, ventas, inconclusa>>

borrarReverso ==
    /\ pc = "borrar"
    /\ reverso' = Nada /\ vigente' = FALSE
    /\ IF op = "venta" THEN Ir("guardar") ELSE Terminar
    /\ UNCHANGED <<archivos, invoice, consultada, anfitrion, historia>>

\* _guardarTransaccion_: the record, and then the entry of the directory.
guardarTransaccion ==
    /\ pc = "guardar"
    /\ escribirJournal(venta, recibo)
    /\ Ir("directorio")
    /\ UNCHANGED <<directorio, invoice, reverso, consultada, anfitrion, vigente,
                   historia>>

guardarDirectorio ==
    /\ pc = "directorio"
    /\ guardarDirectorioJournals(recibo, IF op = "venta" THEN "1" ELSE "0")
    /\ IF op = "venta" THEN Terminar ELSE Ir("borrar")
    /\ UNCHANGED <<journal, invoice, reverso, consultada, anfitrion, vigente,
                   historia>>

\* cambiarEstadoTransaccion, one write at a time.
cambiarEstadoTransaccion ==
    /\ pc = "campos"
    /\ actualizarCampo(recibo, indice)
    /\ IF indice = Len(Orden)
         THEN pc' = "directorio" /\ UNCHANGED indice
         ELSE indice' = indice + 1 /\ UNCHANGED pc
    /\ UNCHANGED <<directorio, invoice, reverso, consultada, op, venta, recibo,
                   anfitrion, vigente, historia>>

-----------------------------------------------------------------------------
(* The settlement.                                                           *)

\* A count of more than three digits loses its last one: sprintf("%03d")
\* writes it and the amount that follows overwrites it.
Conteo(n) == IF n < LimiteConteo THEN n ELSE n \div 10

\* calcularCierreVenta and empaquetarCierreVentas: the totals of the active
\* sales, their amounts told apart by the sales they come from.
Totales == [cuantas |-> Conteo(Cardinality(Activas)), monto |-> Activas]

Cuadra == /\ Totales.cuantas = Cardinality(cobradas)
          /\ Totales.monto = cobradas

EnCierre == /\ op = "cierre"
            /\ UNCHANGED <<archivos, invoice, reverso, consultada, vigente,
                           ventas, huecos>>

\* External: the host closes its batch.
CerrarLote == /\ entregadas' = entregadas \cup cobradas /\ cobradas' = {}

\* The settlement ends and the journal stays for the next one.
Dejar == Terminar /\ inconclusa' = TRUE

(* 0500 with the totals.  desempaquetarCierreVentas knows "00" (balanced)    *)
(* and "95" (upload); any other answer, or none, leaves the journal as it    *)
(* is.                                                                       *)
enviarTotales ==
    /\ EnCierre /\ pc = "enviar"
    /\ \/ Cuadra /\ CerrarLote /\ Ir("borrarJournal") /\ UNCHANGED inconclusa
       \/ Cuadra /\ CerrarLote /\ Dejar
       \/ UNCHANGED <<entregadas, cobradas, inconclusa>> /\ Ir("subir")
       \/ UNCHANGED <<entregadas, cobradas>> /\ Dejar

Subida == EnCierre /\ pc = "subir" /\ indice <= Len(journal)

\* Faulty variant: an upload without an answer is taken as made.
subirSinMirar ==
    /\ Subida
    /\ \/ entregadas' = entregadas \cup {journal[indice].venta}
       \/ UNCHANGED entregadas
    /\ indice' = indice + 1
    /\ UNCHANGED <<op, pc, venta, recibo, cobradas, inconclusa>>

(* cierreDescuadradoVenta: an active sale goes out as a 0320, and any answer *)
(* to it will do; the first one without an answer ends the settlement.       *)
subirVenta ==
    /\ Subida
    /\ \/ /\ Activa(journal[indice]) => entregadas' = entregadas \cup {journal[indice].venta}
          /\ ~Activa(journal[indice]) => UNCHANGED entregadas
          /\ indice' = indice + 1
          /\ UNCHANGED <<op, pc, venta, recibo, inconclusa>>
       \/ /\ Activa(journal[indice])
          /\ entregadas' = entregadas \cup {journal[indice].venta} \/ UNCHANGED entregadas
          /\ Dejar
    /\ UNCHANGED cobradas

(* 0500 again, as a 960000, after the uploads.  Its response code is never   *)
(* looked at: any answer erases the journal.                                 *)
enviarTotalesFinales ==
    /\ EnCierre /\ pc = "subir" /\ indice > Len(journal)
    /\ cobradas' = {} \/ UNCHANGED cobradas
    /\ (Ir("borrarJournal") /\ UNCHANGED inconclusa) \/ Dejar
    /\ UNCHANGED entregadas

\* Faulty variant: a balanced settlement forgets to erase the journal.
noBorrarJournal ==
    /\ op = "cierre" /\ pc = "borrarJournal"
    /\ Terminar
    /\ UNCHANGED <<archivos, invoice, reverso, consultada, anfitrion, vigente,
                   historia>>

\* JOURNAL goes, and JOURNAL_DCC with it; the directory stays.
borrarJournal ==
    /\ op = "cierre" /\ pc = "borrarJournal"
    /\ journal' = <<>>
    /\ Terminar
    /\ UNCHANGED <<directorio, invoice, reverso, consultada, anfitrion, vigente,
                   historia>>

-----------------------------------------------------------------------------
\* The process ends.  Between the first write of an approved operation and its
\* last one the files are left half way.
caida ==
    /\ pc # "libre"
    /\ Terminar
    /\ consultada' = SinRegistro
    /\ huecos' = IF \/ pc \in {"guardar", "directorio"}
                    \/ pc = "campos" /\ indice > 1
                    \/ pc = "borrar" /\ op = "anulacion"
                 THEN huecos \cup {venta} ELSE huecos
    /\ inconclusa' = (inconclusa \/ op = "cierre")
    /\ UNCHANGED <<archivos, invoice, reverso, anfitrion, vigente, ventas>>

PasoTerminal ==
    \/ verificarReversoExistente \/ aprobada \/ declinada
    \/ sinRespuesta \/ sinReverso \/ borrarReverso \/ guardarTransaccion
    \/ guardarDirectorio \/ cambiarEstadoTransaccion \/ enviarTotales
    \/ subirVenta \/ enviarTotalesFinales \/ borrarJournal

PasoCliente ==
    \/ iniciarVenta \/ iniciarAnulacion \/ iniciarCierre \/ eliminarReverso
    \/ \E r \in Recibos : realizarConsultaReciboAnulacion(r)

Next == PasoTerminal \/ PasoCliente \/ caida

Spec == Init /\ [][Next]_vars

-----------------------------------------------------------------------------
(* Properties.                                                               *)

\* No receipt has been handed out twice.
SinVueltaAun == ventas <= MaxRecibo

\* Every file, parameter and local has its type.
TypeOK ==
    /\ journal \in Seq(Registros) /\ directorio \in Seq(Entradas)
    /\ invoice \in 0 .. MaxRecibo
    /\ reverso \in Reversos /\ vigente \in BOOLEAN
    /\ consultada \in Registros \cup {SinRegistro}
    /\ op \in {"ninguna", "venta", "anulacion", "cierre"}
    /\ pc \in {"libre", "verificar", "enviar", "borrar", "guardar",
               "directorio", "campos", "subir", "borrarJournal"}
    /\ venta \in 0 .. MaxVentas /\ recibo \in 0 .. MaxRecibo /\ indice \in Nat
    /\ cobradas \subseteq Ventas /\ entregadas \subseteq Ventas
    /\ ventas \in 0 .. MaxVentas /\ huecos \subseteq Ventas
    /\ inconclusa \in BOOLEAN

\* The journal is erased only when the host has every active sale in it, in a
\* batch that it closed or by an upload it received, however the settlement was
\* cut before (cierre_venta.cpp:164, 199).
BorradoTrasEntrega ==
    [][journal # <<>> /\ journal' = <<>> => Activas \subseteq entregadas]_vars

\* When the totals go out, the sales they count are those of the host's open
\* batch: no approval is left unreversed and no void unrecorded, but for the
\* gaps of the reversal protocol, for a batch that the host closed and the
\* terminal does not know of, and for the sales of an upload.
CierreCuadra ==
    op = "cierre" /\ pc = "enviar" /\ SinVueltaAun =>
        Activas \ (huecos \cup entregadas) = cobradas \ (huecos \cup entregadas)

\* A sale is uploaded a second time, or after the host settled it, only if an
\* earlier settlement was left without its last answer.
SinDobleEntrega ==
    [][/\ pc = "subir" /\ indice <= Len(journal) /\ indice' = indice + 1
       /\ Activa(journal[indice])
       => journal[indice].venta \notin entregadas \/ inconclusa]_vars

\* No record is half sale and half void: one with any data of a void says that
\* it is annulled, and has them all once the void is over, unless the process
\* ended in between (anulacion_venta.cpp:1024-1058).
RegistroCoherente ==
    \A i \in DOMAIN journal : LET r == journal[i] IN
        /\ r.anulados # {} => ~Activa(r)
        /\ \/ ~SinVueltaAun
           \/ r.anulados \in {{}, Campos}
           \/ r.venta \in huecos
           \/ pc = "campos" /\ recibo = r.recibo

\* Before receipts start again, the directory leads to the record that the
\* journal has under a receipt, so that the void and the duplicate of a receipt
\* find the same sale; unless the process ended between the two writes.
DirectorioPropio ==
    SinVueltaAun =>
        \A i \in DOMAIN journal :
            LET r == journal[i]
                e == buscarReciboMulticorresponsal(r.recibo)
            IN \/ e # 0 /\ directorio[e].posicion = i /\ buscarRecibo(r.recibo) = i
               \/ r.venta \in huecos
               \/ pc = "directorio" /\ venta = r.venta
=============================================================================
