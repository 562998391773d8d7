---------------------------- MODULE PruebasCierre ----------------------------
(***************************************************************************)
(* Proofs about the settlement (Diario, Cierre): the files keep their      *)
(* types, and the journal goes only when the host has what is active in it.*)
(* The second needs what the upload loop knows at each turn: the active    *)
(* records it has passed were delivered, and nothing touches the journal   *)
(* while it runs.  That nothing is delivered twice needs the other half:   *)
(* what is not passed yet was not delivered, for which sales are numbered  *)
(* and have one record each.  The last part is about the batch as a whole: *)
(* while receipts are not handed out twice, each sale has one of its own,  *)
(* so that a search by receipt finds its record and its entry, and the     *)
(* books of the host differ from the journal only in what a reversal on    *)
(* file, or the operation under way, is about to put right.                *)
(***************************************************************************)
EXTENDS Cierre, SequenceTheorems, TLAPS

\* Which operation is at each place, and where a settlement starts to count.
Lugares ==
    /\ pc \in {"subir", "borrarJournal"} => op = "cierre"
    /\ pc \in {"borrar", "guardar", "directorio", "campos"} => op # "cierre"
    /\ op \in {"anulacion", "cierre"} /\ pc \in {"verificar", "enviar"} => indice = 1
    /\ pc = "campos" => indice \in 1 .. 3
    /\ pc = "subir" => indice # 0
    /\ pc = "verificar" => reverso # Nada
    /\ pc = "campos" => op = "anulacion"
    /\ pc = "guardar" => op = "venta"
    /\ pc = "libre" <=> op = "ninguna"
    /\ op \in {"venta", "anulacion"} => venta \in Ventas /\ recibo \in Recibos

\* The records before the one in hand were delivered.
Pasadas ==
    pc = "subir" =>
        \A i \in DOMAIN journal :
            i < indice /\ Activa(journal[i]) => journal[i].venta \in entregadas

Entregado == pc = "borrarJournal" => Activas \subseteq entregadas

IInv == TypeOK /\ Lugares /\ Pasadas /\ Entregado

LEMMA Constantes ==
    /\ MaxVentas \in Nat /\ MaxVentas > 0 /\ MaxRecibo \in Nat /\ MaxRecibo > 0
    /\ ReciboInicial \in 0 .. MaxRecibo
    /\ 0 \in 0 .. MaxVentas /\ 0 \in 0 .. MaxRecibo /\ 0 \in Nat
    /\ Nada \in Reversos
BY MaxVentasAssumption, MaxReciboAssumption, ReciboInicialAssumption DEF Reversos

LEMMA ReciboNuevo == invoice \in 0 .. MaxRecibo => NuevoRecibo \in Recibos
BY MaxReciboAssumption DEF NuevoRecibo, Recibos

\* Outside the uploads and the erasure there is nothing more to see.
LEMMA PasoFuera ==
    ASSUME TypeOK', Lugares', pc' \notin {"subir", "borrarJournal"} PROVE IInv'
BY DEF IInv, Pasadas, Entregado

LEMMA InitIInv == Init => IInv
<1> SUFFICES ASSUME Init PROVE IInv
  OBVIOUS
<1>1. <<>> \in Seq(Registros) /\ <<>> \in Seq(Entradas)
  OBVIOUS
<1>2. TypeOK
  BY <1>1, Constantes DEF Init, TypeOK
<1>3. QED
  BY <1>2 DEF Init, IInv, Lugares, Pasadas, Entregado

-----------------------------------------------------------------------------
(* The files.                                                                *)

LEMMA TipoEscribir ==
    ASSUME TypeOK, venta \in Ventas, recibo \in Recibos, escribirJournal(venta, recibo)
    PROVE  journal' \in Seq(Registros) /\ journal' # <<>>
<1>1. [venta |-> venta, recibo |-> recibo, anulados |-> {}] \in Registros
  BY DEF Registros
<1>2. journal \in Seq(Registros)
  BY DEF TypeOK
<1>3. QED
  BY <1>1, <1>2, AppendProperties DEF escribirJournal

LEMMA TipoDirectorio ==
    ASSUME TypeOK, recibo \in Recibos, NEW e \in {"0", "1"},
           guardarDirectorioJournals(recibo, e)
    PROVE  directorio' \in Seq(Entradas)
<1>1. journal \in Seq(Registros) /\ Len(journal) \in Nat
  BY DEF TypeOK
<1>2. [recibo |-> recibo, posicion |-> Len(journal), estado |-> e] \in Entradas
  BY <1>1 DEF Entradas
<1>3. QED
  BY <1>2 DEF guardarDirectorioJournals, TypeOK

\* A write of a void keeps the length of the journal and the type of a record.
LEMMA TipoActualizar ==
    ASSUME TypeOK, NEW n \in 1 .. 3, NEW r, actualizarCampo(r, n)
    PROVE  journal' \in Seq(Registros) /\ DOMAIN journal' = DOMAIN journal
<1> DEFINE i == buscarRecibo(r)
           nuevo == [journal[i] EXCEPT !.anulados = @ \cup {Orden[n]}]
<1>1. journal \in Seq(Registros)
  BY DEF TypeOK
<1>2. CASE i = 0 \/ i \notin DOMAIN journal
  <2>1. CASE i = 0
    BY <1>1, <2>1 DEF actualizarCampo
  <2>2. CASE i # 0 /\ i \notin DOMAIN journal
    <3>1. journal' = [journal EXCEPT ![i] = nuevo]
      BY <2>2 DEF actualizarCampo
    <3>2. journal' = journal
      BY <2>2, <3>1, <1>1
    <3>3. QED
      BY <1>1, <3>2
  <2>3. QED
    BY <1>2, <2>1, <2>2
<1>3. CASE i # 0 /\ i \in DOMAIN journal
  <2>1. Orden[n] \in Campos
    BY DEF Orden, Campos
  <2>2. journal[i] \in Registros
    BY <1>1, <1>3
  <2>3. nuevo \in Registros
    BY <2>1, <2>2 DEF Registros
  <2>4. journal' = [journal EXCEPT ![i] = nuevo]
    BY <1>3 DEF actualizarCampo
  <2>5. QED
    BY <1>1, <1>3, <2>3, <2>4, ExceptSeq
<1>4. QED
  BY <1>2, <1>3

-----------------------------------------------------------------------------
(* The client.                                                               *)

LEMMA PasoIniciar ==
    ASSUME IInv, iniciarVenta \/ iniciarAnulacion \/ iniciarCierre PROVE IInv'
<1>1. /\ UNCHANGED <<journal, directorio, reverso, consultada, cobradas, entregadas,
                     vigente, huecos, inconclusa>>
      /\ pc' \in {"enviar", "verificar"} /\ op' \in {"venta", "anulacion", "cierre"}
      /\ op' \in {"anulacion", "cierre"} => indice' = 1
      /\ pc' = "verificar" => reverso # Nada
      /\ indice' \in Nat
  BY DEF iniciarVenta, iniciarAnulacion, iniciarCierre, Empezar, archivos, anfitrion,
     historia
<1>2. /\ invoice' \in 0 .. MaxRecibo /\ ventas' \in 0 .. MaxVentas
      /\ venta' \in 0 .. MaxVentas /\ recibo' \in 0 .. MaxRecibo
      /\ op' \in {"venta", "anulacion"} => venta' \in Ventas /\ recibo' \in Recibos
  <2>1. CASE iniciarVenta
    BY <2>1, ReciboNuevo, Constantes DEF iniciarVenta, Empezar, IInv, TypeOK, Ventas, Recibos
  <2>2. CASE iniciarAnulacion
    <3>1. consultada \in Registros
      BY <2>2 DEF iniciarAnulacion, IInv, TypeOK
    <3>2. venta' \in Ventas /\ recibo' \in Recibos
      BY <2>2, <3>1 DEF iniciarAnulacion, Registros
    <3>3. QED
      BY <2>2, <3>2, Constantes DEF iniciarAnulacion, Empezar, IInv, TypeOK, Ventas,
         Recibos, historia
  <2>3. CASE iniciarCierre
    BY <2>3 DEF iniciarCierre, Empezar, IInv, TypeOK, historia
  <2>4. QED
    BY <2>1, <2>2, <2>3
<1>3. TypeOK'
  BY <1>1, <1>2 DEF IInv, TypeOK
<1>4. Lugares'
  BY <1>1, <1>2 DEF Lugares
<1>5. QED
  BY <1>1, <1>3, <1>4, PasoFuera

LEMMA PasoConsulta ==
    ASSUME IInv, NEW r \in Recibos, realizarConsultaReciboAnulacion(r) PROVE IInv'
<1>1. /\ UNCHANGED <<journal, directorio, invoice, reverso, lugar, anfitrion, vigente,
                     historia>>
      /\ pc = "libre"
      /\ consultada' = SinRegistro
         \/ \E i \in DOMAIN journal : consultada' = journal[i]
  BY DEF realizarConsultaReciboAnulacion, archivos
<1>2. consultada' \in Registros \cup {SinRegistro}
  <2>1. journal \in Seq(Registros)
    BY DEF IInv, TypeOK
  <2>2. QED
    BY <1>1, <2>1
<1>3. TypeOK'
  BY <1>1, <1>2 DEF IInv, TypeOK, lugar, anfitrion, historia
<1>4. Lugares' /\ pc' = "libre"
  BY <1>1 DEF IInv, Lugares, lugar
<1>5. QED
  BY <1>3, <1>4, PasoFuera

LEMMA Pasoeliminar ==
    ASSUME IInv, eliminarReverso PROVE IInv'
<1>1. /\ UNCHANGED <<journal, directorio, invoice, consultada, op, pc, venta, recibo,
                     indice, cobradas, entregadas, ventas, inconclusa>>
      /\ pc = "libre" /\ reverso' = Nada /\ vigente' = FALSE
      /\ reverso # Nada /\ huecos' = huecos \cup {reverso.venta}
  BY DEF eliminarReverso, archivos, lugar, anfitrion
<1>2. reverso.venta \in Ventas
  BY <1>1 DEF IInv, TypeOK, Reversos
<1>3. TypeOK'
  BY <1>1, <1>2 DEF IInv, TypeOK, Reversos
<1>4. Lugares' /\ pc' = "libre"
  BY <1>1 DEF IInv, Lugares
<1>5. QED
  BY <1>3, <1>4, PasoFuera

-----------------------------------------------------------------------------
(* The operations.                                                           *)

LEMMA PasoVerificar ==
    ASSUME IInv, verificarReversoExistente PROVE IInv'
<1>1. /\ UNCHANGED <<journal, directorio, invoice, consultada, entregadas, ventas,
                     inconclusa>>
      /\ pc = "verificar" /\ reverso' \in {Nada, reverso}
      /\ \/ /\ pc' = "enviar" /\ UNCHANGED <<op, venta, recibo, indice>>
         \/ /\ pc' = "libre" /\ op' = "ninguna" /\ venta' = 0 /\ recibo' = 0
            /\ indice' = 0
      /\ vigente' \in {FALSE, vigente}
  BY DEF verificarReversoExistente, Ir, Terminar, Deshacer, archivos
<1>2. /\ cobradas' \in {cobradas, cobradas \ {reverso.venta}, cobradas \cup {reverso.venta}}
      /\ huecos' \in {huecos, huecos \cup {reverso.venta}}
  BY DEF verificarReversoExistente, Deshacer
<1>3. reverso.venta \in Ventas
  BY <1>1 DEF IInv, TypeOK, Lugares, Reversos
<1>4. cobradas' \subseteq Ventas /\ huecos' \subseteq Ventas
  BY <1>2, <1>3 DEF IInv, TypeOK
<1>5. TypeOK'
  BY <1>1, <1>4, Constantes DEF IInv, TypeOK
<1>6. Lugares'
  BY <1>1 DEF IInv, Lugares
<1>7. QED
  BY <1>1, <1>5, <1>6, PasoFuera

LEMMA PasoFinanciera ==
    ASSUME IInv, aprobada \/ declinada \/ sinRespuesta \/ sinReverso PROVE IInv'
<1>1. op \in {"venta", "anulacion"} /\ pc = "enviar" /\ venta \in Ventas
      /\ recibo \in Recibos
  BY DEF aprobada, declinada, sinRespuesta, sinReverso, Financiera, IInv, Lugares
<1>2. /\ UNCHANGED <<journal, directorio, invoice, consultada, entregadas, ventas,
                     inconclusa>>
      /\ reverso' \in {reverso, [tipo |-> op, venta |-> venta]}
      /\ vigente' \in {vigente, TRUE, FALSE}
      /\ cobradas' \in {cobradas, cobradas \cup {venta}, cobradas \ {venta}}
      /\ huecos' \in {huecos, huecos \cup {venta}}
      /\ \/ /\ pc' \in {"borrar", "campos"} /\ UNCHANGED <<op, venta, recibo, indice>>
         \/ /\ pc' = "libre" /\ op' = "ninguna" /\ venta' = 0 /\ recibo' = 0
            /\ indice' = 0
      /\ pc' = "campos" => op = "anulacion"
  BY <1>1 DEF aprobada, declinada, sinRespuesta, sinReverso, Aprobar, Ir, Terminar,
     archivos, anfitrion, historia
<1>3. [tipo |-> op, venta |-> venta] \in Reversos
  BY <1>1 DEF Reversos
<1>4. TypeOK'
  BY <1>1, <1>2, <1>3, Constantes DEF IInv, TypeOK
<1>5. Lugares'
  BY <1>1, <1>2 DEF IInv, Lugares
<1>6. QED
  BY <1>2, <1>4, <1>5, PasoFuera

LEMMA PasoBorrarReverso ==
    ASSUME IInv, borrarReverso PROVE IInv'
<1>1. /\ UNCHANGED <<journal, directorio, invoice, consultada, cobradas, entregadas,
                     ventas, huecos, inconclusa>>
      /\ pc = "borrar" /\ reverso' = Nada /\ vigente' = FALSE /\ op # "cierre"
      /\ \/ pc' = "guardar" /\ op = "venta" /\ UNCHANGED <<op, venta, recibo, indice>>
         \/ /\ pc' = "libre" /\ op' = "ninguna" /\ venta' = 0 /\ recibo' = 0
            /\ indice' = 0
  BY DEF borrarReverso, Ir, Terminar, archivos, anfitrion, historia, IInv, Lugares
<1>2. TypeOK'
  BY <1>1, Constantes DEF IInv, TypeOK
<1>3. Lugares'
  BY <1>1 DEF IInv, Lugares
<1>4. QED
  BY <1>1, <1>2, <1>3, PasoFuera

\* An approved sale or void on its way to the files.
LEMMA PasoRegistrar ==
    ASSUME IInv, guardarTransaccion \/ guardarDirectorio \/ cambiarEstadoTransaccion
    PROVE  IInv'
<1>1. /\ UNCHANGED <<invoice, reverso, consultada, cobradas, entregadas, vigente,
                     ventas, huecos, inconclusa>>
      /\ pc \in {"guardar", "directorio", "campos"}
  BY DEF guardarTransaccion, guardarDirectorio, cambiarEstadoTransaccion, anfitrion,
     historia
<1>2. op \in {"venta", "anulacion"} /\ venta \in Ventas /\ recibo \in Recibos
  BY <1>1 DEF IInv, Lugares, TypeOK
<1>3. CASE guardarTransaccion
  <2>1. /\ journal' \in Seq(Registros) /\ UNCHANGED <<directorio, op, venta, recibo, indice>>
        /\ pc' = "directorio"
    BY <1>2, <1>3, TipoEscribir DEF guardarTransaccion, Ir, IInv
  <2>2. TypeOK'
    BY <1>1, <2>1 DEF IInv, TypeOK
  <2>3. Lugares'
    BY <1>2, <2>1 DEF IInv, Lugares
  <2>4. QED
    BY <2>1, <2>2, <2>3, PasoFuera
<1>4. CASE guardarDirectorio
  <2>1. /\ directorio' \in Seq(Entradas) /\ UNCHANGED journal
        /\ \/ pc' = "borrar" /\ UNCHANGED <<op, venta, recibo, indice>>
           \/ /\ pc' = "libre" /\ op' = "ninguna" /\ venta' = 0 /\ recibo' = 0
              /\ indice' = 0
    BY <1>2, <1>4, TipoDirectorio DEF guardarDirectorio, Ir, Terminar, IInv
  <2>2. TypeOK'
    BY <1>1, <2>1, Constantes DEF IInv, TypeOK
  <2>3. Lugares'
    BY <1>2, <2>1 DEF IInv, Lugares
  <2>4. QED
    BY <2>1, <2>2, <2>3, PasoFuera
<1>5. CASE cambiarEstadoTransaccion
  <2>1. Len(Orden) = 3
    BY DEF Orden
  <2>2. /\ UNCHANGED <<directorio, op, venta, recibo>> /\ indice' \in {indice, indice + 1}
        /\ pc' \in {"campos", "directorio"} /\ pc = "campos" /\ indice \in 1 .. 3
        /\ actualizarCampo(recibo, indice)
        /\ pc' = "campos" => indice # 3
    BY <1>5, <2>1 DEF cambiarEstadoTransaccion, IInv, Lugares
  <2>3. journal' \in Seq(Registros)
    BY <2>2, TipoActualizar DEF IInv
  <2>4. TypeOK'
    BY <1>1, <2>2, <2>3 DEF IInv, TypeOK
  <2>5. Lugares'
    BY <1>2, <2>2 DEF IInv, Lugares
  <2>6. QED
    BY <2>2, <2>4, <2>5, PasoFuera
<1>6. QED
  BY <1>3, <1>4, <1>5

-----------------------------------------------------------------------------
(* The settlement.                                                           *)

LEMMA PasoTotales ==
    ASSUME IInv, enviarTotales PROVE IInv'
<1>1. /\ UNCHANGED <<journal, directorio, invoice, reverso, consultada, vigente,
                     ventas, huecos>>
      /\ op = "cierre" /\ pc = "enviar" /\ indice = 1
      /\ pc' \in {"borrarJournal", "subir", "libre"}
      /\ \/ pc' # "libre" /\ UNCHANGED <<op, venta, recibo, indice, inconclusa>>
         \/ /\ pc' = "libre" /\ op' = "ninguna" /\ venta' = 0 /\ recibo' = 0
            /\ indice' = 0 /\ inconclusa' = TRUE
      /\ cobradas' \in {cobradas, {}}
      /\ entregadas' \in {entregadas, entregadas \cup cobradas}
  BY DEF enviarTotales, EnCierre, CerrarLote, Dejar, Ir, Terminar, archivos, IInv,
     Lugares
<1>2. pc' = "borrarJournal" => Activas = cobradas /\ entregadas' = entregadas \cup cobradas
  BY <1>1 DEF enviarTotales, CerrarLote, Cuadra, Totales, Ir, Dejar, Terminar
<1>3. TypeOK'
  BY <1>1, Constantes DEF IInv, TypeOK
<1>4. Lugares'
  BY <1>1 DEF IInv, Lugares
<1>5. Activas' = Activas
  BY <1>1 DEF Activas, Activa
<1>6. Entregado'
  BY <1>2, <1>5 DEF Entregado
<1>7. Pasadas'
  <2>1. SUFFICES ASSUME pc' = "subir", NEW i \in DOMAIN journal', i < indice' PROVE FALSE
    BY DEF Pasadas
  <2>2. indice' = 1 /\ i \in Nat \ {0}
    <3>1. journal \in Seq(Registros)
      BY DEF IInv, TypeOK
    <3>2. QED
      BY <1>1, <2>1, <3>1
  <2>3. QED
    BY <2>1, <2>2
<1>8. QED
  BY <1>3, <1>4, <1>6, <1>7 DEF IInv

LEMMA PasoSubirVenta ==
    ASSUME IInv, subirVenta PROVE IInv'
<1>1. /\ UNCHANGED <<journal, directorio, invoice, reverso, consultada, vigente,
                     ventas, huecos, cobradas>>
      /\ op = "cierre" /\ pc = "subir" /\ indice <= Len(journal) /\ indice # 0
      /\ entregadas' \in {entregadas, entregadas \cup {journal[indice].venta}}
      /\ \/ /\ pc' = "subir" /\ UNCHANGED <<op, venta, recibo, inconclusa>>
            /\ indice' = indice + 1
            /\ Activa(journal[indice]) => journal[indice].venta \in entregadas'
         \/ /\ pc' = "libre" /\ op' = "ninguna" /\ venta' = 0 /\ recibo' = 0
            /\ indice' = 0 /\ inconclusa' = TRUE
            /\ Activa(journal[indice])
      /\ entregadas' # entregadas => Activa(journal[indice])
  BY DEF subirVenta, Subida, EnCierre, Dejar, Terminar, archivos, IInv, Lugares
<1>2. journal \in Seq(Registros) /\ indice \in Nat
  BY DEF IInv, TypeOK
<1>3. journal[indice].venta \in Ventas
  <2>1. indice \in 1 .. Len(journal)
    BY <1>1, <1>2
  <2>2. journal[indice] \in Registros
    BY <1>2, <2>1
  <2>3. QED
    BY <2>2 DEF Registros
<1>4. TypeOK'
  <2>1. entregadas' \subseteq Ventas /\ indice' \in Nat
    BY <1>1, <1>2, <1>3 DEF IInv, TypeOK
  <2>2. QED
    BY <1>1, <2>1, Constantes DEF IInv, TypeOK
<1>5. Lugares'
  BY <1>1, <1>2 DEF IInv, Lugares
<1>6. Pasadas'
  <2>1. SUFFICES ASSUME pc' = "subir", NEW i \in DOMAIN journal', i < indice',
                        Activa(journal'[i])
                 PROVE  journal'[i].venta \in entregadas'
    BY DEF Pasadas, Activa
  <2>2. journal' = journal /\ indice' = indice + 1 /\ entregadas \subseteq entregadas'
    BY <1>1, <2>1
  <2>3. i = indice \/ i < indice
    BY <1>2, <2>1, <2>2
  <2>4. QED
    BY <1>1, <2>1, <2>2, <2>3 DEF IInv, Pasadas
<1>7. QED
  BY <1>1, <1>4, <1>5, <1>6 DEF IInv, Entregado

LEMMA PasoTotalesFinales ==
    ASSUME IInv, enviarTotalesFinales PROVE IInv'
<1>1. /\ UNCHANGED <<journal, directorio, invoice, reverso, consultada, vigente,
                     ventas, huecos, entregadas>>
      /\ op = "cierre" /\ pc = "subir" /\ indice > Len(journal)
      /\ pc' \in {"borrarJournal", "libre"} /\ cobradas' \in {cobradas, {}}
      /\ \/ pc' # "libre" /\ UNCHANGED <<op, venta, recibo, indice, inconclusa>>
         \/ /\ pc' = "libre" /\ op' = "ninguna" /\ venta' = 0 /\ recibo' = 0
            /\ indice' = 0 /\ inconclusa' = TRUE
  BY DEF enviarTotalesFinales, EnCierre, Dejar, Ir, Terminar, archivos
<1>2. Activas \subseteq entregadas
  <2>1. journal \in Seq(Registros) /\ Len(journal) \in Nat /\ indice \in Nat
    BY DEF IInv, TypeOK
  <2>2. \A i \in DOMAIN journal : i < indice
    BY <1>1, <2>1
  <2>3. QED
    BY <1>1, <2>2 DEF IInv, Pasadas, Activas
<1>3. Activas' = Activas
  BY <1>1 DEF Activas, Activa
<1>4. TypeOK'
  BY <1>1, Constantes DEF IInv, TypeOK
<1>5. Lugares'
  BY <1>1 DEF IInv, Lugares
<1>6. Entregado' /\ Pasadas'
  BY <1>1, <1>2, <1>3 DEF Entregado, Pasadas
<1>7. QED
  BY <1>4, <1>5, <1>6 DEF IInv

LEMMA PasoBorrarJournal ==
    ASSUME IInv, borrarJournal PROVE IInv'
<1>1. /\ UNCHANGED <<directorio, invoice, reverso, consultada, vigente, cobradas,
                     entregadas, ventas, huecos, inconclusa>>
      /\ journal' = <<>> /\ pc' = "libre" /\ op' = "ninguna" /\ venta' = 0
      /\ recibo' = 0 /\ indice' = 0
  BY DEF borrarJournal, Terminar, anfitrion, historia
<1>2. <<>> \in Seq(Registros)
  OBVIOUS
<1>3. TypeOK'
  BY <1>1, <1>2, Constantes DEF IInv, TypeOK
<1>4. Lugares'
  BY <1>1 DEF Lugares
<1>5. QED
  BY <1>1, <1>3, <1>4, PasoFuera

LEMMA PasoCaida ==
    ASSUME IInv, caida PROVE IInv'
<1>1. /\ UNCHANGED <<journal, directorio, invoice, reverso, vigente, cobradas,
                     entregadas, ventas>>
      /\ pc' = "libre" /\ op' = "ninguna" /\ venta' = 0 /\ recibo' = 0 /\ indice' = 0
      /\ consultada' = SinRegistro /\ inconclusa' \in BOOLEAN
  BY DEF caida, Terminar, archivos, anfitrion
<1>2. huecos' \subseteq Ventas
  <2>1. pc \in {"guardar", "directorio", "campos"} \/ (pc = "borrar" /\ op = "anulacion")
        => venta \in Ventas
    BY DEF IInv, Lugares, TypeOK
  <2>2. huecos \subseteq Ventas
    BY DEF IInv, TypeOK
  <2>3. QED
    BY <2>1, <2>2 DEF caida
<1>3. TypeOK'
  BY <1>1, <1>2, Constantes DEF IInv, TypeOK
<1>4. Lugares'
  BY <1>1 DEF Lugares
<1>5. QED
  BY <1>1, <1>3, <1>4, PasoFuera

LEMMA PasoIgual ==
    ASSUME IInv, UNCHANGED vars PROVE IInv'
<1>1. TypeOK' /\ Lugares' /\ Pasadas' /\ Entregado'
  BY DEF IInv, TypeOK, Lugares, Pasadas, Entregado, Activas, Activa, vars, archivos,
     lugar, anfitrion, historia
<1>2. QED
  BY <1>1 DEF IInv

\* One case per action.
LEMMA Paso == IInv /\ [Next]_vars => IInv'
<1> SUFFICES ASSUME IInv, [Next]_vars PROVE IInv'
  OBVIOUS
<1>1. CASE PasoCliente
  BY <1>1, PasoIniciar, PasoConsulta, Pasoeliminar DEF PasoCliente
<1>2. CASE PasoTerminal
  BY <1>2, PasoVerificar, PasoFinanciera, PasoBorrarReverso, PasoRegistrar, PasoTotales,
     PasoSubirVenta, PasoTotalesFinales, PasoBorrarJournal DEF PasoTerminal
<1>3. CASE caida
  BY <1>3, PasoCaida
<1>4. CASE UNCHANGED vars
  BY <1>4, PasoIgual
<1>5. QED
  BY <1>1, <1>2, <1>3, <1>4 DEF Next

LEMMA SiempreIInv == Spec => []IInv
BY InitIInv, Paso, PTL DEF Spec

\* Files, parameters and locals keep their types.
THEOREM CierreTypeOK == Spec => []TypeOK
<1>1. IInv => TypeOK
  BY DEF IInv
<1>2. QED
  BY <1>1, SiempreIInv, PTL

\* Only the last step of a settlement empties the journal.
LEMMA SoloBorrarJournal ==
    ASSUME IInv, [Next]_vars, journal # <<>>, journal' = <<>>
    PROVE  pc = "borrarJournal"
<1>1. journal \in Seq(Registros)
  BY DEF IInv, TypeOK
<1>2. CASE guardarTransaccion
  <2>1. venta \in Ventas /\ recibo \in Recibos
    BY <1>2 DEF guardarTransaccion, IInv, Lugares, TypeOK
  <2>2. QED
    BY <1>2, <2>1, TipoEscribir DEF guardarTransaccion, IInv
<1>3. CASE cambiarEstadoTransaccion
  <2>1. indice \in 1 .. 3 /\ actualizarCampo(recibo, indice)
    BY <1>3 DEF cambiarEstadoTransaccion, IInv, Lugares
  <2>2. DOMAIN journal' = DOMAIN journal
    BY <2>1, TipoActualizar DEF IInv
  <2>3. QED
    BY <1>1, <2>2
<1>4. CASE borrarJournal
  BY <1>4 DEF borrarJournal
<1>5. CASE PasoCliente \/ caida \/ UNCHANGED vars
  <2>1. journal' = journal
    BY <1>5 DEF PasoCliente, iniciarVenta, iniciarAnulacion, iniciarCierre,
       eliminarReverso, realizarConsultaReciboAnulacion, caida, vars, archivos
  <2>2. QED
    BY <2>1
<1>6. CASE \/ verificarReversoExistente \/ aprobada \/ declinada \/ sinRespuesta
           \/ sinReverso \/ borrarReverso \/ guardarDirectorio \/ enviarTotales
           \/ subirVenta \/ enviarTotalesFinales
  <2>1. journal' = journal
    BY <1>6 DEF verificarReversoExistente, aprobada, declinada, sinRespuesta, sinReverso,
       borrarReverso, guardarDirectorio, enviarTotales, subirVenta, Subida,
       enviarTotalesFinales, EnCierre, archivos
  <2>2. QED
    BY <2>1
<1>7. QED
  BY <1>2, <1>3, <1>4, <1>5, <1>6 DEF Next, PasoTerminal

\* The journal is erased only when the host has every active sale in it, by the
\* balance of the totals or by the uploads, however the settlement went.
THEOREM CierreBorradoTrasEntrega == Spec => BorradoTrasEntrega
<1>1. IInv /\ [Next]_vars =>
          [journal # <<>> /\ journal' = <<>> => Activas \subseteq entregadas]_vars
  BY SoloBorrarJournal DEF IInv, Entregado
<1>2. QED
  BY <1>1, SiempreIInv, PTL DEF Spec, BorradoTrasEntrega

-----------------------------------------------------------------------------
(* No sale is delivered twice by settlements that reach their last answer.   *)

\* Sales are numbered as they start; the one under way is the last.
Numeradas ==
    /\ cobradas \subseteq 1 .. ventas /\ entregadas \subseteq 1 .. ventas
    /\ \A i \in DOMAIN journal : journal[i].venta \in 1 .. ventas
    /\ reverso.venta \in 0 .. ventas /\ consultada.venta \in 0 .. ventas
    /\ venta \in 0 .. ventas
    /\ op = "venta" => venta \notin entregadas
    /\ op = "venta" /\ pc # "directorio" =>
           \A i \in DOMAIN journal : journal[i].venta # venta

\* A sale has one record.
Unicas == \A i, j \in DOMAIN journal : journal[i].venta = journal[j].venta => i = j

\* What is still to be uploaded was not delivered.
SinEntregar ==
    ~inconclusa =>
        \A j \in DOMAIN journal :
            Activa(journal[j]) /\ journal[j].venta \in entregadas =>
                pc = "borrarJournal" \/ (pc = "subir" /\ j < indice)

IInvEntrega == IInv /\ Numeradas /\ Unicas /\ SinEntregar

LEMMA InitEntrega == Init => IInvEntrega
<1> SUFFICES ASSUME Init PROVE IInvEntrega
  OBVIOUS
<1>1. ventas \in Nat /\ 0 \in 0 .. ventas
  BY DEF Init
<1>2. reverso.venta = 0 /\ consultada.venta = 0
  BY DEF Init, Nada, SinRegistro
<1>3. DOMAIN journal = {}
  BY DEF Init
<1>4. QED
  BY <1>1, <1>2, <1>3, InitIInv DEF Init, IInvEntrega, Numeradas, Unicas, SinEntregar

\* A step that touches neither the journal nor what was delivered, outside the
\* uploads or at the end of a settlement that did not reach its last answer.
LEMMA PasoSinDiario ==
    ASSUME IInvEntrega, IInv', UNCHANGED <<journal, entregadas>>,
           ventas' \in {ventas, ventas + 1},
           cobradas' \subseteq 1 .. ventas', reverso'.venta \in 0 .. ventas',
           consultada'.venta \in 0 .. ventas', venta' \in 0 .. ventas',
           op' = "venta" =>
               \/ op = "venta" /\ venta' = venta /\ pc # "directorio"
               \/ venta' = ventas + 1 /\ ventas' = ventas + 1,
           inconclusa' \/ (~inconclusa /\ pc \notin {"subir", "borrarJournal"})
    PROVE  IInvEntrega'
<1>1. ventas \in Nat /\ inconclusa \in BOOLEAN
  BY DEF IInvEntrega, IInv, TypeOK
<1>2. Numeradas'
  BY <1>1 DEF IInvEntrega, Numeradas
<1>3. Unicas' /\ SinEntregar'
  BY DEF IInvEntrega, Unicas, SinEntregar, Activa
<1>4. QED
  BY <1>2, <1>3 DEF IInvEntrega

LEMMA EntregaCliente ==
    ASSUME IInvEntrega, IInv', PasoCliente PROVE IInvEntrega'
<1>1. /\ UNCHANGED <<journal, entregadas, inconclusa, cobradas>>
      /\ pc = "libre" /\ ventas \in Nat /\ inconclusa \in BOOLEAN
  BY DEF PasoCliente, iniciarVenta, iniciarAnulacion, iniciarCierre, eliminarReverso,
     realizarConsultaReciboAnulacion, archivos, anfitrion, historia, IInvEntrega, IInv,
     TypeOK
<1>2. /\ cobradas \subseteq 1 .. ventas /\ reverso.venta \in 0 .. ventas
      /\ consultada.venta \in 0 .. ventas /\ venta \in 0 .. ventas
      /\ \A i \in DOMAIN journal : journal[i].venta \in 1 .. ventas
      /\ op = "ninguna"
  BY <1>1 DEF IInvEntrega, Numeradas, IInv, Lugares
<1>3. CASE iniciarVenta
  BY <1>1, <1>2, <1>3, PasoSinDiario DEF iniciarVenta, Empezar
<1>4. CASE iniciarAnulacion
  BY <1>1, <1>2, <1>4, PasoSinDiario DEF iniciarAnulacion, Empezar, historia
<1>5. CASE iniciarCierre
  BY <1>1, <1>2, <1>5, PasoSinDiario DEF iniciarCierre, Empezar, historia
<1>6. CASE eliminarReverso
  BY <1>1, <1>2, <1>6, PasoSinDiario DEF eliminarReverso, lugar, Nada
<1>7. CASE \E r \in Recibos : realizarConsultaReciboAnulacion(r)
  <2>1. /\ UNCHANGED <<ventas, reverso, op, venta>>
        /\ consultada' = SinRegistro
           \/ \E i \in DOMAIN journal : consultada' = journal[i]
    BY <1>7 DEF realizarConsultaReciboAnulacion, lugar, historia
  <2>2. consultada'.venta \in 0 .. ventas
    BY <1>1, <1>2, <2>1 DEF SinRegistro
  <2>3. QED
    BY <1>1, <1>2, <2>1, <2>2, PasoSinDiario
<1>8. QED
  BY <1>3, <1>4, <1>5, <1>6, <1>7 DEF PasoCliente

LEMMA EntregaOperacion ==
    ASSUME IInvEntrega, IInv',
           \/ verificarReversoExistente \/ aprobada \/ declinada \/ sinRespuesta
           \/ sinReverso \/ borrarReverso \/ guardarDirectorio
    PROVE  IInvEntrega'
<1>1. /\ UNCHANGED <<journal, entregadas, inconclusa, ventas, consultada>>
      /\ pc \notin {"subir", "borrarJournal"}
      /\ op' \in {op, "ninguna"} /\ venta' \in {venta, 0}
      /\ op' = "venta" => op = "venta" /\ venta' = venta /\ pc # "directorio"
      /\ reverso' \in {reverso, Nada, [tipo |-> op, venta |-> venta]}
  BY DEF verificarReversoExistente, aprobada, declinada, sinRespuesta, sinReverso,
     borrarReverso, guardarDirectorio, Financiera, Ir, Terminar, archivos, anfitrion,
     historia
<1>2. ventas \in Nat /\ inconclusa \in BOOLEAN /\ reverso \in Reversos
  BY DEF IInvEntrega, IInv, TypeOK
<1>3. /\ cobradas \subseteq 1 .. ventas /\ reverso.venta \in 0 .. ventas
      /\ consultada.venta \in 0 .. ventas /\ venta \in 0 .. ventas
  BY DEF IInvEntrega, Numeradas
<1>4. reverso'.venta \in 0 .. ventas
  BY <1>1, <1>2, <1>3 DEF Nada
<1>5. cobradas' \subseteq 1 .. ventas
  <2>1. CASE verificarReversoExistente
    <3>1. reverso.venta \in Ventas
      BY <2>1 DEF verificarReversoExistente, IInvEntrega, IInv, TypeOK, Lugares, Reversos
    <3>2. reverso.venta \in 1 .. ventas
      BY <1>2, <1>3, <3>1, Constantes DEF Ventas
    <3>3. QED
      BY <1>3, <2>1, <3>2 DEF verificarReversoExistente, Deshacer
  <2>2. CASE aprobada \/ declinada \/ sinRespuesta \/ sinReverso
    <3>1. venta \in Ventas
      BY <2>2 DEF aprobada, declinada, sinRespuesta, sinReverso, Financiera, IInvEntrega,
         IInv, Lugares
    <3>2. venta \in 1 .. ventas
      BY <1>2, <1>3, <3>1, Constantes DEF Ventas
    <3>3. cobradas' \in {cobradas, cobradas \cup {venta}, cobradas \ {venta}}
      BY <2>2 DEF aprobada, declinada, sinRespuesta, sinReverso, Aprobar, anfitrion
    <3>4. QED
      BY <1>3, <3>2, <3>3
  <2>3. CASE borrarReverso \/ guardarDirectorio
    BY <1>3, <2>3 DEF borrarReverso, guardarDirectorio, anfitrion
  <2>4. QED
    BY <2>1, <2>2, <2>3
<1>6. venta' \in 0 .. ventas
  BY <1>1, <1>2, <1>3
<1>7. QED
  BY <1>1, <1>2, <1>3, <1>4, <1>5, <1>6, PasoSinDiario

LEMMA EntregaCaida ==
    ASSUME IInvEntrega, IInv', caida PROVE IInvEntrega'
<1>1. /\ UNCHANGED <<journal, entregadas, ventas, cobradas, reverso>>
      /\ op' = "ninguna" /\ venta' = 0 /\ consultada' = SinRegistro
      /\ inconclusa' = (inconclusa \/ op = "cierre")
  BY DEF caida, Terminar, archivos, anfitrion
<1>2. pc \in {"subir", "borrarJournal"} => op = "cierre"
  BY DEF IInvEntrega, IInv, Lugares
<1>3. ventas \in Nat /\ inconclusa \in BOOLEAN
  BY DEF IInvEntrega, IInv, TypeOK
<1>4. SinRegistro.venta = 0
  BY DEF SinRegistro
<1>5. cobradas \subseteq 1 .. ventas /\ reverso.venta \in 0 .. ventas
  BY DEF IInvEntrega, Numeradas
<1>6. /\ consultada'.venta \in 0 .. ventas' /\ venta' \in 0 .. ventas'
      /\ reverso'.venta \in 0 .. ventas' /\ cobradas' \subseteq 1 .. ventas'
  BY <1>1, <1>3, <1>4, <1>5
<1>7. inconclusa' \/ (~inconclusa /\ pc \notin {"subir", "borrarJournal"})
  BY <1>1, <1>2, <1>3
<1>8. QED
  BY <1>1, <1>6, <1>7, PasoSinDiario

LEMMA EntregaRegistro ==
    ASSUME IInvEntrega, IInv', guardarTransaccion PROVE IInvEntrega'
<1> DEFINE nuevo == [venta |-> venta, recibo |-> recibo, anulados |-> {}]
<1>1. /\ UNCHANGED <<entregadas, inconclusa, ventas, consultada, cobradas, reverso, op,
                     venta>>
      /\ journal' = Append(journal, nuevo) /\ pc = "guardar" /\ pc' = "directorio"
  BY DEF guardarTransaccion, escribirJournal, Ir, anfitrion, historia
<1>2. /\ journal \in Seq(Registros) /\ ventas \in Nat /\ venta \in Ventas
      /\ Len(journal) \in Nat /\ venta \in 0 .. ventas /\ op \in {"venta", "anulacion"}
  BY <1>1 DEF IInvEntrega, IInv, TypeOK, Lugares, Numeradas
<1>3. op = "venta"
  BY <1>1, <1>2 DEF IInvEntrega, IInv, Lugares
<1>4. /\ Len(journal') = Len(journal) + 1
      /\ journal'[Len(journal) + 1] = nuevo
      /\ \A i \in 1 .. Len(journal) : journal'[i] = journal[i]
      /\ DOMAIN journal = 1 .. Len(journal)
      /\ DOMAIN journal' = 1 .. Len(journal) + 1
  BY <1>1, <1>2
<1>5. /\ nuevo.venta = venta
      /\ venta \notin entregadas /\ venta \in 1 .. ventas
      /\ \A i \in DOMAIN journal : journal[i].venta # venta
  BY <1>1, <1>2, <1>3, Constantes DEF IInvEntrega, Numeradas, Ventas
<1>6. \A i \in DOMAIN journal' : i = Len(journal) + 1 \/ i \in DOMAIN journal
  BY <1>2, <1>4
<1> HIDE DEF nuevo
<1>7. Numeradas'
  <2>1. \A i \in DOMAIN journal' : journal'[i].venta \in 1 .. ventas
    BY <1>4, <1>5, <1>6 DEF IInvEntrega, Numeradas
  <2>2. QED
    BY <1>1, <1>3, <1>5, <2>1 DEF IInvEntrega, Numeradas
<1>8. Unicas'
  BY <1>2, <1>4, <1>5, <1>6 DEF IInvEntrega, Unicas
<1>9. SinEntregar'
  <2>1. SUFFICES ASSUME ~inconclusa, NEW j \in DOMAIN journal', Activa(journal'[j]),
                        journal'[j].venta \in entregadas
                 PROVE  FALSE
    BY <1>1 DEF SinEntregar, Activa
  <2>2. j \in DOMAIN journal /\ journal'[j] = journal[j]
    BY <1>4, <1>5, <1>6, <2>1
  <2>3. QED
    BY <1>1, <2>1, <2>2 DEF IInvEntrega, SinEntregar, Activa
<1>10. QED
  BY <1>7, <1>8, <1>9 DEF IInvEntrega

\* A write of a void leaves each record its sale, and annuls or does nothing.
LEMMA EntregaCampos ==
    ASSUME IInvEntrega, IInv', cambiarEstadoTransaccion PROVE IInvEntrega'
<1>1. /\ UNCHANGED <<entregadas, inconclusa, ventas, consultada, cobradas, reverso, op,
                     venta>>
      /\ actualizarCampo(recibo, indice) /\ pc = "campos" /\ op = "anulacion"
      /\ indice \in 1 .. 3
  BY DEF cambiarEstadoTransaccion, anfitrion, historia, IInvEntrega, IInv, Lugares
<1>2. DOMAIN journal' = DOMAIN journal
  BY <1>1, TipoActualizar DEF IInvEntrega, IInv
<1>3. ASSUME NEW j \in DOMAIN journal
      PROVE  /\ journal'[j].venta = journal[j].venta
             /\ Activa(journal'[j]) => Activa(journal[j])
  <2> DEFINE i == buscarRecibo(recibo)
  <2>1. journal \in Seq(Registros) /\ journal[j] \in Registros
    BY DEF IInvEntrega, IInv, TypeOK
  <2>2. CASE journal'[j] = journal[j]
    BY <2>2
  <2>3. CASE journal'[j] # journal[j]
    <3>1. journal' # journal
      BY <2>3
    <3>2. journal' = [journal EXCEPT ![i].anulados = @ \cup {Orden[indice]}]
      BY <1>1, <3>1 DEF actualizarCampo
    <3>3. journal'[j] = [journal[j] EXCEPT !.anulados = @ \cup {Orden[indice]}]
      BY <2>1, <2>3, <3>2
    <3>4. QED
      BY <2>1, <3>3 DEF Registros, Activa
  <2>4. QED
    BY <2>2, <2>3
<1>4. Numeradas'
  BY <1>1, <1>2, <1>3 DEF IInvEntrega, Numeradas
<1>5. Unicas'
  BY <1>2, <1>3 DEF IInvEntrega, Unicas
<1>6. SinEntregar'
  <2>1. SUFFICES ASSUME ~inconclusa, NEW j \in DOMAIN journal', Activa(journal'[j]),
                        journal'[j].venta \in entregadas
                 PROVE  FALSE
    BY <1>1 DEF SinEntregar, Activa
  <2>2. QED
    BY <1>1, <1>2, <1>3, <2>1 DEF IInvEntrega, SinEntregar
<1>7. QED
  BY <1>4, <1>5, <1>6 DEF IInvEntrega

\* A settlement that goes on delivers in order; one that stops says so.
LEMMA EntregaCierre ==
    ASSUME IInvEntrega, IInv',
           enviarTotales \/ subirVenta \/ enviarTotalesFinales \/ borrarJournal
    PROVE  IInvEntrega'
<1>1. /\ UNCHANGED <<ventas, consultada, reverso>> /\ op = "cierre"
      /\ op' \in {"cierre", "ninguna"} /\ venta' \in {0, venta}
      /\ journal' \in {journal, <<>>}
      /\ cobradas' \subseteq cobradas
  BY DEF enviarTotales, subirVenta, Subida, enviarTotalesFinales, borrarJournal, EnCierre,
     CerrarLote, Dejar, Ir, Terminar, anfitrion, historia, archivos
<1>2. ventas \in Nat /\ journal \in Seq(Registros) /\ indice \in Nat
  BY DEF IInvEntrega, IInv, TypeOK
<1>3. entregadas' \subseteq 1 .. ventas
  <2>1. pc = "subir" /\ indice <= Len(journal) => indice \in DOMAIN journal
    BY <1>2 DEF IInvEntrega, IInv, Lugares
  <2>2. pc = "subir" /\ indice <= Len(journal) => journal[indice].venta \in 1 .. ventas
    BY <2>1 DEF IInvEntrega, Numeradas
  <2>3. /\ enviarTotales => entregadas' \subseteq entregadas \cup cobradas
        /\ subirVenta => /\ pc = "subir" /\ indice <= Len(journal)
                         /\ entregadas' \subseteq entregadas \cup {journal[indice].venta}
        /\ enviarTotalesFinales \/ borrarJournal => entregadas' = entregadas
    BY DEF enviarTotales, subirVenta, Subida, CerrarLote, enviarTotalesFinales,
       borrarJournal, anfitrion
  <2>4. QED
    BY <2>2, <2>3 DEF IInvEntrega, Numeradas
<1>4. Numeradas'
  <2>1. \A i \in DOMAIN journal' : journal'[i].venta \in 1 .. ventas
    BY <1>1 DEF IInvEntrega, Numeradas
  <2>2. venta' \in 0 .. ventas
    BY <1>1, <1>2 DEF IInvEntrega, Numeradas
  <2>3. QED
    BY <1>1, <1>3, <2>1, <2>2 DEF IInvEntrega, Numeradas
<1>5. Unicas'
  BY <1>1 DEF IInvEntrega, Unicas
<1>6. SinEntregar'
  <2>1. CASE borrarJournal
    <3>1. DOMAIN journal' = {}
      BY <2>1 DEF borrarJournal
    <3>2. QED
      BY <3>1 DEF SinEntregar
  <2>2. CASE enviarTotales \/ enviarTotalesFinales
    <3>1. inconclusa' \/ pc' = "borrarJournal"
          \/ /\ enviarTotales /\ pc' = "subir" /\ UNCHANGED <<entregadas, inconclusa, journal>>
             /\ pc = "enviar"
      BY <2>2 DEF enviarTotales, enviarTotalesFinales, EnCierre, Dejar, Ir, Terminar,
         archivos
    <3>2. QED
      BY <3>1 DEF IInvEntrega, SinEntregar, Activa
  <2>3. CASE subirVenta
    <3>1. /\ UNCHANGED journal /\ pc = "subir" /\ indice <= Len(journal) /\ indice # 0
          /\ entregadas' \subseteq entregadas \cup {journal[indice].venta}
          /\ \/ inconclusa'
             \/ pc' = "subir" /\ indice' = indice + 1 /\ inconclusa' = inconclusa
      BY <2>3 DEF subirVenta, Subida, EnCierre, Dejar, archivos, IInvEntrega, IInv, Lugares
    <3>2. SUFFICES ASSUME ~inconclusa', NEW j \in DOMAIN journal, Activa(journal[j]),
                          journal[j].venta \in entregadas'
                   PROVE  j < indice'
      BY <3>1 DEF SinEntregar, Activa
    <3>3. indice \in DOMAIN journal /\ j \in Nat
      BY <1>2, <3>1
    <3>4. CASE journal[j].venta = journal[indice].venta
      <4>1. j = indice
        BY <3>3, <3>4 DEF IInvEntrega, Unicas
      <4>2. QED
        BY <1>2, <3>1, <3>2, <4>1
    <3>5. CASE journal[j].venta \in entregadas
      <4>1. j < indice
        BY <3>1, <3>2, <3>5 DEF IInvEntrega, SinEntregar
      <4>2. QED
        BY <1>2, <3>1, <3>2, <3>3, <4>1
    <3>6. QED
      BY <3>1, <3>2, <3>4, <3>5
  <2>4. QED
    BY <2>1, <2>2, <2>3
<1>7. QED
  BY <1>4, <1>5, <1>6 DEF IInvEntrega

LEMMA PasoEntrega == IInvEntrega /\ [Next]_vars => IInvEntrega'
<1> SUFFICES ASSUME IInvEntrega, [Next]_vars PROVE IInvEntrega'
  OBVIOUS
<1>1. IInv'
  BY Paso DEF IInvEntrega
<1>2. CASE PasoCliente
  BY <1>1, <1>2, EntregaCliente
<1>3. CASE caida
  BY <1>1, <1>3, EntregaCaida
<1>4. CASE PasoTerminal
  BY <1>1, <1>4, EntregaOperacion, EntregaRegistro, EntregaCampos, EntregaCierre
     DEF PasoTerminal
<1>5. CASE UNCHANGED vars
  <2>1. Numeradas' /\ Unicas' /\ SinEntregar'
    BY <1>5 DEF IInvEntrega, Numeradas, Unicas, SinEntregar, Activa, vars, archivos,
       lugar, anfitrion, historia
  <2>2. QED
    BY <1>1, <2>1 DEF IInvEntrega
<1>6. QED
  BY <1>2, <1>3, <1>4, <1>5 DEF Next

\* An active sale is uploaded only if the host does not have it from a settlement,
\* unless one was left without its last answer.
THEOREM CierreSinDobleEntrega == Spec => SinDobleEntrega
<1>1. Spec => []IInvEntrega
  BY InitEntrega, PasoEntrega, PTL DEF Spec
<1>2. ASSUME IInvEntrega, pc = "subir", indice <= Len(journal), Activa(journal[indice])
      PROVE  journal[indice].venta \notin entregadas \/ inconclusa
  <2>1. journal \in Seq(Registros) /\ indice \in Nat \ {0}
    BY <1>2 DEF IInvEntrega, IInv, TypeOK, Lugares
  <2>2. indice \in DOMAIN journal /\ ~(indice < indice)
    BY <1>2, <2>1
  <2>3. QED
    BY <1>2, <2>2 DEF IInvEntrega, SinEntregar
<1>3. IInvEntrega /\ [Next]_vars =>
        [/\ pc = "subir" /\ indice <= Len(journal) /\ indice' = indice + 1
         /\ Activa(journal[indice])
         => journal[indice].venta \notin entregadas \/ inconclusa]_vars
  BY <1>2
<1>4. QED
  BY <1>1, <1>3, PTL DEF Spec, SinDobleEntrega
-----------------------------------------------------------------------------
(* What a void writes, and the search by receipt it writes with.             *)

\* A record with any data of a void says that it is annulled: the state is the
\* first write, and the others find it done in the record they go to.
Escritos ==
    /\ \A i \in DOMAIN journal : journal[i].anulados # {} => ~Activa(journal[i])
    /\ pc = "campos" /\ buscarRecibo(recibo) \in DOMAIN journal =>
           {Orden[k] : k \in 1 .. indice - 1} \subseteq journal[buscarRecibo(recibo)].anulados

\* The entry a search of the directory stops at.
Primera(e, r) ==
    /\ e \in DOMAIN directorio /\ directorio[e].recibo = r
    /\ \A f \in DOMAIN directorio : f < e => directorio[f].recibo # r

\* A receipt that a single record has leads to it.
LEMMA BuscarUnico ==
    ASSUME journal \in Seq(Registros), NEW j \in DOMAIN journal,
           \A k \in DOMAIN journal : journal[k].recibo = journal[j].recibo => k = j
    PROVE  buscarRecibo(journal[j].recibo) = j
<1> DEFINE I == {i \in 1 .. Len(journal) : journal[i].recibo = journal[j].recibo}
<1>1. I = {j}
  OBVIOUS
<1>2. j \in Nat
  OBVIOUS
<1>3. Min({j}) = j
  BY <1>2 DEF Min
<1>4. buscarRecibo(journal[j].recibo) = IF I # {} THEN Min(I) ELSE 0
  BY DEF buscarRecibo, SelectInSeq
<1>5. QED
  BY <1>1, <1>3, <1>4

\* The directory leads to the first entry with the receipt.
LEMMA BuscarPrimera ==
    ASSUME directorio \in Seq(Entradas), NEW e, NEW r, Primera(e, r)
    PROVE  buscarReciboMulticorresponsal(r) = e
<1> DEFINE I == {i \in 1 .. Len(directorio) : directorio[i].recibo = r}
<1>1. e \in I /\ \A f \in I : e <= f
  BY DEF Primera
<1>2. \A x \in I : (\A f \in I : x <= f) => x = e
  BY <1>1
<1>3. Min(I) = e
  <2> HIDE DEF I
  <2>1. QED
    BY <1>1, <1>2 DEF Min
<1>4. buscarReciboMulticorresponsal(r) = IF I # {} THEN Min(I) ELSE 0
  BY DEF buscarReciboMulticorresponsal, SelectInSeq
<1>5. QED
  BY <1>1, <1>3, <1>4

\* A search of the journal sees nothing of a void.
LEMMA BuscarIgual ==
    ASSUME journal \in Seq(Registros), DOMAIN journal' = DOMAIN journal,
           journal' \in Seq(Registros), recibo' = recibo,
           \A j \in DOMAIN journal : journal'[j].recibo = journal[j].recibo
    PROVE  buscarRecibo(recibo)' = buscarRecibo(recibo)
<1> DEFINE I == {i \in 1 .. Len(journal) : journal[i].recibo = recibo}
           J == {i \in 1 .. Len(journal') : journal'[i].recibo = recibo}
<1>1. Len(journal) = Len(journal')
  OBVIOUS
<1>2. I = J
  BY <1>1
<1>3. buscarRecibo(recibo) = IF I # {} THEN Min(I) ELSE 0
  BY DEF buscarRecibo, SelectInSeq
<1>4. buscarRecibo(recibo)' = IF J # {} THEN Min(J) ELSE 0
  BY DEF buscarRecibo, SelectInSeq
<1>5. QED
  BY <1>2, <1>3, <1>4

\* What guardarTransaccion leaves.
LEMMA TrasEscribir ==
    ASSUME IInvEntrega, guardarTransaccion
    PROVE  /\ op = "venta" /\ op' = op /\ venta' = venta /\ recibo' = recibo
           /\ pc = "guardar" /\ pc' = "directorio"
           /\ UNCHANGED <<directorio, invoice, reverso, consultada, cobradas, entregadas,
                          vigente, ventas, huecos, inconclusa>>
           /\ Len(journal) \in Nat /\ Len(journal') = Len(journal) + 1
           /\ DOMAIN journal = 1 .. Len(journal)
           /\ DOMAIN journal' = 1 .. Len(journal) + 1
           /\ \A i \in DOMAIN journal' : i = Len(journal) + 1 \/ i \in DOMAIN journal
           /\ \A i \in DOMAIN journal : journal'[i] = journal[i] /\ i # Len(journal) + 1
           /\ journal'[Len(journal) + 1].venta = venta
           /\ journal'[Len(journal) + 1].recibo = recibo
           /\ journal'[Len(journal) + 1].anulados = {}
           /\ \A i \in DOMAIN journal : journal[i].venta # venta
<1> DEFINE nuevo == [venta |-> venta, recibo |-> recibo, anulados |-> {}]
<1>1. /\ journal' = Append(journal, nuevo) /\ pc = "guardar" /\ pc' = "directorio"
      /\ UNCHANGED <<directorio, invoice, reverso, consultada, cobradas, entregadas,
                     vigente, ventas, huecos, inconclusa, op, venta, recibo>>
  BY DEF guardarTransaccion, escribirJournal, Ir, anfitrion, historia
<1>2. journal \in Seq(Registros) /\ Len(journal) \in Nat /\ op = "venta"
  BY <1>1 DEF IInvEntrega, IInv, TypeOK, Lugares
<1>3. /\ Len(journal') = Len(journal) + 1
      /\ journal'[Len(journal) + 1] = nuevo
      /\ \A i \in 1 .. Len(journal) : journal'[i] = journal[i]
      /\ DOMAIN journal = 1 .. Len(journal)
      /\ DOMAIN journal' = 1 .. Len(journal) + 1
  BY <1>1, <1>2
<1>4. /\ nuevo.venta = venta /\ nuevo.recibo = recibo /\ nuevo.anulados = {}
      /\ \A i \in DOMAIN journal : journal[i].venta # venta
  BY <1>1, <1>2 DEF IInvEntrega, Numeradas
<1> HIDE DEF nuevo
<1>5. QED
  BY <1>1, <1>2, <1>3, <1>4

\* What guardarDirectorio leaves: an entry with the place of the last record.
LEMMA TrasDirectorio ==
    ASSUME IInvEntrega, guardarDirectorio
    PROVE  /\ pc = "directorio" /\ op \in {"venta", "anulacion"}
           /\ \/ op = "venta" /\ pc' = "libre" /\ op' = "ninguna"
              \/ /\ op = "anulacion" /\ pc' = "borrar" /\ op' = op
                 /\ venta' = venta /\ recibo' = recibo
           /\ UNCHANGED <<journal, invoice, reverso, consultada, cobradas, entregadas,
                          vigente, ventas, huecos, inconclusa>>
           /\ DOMAIN directorio = 1 .. Len(directorio) /\ Len(directorio) \in Nat
           /\ DOMAIN directorio' = 1 .. Len(directorio) + 1
           /\ \A e \in DOMAIN directorio' :
                 e = Len(directorio) + 1 \/ e \in DOMAIN directorio
           /\ \A e \in DOMAIN directorio :
                 directorio'[e] = directorio[e] /\ e < Len(directorio) + 1
           /\ directorio'[Len(directorio) + 1].recibo = recibo
           /\ directorio'[Len(directorio) + 1].posicion = Len(journal)
<1> DEFINE nueva == [recibo |-> recibo, posicion |-> Len(journal),
                     estado |-> IF op = "venta" THEN "1" ELSE "0"]
<1>1. /\ directorio' = Append(directorio, nueva) /\ pc = "directorio"
      /\ UNCHANGED <<journal, invoice, reverso, consultada, cobradas, entregadas, vigente,
                     ventas, huecos, inconclusa>>
  BY DEF guardarDirectorio, guardarDirectorioJournals, anfitrion, historia
<1>2. directorio \in Seq(Entradas) /\ op \in {"venta", "anulacion"}
  BY <1>1 DEF IInvEntrega, IInv, TypeOK, Lugares
<1>3. \/ op = "venta" /\ pc' = "libre" /\ op' = "ninguna"
      \/ /\ op = "anulacion" /\ pc' = "borrar" /\ op' = op
         /\ venta' = venta /\ recibo' = recibo
  BY <1>2 DEF guardarDirectorio, Ir, Terminar
<1>4. nueva.recibo = recibo /\ nueva.posicion = Len(journal)
  OBVIOUS
<1> HIDE DEF nueva
<1>5. /\ DOMAIN directorio = 1 .. Len(directorio) /\ Len(directorio) \in Nat
      /\ DOMAIN directorio' = 1 .. Len(directorio) + 1
      /\ \A e \in DOMAIN directorio : directorio'[e] = directorio[e]
      /\ directorio'[Len(directorio) + 1] = nueva
  BY <1>1, <1>2
<1>6. QED
  BY <1>1, <1>2, <1>3, <1>4, <1>5

\* What a write of cambiarEstadoTransaccion leaves.
LEMMA TrasCampo ==
    ASSUME IInvEntrega, cambiarEstadoTransaccion
    PROVE  /\ op = "anulacion" /\ op' = op /\ venta' = venta /\ recibo' = recibo
           /\ pc = "campos" /\ indice \in 1 .. 3
           /\ \/ pc' = "campos" /\ indice' = indice + 1 /\ indice # 3
              \/ pc' = "directorio" /\ indice = 3
           /\ UNCHANGED <<directorio, invoice, reverso, consultada, cobradas, entregadas,
                          vigente, ventas, huecos, inconclusa>>
           /\ DOMAIN journal' = DOMAIN journal
           /\ journal \in Seq(Registros) /\ journal' \in Seq(Registros)
           /\ \A j \in DOMAIN journal :
                 /\ journal'[j].venta = journal[j].venta
                 /\ journal'[j].recibo = journal[j].recibo
                 /\ journal'[j].anulados = IF j = buscarRecibo(recibo)
                                             THEN journal[j].anulados \cup {Orden[indice]}
                                             ELSE journal[j].anulados
<1> DEFINE i == buscarRecibo(recibo)
<1>1. /\ pc = "campos" /\ op = "anulacion" /\ indice \in 1 .. 3
      /\ actualizarCampo(recibo, indice)
      /\ UNCHANGED <<directorio, invoice, reverso, consultada, cobradas, entregadas,
                     vigente, ventas, huecos, inconclusa, op, venta, recibo>>
  BY DEF cambiarEstadoTransaccion, anfitrion, historia, IInvEntrega, IInv, Lugares
<1>2. \/ pc' = "campos" /\ indice' = indice + 1 /\ indice # 3
      \/ pc' = "directorio" /\ indice = 3
  <2>1. Len(Orden) = 3
    BY DEF Orden
  <2>2. QED
    BY <1>1, <2>1 DEF cambiarEstadoTransaccion
<1>3. /\ DOMAIN journal' = DOMAIN journal
      /\ journal \in Seq(Registros) /\ journal' \in Seq(Registros)
  BY <1>1, TipoActualizar DEF IInvEntrega, IInv, TypeOK
<1>4. ASSUME NEW j \in DOMAIN journal
      PROVE  /\ journal'[j].venta = journal[j].venta
             /\ journal'[j].recibo = journal[j].recibo
             /\ journal'[j].anulados = IF j = i THEN journal[j].anulados \cup {Orden[indice]}
                                                ELSE journal[j].anulados
  <2>1. journal[j] \in Registros /\ j # 0
    BY <1>3
  <2>2. CASE i = 0
    <3>1. journal' = journal
      BY <1>1, <2>2 DEF actualizarCampo
    <3>2. QED
      BY <2>1, <2>2, <3>1
  <2>3. CASE i # 0
    <3>1. journal' = [journal EXCEPT ![i].anulados = @ \cup {Orden[indice]}]
      BY <1>1, <2>3 DEF actualizarCampo
    <3>2. CASE j = i
      <4>1. journal'[j] = [journal[j] EXCEPT !.anulados = @ \cup {Orden[indice]}]
        BY <3>1, <3>2
      <4>2. QED
        BY <2>1, <3>2, <4>1 DEF Registros
    <3>3. CASE j # i
      BY <3>1, <3>3
    <3>4. QED
      BY <3>2, <3>3
  <2>4. QED
    BY <2>2, <2>3
<1> HIDE DEF i
<1>5. QED
  BY <1>1, <1>2, <1>3, <1>4 DEF i

\* The journal changes in three steps only.
LEMMA DiarioQuieto ==
    ASSUME [Next]_vars, ~guardarTransaccion, ~cambiarEstadoTransaccion, ~borrarJournal
    PROVE  journal' = journal
<1>1. CASE PasoCliente
  BY <1>1 DEF PasoCliente, iniciarVenta, iniciarAnulacion, iniciarCierre, eliminarReverso,
     realizarConsultaReciboAnulacion, archivos
<1>2. CASE PasoTerminal
  BY <1>2 DEF PasoTerminal, verificarReversoExistente, aprobada, declinada, sinRespuesta,
     sinReverso, borrarReverso, guardarDirectorio, enviarTotales, subirVenta, Subida,
     enviarTotalesFinales, EnCierre, archivos
<1>3. CASE caida \/ UNCHANGED vars
  BY <1>3 DEF caida, vars, archivos
<1>4. QED
  BY <1>1, <1>2, <1>3 DEF Next

\* A void starts to write when it is approved, at the first field.
LEMMA HaciaCampos ==
    ASSUME IInv, [Next]_vars, pc' = "campos"
    PROVE  \/ aprobada /\ op = "anulacion" /\ indice = 1 /\ indice' = 1
           \/ cambiarEstadoTransaccion
           \/ UNCHANGED vars
<1>1. CASE PasoCliente
  BY <1>1 DEF PasoCliente, iniciarVenta, iniciarAnulacion, iniciarCierre, Empezar,
     eliminarReverso, realizarConsultaReciboAnulacion, lugar
<1>2. CASE PasoTerminal /\ ~aprobada
  BY <1>2 DEF PasoTerminal, verificarReversoExistente, declinada, sinRespuesta,
     sinReverso, borrarReverso, guardarTransaccion, guardarDirectorio, enviarTotales,
     subirVenta, Subida, enviarTotalesFinales, borrarJournal, Terminar, Ir, Dejar
<1>3. CASE aprobada
  BY <1>3 DEF aprobada, Financiera, Ir, IInv, Lugares
<1>4. CASE caida
  BY <1>4 DEF caida, Terminar
<1>5. QED
  BY <1>1, <1>2, <1>3, <1>4 DEF Next

LEMMA PasoEscritos ==
    ASSUME IInvEntrega, Escritos, [Next]_vars PROVE Escritos'
<1>1. CASE guardarTransaccion
  <2>1. \A i \in DOMAIN journal' : journal'[i].anulados # {} => ~Activa(journal'[i])
    BY <1>1, TrasEscribir DEF Escritos, Activa
  <2>2. pc' # "campos"
    BY <1>1, TrasEscribir
  <2>3. QED
    BY <2>1, <2>2 DEF Escritos, Activa
<1>2. CASE borrarJournal
  <2>1. DOMAIN journal' = {} /\ pc' # "campos"
    BY <1>2 DEF borrarJournal, Terminar
  <2>2. QED
    BY <2>1 DEF Escritos
<1>3. CASE cambiarEstadoTransaccion
  <2> DEFINE i == buscarRecibo(recibo)
             hechos(n) == {Orden[k] : k \in 1 .. n - 1}
  <2>1. buscarRecibo(recibo)' = i
    BY <1>3, TrasCampo, BuscarIgual
  <2>2. indice \in 1 .. 3 /\ pc = "campos"
    BY <1>3, TrasCampo
  <2>3. hechos(indice + 1) = hechos(indice) \cup {Orden[indice]}
    BY <2>2
  <2>4. i \in DOMAIN journal => "estado" \in journal'[i].anulados
    <3>1. SUFFICES ASSUME i \in DOMAIN journal PROVE "estado" \in journal'[i].anulados
      OBVIOUS
    <3>2. journal'[i].anulados = journal[i].anulados \cup {Orden[indice]}
      BY <1>3, <3>1, TrasCampo
    <3>3. Orden[1] = "estado"
      BY DEF Orden
    <3>4. indice = 1 \/ Orden[1] \in hechos(indice)
      BY <2>2
    <3>5. hechos(indice) \subseteq journal[i].anulados
      BY <2>2, <3>1 DEF Escritos
    <3>6. QED
      BY <3>2, <3>3, <3>4, <3>5
  <2>5. \A j \in DOMAIN journal' : journal'[j].anulados # {} => ~Activa(journal'[j])
    <3>1. SUFFICES ASSUME NEW j \in DOMAIN journal, journal'[j].anulados # {},
                          "estado" \notin journal'[j].anulados
                   PROVE  FALSE
      BY <1>3, TrasCampo DEF Activa
    <3>2. j # i
      BY <2>4, <3>1
    <3>3. journal'[j].anulados = journal[j].anulados
      BY <1>3, <3>2, TrasCampo
    <3>4. QED
      BY <3>1, <3>3 DEF Escritos, Activa
  <2>6. ASSUME pc' = "campos", i \in DOMAIN journal
        PROVE  hechos(indice') \subseteq journal'[i].anulados
    <3>1. indice' = indice + 1
      BY <1>3, <2>6, TrasCampo
    <3>2. hechos(indice) \subseteq journal[i].anulados
      BY <2>2, <2>6 DEF Escritos
    <3>3. journal'[i].anulados = journal[i].anulados \cup {Orden[indice]}
      BY <1>3, <2>6, TrasCampo
    <3>4. hechos(indice') = hechos(indice + 1)
      BY <3>1
    <3>5. QED
      BY <2>3, <3>2, <3>3, <3>4
  <2>7. DOMAIN journal' = DOMAIN journal
    BY <1>3, TrasCampo
  <2>8. QED
    BY <2>1, <2>5, <2>6, <2>7 DEF Escritos, Activa, Orden
<1>4. CASE ~guardarTransaccion /\ ~cambiarEstadoTransaccion /\ ~borrarJournal
  <2>1. journal' = journal
    BY <1>4, DiarioQuieto
  <2>2. \A i \in DOMAIN journal' : journal'[i].anulados # {} => ~Activa(journal'[i])
    BY <2>1 DEF Escritos, Activa
  <2>3. ASSUME pc' = "campos", UNCHANGED vars PROVE Escritos'
    BY <2>3 DEF Escritos, Activa, vars, archivos, lugar, buscarRecibo, SelectInSeq
  <2>4. ASSUME pc' = "campos", ~UNCHANGED vars PROVE indice' = 1
    BY <1>4, <2>4, HaciaCampos DEF IInvEntrega
  <2>5. ASSUME pc' = "campos", indice' = 1 PROVE {Orden[k] : k \in 1 .. indice' - 1} = {}
    BY <2>5
  <2>6. QED
    BY <2>2, <2>3, <2>4, <2>5 DEF Escritos, Activa, Orden
<1>5. QED
  BY <1>1, <1>2, <1>3, <1>4

-----------------------------------------------------------------------------
(* What is on file at each place of an operation.                            *)

\* Nothing pending once the request may go out, the reversal of the operation
\* while its approval is written down, and no record of a sale with a reversal.
Pendiente ==
    /\ pc \in {"enviar", "guardar", "subir", "borrarJournal"} => reverso = Nada
    /\ op = "venta" /\ pc = "directorio" => reverso = Nada
    /\ pc \in {"borrar", "campos"} \/ (op = "anulacion" /\ pc = "directorio") =>
           reverso = [tipo |-> op, venta |-> venta] /\ vigente
    /\ reverso.tipo = "venta" =>
           \A i \in DOMAIN journal : journal[i].venta # reverso.venta

LEMMA PendienteCliente ==
    ASSUME IInvEntrega, Pendiente, PasoCliente PROVE Pendiente'
<1>1. CASE iniciarVenta \/ iniciarAnulacion \/ iniciarCierre
  <2>1. /\ UNCHANGED <<journal, reverso, vigente>>
        /\ pc' \in {"enviar", "verificar"} /\ (pc' = "enviar" => reverso = Nada)
    BY <1>1 DEF iniciarVenta, iniciarAnulacion, iniciarCierre, Empezar, archivos
  <2>2. QED
    BY <2>1 DEF Pendiente
<1>2. CASE eliminarReverso
  <2>1. pc' = "libre" /\ reverso' = Nada
    BY <1>2 DEF eliminarReverso, lugar
  <2>2. QED
    BY <2>1 DEF Pendiente, Nada
<1>3. CASE \E r \in Recibos : realizarConsultaReciboAnulacion(r)
  BY <1>3 DEF Pendiente, realizarConsultaReciboAnulacion, archivos, lugar
<1>4. QED
  BY <1>1, <1>2, <1>3 DEF PasoCliente

LEMMA PendienteTerminal ==
    ASSUME IInvEntrega, Pendiente, PasoTerminal PROVE Pendiente'
<1>1. CASE verificarReversoExistente
  <2>1. /\ UNCHANGED journal
        /\ \/ pc' = "enviar" /\ reverso' = Nada
           \/ pc' = "libre" /\ UNCHANGED reverso
    BY <1>1 DEF verificarReversoExistente, Ir, Terminar, archivos
  <2>2. QED
    BY <2>1 DEF Pendiente, Nada
<1>2. CASE aprobada
  <2>1. /\ pc' \in {"borrar", "campos"} /\ op' = op /\ venta' = venta /\ UNCHANGED journal
        /\ reverso' = [tipo |-> op, venta |-> venta] /\ vigente' = TRUE
        /\ pc = "enviar"
    BY <1>2 DEF aprobada, Financiera, Ir, archivos
  <2>2. op = "venta" => \A i \in DOMAIN journal : journal[i].venta # venta
    BY <2>1 DEF IInvEntrega, Numeradas
  <2>3. QED
    BY <2>1, <2>2 DEF Pendiente
<1>3. CASE declinada \/ sinReverso
  <2>1. pc' = "libre" /\ UNCHANGED <<reverso, journal>>
    BY <1>3 DEF declinada, sinReverso, Terminar, archivos
  <2>2. QED
    BY <2>1 DEF Pendiente
<1>4. CASE sinRespuesta
  <2>1. /\ pc' = "libre" /\ UNCHANGED journal /\ pc = "enviar"
        /\ reverso' = [tipo |-> op, venta |-> venta]
    BY <1>4 DEF sinRespuesta, Financiera, Terminar, archivos
  <2>2. op = "venta" => \A i \in DOMAIN journal : journal[i].venta # venta
    BY <2>1 DEF IInvEntrega, Numeradas
  <2>3. QED
    BY <2>1, <2>2 DEF Pendiente
<1>5. CASE borrarReverso
  <2>1. reverso' = Nada /\ pc' \in {"guardar", "libre"}
    BY <1>5 DEF borrarReverso, Ir, Terminar
  <2>2. QED
    BY <2>1 DEF Pendiente, Nada
<1>6. CASE guardarTransaccion
  <2>1. reverso' = Nada /\ pc' = "directorio" /\ op' = "venta"
    BY <1>6, TrasEscribir DEF Pendiente
  <2>2. QED
    BY <2>1 DEF Pendiente, Nada
<1>7. CASE guardarDirectorio
  <2>1. /\ UNCHANGED <<journal, reverso, vigente>> /\ pc = "directorio"
        /\ \/ pc' = "libre"
           \/ /\ pc' = "borrar" /\ op = "anulacion" /\ UNCHANGED <<op, venta>>
    BY <1>7 DEF guardarDirectorio, Ir, Terminar, archivos, IInvEntrega, IInv, TypeOK,
       Lugares
  <2>2. QED
    BY <2>1 DEF Pendiente
<1>8. CASE cambiarEstadoTransaccion
  <2>1. /\ reverso' = [tipo |-> op', venta |-> venta'] /\ vigente' /\ op' = "anulacion"
        /\ pc' \in {"campos", "directorio"}
    BY <1>8, TrasCampo DEF Pendiente
  <2>2. QED
    BY <2>1 DEF Pendiente
<1>9. CASE enviarTotales \/ subirVenta \/ enviarTotalesFinales
  <2>1. /\ UNCHANGED <<journal, reverso>> /\ pc \in {"enviar", "subir"}
        /\ pc' \in {"subir", "borrarJournal", "libre"}
    BY <1>9 DEF enviarTotales, subirVenta, Subida, enviarTotalesFinales, EnCierre, Dejar,
       Ir, Terminar, archivos
  <2>2. QED
    BY <2>1 DEF Pendiente
<1>10. CASE borrarJournal
  <2>1. pc' = "libre" /\ journal' = <<>>
    BY <1>10 DEF borrarJournal, Terminar
  <2>2. QED
    BY <2>1 DEF Pendiente
<1>11. QED
  BY <1>1, <1>2, <1>3, <1>4, <1>5, <1>6, <1>7, <1>8, <1>9, <1>10 DEF PasoTerminal

LEMMA PasoPendiente ==
    ASSUME IInvEntrega, Pendiente, [Next]_vars PROVE Pendiente'
<1>1. CASE caida
  <2>1. pc' = "libre" /\ UNCHANGED <<journal, reverso>>
    BY <1>1 DEF caida, Terminar, archivos
  <2>2. QED
    BY <2>1 DEF Pendiente
<1>2. CASE UNCHANGED vars
  BY <1>2 DEF Pendiente, vars, archivos, lugar
<1>3. QED
  BY <1>1, <1>2, PendienteCliente, PendienteTerminal DEF Next

-----------------------------------------------------------------------------
(* Receipts that were not handed out twice.                                  *)

\* The receipt of each sale, in the order in which they start.
ReciboDe(v) == IF ReciboInicial + v <= MaxRecibo THEN ReciboInicial + v
                                                 ELSE ReciboInicial + v - MaxRecibo

LEMMA ReciboUnico ==
    ASSUME NEW v \in 1 .. MaxRecibo, NEW w \in 1 .. MaxRecibo, ReciboDe(v) = ReciboDe(w)
    PROVE  v = w
BY Constantes DEF ReciboDe

LEMMA ReciboSiguiente ==
    ASSUME NEW n \in Nat, n + 1 <= MaxRecibo, invoice = ReciboDe(n)
    PROVE  NuevoRecibo = ReciboDe(n + 1)
BY Constantes DEF ReciboDe, NuevoRecibo

\* Records, entries and locals have the receipt of their sale; a sale under way
\* has no entry yet, and its record is the last.
Recibidas ==
    /\ invoice = ReciboDe(ventas)
    /\ \A i \in DOMAIN journal : journal[i].recibo = ReciboDe(journal[i].venta)
    /\ consultada # SinRegistro => consultada.recibo = ReciboDe(consultada.venta)
    /\ op \in {"venta", "anulacion"} => recibo = ReciboDe(venta)
    /\ \A e \in DOMAIN directorio : \E v \in 1 .. ventas : directorio[e].recibo = ReciboDe(v)
    /\ op = "venta" => \A e \in DOMAIN directorio : directorio[e].recibo # recibo
    /\ op = "venta" /\ pc = "directorio" =>
           Len(journal) \in DOMAIN journal /\ journal[Len(journal)].venta = venta

\* With those receipts a record is found by its own.
LEMMA BuscarPropio ==
    ASSUME IInvEntrega, SinVueltaAun, Recibidas, NEW j \in DOMAIN journal
    PROVE  /\ buscarRecibo(journal[j].recibo) = j
           /\ \A k \in DOMAIN journal : journal[k].recibo = journal[j].recibo => k = j
<1>1. journal \in Seq(Registros) /\ ventas \in Nat
  BY DEF IInvEntrega, IInv, TypeOK
<1>2. ASSUME NEW k \in DOMAIN journal, journal[k].recibo = journal[j].recibo PROVE k = j
  <2>1. /\ journal[k].venta \in 1 .. ventas /\ journal[j].venta \in 1 .. ventas
        /\ ReciboDe(journal[k].venta) = ReciboDe(journal[j].venta)
    BY <1>2 DEF IInvEntrega, Numeradas, Recibidas
  <2>2. journal[k].venta \in 1 .. MaxRecibo /\ journal[j].venta \in 1 .. MaxRecibo
    BY <1>1, <2>1, Constantes DEF SinVueltaAun
  <2>3. journal[k].venta = journal[j].venta
    BY <2>1, <2>2, ReciboUnico
  <2>4. QED
    BY <2>3 DEF IInvEntrega, Unicas
<1>3. QED
  BY <1>1, <1>2, BuscarUnico

LEMMA RecibidasCliente ==
    ASSUME IInvEntrega, SinVueltaAun', SinVueltaAun => Recibidas, PasoCliente
    PROVE  Recibidas'
<1>1. /\ UNCHANGED <<journal, directorio>> /\ ventas \in Nat
      /\ ventas' \in {ventas, ventas + 1} /\ pc' # "directorio"
  BY DEF PasoCliente, iniciarVenta, iniciarAnulacion, iniciarCierre, eliminarReverso, Empezar,
     realizarConsultaReciboAnulacion, archivos, historia, lugar, IInvEntrega, IInv, TypeOK
<1>2. SinVueltaAun /\ Recibidas
  BY <1>1, Constantes DEF SinVueltaAun
<1>3. CASE iniciarVenta
  <2>1. /\ ventas' = ventas + 1 /\ venta' = ventas + 1 /\ recibo' = NuevoRecibo
        /\ invoice' = NuevoRecibo /\ UNCHANGED consultada
    BY <1>3 DEF iniciarVenta
  <2>2. NuevoRecibo = ReciboDe(ventas + 1)
    BY <1>1, <1>2, <2>1, ReciboSiguiente, Constantes DEF SinVueltaAun, Recibidas
  <2>3. ASSUME NEW e \in DOMAIN directorio
        PROVE  /\ directorio[e].recibo # ReciboDe(ventas + 1)
               /\ \E v \in 1 .. ventas + 1 : directorio[e].recibo = ReciboDe(v)
    <3>1. PICK v \in 1 .. ventas : directorio[e].recibo = ReciboDe(v)
      BY <1>2 DEF Recibidas
    <3>2. v \in 1 .. MaxRecibo /\ ventas + 1 \in 1 .. MaxRecibo /\ v # ventas + 1
      BY <1>1, <2>1, <3>1, Constantes DEF SinVueltaAun
    <3>3. v \in 1 .. ventas + 1
      BY <1>1
    <3>4. ReciboDe(v) # ReciboDe(ventas + 1)
      BY <3>2, ReciboUnico
    <3>5. QED
      BY <3>1, <3>3, <3>4
  <2> HIDE DEF ReciboDe
  <2>4. QED
    BY <1>1, <1>2, <2>1, <2>2, <2>3 DEF Recibidas
<1>4. CASE iniciarAnulacion
  <2>1. /\ venta' = consultada.venta /\ recibo' = consultada.recibo
        /\ consultada # SinRegistro /\ op' = "anulacion"
        /\ UNCHANGED <<invoice, ventas, consultada>>
    BY <1>4 DEF iniciarAnulacion, Empezar, historia
  <2>2. QED
    BY <1>1, <1>2, <2>1 DEF Recibidas
<1>5. CASE iniciarCierre \/ eliminarReverso
  <2>1. /\ op' \in {op, "cierre"} /\ UNCHANGED <<invoice, ventas, consultada>>
        /\ UNCHANGED <<venta, recibo>>
    BY <1>5 DEF iniciarCierre, eliminarReverso, Empezar, historia, lugar
  <2>2. QED
    BY <1>1, <1>2, <2>1 DEF Recibidas
<1>6. CASE \E r \in Recibos : realizarConsultaReciboAnulacion(r)
  <2>1. /\ UNCHANGED <<invoice, ventas, op, venta, recibo>>
        /\ consultada' = SinRegistro
           \/ \E i \in DOMAIN journal : consultada' = journal[i]
    BY <1>6 DEF realizarConsultaReciboAnulacion, historia, lugar
  <2>2. QED
    BY <1>1, <1>2, <2>1 DEF Recibidas
<1>7. QED
  BY <1>3, <1>4, <1>5, <1>6 DEF PasoCliente

LEMMA PasoRecibidas ==
    ASSUME IInvEntrega, SinVueltaAun', SinVueltaAun => Recibidas, [Next]_vars
    PROVE  Recibidas'
<1>1. CASE PasoCliente
  BY <1>1, RecibidasCliente
<1>2. CASE ~PasoCliente
  <2>1. ventas' = ventas /\ UNCHANGED <<invoice>>
        /\ consultada' \in {consultada, SinRegistro}
    BY <1>2 DEF Next, PasoTerminal, verificarReversoExistente, aprobada, declinada,
       sinRespuesta, sinReverso, borrarReverso, guardarTransaccion, guardarDirectorio,
       cambiarEstadoTransaccion, enviarTotales, subirVenta, Subida, enviarTotalesFinales,
       EnCierre, borrarJournal, caida, vars, historia
  <2>2. Recibidas
    BY <2>1 DEF SinVueltaAun
  <2>3. CASE guardarTransaccion
    <3>1. \A i \in DOMAIN journal' : journal'[i].recibo = ReciboDe(journal'[i].venta)
      BY <2>2, <2>3, TrasEscribir DEF Recibidas
    <3>2. Len(journal') \in DOMAIN journal' /\ journal'[Len(journal')].venta = venta'
      BY <2>3, TrasEscribir
    <3>3. UNCHANGED <<directorio, op, venta, recibo>>
      BY <2>3, TrasEscribir
    <3>4. QED
      BY <2>1, <2>2, <3>1, <3>2, <3>3 DEF Recibidas
  <2>4. CASE cambiarEstadoTransaccion
    <3>1. \A i \in DOMAIN journal' : journal'[i].recibo = ReciboDe(journal'[i].venta)
      BY <2>2, <2>4, TrasCampo DEF Recibidas
    <3>2. UNCHANGED <<directorio, op, venta, recibo>> /\ op = "anulacion"
      BY <2>4, TrasCampo
    <3>3. QED
      BY <2>1, <2>2, <3>1, <3>2 DEF Recibidas
  <2>5. CASE guardarDirectorio
    <3>1. /\ UNCHANGED journal /\ pc' # "directorio" /\ op' \in {op, "ninguna"}
          /\ (op = "venta" => op' = "ninguna") /\ (op' # "ninguna" => UNCHANGED <<venta, recibo>>)
      BY <2>5 DEF guardarDirectorio, Ir, Terminar
    <3>2. op \in {"venta", "anulacion"} /\ recibo = ReciboDe(venta) /\ venta \in 1 .. ventas
      <4>1. pc = "directorio"
        BY <2>5 DEF guardarDirectorio
      <4>2. op \in {"venta", "anulacion"} /\ venta \in Ventas
        BY <4>1 DEF IInvEntrega, IInv, Lugares, TypeOK
      <4>3. QED
        BY <2>2, <4>2 DEF IInvEntrega, IInv, TypeOK, Numeradas, Recibidas, Ventas
    <3>3. ASSUME NEW e \in DOMAIN directorio'
          PROVE  \E v \in 1 .. ventas : directorio'[e].recibo = ReciboDe(v)
      <4>3. \/ directorio'[e].recibo = recibo
            \/ e \in DOMAIN directorio /\ directorio'[e] = directorio[e]
        BY <2>5, <3>3, TrasDirectorio
      <4>4. QED
        BY <2>2, <3>2, <4>3 DEF Recibidas
    <3>4. QED
      BY <2>1, <2>2, <3>1, <3>3 DEF Recibidas
  <2>6. CASE borrarJournal
    <3>1. DOMAIN journal' = {} /\ op' = "ninguna" /\ UNCHANGED directorio
      BY <2>6 DEF borrarJournal, Terminar
    <3>2. QED
      BY <2>1, <2>2, <3>1 DEF Recibidas
  <2>7. CASE /\ ~guardarTransaccion /\ ~cambiarEstadoTransaccion /\ ~guardarDirectorio
             /\ ~borrarJournal
    <3>1. journal' = journal
      BY <2>7, DiarioQuieto
    <3>2. /\ UNCHANGED directorio /\ op' \in {op, "ninguna"}
          /\ (op' = op => UNCHANGED <<venta, recibo>> \/ op = "ninguna")
          /\ (op' = "venta" /\ pc' = "directorio" => pc = "directorio")
      BY <1>2, <2>7 DEF Next, PasoTerminal, verificarReversoExistente, aprobada, declinada,
         sinRespuesta, sinReverso, borrarReverso, enviarTotales, subirVenta, Subida,
         enviarTotalesFinales, EnCierre, Dejar, Ir, Terminar, caida, vars, archivos, lugar
    <3>3. QED
      BY <2>1, <2>2, <3>1, <3>2 DEF Recibidas
  <2>8. QED
    BY <2>3, <2>4, <2>5, <2>6, <2>7
<1>3. QED
  BY <1>1, <1>2

\* Nor does it find a record that has another receipt.
LEMMA BuscarAjeno ==
    ASSUME IInvEntrega, SinVueltaAun, Recibidas, NEW j \in DOMAIN journal, NEW r,
           journal[j].recibo # r
    PROVE  buscarRecibo(r) # j
<1> DEFINE I == {i \in 1 .. Len(journal) : journal[i].recibo = r}
<1>1. journal \in Seq(Registros)
  BY DEF IInvEntrega, IInv, TypeOK
<1>2. CASE I = {}
  <2>1. buscarRecibo(r) = IF I # {} THEN Min(I) ELSE 0
    BY DEF buscarRecibo, SelectInSeq
  <2>2. QED
    BY <1>1, <1>2, <2>1
<1>3. CASE I # {}
  <2>1. PICK k \in DOMAIN journal : journal[k].recibo = r
    BY <1>1, <1>3
  <2>2. buscarRecibo(journal[k].recibo) = k
    BY BuscarPropio
  <2>3. QED
    BY <2>1, <2>2
<1>4. QED
  BY <1>2, <1>3

\* Gaps stay.
LEMMA HuecosQuedan ==
    ASSUME [Next]_vars PROVE huecos \subseteq huecos'
<1>1. CASE PasoCliente
  BY <1>1 DEF PasoCliente, iniciarVenta, iniciarAnulacion, iniciarCierre, eliminarReverso,
     realizarConsultaReciboAnulacion, historia
<1>2. CASE PasoTerminal
  BY <1>2 DEF PasoTerminal, verificarReversoExistente, aprobada, declinada, sinRespuesta,
     sinReverso, borrarReverso, guardarTransaccion, guardarDirectorio,
     cambiarEstadoTransaccion, enviarTotales, subirVenta, Subida, enviarTotalesFinales,
     EnCierre, borrarJournal, historia
<1>3. CASE caida \/ UNCHANGED vars
  BY <1>3 DEF caida, vars, historia
<1>4. QED
  BY <1>1, <1>2, <1>3 DEF Next

\* A void that writes goes on writing unless the process ends.
LEMMA DesdeCampos ==
    ASSUME IInv, [Next]_vars, pc = "campos"
    PROVE  cambiarEstadoTransaccion \/ caida \/ UNCHANGED vars
<1>1. ~PasoCliente
  BY DEF PasoCliente, iniciarVenta, iniciarAnulacion, iniciarCierre, eliminarReverso,
     realizarConsultaReciboAnulacion
<1>2. PasoTerminal => cambiarEstadoTransaccion
  BY DEF PasoTerminal, verificarReversoExistente, aprobada, declinada, sinRespuesta,
     sinReverso, Financiera, borrarReverso, guardarTransaccion, guardarDirectorio,
     enviarTotales, subirVenta, Subida, enviarTotalesFinales, EnCierre, borrarJournal
<1>3. QED
  BY <1>1, <1>2 DEF Next

\* A record has all of a void or nothing of it, but for the one being written.
Enteros ==
    \A i \in DOMAIN journal :
        \/ journal[i].anulados \in {{}, Campos}
        \/ journal[i].venta \in huecos
        \/ pc = "campos" /\ indice > 1 /\ recibo = journal[i].recibo

LEMMA PasoEnteros ==
    ASSUME IInvEntrega, Escritos, SinVueltaAun, Recibidas, Enteros, [Next]_vars
    PROVE  Enteros'
<1>1. CASE guardarTransaccion
  <2>1. \A i \in DOMAIN journal' : \/ journal'[i].anulados = {}
                                   \/ i \in DOMAIN journal /\ journal'[i] = journal[i]
    BY <1>1, TrasEscribir
  <2>2. UNCHANGED huecos /\ pc = "guardar"
    BY <1>1, TrasEscribir
  <2>3. QED
    BY <2>1, <2>2 DEF Enteros
<1>2. CASE borrarJournal
  <2>1. DOMAIN journal' = {}
    BY <1>2 DEF borrarJournal
  <2>2. QED
    BY <2>1 DEF Enteros
<1>3. CASE cambiarEstadoTransaccion
  <2>1. SUFFICES ASSUME NEW i \in DOMAIN journal, journal[i].venta \notin huecos,
                        ~(pc' = "campos" /\ indice' > 1 /\ recibo = journal[i].recibo)
                 PROVE  journal'[i].anulados \in {{}, Campos}
    BY <1>3, TrasCampo DEF Enteros
  <2>2. CASE recibo = journal[i].recibo
    <3>1. i = buscarRecibo(recibo)
      BY <2>2, BuscarPropio
    <3>2. indice = 3
      BY <1>3, <2>1, <2>2, TrasCampo
    <3>3. {Orden[k] : k \in 1 .. indice - 1} \subseteq journal[i].anulados
      BY <1>3, <3>1, TrasCampo DEF Escritos
    <3>4. /\ journal'[i].anulados = journal[i].anulados \cup {Orden[3]}
          /\ journal'[i].anulados \subseteq Campos
      <4>1. journal'[i] \in Registros
        BY <1>3, TrasCampo
      <4>2. QED
        BY <1>3, <3>1, <3>2, <4>1, TrasCampo DEF Registros
    <3>5. {Orden[1], Orden[2], Orden[3]} = Campos
      BY DEF Orden, Campos
    <3>6. 1 \in 1 .. indice - 1 /\ 2 \in 1 .. indice - 1
      BY <3>2
    <3>7. Orden[1] \in journal[i].anulados /\ Orden[2] \in journal[i].anulados
      BY <3>3, <3>6
    <3>8. QED
      BY <3>4, <3>5, <3>7
  <2>3. CASE recibo # journal[i].recibo
    <3>1. journal'[i].anulados = journal[i].anulados
      BY <1>3, <2>3, TrasCampo, BuscarAjeno
    <3>2. QED
      BY <2>1, <2>3, <3>1 DEF Enteros
  <2>4. QED
    BY <2>2, <2>3
<1>4. CASE ~guardarTransaccion /\ ~cambiarEstadoTransaccion /\ ~borrarJournal
  <2>1. journal' = journal
    BY <1>4, DiarioQuieto
  <2>2. SUFFICES ASSUME NEW i \in DOMAIN journal, journal[i].venta \notin huecos',
                        pc = "campos", indice > 1, recibo = journal[i].recibo
                 PROVE  pc' = "campos" /\ indice' > 1 /\ recibo' = journal[i].recibo
    BY <2>1, HuecosQuedan DEF Enteros
  <2>3. CASE caida
    <3>1. venta \in huecos' /\ op = "anulacion"
      BY <2>2, <2>3 DEF caida, IInvEntrega, IInv, Lugares
    <3>2. ReciboDe(journal[i].venta) = ReciboDe(venta)
      BY <2>2, <3>1 DEF Recibidas
    <3>3. journal[i].venta \in 1 .. MaxRecibo /\ venta \in 1 .. MaxRecibo
      BY <3>1, Constantes DEF IInvEntrega, IInv, TypeOK, Lugares, Numeradas, SinVueltaAun,
         Ventas
    <3>4. QED
      BY <2>2, <3>1, <3>2, <3>3, ReciboUnico
  <2>4. CASE UNCHANGED vars
    BY <2>2, <2>4 DEF vars, lugar
  <2>5. QED
    BY <1>4, <2>2, <2>3, <2>4, DesdeCampos DEF IInvEntrega
<1>5. QED
  BY <1>1, <1>2, <1>3, <1>4

\* The directory leads to each record by its receipt, but for a sale whose entry
\* is still to be written.
Dirigidos ==
    \A i \in DOMAIN journal :
        \/ journal[i].venta \in huecos
        \/ op = "venta" /\ pc = "directorio" /\ venta = journal[i].venta
        \/ \E e \in DOMAIN directorio :
               Primera(e, journal[i].recibo) /\ directorio[e].posicion = i

\* An entry that a search stops at stays so when others are added.
LEMMA PrimeraQueda ==
    ASSUME IInvEntrega, guardarDirectorio, NEW e, NEW r, Primera(e, r)
    PROVE  Primera(e, r)' /\ directorio'[e].posicion = directorio[e].posicion
<1>1. e \in DOMAIN directorio' /\ directorio'[e] = directorio[e]
  BY TrasDirectorio DEF Primera
<1>2. ASSUME NEW f \in DOMAIN directorio', f < e PROVE directorio'[f].recibo # r
  <2>1. f \in DOMAIN directorio /\ directorio'[f] = directorio[f]
    BY <1>2, TrasDirectorio DEF Primera
  <2>2. QED
    BY <1>2, <2>1 DEF Primera
<1>3. QED
  BY <1>1, <1>2 DEF Primera

\* The first entry of the receipt of a sale is the one it writes.
LEMMA PrimeraNueva ==
    ASSUME IInvEntrega, Recibidas, guardarDirectorio, op = "venta",
           NEW n, n = Len(directorio) + 1, NEW r, r = recibo
    PROVE  Primera(n, r)' /\ directorio'[n].posicion = Len(journal)
<1>1. n \in DOMAIN directorio' /\ directorio'[n].recibo = r
      /\ directorio'[n].posicion = Len(journal)
  BY TrasDirectorio
<1>2. \A e \in DOMAIN directorio : directorio[e].recibo # r
  BY DEF Recibidas
<1>3. \A f \in DOMAIN directorio' : f < n => directorio'[f].recibo # r
  BY <1>2, TrasDirectorio
<1>4. QED
  BY <1>1, <1>3 DEF Primera

LEMMA PasoDirigidos ==
    ASSUME IInvEntrega, SinVueltaAun, Recibidas, Dirigidos, [Next]_vars
    PROVE  Dirigidos'
<1>1. CASE guardarTransaccion
  <2>1. /\ UNCHANGED <<directorio, huecos, op, venta>> /\ op = "venta"
        /\ pc = "guardar" /\ pc' = "directorio"
        /\ \A i \in DOMAIN journal' : \/ journal'[i].venta = venta
                                      \/ i \in DOMAIN journal /\ journal'[i] = journal[i]
    BY <1>1, TrasEscribir
  <2>2. QED
    BY <2>1 DEF Dirigidos, Primera
<1>2. CASE borrarJournal
  <2>1. DOMAIN journal' = {}
    BY <1>2 DEF borrarJournal
  <2>2. QED
    BY <2>1 DEF Dirigidos
<1>3. CASE cambiarEstadoTransaccion
  <2>1. /\ UNCHANGED <<directorio, huecos, op, venta>> /\ op = "anulacion"
        /\ DOMAIN journal' = DOMAIN journal
        /\ \A i \in DOMAIN journal : /\ journal'[i].venta = journal[i].venta
                                     /\ journal'[i].recibo = journal[i].recibo
    BY <1>3, TrasCampo
  <2>2. QED
    BY <2>1 DEF Dirigidos, Primera
<1>4. CASE guardarDirectorio
  <2>1. SUFFICES ASSUME NEW i \in DOMAIN journal, journal[i].venta \notin huecos
                 PROVE  \E e \in DOMAIN directorio' :
                            /\ Primera(e, journal[i].recibo)'
                            /\ directorio'[e].posicion = i
    BY <1>4, TrasDirectorio DEF Dirigidos, Primera
  <2>2. CASE op = "venta" /\ venta = journal[i].venta
    <3>1. /\ Len(journal) \in DOMAIN journal /\ journal[Len(journal)].venta = venta
          /\ journal[i].recibo = recibo
      BY <1>4, <2>2, TrasDirectorio DEF Recibidas
    <3>2. i = Len(journal)
      BY <2>2, <3>1 DEF IInvEntrega, Unicas
    <3>3. Len(directorio) + 1 \in DOMAIN directorio'
      BY <1>4, TrasDirectorio
    <3>4. PICK n, r : n = Len(directorio) + 1 /\ r = recibo
      OBVIOUS
    <3>5. Primera(n, r)' /\ directorio'[n].posicion = Len(journal)
      BY <1>4, <2>2, <3>4, PrimeraNueva
    <3>6. QED
      BY <1>4, <3>1, <3>2, <3>3, <3>4, <3>5, TrasDirectorio DEF Primera
  <2>3. CASE ~(op = "venta" /\ venta = journal[i].venta)
    <3>1. PICK e \in DOMAIN directorio :
              Primera(e, journal[i].recibo) /\ directorio[e].posicion = i
      BY <2>1, <2>3 DEF Dirigidos
    <3>2. PICK x : x = journal[i].recibo
      OBVIOUS
    <3>3. Primera(e, x)' /\ directorio'[e].posicion = i /\ e \in DOMAIN directorio'
      BY <1>4, <3>1, <3>2, PrimeraQueda, TrasDirectorio
    <3>4. QED
      BY <1>4, <3>2, <3>3, TrasDirectorio DEF Primera
  <2>4. QED
    BY <2>2, <2>3
<1>5. CASE /\ ~guardarTransaccion /\ ~cambiarEstadoTransaccion /\ ~borrarJournal
           /\ ~guardarDirectorio
  <2>1. journal' = journal
    BY <1>5, DiarioQuieto
  <2>2. UNCHANGED directorio
    BY <1>5 DEF Next, PasoCliente, PasoTerminal, iniciarVenta, iniciarAnulacion,
       iniciarCierre, eliminarReverso, realizarConsultaReciboAnulacion,
       verificarReversoExistente, aprobada, declinada, sinRespuesta, sinReverso,
       borrarReverso, enviarTotales, subirVenta, Subida, enviarTotalesFinales, EnCierre,
       caida, vars, archivos
  <2>3. ASSUME op = "venta", pc = "directorio"
        PROVE  venta \in huecos' \/ UNCHANGED <<op, pc, venta>>
    <3>1. ~PasoCliente /\ ~PasoTerminal
      BY <1>5, <2>3 DEF PasoCliente, PasoTerminal, iniciarVenta, iniciarAnulacion,
         iniciarCierre, eliminarReverso, realizarConsultaReciboAnulacion,
         verificarReversoExistente, aprobada, declinada, sinRespuesta, sinReverso,
         Financiera, borrarReverso, enviarTotales, subirVenta, Subida,
         enviarTotalesFinales, EnCierre
    <3>2. QED
      BY <2>3, <3>1 DEF Next, caida, vars, lugar
  <2>4. QED
    BY <2>1, <2>2, <2>3, HuecosQuedan DEF Dirigidos, Primera
<1>6. QED
  BY <1>1, <1>2, <1>3, <1>4, <1>5

-----------------------------------------------------------------------------
(* The books of the host against the journal.                                *)

PorReversar(t, v) == reverso = [tipo |-> t, venta |-> v] /\ vigente

\* The host has a sale that the journal has not, or has annulled.
SinRegistrar(v) ==
    \/ PorReversar("venta", v)
    \/ op = "venta" /\ pc = "guardar" /\ venta = v

\* The host has annulled a sale that the journal has as active.
SinAnular(v) ==
    /\ PorReversar("anulacion", v)
    /\ ~ /\ op = "anulacion" /\ venta = v
         /\ (pc = "campos" /\ indice > 1) \/ pc \in {"directorio", "borrar"}

\* Host and journal differ in a sale when, and only when, one of the two holds.
Cuadrada(v) ==
    /\ SinRegistrar(v) <=> v \in cobradas /\ v \notin Activas
    /\ SinAnular(v) <=> v \notin cobradas /\ v \in Activas

Cuadradas == \A v \in Ventas \ (huecos \cup entregadas) : Cuadrada(v)

LEMMA EntregadasQuedan ==
    ASSUME [Next]_vars PROVE entregadas \subseteq entregadas'
<1>1. CASE PasoCliente
  BY <1>1 DEF PasoCliente, iniciarVenta, iniciarAnulacion, iniciarCierre, eliminarReverso,
     realizarConsultaReciboAnulacion, anfitrion
<1>2. CASE PasoTerminal
  BY <1>2 DEF PasoTerminal, verificarReversoExistente, aprobada, declinada, sinRespuesta,
     sinReverso, borrarReverso, guardarTransaccion, guardarDirectorio,
     cambiarEstadoTransaccion, enviarTotales, subirVenta, Subida, enviarTotalesFinales,
     CerrarLote, borrarJournal, anfitrion
<1>3. CASE caida \/ UNCHANGED vars
  BY <1>3 DEF caida, vars, anfitrion
<1>4. QED
  BY <1>1, <1>2, <1>3 DEF Next

\* A record written is active.
LEMMA ActivasEscribir ==
    ASSUME IInvEntrega, guardarTransaccion, NEW v
    PROVE  /\ v \in Activas' <=> v \in Activas \/ v = venta
           /\ venta \notin Activas
<1> DEFINE n == Len(journal) + 1
<1>1. /\ n \in DOMAIN journal' /\ journal'[n].venta = venta
      /\ "estado" \notin journal'[n].anulados
      /\ \A i \in DOMAIN journal' : i = n \/ i \in DOMAIN journal
      /\ \A i \in DOMAIN journal : i \in DOMAIN journal' /\ journal'[i] = journal[i]
      /\ \A i \in DOMAIN journal : journal[i].venta # venta
  BY TrasEscribir
<1> HIDE DEF n
<1>2. QED
  BY <1>1 DEF Activas, Activa

\* The first write of a void annuls the sale it is about and no other.
LEMMA ActivasCampo ==
    ASSUME IInvEntrega, SinVueltaAun, Recibidas, cambiarEstadoTransaccion, NEW v
    PROVE  v \in Activas' <=> v \in Activas /\ ~(indice = 1 /\ v = venta)
<1>1. ASSUME NEW j \in DOMAIN journal
      PROVE  Activa(journal'[j]) <=> Activa(journal[j])
                                     /\ ~(indice = 1 /\ j = buscarRecibo(recibo))
  <2>1. Orden[indice] = "estado" <=> indice = 1
    BY TrasCampo DEF Orden
  <2>2. QED
    BY <1>1, <2>1, TrasCampo DEF Activa
<1>2. ASSUME NEW j \in DOMAIN journal
      PROVE  j = buscarRecibo(recibo) <=> journal[j].venta = venta
  <2>1. recibo = ReciboDe(venta) /\ journal[j].recibo = ReciboDe(journal[j].venta)
    BY TrasCampo DEF Recibidas
  <2>2. journal[j].venta \in 1 .. MaxRecibo /\ venta \in 1 .. MaxRecibo
    BY TrasCampo, Constantes DEF IInvEntrega, IInv, TypeOK, Lugares, Numeradas,
       SinVueltaAun, Ventas
  <2>3. CASE journal[j].venta = venta
    BY <2>1, <2>3, BuscarPropio
  <2>4. CASE journal[j].venta # venta
    <3>1. journal[j].recibo # recibo
      BY <2>1, <2>2, <2>4, ReciboUnico
    <3>2. QED
      BY <2>4, <3>1, BuscarAjeno
  <2>5. QED
    BY <2>3, <2>4
<1>3. DOMAIN journal' = DOMAIN journal
      /\ \A j \in DOMAIN journal : journal'[j].venta = journal[j].venta
  BY TrasCampo
<1>4. QED
  BY <1>1, <1>2, <1>3 DEF Activas

LEMMA ActivasIgual == ASSUME UNCHANGED journal PROVE Activas' = Activas
BY DEF Activas, Activa

\* The inductive invariant of the batch.
IInvLote ==
    /\ IInvEntrega /\ Escritos /\ Pendiente
    /\ SinVueltaAun => Recibidas /\ Enteros /\ Dirigidos /\ Cuadradas

LEMMA CuadradaCliente ==
    ASSUME IInvLote, NEW v \in Ventas, v \notin huecos', Cuadrada(v), PasoCliente
    PROVE  Cuadrada(v)'
<1>1. /\ UNCHANGED <<journal, cobradas>> /\ pc = "libre" /\ op = "ninguna"
  BY DEF PasoCliente, iniciarVenta, iniciarAnulacion, iniciarCierre, eliminarReverso,
     realizarConsultaReciboAnulacion, archivos, anfitrion, IInvLote, IInvEntrega, IInv,
     Lugares
<1>2. Activas' = Activas
  BY <1>1, ActivasIgual
<1>3. CASE eliminarReverso
  <2>1. /\ reverso' = Nada /\ reverso.venta # v /\ UNCHANGED <<op, pc, venta, indice>>
    BY <1>3 DEF eliminarReverso, lugar
  <2>2. ~SinRegistrar(v) /\ ~SinAnular(v) /\ ~SinRegistrar(v)' /\ ~SinAnular(v)'
    BY <1>1, <2>1 DEF SinRegistrar, SinAnular, PorReversar, Nada
  <2>3. QED
    BY <1>1, <1>2, <2>2 DEF Cuadrada
<1>4. CASE ~eliminarReverso
  <2>1. UNCHANGED <<reverso, vigente>> /\ pc' \in {"libre", "verificar", "enviar"}
    BY <1>4, <1>1 DEF PasoCliente, iniciarVenta, iniciarAnulacion, iniciarCierre, Empezar,
       realizarConsultaReciboAnulacion, lugar
  <2>2. (SinRegistrar(v)' <=> SinRegistrar(v)) /\ (SinAnular(v)' <=> SinAnular(v))
    BY <1>1, <2>1 DEF SinRegistrar, SinAnular, PorReversar
  <2>3. QED
    BY <1>1, <1>2, <2>2 DEF Cuadrada
<1>5. QED
  BY <1>3, <1>4

LEMMA CuadradaVerificar ==
    ASSUME IInvLote, NEW v \in Ventas, v \notin huecos', Cuadrada(v),
           verificarReversoExistente
    PROVE  Cuadrada(v)'
<1>1. /\ pc = "verificar" /\ UNCHANGED journal
      /\ \/ pc' = "enviar" /\ reverso' = Nada
         \/ pc' = "libre" /\ reverso' = reverso
  BY DEF verificarReversoExistente, Ir, Terminar, archivos
<1>2. Activas' = Activas
  BY <1>1, ActivasIgual
<1>3. reverso \in [tipo : {"venta", "anulacion"}, venta : Ventas] /\ vigente \in BOOLEAN
  BY <1>1 DEF IInvLote, IInvEntrega, IInv, TypeOK, Lugares, Reversos
<1>4. /\ SinRegistrar(v) <=> reverso.tipo = "venta" /\ reverso.venta = v /\ vigente
      /\ SinAnular(v) <=> reverso.tipo = "anulacion" /\ reverso.venta = v /\ vigente
  BY <1>1, <1>3 DEF SinRegistrar, SinAnular, PorReversar
<1>5. reverso' = Nada \/ ~vigente' => ~SinRegistrar(v)' /\ ~SinAnular(v)'
  BY <1>1 DEF SinRegistrar, SinAnular, PorReversar, Nada
<1>6. CASE Deshacer /\ (reverso' = Nada \/ ~vigente')
  <2>1. v \in cobradas' <=> IF reverso.venta = v /\ vigente THEN reverso.tipo # "venta"
                                                           ELSE v \in cobradas
    BY <1>3, <1>6 DEF Deshacer
  <2>2. QED
    BY <1>2, <1>3, <1>4, <1>5, <1>6, <2>1 DEF Cuadrada
<1>7. CASE UNCHANGED cobradas /\ reverso' = Nada /\ huecos' = huecos \cup {reverso.venta}
  BY <1>2, <1>4, <1>5, <1>7 DEF Cuadrada
<1>8. CASE UNCHANGED <<cobradas, vigente, reverso>> /\ pc' = "libre"
  <2>1. (SinRegistrar(v)' <=> SinRegistrar(v)) /\ (SinAnular(v)' <=> SinAnular(v))
    BY <1>1, <1>8 DEF SinRegistrar, SinAnular, PorReversar
  <2>2. QED
    BY <1>2, <1>8, <2>1 DEF Cuadrada
<1>9. QED
  BY <1>6, <1>7, <1>8 DEF verificarReversoExistente, Deshacer, Terminar

LEMMA CuadradaFinanciera ==
    ASSUME IInvLote, NEW v \in Ventas, v \notin huecos', Cuadrada(v),
           aprobada \/ declinada \/ sinRespuesta \/ sinReverso
    PROVE  Cuadrada(v)'
<1>1. /\ op \in {"venta", "anulacion"} /\ pc = "enviar" /\ UNCHANGED journal
      /\ reverso = Nada /\ venta \in Ventas
      /\ op = "anulacion" => indice = 1
  BY DEF aprobada, declinada, sinRespuesta, sinReverso, Financiera, archivos, IInvLote,
     IInvEntrega, IInv, Lugares, Pendiente
<1>2. Activas' = Activas
  BY <1>1, ActivasIgual
<1>3. ~SinRegistrar(v) /\ ~SinAnular(v)
  BY <1>1 DEF SinRegistrar, SinAnular, PorReversar, Nada
<1>4. op = "venta" => venta \notin Activas
  BY <1>1 DEF IInvLote, IInvEntrega, Numeradas, Activas
<1>5. CASE /\ pc' \in {"borrar", "campos", "libre"}
           /\ pc' # "libre" => UNCHANGED <<op, venta, indice>>
           /\ pc' = "borrar" => op = "venta"
           /\ reverso' = [tipo |-> op, venta |-> venta] /\ vigente' = TRUE /\ Aprobar
  <2>1. /\ SinRegistrar(v)' <=> op = "venta" /\ venta = v
        /\ SinAnular(v)' <=> op = "anulacion" /\ venta = v
    <3>1. pc' \notin {"guardar", "directorio"} /\ (pc' = "campos" => indice' = 1 \/ op = "venta")
      BY <1>1, <1>5
    <3>2. /\ PorReversar("venta", v)' <=> op = "venta" /\ venta = v
          /\ PorReversar("anulacion", v)' <=> op = "anulacion" /\ venta = v
      BY <1>1, <1>5 DEF PorReversar
    <3>3. QED
      BY <1>1, <1>5, <3>1, <3>2 DEF SinRegistrar, SinAnular
  <2>2. /\ v \in cobradas' <=> IF venta = v THEN op = "venta" ELSE v \in cobradas
        /\ op = "anulacion" => venta \in cobradas
    BY <1>1, <1>5 DEF Aprobar
  <2>3. QED
    BY <1>1, <1>2, <1>3, <1>4, <2>1, <2>2 DEF Cuadrada
<1>6. CASE pc' = "libre" /\ UNCHANGED cobradas /\ (UNCHANGED reverso \/ vigente' = FALSE)
  <2>1. ~SinRegistrar(v)' /\ ~SinAnular(v)'
    BY <1>1, <1>6 DEF SinRegistrar, SinAnular, PorReversar, Nada
  <2>2. QED
    BY <1>2, <1>3, <1>6, <2>1 DEF Cuadrada
<1>7. CASE sinReverso
  <2>1. /\ UNCHANGED reverso /\ pc' = "libre" /\ venta # v
        /\ cobradas' = cobradas \cup {venta}
    BY <1>7 DEF sinReverso, Aprobar, Terminar
  <2>2. ~SinRegistrar(v)' /\ ~SinAnular(v)'
    BY <1>1, <2>1 DEF SinRegistrar, SinAnular, PorReversar, Nada
  <2>3. QED
    BY <1>2, <1>3, <2>1, <2>2 DEF Cuadrada
<1>8. CASE aprobada
  BY <1>1, <1>5, <1>8 DEF aprobada, Ir
<1>9. CASE declinada
  BY <1>6, <1>9 DEF declinada, Terminar, anfitrion
<1>10. CASE sinRespuesta
  BY <1>5, <1>6, <1>10 DEF sinRespuesta, Terminar
<1>11. QED
  BY <1>7, <1>8, <1>9, <1>10

\* borrarReverso, guardarDirectorio, and the two writes of the journal.
LEMMA CuadradaRegistro ==
    ASSUME IInvLote, SinVueltaAun, NEW v \in Ventas, Cuadrada(v),
           \/ borrarReverso \/ guardarTransaccion \/ guardarDirectorio
           \/ cambiarEstadoTransaccion
    PROVE  Cuadrada(v)'
<1>1. Recibidas /\ IInvEntrega /\ Pendiente
  BY DEF IInvLote
<1>2. CASE borrarReverso
  <2>1. /\ UNCHANGED <<journal, cobradas>> /\ pc = "borrar" /\ reverso' = Nada
        /\ reverso = [tipo |-> op, venta |-> venta] /\ vigente
        /\ op \in {"venta", "anulacion"}
        /\ op = "venta" => pc' = "guardar" /\ op' = op /\ venta' = venta
        /\ op = "anulacion" => pc' = "libre"
    BY <1>1, <1>2 DEF borrarReverso, Pendiente, Ir, Terminar, archivos, anfitrion,
       IInvEntrega, IInv, TypeOK, Lugares
  <2>2. /\ SinRegistrar(v)' <=> op = "venta" /\ venta = v
        /\ SinRegistrar(v) <=> op = "venta" /\ venta = v
        /\ ~SinAnular(v)' /\ ~SinAnular(v)
    BY <2>1 DEF SinRegistrar, SinAnular, PorReversar, Nada
  <2>3. QED
    BY <2>1, <2>2, ActivasIgual DEF Cuadrada
<1>3. CASE guardarTransaccion
  <2>1. /\ UNCHANGED <<cobradas, reverso>> /\ reverso = Nada /\ pc' = "directorio"
        /\ pc = "guardar" /\ op = "venta"
    BY <1>1, <1>3, TrasEscribir DEF Pendiente
  <2>2. /\ SinRegistrar(v) <=> venta = v
        /\ ~SinRegistrar(v)' /\ ~SinAnular(v)' /\ ~SinAnular(v)
    BY <2>1 DEF SinRegistrar, SinAnular, PorReversar, Nada
  <2>3. (v \in Activas' <=> v \in Activas \/ v = venta) /\ venta \notin Activas
    BY <1>1, <1>3, ActivasEscribir
  <2>4. QED
    BY <2>1, <2>2, <2>3 DEF Cuadrada
<1>4. CASE guardarDirectorio
  <2>1. /\ UNCHANGED <<journal, cobradas, reverso, vigente>> /\ pc = "directorio"
        /\ \/ op = "venta" /\ pc' = "libre" /\ reverso = Nada
           \/ op = "anulacion" /\ pc' = "borrar" /\ op' = op /\ venta' = venta
    BY <1>1, <1>4, TrasDirectorio DEF Pendiente
  <2>2. (SinRegistrar(v)' <=> SinRegistrar(v)) /\ (SinAnular(v)' <=> SinAnular(v))
    BY <2>1 DEF SinRegistrar, SinAnular, PorReversar, Nada
  <2>3. QED
    BY <2>1, <2>2, ActivasIgual DEF Cuadrada
<1>5. CASE cambiarEstadoTransaccion
  <2>1. /\ UNCHANGED <<cobradas, reverso, vigente, op, venta>> /\ op = "anulacion"
        /\ reverso = [tipo |-> "anulacion", venta |-> venta] /\ vigente
        /\ pc = "campos" /\ indice \in 1 .. 3
        /\ (pc' = "campos" /\ indice' = indice + 1) \/ pc' = "directorio"
    BY <1>1, <1>5, TrasCampo DEF Pendiente
  <2>2. pc' = "campos" => indice' > 1
    BY <2>1
  <2>3. indice # 1 <=> indice > 1
    BY <2>1
  <2>4. /\ SinAnular(v) <=> venta = v /\ indice = 1
        /\ ~SinAnular(v)' /\ ~SinRegistrar(v) /\ ~SinRegistrar(v)'
    BY <2>1, <2>2, <2>3 DEF SinRegistrar, SinAnular, PorReversar
  <2>5. v \in Activas' <=> v \in Activas /\ ~(indice = 1 /\ v = venta)
    BY <1>1, <1>5, ActivasCampo
  <2>6. QED
    BY <2>1, <2>4, <2>5 DEF Cuadrada
<1>6. QED
  BY <1>2, <1>3, <1>4, <1>5

LEMMA CuadradaCierre ==
    ASSUME IInvLote, NEW v \in Ventas, v \notin entregadas', Cuadrada(v),
           enviarTotales \/ subirVenta \/ enviarTotalesFinales \/ borrarJournal
    PROVE  Cuadrada(v)'
<1>1. /\ op = "cierre" /\ pc \in {"enviar", "subir", "borrarJournal"} /\ reverso = Nada
      /\ reverso' = Nada /\ pc' \in {"borrarJournal", "subir", "libre"}
  BY DEF enviarTotales, subirVenta, Subida, enviarTotalesFinales, borrarJournal, EnCierre,
     Dejar, Ir, Terminar, IInvLote, Pendiente
<1>2. ~SinRegistrar(v) /\ ~SinAnular(v) /\ ~SinRegistrar(v)' /\ ~SinAnular(v)'
  BY <1>1 DEF SinRegistrar, SinAnular, PorReversar, Nada
<1>3. v \in cobradas <=> v \in Activas
  BY <1>2 DEF Cuadrada
<1>4. CASE enviarTotales \/ subirVenta
  <2>1. /\ UNCHANGED journal
        /\ UNCHANGED cobradas \/ (cobradas' = {} /\ entregadas' = entregadas \cup cobradas)
    BY <1>4 DEF enviarTotales, subirVenta, Subida, EnCierre, CerrarLote, archivos
  <2>2. QED
    BY <1>2, <1>3, <2>1, ActivasIgual DEF Cuadrada
<1>5. CASE enviarTotalesFinales
  <2>1. /\ UNCHANGED <<journal, entregadas>>
        /\ cobradas' = {} \/ UNCHANGED cobradas
        /\ pc = "subir" /\ indice > Len(journal)
    BY <1>5 DEF enviarTotalesFinales, EnCierre, archivos
  <2>2. Activas \subseteq entregadas
    <3>1. journal \in Seq(Registros) /\ Len(journal) \in Nat /\ indice \in Nat
      BY DEF IInvLote, IInvEntrega, IInv, TypeOK
    <3>2. \A i \in DOMAIN journal : i < indice
      BY <2>1, <3>1
    <3>3. QED
      BY <2>1, <3>2 DEF IInvLote, IInvEntrega, IInv, Pasadas, Activas
  <2>3. QED
    BY <1>2, <1>3, <2>1, <2>2, ActivasIgual DEF Cuadrada
<1>6. CASE borrarJournal
  <2>1. /\ DOMAIN journal' = {} /\ UNCHANGED <<cobradas, entregadas>>
        /\ Activas \subseteq entregadas
    BY <1>6 DEF borrarJournal, anfitrion, IInvLote, IInvEntrega, IInv, Entregado
  <2>2. v \notin Activas'
    BY <2>1 DEF Activas
  <2>3. QED
    BY <1>2, <1>3, <2>1, <2>2 DEF Cuadrada
<1>7. QED
  BY <1>4, <1>5, <1>6

LEMMA CuadradaCaida ==
    ASSUME IInvLote, NEW v \in Ventas, v \notin huecos', Cuadrada(v), caida
    PROVE  Cuadrada(v)'
<1>1. /\ UNCHANGED <<journal, cobradas, reverso, vigente>> /\ pc' = "libre"
      /\ \/ pc \in {"guardar", "directorio"}
         \/ pc = "campos" /\ indice > 1
         \/ pc = "borrar" /\ op = "anulacion"
         => venta # v
  BY DEF caida, Terminar, archivos, anfitrion
<1>2. (SinRegistrar(v)' <=> SinRegistrar(v)) /\ (SinAnular(v)' <=> SinAnular(v))
  BY <1>1 DEF SinRegistrar, SinAnular, PorReversar
<1>3. QED
  BY <1>1, <1>2, ActivasIgual DEF Cuadrada

LEMMA PasoCuadradas ==
    ASSUME IInvLote, SinVueltaAun, [Next]_vars PROVE Cuadradas'
<1>1. SUFFICES ASSUME NEW v \in Ventas, v \notin huecos', v \notin entregadas'
               PROVE  Cuadrada(v)'
  BY DEF Cuadradas
<1>2. Cuadrada(v)
  BY <1>1, HuecosQuedan, EntregadasQuedan DEF IInvLote, Cuadradas
<1>3. CASE PasoCliente
  BY <1>1, <1>2, <1>3, CuadradaCliente
<1>4. CASE PasoTerminal
  BY <1>1, <1>2, <1>4, CuadradaVerificar, CuadradaFinanciera, CuadradaRegistro,
     CuadradaCierre DEF PasoTerminal
<1>5. CASE caida
  BY <1>1, <1>2, <1>5, CuadradaCaida
<1>6. CASE UNCHANGED vars
  BY <1>2, <1>6 DEF Cuadrada, SinRegistrar, SinAnular, PorReversar, Activas, Activa, vars,
     archivos, lugar, anfitrion
<1>7. QED
  BY <1>3, <1>4, <1>5, <1>6 DEF Next

LEMMA InitLote == Init => IInvLote
<1> SUFFICES ASSUME Init PROVE IInvLote
  OBVIOUS
<1>1. /\ DOMAIN journal = {} /\ DOMAIN directorio = {} /\ reverso = Nada
      /\ cobradas = {} /\ ventas = 0 /\ op = "ninguna" /\ pc = "libre"
      /\ consultada = SinRegistro /\ invoice = ReciboInicial
  BY DEF Init
<1>2. Escritos /\ Pendiente
  BY <1>1 DEF Escritos, Pendiente, Nada
<1>3. Enteros /\ Dirigidos
  BY <1>1 DEF Enteros, Dirigidos
<1>4. Recibidas
  BY <1>1, Constantes DEF Recibidas, ReciboDe
<1>5. Cuadradas
  BY <1>1 DEF Cuadradas, Cuadrada, SinRegistrar, SinAnular, PorReversar, Activas, Nada
<1>6. QED
  BY <1>2, <1>3, <1>4, <1>5, InitEntrega DEF IInvLote

LEMMA PasoLote == IInvLote /\ [Next]_vars => IInvLote'
<1> SUFFICES ASSUME IInvLote, [Next]_vars PROVE IInvLote'
  OBVIOUS
<1>1. IInvEntrega /\ Escritos /\ Pendiente
  BY DEF IInvLote
<1>2. IInvEntrega' /\ Escritos' /\ Pendiente'
  BY <1>1, PasoEntrega, PasoEscritos, PasoPendiente
<1>3. ASSUME SinVueltaAun' PROVE Recibidas' /\ Enteros' /\ Dirigidos' /\ Cuadradas'
  <2>1. SinVueltaAun
    <3>1. ventas \in Nat /\ ventas' \in {ventas, ventas + 1}
      BY <1>1 DEF IInvEntrega, IInv, TypeOK, Next, PasoCliente, PasoTerminal, iniciarVenta,
         iniciarAnulacion, iniciarCierre, eliminarReverso, realizarConsultaReciboAnulacion,
         verificarReversoExistente, aprobada, declinada, sinRespuesta, sinReverso,
         borrarReverso, guardarTransaccion, guardarDirectorio, cambiarEstadoTransaccion,
         enviarTotales, subirVenta, Subida, enviarTotalesFinales, EnCierre, borrarJournal,
         caida, vars, historia
    <3>2. QED
      BY <1>3, <3>1, Constantes DEF SinVueltaAun
  <2>2. Recibidas /\ Enteros /\ Dirigidos
    BY <2>1 DEF IInvLote
  <2>3. QED
    BY <1>1, <1>3, <2>1, <2>2, PasoRecibidas, PasoEnteros, PasoDirigidos, PasoCuadradas
<1>4. QED
  BY <1>2, <1>3 DEF IInvLote

LEMMA SiempreLote == Spec => []IInvLote
BY InitLote, PasoLote, PTL DEF Spec

\* No record is half sale and half void, but for a void whose process ended.
THEOREM CierreRegistroCoherente == Spec => []RegistroCoherente
<1>1. IInvLote => RegistroCoherente
  BY DEF IInvLote, Escritos, Enteros, RegistroCoherente
<1>2. QED
  BY <1>1, SiempreLote, PTL

\* The directory leads to the record that the journal has under the same receipt.
THEOREM CierreDirectorioPropio == Spec => []DirectorioPropio
<1>1. ASSUME IInvLote, SinVueltaAun, NEW i \in DOMAIN journal,
             journal[i].venta \notin huecos,
             ~(pc = "directorio" /\ venta = journal[i].venta)
      PROVE  LET e == buscarReciboMulticorresponsal(journal[i].recibo)
             IN e # 0 /\ directorio[e].posicion = i /\ buscarRecibo(journal[i].recibo) = i
  <2>1. IInvEntrega /\ Recibidas /\ Dirigidos
    BY <1>1 DEF IInvLote
  <2>2. PICK e \in DOMAIN directorio :
            Primera(e, journal[i].recibo) /\ directorio[e].posicion = i
    BY <1>1, <2>1 DEF Dirigidos
  <2>3. directorio \in Seq(Entradas) /\ e # 0
    BY <2>1, <2>2 DEF IInvEntrega, IInv, TypeOK
  <2>4. buscarReciboMulticorresponsal(journal[i].recibo) = e
    BY <2>2, <2>3, BuscarPrimera
  <2>5. buscarRecibo(journal[i].recibo) = i
    BY <1>1, <2>1, BuscarPropio
  <2>6. QED
    BY <2>2, <2>3, <2>4, <2>5
<1>2. IInvLote => DirectorioPropio
  BY <1>1 DEF DirectorioPropio
<1>3. QED
  BY <1>2, SiempreLote, PTL

\* When the totals go out they count the sales of the host's open batch, but for
\* the named gaps and what an earlier settlement delivered.
THEOREM CierreConCuadre == Spec => []CierreCuadra
<1>1. ASSUME IInvLote, op = "cierre", pc = "enviar", SinVueltaAun
      PROVE  Activas \ (huecos \cup entregadas) = cobradas \ (huecos \cup entregadas)
  <2>1. reverso = Nada /\ Cuadradas
    BY <1>1 DEF IInvLote, Pendiente
  <2>2. \A v \in Ventas \ (huecos \cup entregadas) : v \in cobradas <=> v \in Activas
    BY <1>1, <2>1 DEF Cuadradas, Cuadrada, SinRegistrar, SinAnular, PorReversar, Nada
  <2>3. cobradas \subseteq Ventas
    BY <1>1 DEF IInvLote, IInvEntrega, IInv, TypeOK
  <2>4. Activas \subseteq Ventas
    <3>1. \A i \in DOMAIN journal : journal[i] \in Registros
      BY <1>1 DEF IInvLote, IInvEntrega, IInv, TypeOK
    <3>2. QED
      BY <3>1 DEF Activas, Registros
  <2>5. QED
    BY <2>2, <2>3, <2>4
<1>2. IInvLote => CierreCuadra
  BY <1>1 DEF CierreCuadra
<1>3. QED
  BY <1>2, SiempreLote, PTL

=============================================================================
