------------------------------- MODULE Diario -------------------------------
(***************************************************************************)
(* The files in which the terminal keeps its approved card sales: JOURNAL, *)
(* one record per sale, and DIRECTORIO_JOURNALS, which says at which       *)
(* position of the journal a receipt is (Base/native-lib.cpp,              *)
(* Base/Archivos.cpp, Venta/duplicado_venta.cpp).  Module Cierre extends   *)
(* this one with the operations that read and write them.                  *)
(***************************************************************************)
EXTENDS Naturals, FiniteSets, SequencesExt

CONSTANTS
    MaxVentas,      \* bound: sales a behaviour may start
    MaxRecibo,      \* receipts are 1 .. MaxRecibo and then 1 again (999998)
    ReciboInicial   \* the last receipt handed out when the files were empty

ASSUME MaxVentasAssumption == MaxVentas \in Nat \ {0}
ASSUME MaxReciboAssumption == MaxRecibo \in Nat \ {0}
ASSUME ReciboInicialAssumption == ReciboInicial \in 0 .. MaxRecibo

VARIABLES
    journal,        \* JOURNAL: its records, in order
    directorio,     \* DIRECTORIO_JOURNALS: its entries, in order
    invoice         \* parameter INVOICE: the last receipt handed out

archivos == <<journal, directorio>>

Ventas  == 1 .. MaxVentas
Recibos == 1 .. MaxRecibo

\* What a void writes over a record, in five writes: the state, hora and fecha,
\* rrn and aprobacion.
Campos == {"estado", "momento", "aprobacion"}

\* A record: which sale it is, its receipt, the fields a void has overwritten.
Registros == [venta : Ventas, recibo : Recibos, anulados : SUBSET Campos]
Entradas  == [recibo : Recibos, posicion : Nat, estado : {"0", "1"}]

\* estadoTransaccion of a record is "1" until the void writes "0" over it.
Activa(registro) == "estado" \notin registro.anulados

Activas == {journal[i].venta : i \in {j \in DOMAIN journal : Activa(journal[j])}}

-----------------------------------------------------------------------------
\* generarInvoice
NuevoRecibo == IF invoice + 1 > MaxRecibo THEN 1 ELSE invoice + 1

\* Position of the first record or entry with that receipt, 0 if none:
\* buscarRecibo reads the journal, buscarReciboMulticorresponsal the directory.
buscarRecibo(recibo) ==
    SelectInSeq(journal, LAMBDA r : r.recibo = recibo)
buscarReciboMulticorresponsal(recibo) ==
    SelectInSeq(directorio, LAMBDA e : e.recibo = recibo)

escribirJournal(venta, recibo) ==
    journal' = Append(journal,
                      [venta |-> venta, recibo |-> recibo, anulados |-> {}])

\* Faulty variant: the position is that of the record to come.
directorioAdelantado(recibo, estado) ==
    directorio' = Append(directorio, [recibo   |-> recibo,
                                      posicion |-> Len(journal) + 1,
                                      estado   |-> estado])

(* guardarDirectorioJournals, always with the position of the last record of *)
(* the journal.  The branch that would overwrite the last entry is never     *)
(* taken: buscarArchivo returns 0 for a record that was read whole, and the  *)
(* code asks for more than 0 before it looks at that entry.                  *)
guardarDirectorioJournals(recibo, estado) ==
    directorio' = Append(directorio, [recibo   |-> recibo,
                                      posicion |-> Len(journal),
                                      estado   |-> estado])

\* Faulty variant: the state of the record is the last field written.
OrdenEstadoAlFinal == <<"momento", "aprobacion", "estado">>

\* The order in which cambiarEstadoTransaccion writes over a record.
Orden == <<"estado", "momento", "aprobacion">>

\* A write of cambiarEstadoTransaccion with actualizarArchivo, on the first
\* record with that receipt; nothing if there is none.
actualizarCampo(recibo, n) ==
    LET i == buscarRecibo(recibo)
    IN journal' = IF i = 0 THEN journal
                  ELSE [journal EXCEPT ![i].anulados = @ \cup {Orden[n]}]
=============================================================================
