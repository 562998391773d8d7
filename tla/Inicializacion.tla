--------------------------- MODULE Inicializacion ---------------------------
(***************************************************************************)
(* Download of the terminal's tables (Base/Inicializacion.cpp) and change  *)
(* of the terminal number (verificarCambioTerminal in                      *)
(* Base/configuracion.cpp).  The tables in use are set aside under another *)
(* name, the new ones are received one message at a time, the settings are *)
(* unpacked from them, and the old ones are put back if something fails.   *)
(* The parameter TERMINAL_INICIALIZADA says how far this went:             *)
(*     0 not initialised, 1 initialised, 2 initialisation under way,       *)
(* and the start of the application puts the old tables back when it finds *)
(* a 2 (MainActivity).                                                     *)
(*                                                                         *)
(* A table is the number of the download that brought it, 0 if absent.     *)
(* The process may end between any two steps.  A step is one write, or the *)
(* writes of one table or of one group of settings: an end in the middle   *)
(* of these leaves the terminal as an end after them, but for that table   *)
(* or group, which the start of the application writes over or HuecosDe    *)
(* names as a gap.                                                         *)
(***************************************************************************)
EXTENDS Naturals, Sequences, FiniteSets

CONSTANTS
    MaxDescargas,   \* bound: downloads the host begins
    MaxCaidas,      \* bound: times the process ends half way
    Terminales,     \* numbers the terminal may be given
    Contenidos      \* sets of tables a download of the host may have

(* The tables, in the order the host sends them and respaldoTablas renames   *)
(* them: 1, 4 (the acquirer), another numbered one not every download has,   *)
(* TABPAR, which ends the download (code 942000), and a table with a name of *)
(* its own, asked for only if TABPAR says so (PUNTOS, BONOS, EMISOR, MULTICO *)
(* and the like).                                                            *)
Orden == <<"uno", "cuatro", "extra", "par", "nombrada">>
Tablas == {Orden[i] : i \in DOMAIN Orden}
Numeradas == {"uno", "cuatro", "extra"}
Obligatorias == {"uno", "cuatro", "par"}
Ultima == Len(Orden)

\* The settings every unpacking of TABPAR writes, by the place that does.
\* MODO_PAYPASS and HABILITACION_MODO_CNB, left as they are by a TABPAR without
\* their bit, are not among them.
Grupos == {"modos", "convenios", "activos"}

ASSUME DescargasAssumption == MaxDescargas \in Nat \ {0} /\ MaxCaidas \in Nat
ASSUME TerminalesAssumption == 0 \notin Terminales
ASSUME ContenidosAssumption ==
    \A c \in Contenidos : Obligatorias \subseteq c /\ c \subseteq Tablas

VARIABLES
    \* files
    tabla,          \* T-001.TXT ... TABPAR.TXT, PUNTOS.TXT
    respaldo,       \* T-001.TXTR ... TABLAPA.RES, PUNTOS.RES
    \* parameters
    estado,         \* TERMINAL_INICIALIZADA
    numero,         \* NUMERO_TERMINAL, 0 if empty
    auxiliar,       \* NUMERO_TERMINAL_AUXILIAR
    cambio,         \* INICIALIZACION_CAMBIO_TERMINAL
    ajustes,        \* download each group of settings was unpacked from
    conexion,       \* download the host's addresses were unpacked from
    \* the process
    pc, indice,     \* place, and table of the loop
    terminal,       \* local: the number read when the routine began
    \* the host
    envio,          \* the download under way
    contenido,      \* tables of each download
    destino,        \* terminal number each download is for
    \* history
    vigente,        \* last download that was marked as initialised
    caidas,         \* times the process ended half way
    faltas,         \* gaps the download under way will leave
    huecos          \* gaps of the protocol the terminal is in

archivos   == <<tabla, respaldo>>
parametros == <<estado, numero, auxiliar, cambio, ajustes, conexion>>
proceso    == <<pc, indice, terminal>>
servidor   == <<envio, contenido, destino>>
historia   == <<vigente, caidas, faltas, huecos>>
vars == <<archivos, parametros, proceso, servidor, historia>>

Huecos == {"respaldo", "parcial", "sobras", "viejas", "incompleta",
           "ajustes", "cola", "numero", "borrado"}

Init ==
    /\ tabla = [t \in Tablas |-> 0] /\ respaldo = tabla
    /\ estado = 0 /\ numero = 0 /\ auxiliar = 0 /\ cambio = FALSE
    /\ ajustes = [g \in Grupos |-> 0] /\ conexion = 0
    /\ pc = "libre" /\ indice = 0 /\ terminal = 0
    /\ envio = 0 /\ contenido = <<>> /\ destino = <<>>
    /\ vigente = 0 /\ caidas = 0 /\ faltas = {} /\ huecos = {}

-----------------------------------------------------------------------------
(* Places of the process.                                                    *)

Ir(lugar) ==
    /\ pc' = lugar /\ indice' = 0
    /\ terminal' = IF lugar = "libre" THEN 0 ELSE terminal
Recorrer(lugar) == pc' = lugar /\ indice' = 1 /\ UNCHANGED terminal

\* Faulty variant: the loop runs once too often.
AvanzarDeMas(lugar) ==
    IF indice <= Ultima THEN indice' = indice + 1 /\ UNCHANGED <<pc, terminal>>
                        ELSE Ir(lugar)

\* The next table of a loop, or the place after it.
Avanzar(lugar) ==
    IF indice < Ultima THEN indice' = indice + 1 /\ UNCHANGED <<pc, terminal>>
                       ELSE Ir(lugar)

Marcar(h) == huecos' = huecos \cup h /\ UNCHANGED <<vigente, caidas, faltas>>
Faltar(h) == faltas' = faltas \cup h /\ UNCHANGED <<vigente, caidas, huecos>>

\* invocarInicializacionGeneral up to its first request: with a change of
\* number pending the tables are set aside before anything is sent.
invocar(conCambio) ==
    /\ terminal' = numero
    /\ IF conCambio THEN pc' = "apartar" /\ indice' = 1
                  ELSE pc' = "pedir" /\ indice' = 0

(* A failure with a change of number pending takes the number back, in two   *)
(* writes: the mark of the change, and then the number.  Four places do it,  *)
(* and each goes on somewhere else.                                          *)
Vuelta == [devolverPedir      |-> "libre",
           devolverFallo      |-> "mirarRespaldo",
           devolverAjustes    |-> "marcarUno",
           devolverRestaurada |-> "libre"]

quitarCambio(devolver) ==
    IF cambio THEN cambio' = FALSE /\ Ir(devolver)
              ELSE UNCHANGED cambio /\ Ir(Vuelta[devolver])

devolverNumero ==
    /\ pc \in DOMAIN Vuelta
    /\ numero' = auxiliar
    /\ Ir(Vuelta[pc])
    /\ IF pc = "devolverAjustes" THEN Faltar({"numero"}) ELSE UNCHANGED historia
    /\ UNCHANGED <<archivos, estado, auxiliar, cambio, ajustes, conexion, servidor>>

-----------------------------------------------------------------------------
(* JNI operations.                                                           *)

\* inicializarTerminal, once connected; without a connection it does nothing.
inicializarTerminal ==
    /\ pc = "libre" /\ invocar(cambio)
    /\ UNCHANGED <<archivos, parametros, servidor, historia>>

(* verificarCambioTerminal: the same number, or the first one, is written at *)
(* once; another one after the settlements, which may stop it.               *)
verificarCambioTerminal(t) ==
    /\ pc = "libre" /\ numero # t
    /\ numero' = t
    /\ IF numero = 0
         THEN Ir("libre")
         ELSE pc' = "anotarAuxiliar" /\ indice' = 0 /\ terminal' = numero
    /\ UNCHANGED <<archivos, estado, auxiliar, cambio, ajustes, conexion, servidor, historia>>

anotarAuxiliar ==
    /\ pc = "anotarAuxiliar"
    /\ auxiliar' = terminal
    /\ Ir("anotarCambio")
    /\ UNCHANGED <<archivos, estado, numero, cambio, ajustes, conexion, servidor, historia>>

anotarCambio ==
    /\ pc = "anotarCambio"
    /\ cambio' = TRUE
    /\ Ir("conectar")
    /\ UNCHANGED <<archivos, estado, numero, auxiliar, ajustes, conexion, servidor, historia>>

\* Without a connection it returns success.
conectar ==
    /\ pc = "conectar"
    /\ \/ invocar(TRUE) /\ UNCHANGED historia
       \/ Ir("libre") /\ Marcar({"numero"})
    /\ UNCHANGED <<archivos, parametros, servidor>>

\* borrarParametros, with an empty journal: the number first, then the mark.
borrarParametros ==
    /\ pc = "libre" /\ numero # 0
    /\ numero' = 0
    /\ Ir("borrarMarca") /\ Marcar({"borrado"})
    /\ UNCHANGED <<archivos, estado, auxiliar, cambio, ajustes, conexion, servidor>>

borrarMarca ==
    /\ pc = "borrarMarca"
    /\ estado' = 0
    /\ Ir("libre")
    /\ UNCHANGED <<archivos, numero, auxiliar, cambio, ajustes, conexion, servidor, historia>>

-----------------------------------------------------------------------------
(* respaldoTablas and the mark 2.                                            *)

Apartar(t) ==
    IF tabla[t] # 0
      THEN /\ respaldo' = [respaldo EXCEPT ![t] = tabla[t]]
           /\ tabla' = [tabla EXCEPT ![t] = 0]
      ELSE UNCHANGED archivos

\* "apartar" is the call before the request, "reapartar" the one after its
\* answer; borrarTablas(0) finds nothing left.  A table that is not in use
\* leaves the backup of its name as it was.
respaldoTablas ==
    /\ pc \in {"apartar", "reapartar"}
    /\ Apartar(Orden[indice])
    /\ Avanzar(IF pc = "apartar" THEN "marcar" ELSE "remarcar")
    /\ UNCHANGED <<parametros, servidor, historia>>

marcarEnCurso ==
    /\ pc \in {"marcar", "remarcar"}
    /\ estado' = 2
    /\ IF pc = "marcar" THEN Ir("pedir") ELSE Recorrer("recibir")
    /\ UNCHANGED <<archivos, numero, auxiliar, cambio, ajustes, conexion, servidor, historia>>

-----------------------------------------------------------------------------
(* The download.                                                             *)

\* Faulty variant: the tables in use are written over.
primeraSinApartar ==
    /\ pc = "pedir" /\ terminal # 0 /\ Len(contenido) < MaxDescargas
    /\ envio' = Len(contenido) + 1
    /\ \E c \in Contenidos : contenido' = Append(contenido, c)
    /\ destino' = Append(destino, terminal)
    /\ Ir("remarcar")
    /\ UNCHANGED <<archivos, parametros, historia>>

\* The first request is answered: the host begins a download.
primeraRespuesta ==
    /\ pc = "pedir" /\ terminal # 0 /\ Len(contenido) < MaxDescargas
    /\ envio' = Len(contenido) + 1
    /\ \E c \in Contenidos : contenido' = Append(contenido, c)
    /\ destino' = Append(destino, terminal)
    /\ Recorrer("reapartar")
    /\ UNCHANGED <<archivos, parametros, historia>>

\* It is not: the tables stay set aside if they were.
sinRespuesta ==
    /\ pc = "pedir"
    /\ quitarCambio("devolverPedir")
    /\ UNCHANGED <<archivos, estado, numero, auxiliar, ajustes, conexion, servidor, historia>>

\* Each answer adds a table; one the download does not have is skipped.
recibirTabla ==
    /\ pc = "recibir"
    /\ IF Orden[indice] \in contenido[envio]
         THEN tabla' = [tabla EXCEPT ![Orden[indice]] = envio]
         ELSE UNCHANGED tabla
    /\ IF Orden[indice] = "par" THEN Ir("desempaquetar")
                               ELSE indice' = indice + 1 /\ UNCHANGED <<pc, terminal>>
    /\ UNCHANGED <<respaldo, parametros, servidor, historia>>

\* Faulty variant: a failed download leaves the number of the terminal.
falloSinDevolver ==
    /\ pc = "recibir"
    /\ cambio' = FALSE
    /\ Ir("mirarRespaldo")
    /\ UNCHANGED <<archivos, estado, numero, auxiliar, ajustes, conexion, servidor, historia>>

\* A first message that is not table 1, or a later request unanswered.
falloDescarga ==
    /\ pc = "recibir"
    /\ quitarCambio("devolverFallo")
    /\ UNCHANGED <<archivos, estado, numero, auxiliar, ajustes, conexion, servidor, historia>>

-----------------------------------------------------------------------------
(* desempaquetarTablaParametros.                                             *)

Desempaquetar(grupo, lugar) ==
    /\ ajustes' = [ajustes EXCEPT ![grupo] = tabla["par"]]
    /\ Ir(lugar)

\* The first writes clear two of the agreements, whatever TABPAR says.
borrarConvenios ==
    /\ pc = "desempaquetar"
    /\ ajustes' = [ajustes EXCEPT !["convenios"] = 0]
    /\ Ir("leerParametros")
    /\ UNCHANGED <<archivos, estado, numero, auxiliar, cambio, conexion, servidor, historia>>

\* A TABPAR that cannot be read, or is empty, leaves all the other settings as
\* they were and asks for no named table; only the first of the two is an error
\* to the caller.
leerParametros ==
    /\ pc = "leerParametros"
    /\ \/ Ir("nombradas") /\ UNCHANGED historia
       \/ \E lugar \in {"quitarAjustes", "marcarUno"} :
            Ir(lugar) /\ Faltar({"ajustes", "incompleta"})
    /\ UNCHANGED <<archivos, parametros, servidor>>

(* The named tables TABPAR asks for.  transaccionInicializacion repeats its  *)
(* request until it is answered, so that it never fails: a process waiting   *)
(* for ever is one that stays here until it is ended.  But the answer to a   *)
(* repeated request follows the first message, which is lost; and the        *)
(* request of inicializarMulticorresponsal, inicializarDCC and               *)
(* inicializarQRCODE is sent once, and its failure not looked at.  Those the *)
(* code sends further on, among the settings, come here too.                 *)
recibirNombradas ==
    /\ pc = "nombradas"
    /\ IF "nombrada" \in contenido[envio]
         THEN \/ tabla' = [tabla EXCEPT !["nombrada"] = envio] /\ UNCHANGED historia
              \/ /\ \/ tabla' = [tabla EXCEPT !["nombrada"] = envio]
                    \/ UNCHANGED tabla
                 /\ Faltar({"incompleta"})
         ELSE UNCHANGED <<tabla, historia>>
    /\ Ir("modos")
    /\ UNCHANGED <<respaldo, parametros, servidor>>

\* MODO_QR, MODO_CONSULTA, FLUJO_UNIFICADO and BIG_BANCOLOMBIA.
desempaquetarModos ==
    /\ pc = "modos" /\ Desempaquetar("modos", "convenios")
    /\ UNCHANGED <<archivos, estado, numero, auxiliar, cambio, conexion, servidor, historia>>

\* VIVAMOS, the correspondents, DCC and BONOS_KIOSCO: resultado is still positive.
desempaquetarConvenios ==
    /\ pc = "convenios" /\ Desempaquetar("convenios", "activos")
    /\ UNCHANGED <<archivos, estado, numero, auxiliar, cambio, conexion, servidor, historia>>

\* MULTICORRESPONSAL_ACTIVO, BONO_TEFF_ACTIVO and PUNTOS_COLOMBIA_ACTIVO; a
\* request of inicializarPaypass unanswered before them is the result.
desempaquetarActivos ==
    /\ pc = "activos"
    /\ \E lugar \in {"quitarAjustes", "marcarUno"} : Desempaquetar("activos", lugar)
    /\ UNCHANGED <<archivos, estado, numero, auxiliar, cambio, conexion, servidor, historia>>

\* The error of the unpacking only takes the number back.
errorAjustes ==
    /\ pc = "quitarAjustes"
    /\ quitarCambio("devolverAjustes")
    /\ UNCHANGED <<archivos, estado, numero, auxiliar, ajustes, conexion, servidor, historia>>

-----------------------------------------------------------------------------
(* The end of the download.                                                  *)

\* inicializacionConsultaInformacion, whose result is not looked at, and the
\* mark 1: from here on the terminal has the new tables, and their gaps only.
marcarInicializada ==
    /\ pc = "marcarUno"
    /\ estado' = 1
    /\ vigente' = envio
    /\ huecos' = faltas /\ faltas' = {}
    /\ Ir("comunicacion")
    /\ UNCHANGED <<archivos, numero, auxiliar, cambio, ajustes, conexion, servidor, caidas>>

\* Faulty variant: the addresses stay those of the previous tables.
comunicacionSinCambiar ==
    /\ pc = "comunicacion"
    /\ Recorrer("borrarRespaldo")
    /\ UNCHANGED <<archivos, parametros, servidor, historia>>

configurarDatosComunicacion ==
    /\ pc = "comunicacion"
    /\ conexion' = tabla["cuatro"]
    /\ Recorrer("borrarRespaldo")
    /\ UNCHANGED <<archivos, estado, numero, auxiliar, cambio, ajustes, servidor, historia>>

\* borrarTablas(1) builds the names of the numbered tables right, and those of
\* the others wrong (PUNTOS.TXTR for PUNTOS.RES): their backups stay.
borrarTablas ==
    /\ pc = "borrarRespaldo"
    /\ respaldo' = [respaldo EXCEPT ![Orden[indice]] =
                       IF Orden[indice] \in Numeradas THEN 0 ELSE @]
    /\ Avanzar("notificar")
    /\ UNCHANGED <<tabla, parametros, servidor, historia>>

(* _inicializacionSerial_, answered or not, and the auxiliary number.  The   *)
(* mark of a change of number stays.                                         *)
notificarSerial ==
    /\ pc = "notificar"
    /\ auxiliar' = numero
    /\ Ir("libre")
    /\ UNCHANGED <<archivos, estado, numero, cambio, ajustes, conexion, servidor, historia>>

-----------------------------------------------------------------------------
(* _restaurarInicializacion_.                                                *)

\* Without table 1 set aside the terminal is left uninitialised, with what the
\* download brought, or with what a restoration cut half way had put back.
mirarRespaldo ==
    /\ pc = "mirarRespaldo"
    /\ IF respaldo["uno"] # 0
         THEN Recorrer("restaurar") /\ UNCHANGED <<estado, historia>>
         ELSE /\ estado' = 0 /\ Ir("libre")
              /\ Marcar(IF \E t \in Tablas : tabla[t] # 0 THEN {"parcial"} ELSE {})
    /\ UNCHANGED <<archivos, numero, auxiliar, cambio, ajustes, conexion, servidor>>

\* A numbered table that was not set aside stays; any other is deleted anyway,
\* and what comes back may be of an older download than table 1.
Reponer(t) ==
    IF respaldo[t] # 0 \/ t \notin Numeradas
      THEN /\ tabla' = [tabla EXCEPT ![t] = respaldo[t]]
           /\ respaldo' = [respaldo EXCEPT ![t] = 0]
           /\ Marcar(IF t # "uno" /\ respaldo[t] \notin {0, tabla["uno"]}
                       THEN {"viejas"} ELSE {})
      ELSE /\ UNCHANGED archivos
           /\ Marcar(IF tabla[t] # 0 THEN {"sobras"} ELSE {})

restaurarTabla ==
    /\ pc = "restaurar"
    /\ Reponer(Orden[indice])
    /\ Avanzar("restaurada")
    /\ UNCHANGED <<parametros, servidor>>

marcarRestaurada ==
    /\ pc = "restaurada"
    /\ estado' = 1
    /\ Ir("habilitar")
    /\ UNCHANGED <<archivos, numero, auxiliar, cambio, ajustes, conexion, servidor, historia>>

\* habilitarMultiplesCorresponsales reads TABPAR, and leerArchivo ends the
\* process on a file that does not exist; then the number is taken back.
habilitarMultiplesCorresponsales ==
    /\ pc = "habilitar" /\ tabla["par"] # 0
    /\ quitarCambio("devolverRestaurada")
    /\ UNCHANGED <<archivos, estado, numero, auxiliar, ajustes, conexion, servidor, historia>>

-----------------------------------------------------------------------------
(* The end of the process and the start of the application.                  *)

Desempaquetando == {"leerParametros", "nombradas", "modos", "convenios", "activos",
                    "quitarAjustes", "devolverAjustes", "marcarUno"}

Terminando == {"comunicacion", "borrarRespaldo", "notificar"}

\* The gaps a process that ends at a place leaves the terminal in.
HuecosDe(lugar) ==
    (IF lugar \in Terminando THEN {"cola"} ELSE {})
    \cup (IF lugar \in {"apartar", "marcar", "reapartar", "remarcar"} /\ estado # 2
       THEN {"respaldo"} ELSE {})
    \cup (IF lugar \in Desempaquetando THEN {"ajustes"} ELSE {})
    \cup (IF \/ lugar \in DOMAIN Vuelta \cup {"anotarAuxiliar", "anotarCambio", "conectar"}
             \/ cambio /\ estado # 2 /\ lugar \in {"apartar", "marcar", "habilitar"}
            THEN {"numero"} ELSE {})

Cerrar ==
    /\ huecos' = huecos \cup HuecosDe(pc) /\ faltas' = {}
    /\ pc' = "cerrado" /\ indice' = 0 /\ terminal' = 0
    /\ UNCHANGED <<archivos, parametros, servidor, vigente>>

finProceso ==
    /\ pc \notin {"libre", "cerrado"} /\ caidas < MaxCaidas
    /\ caidas' = caidas + 1
    /\ Cerrar

\* habilitarMultiplesCorresponsales without TABPAR.
finPorTabpar ==
    /\ pc = "habilitar" /\ tabla["par"] = 0
    /\ UNCHANGED caidas
    /\ Cerrar

\* Faulty variant: the start does not look at the mark.
arrancarSinMirar ==
    /\ pc = "cerrado"
    /\ Ir("libre") /\ estado' = IF estado = 2 THEN 1 ELSE estado
    /\ UNCHANGED <<archivos, numero, auxiliar, cambio, ajustes, conexion, servidor, historia>>

\* MainActivity.
arrancar ==
    /\ pc = "cerrado"
    /\ IF estado = 2 THEN Ir("mirarRespaldo") ELSE Ir("libre")
    /\ UNCHANGED <<archivos, parametros, servidor, historia>>

\* pantallaInicialUsuarioComun.
restaurarInicializacion ==
    /\ pc = "libre" /\ estado = 2
    /\ Ir("mirarRespaldo")
    /\ UNCHANGED <<archivos, parametros, servidor, historia>>

-----------------------------------------------------------------------------

Operacion ==
    \/ inicializarTerminal
    \/ \E t \in Terminales : verificarCambioTerminal(t)
    \/ borrarParametros

desempaquetarTablaParametros ==
    \/ borrarConvenios \/ leerParametros \/ recibirNombradas
    \/ desempaquetarModos \/ desempaquetarConvenios \/ desempaquetarActivos

Paso ==
    \/ anotarAuxiliar \/ anotarCambio \/ conectar \/ borrarMarca
    \/ respaldoTablas \/ marcarEnCurso
    \/ primeraRespuesta \/ sinRespuesta
    \/ recibirTabla \/ falloDescarga
    \/ desempaquetarTablaParametros \/ errorAjustes \/ devolverNumero
    \/ marcarInicializada
    \/ configurarDatosComunicacion \/ borrarTablas \/ notificarSerial
    \/ mirarRespaldo \/ restaurarTabla \/ marcarRestaurada
    \/ habilitarMultiplesCorresponsales

Next ==
    \/ Operacion \/ Paso \/ restaurarInicializacion
    \/ finProceso \/ finPorTabpar \/ arrancar

Spec == Init /\ [][Next]_vars

-----------------------------------------------------------------------------

Lugares == {"libre", "cerrado", "anotarAuxiliar", "anotarCambio", "conectar",
            "borrarMarca", "apartar", "reapartar", "marcar", "remarcar", "pedir",
            "recibir", "desempaquetar", "mirarRespaldo", "restaurar",
            "restaurada", "habilitar"}
               \cup Desempaquetando \cup Terminando \cup DOMAIN Vuelta

(* Every variable has its type, and the host's books describe exactly the    *)
(* downloads that were begun.                                                *)
TypeOK ==
    /\ tabla \in [Tablas -> 0 .. MaxDescargas]
    /\ respaldo \in [Tablas -> 0 .. MaxDescargas]
    /\ estado \in 0 .. 2 /\ cambio \in BOOLEAN
    /\ {numero, auxiliar, terminal} \subseteq Terminales \cup {0}
    /\ ajustes \in [Grupos -> 0 .. MaxDescargas]
    /\ {conexion, vigente, envio} \subseteq 0 .. MaxDescargas
    /\ pc \in Lugares /\ indice \in 0 .. Ultima
    /\ contenido \in Seq(Contenidos) /\ Len(contenido) <= MaxDescargas
    /\ destino \in Seq(Terminales) /\ Len(destino) = Len(contenido)
    /\ huecos \subseteq Huecos /\ faltas \subseteq Huecos

\* The tables are those of a download, all of them and no other.
SonDe(d) == tabla = [t \in Tablas |-> IF t \in contenido[d] THEN d ELSE 0]

(* An initialised terminal works with the tables of one complete download,   *)
(* the last one that was marked, whatever failed after it: a download cut at *)
(* any message, a change of number refused, or the end of the process with   *)
(* the mark 2.  Excepted are the gaps of the code: the process ended with    *)
(* the tables set aside and no mark 2, or while they were being put back; a  *)
(* table the failed download had and the previous one had not; a backup that *)
(* borrarTablas(1) left from an older download and that the restoration puts *)
(* over the tables; and a named table that never came, or came without its   *)
(* first message.                                                            *)
TablasVigentes ==
    pc = "libre" /\ estado = 1
        /\ huecos \cap {"respaldo", "parcial", "sobras", "viejas", "incompleta"} = {}
      => vigente \in DOMAIN contenido /\ SonDe(vigente)

(* The number of an initialised terminal is the one its tables were          *)
(* downloaded for, so that a change of number that fails takes it back.      *)
(* Excepted: the process ended between the write of the number and the mark  *)
(* 2, between the two writes that take it back, or between the mark 1 of a   *)
(* restoration and these; a change of number without a connection, or with   *)
(* an error in the settings; the parameters deleted under tables that stay;  *)
(* and the process ended just after the mark 1 of a download, which leaves   *)
(* the auxiliary number and the mark of the change for the next failure to   *)
(* put back.                                                                 *)
NumeroDeLasTablas ==
    pc = "libre" /\ estado = 1 /\ tabla["uno"] # 0
        /\ huecos \cap {"numero", "borrado", "parcial", "cola"} = {}
      => numero = destino[tabla["uno"]]

(* The settings and the addresses an initialised terminal works with were    *)
(* unpacked from the tables it has: neither is set aside nor put back.       *)
(* Excepted: the process ended after the first setting was written and       *)
(* before the mark 1, or TABPAR could not be read, for the settings; it      *)
(* ended between this mark and the end, for the addresses.                   *)
AjustesDeLasTablas ==
    pc = "libre" /\ estado = 1 /\ huecos \cap {"respaldo", "parcial"} = {}
      => /\ "ajustes" \in huecos \/ \A g \in Grupos : ajustes[g] = tabla["par"]
         /\ "cola" \in huecos \/ conexion = tabla["cuatro"]

(* The last download that was marked is not lost before another one is: each *)
(* of its tables is in use or set aside, at every step, but for a named      *)
(* table that did not come whole.                                            *)
NadaSePierde ==
    vigente # 0 /\ "parcial" \notin huecos
      => \A t \in contenido[vigente] :
            \/ vigente \in {tabla[t], respaldo[t]}
            \/ t = "nombrada" /\ "incompleta" \in huecos

=============================================================================
