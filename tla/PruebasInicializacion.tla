----------------------- MODULE PruebasInicializacion -----------------------
(***************************************************************************)
(* Proofs about the download of the tables, for any number of downloads,   *)
(* of ends of the process, of terminal numbers and of sets of tables: the  *)
(* last download that was marked is never lost, and what an initialised    *)
(* terminal works with is that download, its number and its settings.      *)
(***************************************************************************)
EXTENDS Inicializacion, TLAPS

\* None of these gaps of the protocol.
Sin(h) == huecos \cap h = {}

\* The tables of the last download that was marked, and those it surely has.
Suyas == IF vigente = 0 THEN {} ELSE contenido[vigente]
Ciertas == Suyas \ (IF "incompleta" \in huecos THEN {"nombrada"} ELSE {})

\* Places, by what they mean for the files: with the tables in use, or set aside;
\* with those of the marked download in use; half way through a restoration; with
\* a download under way, or unpacked.
Previas   == {"libre", "anotarAuxiliar", "anotarCambio", "conectar", "borrarMarca",
              "apartar", "marcar", "pedir", "devolverPedir", "reapartar", "remarcar"}
Marcadas  == {"habilitar", "devolverRestaurada"} \cup Terminando
EnReposo  == pc \in Previas \cup Marcadas \/ (pc = "cerrado" /\ estado # 2)
PorMirar  == pc \in {"mirarRespaldo", "devolverFallo"} \/ (pc = "cerrado" /\ estado = 2)
Abriendo  == {"desempaquetar"} \cup Desempaquetando
EnEnvio   == {"reapartar", "remarcar", "recibir"} \cup Abriendo
Abiertas  == {"modos", "convenios", "activos", "quitarAjustes", "devolverAjustes", "marcarUno"}
Leidas    == {"quitarAjustes", "devolverAjustes", "marcarUno"}

\* The mark, the loop and the download at each place.
EnSuLugar ==
    /\ pc \in {"recibir", "mirarRespaldo", "devolverFallo", "restaurar", "restaurada"} \cup Abriendo
          => estado = 2
    /\ pc \in Marcadas => estado = 1
    /\ pc \in {"apartar", "reapartar", "restaurar", "borrarRespaldo"} => indice \in 1 .. Ultima
    /\ pc = "recibir" => indice \in 1 .. 4
    /\ pc \in EnEnvio => envio \in DOMAIN contenido
    /\ vigente \in 0 .. Len(contenido)
    /\ pc \notin Abriendo => faltas = {}
    /\ faltas \subseteq {"ajustes", "incompleta", "numero"}
    /\ pc \in Terminando => huecos \subseteq {"ajustes", "incompleta", "numero"}
    /\ pc = "borrarMarca" => "borrado" \in huecos

\* A table is of a download that has it.
Propias ==
    \A t \in Tablas :
        /\ tabla[t] # 0 => tabla[t] \in DOMAIN contenido /\ t \in contenido[tabla[t]]
        /\ respaldo[t] # 0 => respaldo[t] \in DOMAIN contenido /\ t \in contenido[respaldo[t]]

\* With the mark 2 nothing is in use but what the download brought.
Traidas ==
    /\ estado = 2 /\ pc \in Previas => \A t \in Tablas : tabla[t] = 0
    /\ pc \in {"marcar", "remarcar"} => \A t \in Tablas : tabla[t] = 0
    /\ pc \in {"apartar", "reapartar"} =>
           \A j \in 1 .. Ultima : j < indice => tabla[Orden[j]] = 0
    /\ pc = "recibir" => \A j \in 1 .. Ultima : tabla[Orden[j]] =
           IF j < indice /\ Orden[j] \in contenido[envio] THEN envio ELSE 0
    /\ pc \in Abriendo => \A t \in Tablas :
           \/ tabla[t] = IF t \in contenido[envio] THEN envio ELSE 0
           \/ t = "nombrada" /\ tabla[t] = 0 /\ (pc \in Abiertas => "incompleta" \in faltas)
    /\ pc = "restaurada" \/ (pc = "restaurar" /\ indice > 1) => respaldo["uno"] = 0

\* Where the tables of the marked download are: in use or set aside, all aside
\* while the next one comes, or put back up to where the restoration is.
Salvadas ==
    Sin({"parcial"}) =>
        /\ EnReposo => \A t \in Ciertas :
               tabla[t] \in {0, vigente} /\ vigente \in {tabla[t], respaldo[t]}
        /\ pc = "recibir" \/ pc \in Abriendo => \A t \in Ciertas : respaldo[t] = vigente
        /\ PorMirar =>
               \/ \A t \in Ciertas : respaldo[t] = vigente
               \/ /\ respaldo["uno"] = 0
                  /\ \A t \in Ciertas : vigente \in {tabla[t], respaldo[t]}
        /\ pc = "restaurar" => \A j \in 1 .. Ultima : Orden[j] \in Ciertas =>
               IF j < indice THEN tabla[Orden[j]] = vigente
                             ELSE respaldo[Orden[j]] = vigente
        /\ pc = "restaurada" => \A t \in Ciertas : tabla[t] = vigente

\* There are no other tables in use.
Ajenas ==
    Sin({"parcial", "sobras", "viejas"}) =>
        \A t \in Tablas \ Suyas :
           /\ EnReposo \/ pc = "restaurada" => tabla[t] = 0
           /\ pc = "restaurar" => \A j \in 1 .. Ultima :
                 j < indice /\ t = Orden[j] => tabla[t] = 0

\* Before the first mark there is nothing to restore.
Primera ==
    vigente = 0 /\ Sin({"parcial"}) =>
        /\ \A t \in Tablas : respaldo[t] = 0 /\ (EnReposo => tabla[t] = 0)
        /\ pc \notin {"restaurar", "restaurada"} /\ estado # 1

\* The mark 1 says that the tables are in use.
Puestas ==
    Sin({"respaldo", "parcial"}) /\ estado = 1
        /\ pc \notin {"apartar", "marcar", "reapartar", "remarcar"}
      => \A t \in Ciertas : tabla[t] = vigente

\* The number of the marked download is in use, or kept aside while a change of
\* number is pending.
Guardado == pc = "anotarCambio" \/ pc \in DOMAIN Vuelta

Numeros ==
    /\ pc \in {"pedir", "reapartar", "remarcar"} /\ estado # 2 => ~cambio
    /\ pc \in {"apartar", "marcar", "pedir"} \cup EnEnvio =>
           numero = terminal \/ "numero" \in faltas
    /\ pc \in EnEnvio => destino[envio] = terminal
    /\ vigente # 0 /\ Sin({"numero", "borrado", "parcial", "cola"}) =>
          /\ pc = "anotarAuxiliar" => terminal = destino[vigente]
          /\ pc \in Terminando => numero = destino[vigente]
          /\ pc \notin {"anotarAuxiliar"} \cup Terminando =>
                /\ cambio \/ Guardado => auxiliar = destino[vigente]
                /\ cambio \/ Guardado \/ numero = destino[vigente]
                /\ pc = "libre" \/ (pc = "cerrado" /\ estado # 2) => numero = destino[vigente]

\* The settings are of the marked download, until the next is unpacked.
Desempaquetados ==
    /\ "ajustes" \notin huecos /\ pc \notin Desempaquetando =>
          \A g \in Grupos : ajustes[g] = vigente
    /\ pc \in {"convenios", "activos"} => ajustes["modos"] = envio
    /\ pc = "activos" => ajustes["convenios"] = envio
    /\ pc \in Leidas => "ajustes" \in faltas \/ \A g \in Grupos : ajustes[g] = envio
    /\ "cola" \notin huecos /\ pc # "comunicacion" => conexion = vigente

\* What the files hold.
Ficheros == Propias /\ Traidas /\ Salvadas /\ Ajenas /\ Primera /\ Puestas

Resto == EnSuLugar /\ Ficheros /\ Numeros /\ Desempaquetados

IInvInicializacion == TypeOK /\ Resto

-----------------------------------------------------------------------------
(* The tables, the downloads and the places.                                 *)

\* The order of the tables names each of them once.
LEMMA Ordenadas ==
    /\ Ultima = 5
    /\ Orden[1] = "uno" /\ Orden[2] = "cuatro" /\ Orden[3] = "extra" /\ Orden[4] = "par"
    /\ Orden[5] = "nombrada"
    /\ Tablas = {"uno", "cuatro", "extra", "par", "nombrada"}
    /\ \A j \in 1 .. Ultima : Orden[j] \in Tablas
    /\ \A t \in Tablas : \E j \in 1 .. Ultima : t = Orden[j]
    /\ \A j, k \in 1 .. Ultima : Orden[j] = Orden[k] => j = k
<1>1. /\ Ultima = 5 /\ DOMAIN Orden = 1 .. 5
      /\ Orden[1] = "uno" /\ Orden[2] = "cuatro" /\ Orden[3] = "extra" /\ Orden[4] = "par"
      /\ Orden[5] = "nombrada"
  BY DEF Orden, Ultima
<1>2. \A j : j \in 1 .. 5 <=> j \in {1, 2, 3, 4, 5}
  OBVIOUS
<1>3. Tablas = {"uno", "cuatro", "extra", "par", "nombrada"}
  BY <1>1, <1>2 DEF Tablas
<1>4. QED BY <1>1, <1>2, <1>3

\* Where a failure goes on.
LEMMA LasVueltas ==
    /\ DOMAIN Vuelta = {"devolverPedir", "devolverFallo", "devolverAjustes", "devolverRestaurada"}
    /\ Vuelta["devolverPedir"] = "libre" /\ Vuelta["devolverFallo"] = "mirarRespaldo"
    /\ Vuelta["devolverAjustes"] = "marcarUno" /\ Vuelta["devolverRestaurada"] = "libre"
  BY DEF Vuelta

\* Every download has table 1, the acquirer's and TABPAR.
LEMMA LosContenidos ==
    ASSUME TypeOK
    PROVE  /\ Len(contenido) \in Nat /\ DOMAIN contenido = 1 .. Len(contenido)
           /\ DOMAIN destino = DOMAIN contenido
           /\ \A d \in DOMAIN contenido :
                 /\ {"uno", "cuatro", "par"} \subseteq contenido[d]
                 /\ contenido[d] \subseteq Tablas
                 /\ destino[d] \in Terminales
                 /\ d # 0
<1>1. contenido \in Seq(Contenidos) /\ destino \in Seq(Terminales)
      /\ Len(destino) = Len(contenido)
  BY DEF TypeOK
<1>2. \A d \in 1 .. Len(contenido) : contenido[d] \in Contenidos
  BY <1>1
<1>3. \A d \in 1 .. Len(contenido) : destino[d] \in Terminales
  BY <1>1
<1>4. Len(contenido) \in Nat /\ DOMAIN contenido = 1 .. Len(contenido)
      /\ DOMAIN destino = DOMAIN contenido
  BY <1>1
<1>5. \A d \in 1 .. Len(contenido) :
         {"uno", "cuatro", "par"} \subseteq contenido[d] /\ contenido[d] \subseteq Tablas
  BY <1>2, ContenidosAssumption DEF Obligatorias
<1>6. QED BY <1>3, <1>4, <1>5

LEMMA LasSuyas ==
    ASSUME TypeOK, EnSuLugar
    PROVE  /\ Ciertas \subseteq Suyas /\ Suyas \subseteq Tablas
           /\ vigente # 0 => {"uno", "cuatro", "par"} \subseteq Ciertas
           /\ vigente = 0 => Suyas = {}
           /\ vigente # 0 => vigente \in DOMAIN contenido
<1>1. vigente # 0 => vigente \in DOMAIN contenido
  BY LosContenidos DEF EnSuLugar
<1>2. QED BY <1>1, LosContenidos DEF Suyas, Ciertas

\* A step of a loop over the tables.
LEMMA EfectoRecorrer ==
    ASSUME TypeOK, indice \in 1 .. Ultima, NEW lugar, Avanzar(lugar)
    PROVE  /\ terminal' \in {terminal, 0} /\ (lugar # "libre" => terminal' = terminal)
           /\ \/ indice < Ultima /\ indice' = indice + 1 /\ pc' = pc
                 /\ indice' \in 1 .. Ultima
              \/ indice = Ultima /\ indice' = 0 /\ pc' = lugar
           /\ indice' \in 0 .. Ultima
           /\ \A j \in 1 .. Ultima : indice < Ultima => (j < indice' <=> j <= indice)
           /\ \A j \in 1 .. Ultima : indice = Ultima => j <= indice
           /\ \A j \in 1 .. Ultima : j <= indice <=> j < indice \/ j = indice
  BY Ordenadas DEF Avanzar, Ir

\* The two ways of taking the number back: with a change pending, or without.
LEMMA EfectoQuitar ==
    ASSUME TypeOK, NEW d \in DOMAIN Vuelta, quitarCambio(d)
    PROVE  /\ cambio' = FALSE /\ indice' = 0 /\ terminal' \in {terminal, 0}
           /\ (pc' # "libre" => terminal' = terminal)
           /\ cambio => pc' = d
           /\ ~cambio => pc' = Vuelta[d]
<1>1. cambio \in BOOLEAN
  BY DEF TypeOK
<1>2. QED BY <1>1, LasVueltas DEF quitarCambio, Ir

-----------------------------------------------------------------------------
(* Initial states and types.                                                 *)

\* The types, variable by variable.
Tipos ==
    /\ tabla \in [Tablas -> 0 .. MaxDescargas] /\ respaldo \in [Tablas -> 0 .. MaxDescargas]
    /\ estado \in 0 .. 2 /\ cambio \in BOOLEAN
    /\ numero \in Terminales \cup {0} /\ auxiliar \in Terminales \cup {0}
    /\ terminal \in Terminales \cup {0}
    /\ ajustes \in [Grupos -> 0 .. MaxDescargas] /\ conexion \in 0 .. MaxDescargas
    /\ vigente \in 0 .. MaxDescargas /\ envio \in 0 .. MaxDescargas
    /\ pc \in Lugares /\ indice \in 0 .. Ultima
    /\ huecos \subseteq Huecos /\ faltas \subseteq Huecos

TiposHost ==
    /\ contenido \in Seq(Contenidos) /\ Len(contenido) <= MaxDescargas
    /\ destino \in Seq(Terminales) /\ Len(destino) = Len(contenido)

LEMMA PorTipos == TypeOK <=> Tipos /\ TiposHost
  BY DEF TypeOK, Tipos, TiposHost

\* A terminal that was never initialised.
LEMMA InicioInicializacion == Init => IInvInicializacion
<1>1. SUFFICES ASSUME Init PROVE IInvInicializacion
  OBVIOUS
<1>2. /\ Len(contenido) = 0 /\ contenido \in Seq(Contenidos)
      /\ destino \in Seq(Terminales) /\ Len(destino) = 0
      /\ pc = "libre" /\ estado = 0 /\ vigente = 0 /\ faltas = {} /\ huecos = {}
      /\ \A t \in Tablas : tabla[t] = 0 /\ respaldo[t] = 0
  BY <1>1 DEF Init
<1>3. TypeOK
  <2>1. /\ tabla \in [Tablas -> 0 .. MaxDescargas]
        /\ respaldo \in [Tablas -> 0 .. MaxDescargas]
        /\ ajustes \in [Grupos -> 0 .. MaxDescargas]
        /\ Ultima = 5
    BY <1>1, DescargasAssumption, Ordenadas DEF Init
  <2>2. Len(contenido) <= MaxDescargas /\ 0 \in 0 .. MaxDescargas
    BY <1>2, DescargasAssumption
  <2>3. cambio \in BOOLEAN
    BY <1>1 DEF Init
  <2>4. Tipos
    BY <1>1, <2>1, <2>2, <2>3 DEF Init, Tipos, Lugares
  <2>5. QED BY <1>2, <2>2, <2>4, PorTipos DEF TiposHost
<1>4. EnSuLugar /\ Propias /\ Traidas /\ Primera
  BY <1>2, LasVueltas DEF EnSuLugar, Propias, Traidas, Primera, Terminando, EnEnvio, Previas,
     Abriendo, Marcadas, Desempaquetando
<1>5. Salvadas /\ Ajenas /\ Puestas
  BY <1>2 DEF Salvadas, Ajenas, Puestas, Suyas, Ciertas, EnReposo, PorMirar, Previas, Abriendo,
     Desempaquetando
<1>6. Numeros /\ Desempaquetados
  BY <1>1, <1>2, LasVueltas
     DEF Init, Numeros, Desempaquetados, EnEnvio, Abriendo, Terminando, Desempaquetando, Leidas,
         Guardado
<1>7. QED BY <1>3, <1>4, <1>5, <1>6 DEF IInvInicializacion, Resto, Ficheros

\* A gap of the code is one of them.
LEMMA LosHuecos ==
    /\ \A lugar : HuecosDe(lugar) \subseteq Huecos
    /\ {"parcial", "sobras", "viejas", "borrado", "numero", "ajustes", "incompleta"} \subseteq Huecos
<1>1. \A lugar : HuecosDe(lugar) \subseteq {"respaldo", "ajustes", "cola", "numero"}
  BY DEF HuecosDe
<1>2. QED BY <1>1 DEF Huecos

\* A process that ends.
LEMMA TipoCerrar ==
    ASSUME Tipos, Cerrar
    PROVE  Tipos' /\ UNCHANGED servidor
<1>1. huecos' = huecos \cup HuecosDe(pc) /\ faltas' = {}
  BY DEF Cerrar
<1>2. huecos' \subseteq Huecos /\ faltas' \subseteq Huecos
  BY <1>1, LosHuecos DEF Tipos
<1>3. /\ pc' = "cerrado" /\ indice' = 0 /\ terminal' = 0
      /\ UNCHANGED <<tabla, respaldo, estado, numero, auxiliar, cambio, ajustes, conexion,
                   vigente, envio>>
      /\ UNCHANGED servidor
  BY DEF Cerrar, archivos, parametros, servidor
<1>4. 0 \in 0 .. Ultima /\ "cerrado" \in Lugares
  BY Ordenadas DEF Lugares
<1>5. QED BY <1>2, <1>3, <1>4 DEF Tipos

\* Every step keeps the types.
LEMMA TipoInicializacion ==
    ASSUME TypeOK, Resto, [Next]_vars
    PROVE  TypeOK'
<1> USE DEF archivos, parametros, historia, servidor
<1>0. Tipos /\ TiposHost /\ EnSuLugar
  BY PorTipos DEF Resto
<1>a. UNCHANGED servidor => TiposHost'
  BY <1>0 DEF TiposHost, servidor
<1> SUFFICES Tipos' /\ (UNCHANGED servidor \/ TiposHost')
  BY <1>a, PorTipos DEF Tipos, TiposHost, TypeOK
<1>1. /\ Ultima = 5 /\ (\A j \in 1 .. Ultima : Orden[j] \in Tablas)
      /\ {"uno", "cuatro", "par", "nombrada"} \subseteq Tablas
      /\ 0 \in 0 .. MaxDescargas /\ 0 \in 0 .. Ultima /\ 1 \in 0 .. Ultima
  BY Ordenadas, DescargasAssumption
<1>2. /\ {"libre", "anotarAuxiliar", "anotarCambio", "conectar", "borrarMarca", "apartar",
          "reapartar", "marcar", "remarcar", "pedir"} \subseteq Lugares
      /\ {"recibir", "desempaquetar", "leerParametros", "nombradas", "modos", "convenios",
          "activos", "quitarAjustes", "devolverAjustes", "marcarUno"} \subseteq Lugares
      /\ {"comunicacion", "borrarRespaldo", "notificar", "mirarRespaldo", "restaurar",
          "restaurada", "habilitar", "cerrado"} \subseteq Lugares
      /\ DOMAIN Vuelta \subseteq Lugares /\ \A d \in DOMAIN Vuelta : Vuelta[d] \in Lugares
  BY LasVueltas DEF Lugares, Terminando, Desempaquetando
<1>3. CASE inicializarTerminal
  BY <1>0, <1>1, <1>2, <1>3 DEF inicializarTerminal, invocar, Tipos
<1>4. ASSUME NEW t \in Terminales, verificarCambioTerminal(t) PROVE Tipos' /\ UNCHANGED servidor
  BY <1>0, <1>1, <1>2, <1>4 DEF verificarCambioTerminal, Ir, Tipos
<1>5. CASE anotarAuxiliar \/ anotarCambio
  BY <1>0, <1>1, <1>2, <1>5 DEF anotarAuxiliar, anotarCambio, Ir, Tipos
<1>6. CASE conectar
  <2>1. huecos' \subseteq Huecos /\ vigente' = vigente /\ faltas' = faltas
    BY <1>0, <1>6, LosHuecos DEF conectar, Marcar, Tipos
  <2>2. pc' \in Lugares /\ indice' \in {0, 1} /\ terminal' \in Terminales \cup {0}
    BY <1>0, <1>2, <1>6 DEF conectar, invocar, Ir, Tipos
  <2>3. QED BY <1>0, <1>1, <1>6, <2>1, <2>2 DEF conectar, Tipos
<1>7. CASE borrarParametros
  <2>1. huecos' \subseteq Huecos /\ vigente' = vigente /\ faltas' = faltas
    BY <1>0, <1>7, LosHuecos DEF borrarParametros, Marcar, Tipos
  <2>2. QED BY <1>0, <1>1, <1>2, <1>7, <2>1 DEF borrarParametros, Ir, Tipos
<1>8. CASE borrarMarca
  BY <1>0, <1>1, <1>2, <1>8 DEF borrarMarca, Ir, Tipos
<1>9. CASE respaldoTablas
  <2>1. /\ indice \in 1 .. Ultima
        /\ \E lugar \in {"marcar", "remarcar"} : Avanzar(lugar)
        /\ Apartar(Orden[indice]) /\ UNCHANGED <<parametros, servidor, historia>>
        /\ pc \in {"apartar", "reapartar"}
    BY <1>0, <1>9 DEF respaldoTablas, EnSuLugar
  <2>2. /\ pc' \in Lugares /\ indice' \in 0 .. Ultima /\ terminal' \in {0, terminal}
    BY <1>0, <1>2, <2>1, EfectoRecorrer
  <2>3. /\ tabla' \in [Tablas -> 0 .. MaxDescargas]
        /\ respaldo' \in [Tablas -> 0 .. MaxDescargas]
    BY <1>0, <1>1, <2>1 DEF Apartar, Tipos
  <2>4. QED BY <1>0, <2>1, <2>2, <2>3 DEF Tipos
<1>10. CASE marcarEnCurso
  BY <1>0, <1>1, <1>2, <1>10 DEF marcarEnCurso, Ir, Recorrer, Tipos
<1>11. CASE primeraRespuesta
  <2>1. /\ terminal \in Terminales /\ Len(contenido) \in Nat /\ Len(contenido) < MaxDescargas
    BY <1>0, <1>11, LosContenidos DEF primeraRespuesta, Tipos
  <2>2. /\ contenido' \in Seq(Contenidos) /\ Len(contenido') = Len(contenido) + 1
        /\ destino' \in Seq(Terminales) /\ Len(destino') = Len(destino) + 1
    BY <1>0, <1>11, <2>1 DEF primeraRespuesta, TiposHost
  <2>3. envio' \in 0 .. MaxDescargas /\ Len(contenido') <= MaxDescargas
    BY <1>0, <1>11, <2>1, <2>2, LosContenidos, DescargasAssumption DEF primeraRespuesta
  <2>4. TiposHost'
    BY <1>0, <2>2, <2>3 DEF TiposHost
  <2>5. /\ pc' = "reapartar" /\ indice' = 1 /\ terminal' = terminal
        /\ UNCHANGED <<archivos, parametros, historia>>
    BY <1>11 DEF primeraRespuesta, Recorrer
  <2>6. Tipos'
    BY <1>0, <1>1, <1>2, <2>3, <2>5 DEF Tipos
  <2>7. QED BY <2>4, <2>6
<1>12. CASE sinRespuesta \/ falloDescarga \/ errorAjustes \/ habilitarMultiplesCorresponsales
  <2>1. /\ UNCHANGED <<archivos, estado, numero, auxiliar, ajustes, conexion, servidor, historia>>
        /\ \E d \in DOMAIN Vuelta : quitarCambio(d)
    BY <1>12, LasVueltas
       DEF sinRespuesta, falloDescarga, errorAjustes, habilitarMultiplesCorresponsales
  <2>2. /\ pc' \in Lugares /\ indice' = 0 /\ terminal' \in {0, terminal} /\ cambio' = FALSE
    BY <1>0, <1>2, <2>1, EfectoQuitar DEF Tipos
  <2>3. QED BY <1>0, <1>1, <2>1, <2>2 DEF Tipos
<1>13. CASE devolverNumero
  <2>1. huecos' \subseteq Huecos /\ faltas' \subseteq Huecos /\ vigente' = vigente
    BY <1>0, <1>13, LosHuecos DEF devolverNumero, Faltar, Tipos
  <2>2. QED BY <1>0, <1>1, <1>2, <1>13, <2>1 DEF devolverNumero, Ir, Tipos
<1>14. CASE recibirTabla
  <2>1. indice \in 1 .. 4 /\ Orden[indice] \in Tablas
    BY <1>0, <1>1, <1>14 DEF recibirTabla, EnSuLugar
  <2>2. pc' \in Lugares /\ indice' \in 0 .. Ultima /\ terminal' \in {0, terminal}
    BY <1>0, <1>1, <1>2, <1>14, <2>1 DEF recibirTabla, Ir
  <2>3. tabla' \in [Tablas -> 0 .. MaxDescargas]
    BY <1>0, <1>1, <1>14, <2>1 DEF recibirTabla, Tipos
  <2>4. QED BY <1>0, <1>14, <2>2, <2>3 DEF recibirTabla, Tipos
<1>15. CASE borrarConvenios \/ desempaquetarModos \/ desempaquetarConvenios \/ desempaquetarActivos
  <2>1. /\ UNCHANGED <<archivos, estado, numero, auxiliar, cambio, conexion, servidor, historia>>
        /\ \E g \in Grupos, d \in {0, tabla["par"]} : ajustes' = [ajustes EXCEPT ![g] = d]
    BY <1>15 DEF borrarConvenios, desempaquetarModos, desempaquetarConvenios,
                 desempaquetarActivos, Desempaquetar, Grupos
  <2>2. ajustes' \in [Grupos -> 0 .. MaxDescargas]
    BY <1>0, <1>1, <2>1 DEF Tipos
  <2>3. pc' \in Lugares /\ indice' = 0 /\ terminal' \in {0, terminal}
    BY <1>2, <1>15 DEF borrarConvenios, desempaquetarModos, desempaquetarConvenios,
                       desempaquetarActivos, Desempaquetar, Ir
  <2>4. QED BY <1>0, <1>1, <2>1, <2>2, <2>3 DEF Tipos
<1>16. CASE leerParametros
  <2>1. huecos' \subseteq Huecos /\ faltas' \subseteq Huecos /\ vigente' = vigente
    BY <1>0, <1>16, LosHuecos DEF leerParametros, Faltar, Tipos
  <2>2. pc' \in Lugares /\ indice' = 0 /\ terminal' \in {0, terminal}
    BY <1>2, <1>16 DEF leerParametros, Ir
  <2>3. QED BY <1>0, <1>1, <1>16, <2>1, <2>2 DEF leerParametros, Tipos
<1>17. CASE recibirNombradas
  <2>1. huecos' \subseteq Huecos /\ faltas' \subseteq Huecos /\ vigente' = vigente
    BY <1>0, <1>17, LosHuecos DEF recibirNombradas, Faltar, Tipos
  <2>2. tabla' \in [Tablas -> 0 .. MaxDescargas]
    BY <1>0, <1>1, <1>17 DEF recibirNombradas, Tipos
  <2>3. pc' \in Lugares /\ indice' = 0 /\ terminal' \in {0, terminal}
    BY <1>2, <1>17 DEF recibirNombradas, Ir
  <2>4. QED BY <1>0, <1>1, <1>17, <2>1, <2>2, <2>3 DEF recibirNombradas, Tipos
<1>18. CASE marcarInicializada
  BY <1>0, <1>1, <1>2, <1>18 DEF marcarInicializada, Ir, Tipos
<1>19. CASE configurarDatosComunicacion
  BY <1>0, <1>1, <1>2, <1>19 DEF configurarDatosComunicacion, Recorrer, Tipos
<1>20. CASE borrarTablas
  <2>1. indice \in 1 .. Ultima /\ Avanzar("notificar")
    BY <1>0, <1>20 DEF borrarTablas, EnSuLugar
  <2>2. pc' \in Lugares /\ indice' \in 0 .. Ultima /\ terminal' \in {0, terminal}
    BY <1>0, <1>2, <2>1, EfectoRecorrer DEF Tipos
  <2>3. respaldo' \in [Tablas -> 0 .. MaxDescargas]
    BY <1>0, <1>1, <1>20, <2>1 DEF borrarTablas, Tipos
  <2>4. QED BY <1>0, <1>20, <2>2, <2>3 DEF borrarTablas, Tipos
<1>21. CASE notificarSerial
  BY <1>0, <1>1, <1>2, <1>21 DEF notificarSerial, Ir, Tipos
<1>22. CASE mirarRespaldo
  <2>1. huecos' \subseteq Huecos /\ vigente' = vigente /\ faltas' = faltas
    BY <1>0, <1>22, LosHuecos DEF mirarRespaldo, Marcar, Tipos
  <2>2. QED BY <1>0, <1>1, <1>2, <1>22, <2>1 DEF mirarRespaldo, Recorrer, Ir, Tipos
<1>23. CASE restaurarTabla
  <2>1. indice \in 1 .. Ultima /\ Avanzar("restaurada") /\ Reponer(Orden[indice])
    BY <1>0, <1>23 DEF restaurarTabla, EnSuLugar
  <2>2. pc' \in Lugares /\ indice' \in 0 .. Ultima /\ terminal' \in {0, terminal}
    BY <1>0, <1>2, <2>1, EfectoRecorrer DEF Tipos
  <2>3. /\ tabla' \in [Tablas -> 0 .. MaxDescargas]
        /\ respaldo' \in [Tablas -> 0 .. MaxDescargas]
    BY <1>0, <1>1, <2>1 DEF Reponer, Tipos
  <2>4. huecos' \subseteq Huecos /\ vigente' = vigente /\ faltas' = faltas
    BY <1>0, <2>1, LosHuecos DEF Reponer, Marcar, Tipos
  <2>5. QED BY <1>0, <1>23, <2>2, <2>3, <2>4 DEF restaurarTabla, Tipos
<1>24. CASE marcarRestaurada
  BY <1>0, <1>1, <1>2, <1>24 DEF marcarRestaurada, Ir, Tipos
<1>25. CASE finProceso \/ finPorTabpar
  BY <1>0, <1>25, TipoCerrar DEF finProceso, finPorTabpar
<1>26. CASE arrancar \/ restaurarInicializacion
  BY <1>0, <1>1, <1>2, <1>26 DEF arrancar, restaurarInicializacion, Ir, Tipos
<1>27. CASE UNCHANGED vars
  BY <1>0, <1>27 DEF vars, Tipos, proceso
<1>28. QED
  BY <1>3, <1>4, <1>5, <1>6, <1>7, <1>8, <1>9, <1>10, <1>11, <1>12, <1>13, <1>14, <1>15,
     <1>16, <1>17, <1>18, <1>19, <1>20, <1>21, <1>22, <1>23, <1>24, <1>25, <1>26, <1>27
     DEF Next, Operacion, Paso, desempaquetarTablaParametros

-----------------------------------------------------------------------------
(* What a step that leaves the files alone keeps of them.                    *)

\* The files, the mark and the books of the host are as they were.
Quieto ==
    /\ UNCHANGED <<tabla, respaldo, estado, envio, contenido, destino, vigente>>
    /\ huecos \subseteq huecos' /\ ("incompleta" \in huecos' <=> "incompleta" \in huecos)

LEMMA LosQuietos ==
    ASSUME Quieto
    PROVE  /\ Suyas' = Suyas /\ Ciertas' = Ciertas
           /\ (Propias => Propias')
           /\ \A h : Sin(h)' => Sin(h)
  BY DEF Quieto, Suyas, Ciertas, Propias, Sin

\* From a place where nothing is under way to another.
Quedas == {"libre", "anotarAuxiliar", "anotarCambio", "conectar", "borrarMarca", "pedir",
           "devolverPedir"}

LEMMA QuietoPrevias ==
    ASSUME TypeOK, EnSuLugar, Ficheros, Quieto,
           pc \in Quedas, pc' \in Quedas \/ (pc' = "apartar" /\ indice' = 1)
    PROVE  Ficheros'
<1> USE DEF Ficheros
<1>1. /\ Suyas' = Suyas /\ Ciertas' = Ciertas /\ Propias' /\ \A h : Sin(h)' => Sin(h)
      /\ UNCHANGED <<tabla, respaldo, estado, envio, contenido, destino, vigente>>
      /\ pc \in Previas /\ pc' \in Previas
      /\ pc' \notin {"marcar", "reapartar", "remarcar"} /\ pc \notin {"apartar", "marcar", "reapartar", "remarcar"}
      /\ pc' = "apartar" => indice' = 1
      /\ \A j \in 1 .. Ultima : ~(j < 1)
  BY LosQuietos, Ordenadas DEF Quieto, Quedas, Previas
<1>2. /\ EnReposo /\ EnReposo' /\ ~PorMirar' /\ pc' \notin Abriendo
      /\ pc' \notin {"recibir", "restaurar", "restaurada"}
  BY <1>1 DEF EnReposo, PorMirar, Previas, Abriendo, Desempaquetando
<1>3. Traidas'
  BY <1>1, <1>2 DEF Traidas
<1>4. Salvadas' /\ Ajenas'
  BY <1>1, <1>2 DEF Salvadas, Ajenas
<1>5. Primera' /\ Puestas'
  BY <1>1, <1>2 DEF Primera, Puestas
<1>6. QED BY <1>1, <1>3, <1>4, <1>5

\* In the unpacking, which must have the named table by its end.
LEMMA QuietoAbriendo ==
    ASSUME TypeOK, EnSuLugar, Ficheros, Quieto,
           pc \in Abriendo, pc' \in Abriendo, faltas \subseteq faltas',
           pc' \in Abiertas => pc \in Abiertas \/ "incompleta" \in faltas'
    PROVE  Ficheros'
<1> USE DEF Ficheros
<1>1. /\ Suyas' = Suyas /\ Ciertas' = Ciertas /\ Propias' /\ \A h : Sin(h)' => Sin(h)
      /\ UNCHANGED <<tabla, respaldo, estado, envio, contenido, destino, vigente>>
      /\ estado = 2
  BY LosQuietos DEF Quieto, EnSuLugar
<1>2. /\ ~EnReposo' /\ ~PorMirar'
      /\ pc' \notin Previas
      /\ pc' \notin {"apartar", "reapartar", "marcar", "remarcar", "recibir", "restaurar",
                     "restaurada"}
  BY DEF EnReposo, PorMirar, Previas, Marcadas, Terminando, Abriendo, Desempaquetando
<1>3. Traidas'
  BY <1>1, <1>2 DEF Traidas
<1>4. Salvadas' /\ Ajenas'
  BY <1>1, <1>2 DEF Salvadas, Ajenas
<1>5. Primera' /\ Puestas'
  BY <1>1, <1>2 DEF Primera, Puestas
<1>6. QED BY <1>1, <1>3, <1>4, <1>5

\* With the mark 1 just written.
LEMMA QuietoMarcadas ==
    ASSUME TypeOK, EnSuLugar, Ficheros, Quieto,
           pc \in Marcadas, pc' \in Marcadas \cup {"libre"}
    PROVE  Ficheros'
<1> USE DEF Ficheros
<1>1. /\ Suyas' = Suyas /\ Ciertas' = Ciertas /\ Propias' /\ \A h : Sin(h)' => Sin(h)
      /\ UNCHANGED <<tabla, respaldo, estado, envio, contenido, destino, vigente>>
      /\ estado = 1
  BY LosQuietos DEF Quieto, EnSuLugar
<1>2. /\ EnReposo /\ EnReposo' /\ ~PorMirar' /\ pc' \notin Abriendo
      /\ pc' \notin {"apartar", "reapartar", "marcar", "remarcar", "recibir", "restaurar",
                     "restaurada"}
      /\ pc \notin {"apartar", "reapartar", "marcar", "remarcar"}
  BY DEF EnReposo, PorMirar, Previas, Marcadas, Terminando, Abriendo, Desempaquetando
<1>3. Traidas'
  BY <1>1, <1>2 DEF Traidas
<1>4. Salvadas' /\ Ajenas'
  BY <1>1, <1>2 DEF Salvadas, Ajenas
<1>5. Primera' /\ Puestas'
  BY <1>1, <1>2 DEF Primera, Puestas
<1>6. QED BY <1>1, <1>3, <1>4, <1>5

\* On the way to the restoration, after a failure or with the mark 2.
LEMMA QuietoPorMirar ==
    ASSUME TypeOK, EnSuLugar, Ficheros, Quieto,
           PorMirar \/ pc = "recibir" \/ (pc = "libre" /\ estado = 2),
           pc' \in {"mirarRespaldo", "devolverFallo"}
    PROVE  Ficheros'
<1> USE DEF Ficheros
<1>1. /\ Suyas' = Suyas /\ Ciertas' = Ciertas /\ Propias' /\ \A h : Sin(h)' => Sin(h)
      /\ UNCHANGED <<tabla, respaldo, estado, envio, contenido, destino, vigente>>
      /\ estado = 2 /\ Ciertas \subseteq Tablas
  BY LosQuietos, LasSuyas DEF Quieto, EnSuLugar, PorMirar
<1>2. /\ ~EnReposo' /\ PorMirar' /\ pc' \notin Previas \cup Abriendo
      /\ pc' \notin {"apartar", "reapartar", "marcar", "remarcar", "recibir", "restaurar",
                     "restaurada"}
  BY DEF EnReposo, PorMirar, Previas, Marcadas, Terminando, Abriendo, Desempaquetando
<1>3. Traidas'
  BY <1>1, <1>2 DEF Traidas
<1>4. Salvadas'
  <2>1. pc = "libre" /\ estado = 2 => EnReposo /\ \A t \in Tablas : tabla[t] = 0
    BY DEF Traidas, EnReposo, Previas
  <2>2. QED BY <1>1, <1>2, <2>1, LasSuyas DEF Salvadas
<1>5. Ajenas' /\ Primera' /\ Puestas'
  BY <1>1, <1>2 DEF Ajenas, Primera, Puestas
<1>6. QED BY <1>1, <1>3, <1>4, <1>5

\* The process ends half way: the files say how far it had come.
LEMMA QuietoFin ==
    ASSUME TypeOK, EnSuLugar, Ficheros, Quieto,
           pc \notin {"libre", "cerrado"}, pc' = "cerrado",
           pc \in {"apartar", "marcar", "reapartar", "remarcar"} /\ estado # 2 =>
               "respaldo" \in huecos'
    PROVE  Ficheros'
<1> USE DEF Ficheros
<1>1. /\ Suyas' = Suyas /\ Ciertas' = Ciertas /\ Propias' /\ \A h : Sin(h)' => Sin(h)
      /\ UNCHANGED <<tabla, respaldo, estado, envio, contenido, destino, vigente>>
      /\ Ciertas \subseteq Tablas
      /\ \A t \in Tablas : \E j \in 1 .. Ultima : t = Orden[j]
  BY LosQuietos, LasSuyas, Ordenadas DEF Quieto
<1>2. /\ EnReposo' <=> estado # 2
      /\ PorMirar' <=> estado = 2
      /\ pc' \notin Previas \cup Abriendo
      /\ pc' \notin {"apartar", "reapartar", "marcar", "remarcar", "recibir", "restaurar",
                     "restaurada"}
  BY <1>1 DEF EnReposo, PorMirar, Previas, Marcadas, Terminando, Abriendo, Desempaquetando
<1>3. \/ pc \in Previas \cup Marcadas /\ EnReposo
      \/ /\ estado = 2 /\ ~EnReposo
         /\ pc \in {"recibir", "mirarRespaldo", "devolverFallo", "restaurar", "restaurada"}
                      \cup Abriendo
  BY PorTipos, LasVueltas
     DEF Tipos, Lugares, EnSuLugar, EnReposo, Previas, Marcadas, Terminando, Abriendo,
         Desempaquetando
<1>4. /\ estado = 2 /\ pc \in Previas => \A t \in Tablas : tabla[t] = 0
      /\ pc \in Marcadas => estado = 1
      /\ pc = "restaurada" \/ (pc = "restaurar" /\ indice > 1) => respaldo["uno"] = 0
      /\ pc = "restaurar" /\ ~(indice > 1) => \A j \in 1 .. Ultima : ~(j < indice)
  BY Ordenadas DEF Traidas, EnSuLugar
<1>5. Traidas'
  BY <1>1, <1>2 DEF Traidas
<1>6. Salvadas'
  <2>1. SUFFICES ASSUME Sin({"parcial"})' PROVE Salvadas'
    BY DEF Salvadas
  <2>2. Sin({"parcial"})
    BY <1>1, <2>1
  <2>3. CASE estado # 2
    BY <1>1, <1>2, <1>3, <2>2, <2>3 DEF Salvadas
  <2>4. CASE pc \in Previas /\ estado = 2
    BY <1>1, <1>2, <1>4, <2>2, <2>4, LasSuyas DEF Salvadas, EnReposo
  <2>5. CASE pc \in {"recibir"} \cup Abriendo /\ estado = 2
    BY <1>1, <1>2, <2>2, <2>5 DEF Salvadas
  <2>6. CASE pc \in {"mirarRespaldo", "devolverFallo"} /\ estado = 2
    BY <1>1, <1>2, <2>2, <2>6 DEF Salvadas, PorMirar
  <2>7. CASE pc = "restaurar" /\ estado = 2
    <3>1. \A j \in 1 .. Ultima : Orden[j] \in Ciertas =>
              IF j < indice THEN tabla[Orden[j]] = vigente ELSE respaldo[Orden[j]] = vigente
      BY <2>2, <2>7 DEF Salvadas
    <3>2. \A t \in Ciertas : vigente \in {tabla[t], respaldo[t]}
      BY <1>1, <3>1
    <3>3. ~(indice > 1) => \A t \in Ciertas : respaldo[t] = vigente
      BY <1>1, <1>4, <2>7, <3>1
    <3>4. QED BY <1>1, <1>2, <1>4, <2>7, <3>2, <3>3 DEF Salvadas
  <2>8. CASE pc = "restaurada" /\ estado = 2
    BY <1>1, <1>2, <1>4, <2>2, <2>8 DEF Salvadas
  <2>9. QED BY <1>3, <1>4, <2>3, <2>4, <2>5, <2>6, <2>7, <2>8
<1>7. Ajenas' /\ Primera'
  BY <1>1, <1>2, <1>3 DEF Ajenas, Primera
<1>8. Puestas'
  <2>1. SUFFICES ASSUME Sin({"respaldo", "parcial"})', estado = 1
                 PROVE  \A t \in Ciertas : tabla[t] = vigente
    BY <1>1 DEF Puestas
  <2>2. pc \notin {"apartar", "marcar", "reapartar", "remarcar"}
    BY <2>1 DEF Sin
  <2>3. QED BY <1>1, <2>1, <2>2 DEF Puestas
<1>9. QED BY <1>1, <1>5, <1>6, <1>7, <1>8

\* The application starts, or there is nothing at all.
LEMMA QuietoArrancar ==
    ASSUME TypeOK, EnSuLugar, Ficheros, Quieto,
           \/ pc = "cerrado" /\ estado # 2 /\ pc' = "libre"
           \/ pc' = pc /\ UNCHANGED <<indice, faltas, huecos>>
    PROVE  Ficheros'
<1> USE DEF Ficheros
<1>1. /\ Suyas' = Suyas /\ Ciertas' = Ciertas /\ Propias' /\ \A h : Sin(h)' => Sin(h)
      /\ UNCHANGED <<tabla, respaldo, estado, envio, contenido, destino, vigente>>
  BY LosQuietos DEF Quieto
<1>2. CASE pc' = pc /\ UNCHANGED <<indice, faltas, huecos>>
  BY <1>1, <1>2 DEF Traidas, Salvadas, Ajenas, Primera, Puestas, EnReposo, PorMirar
<1>3. CASE pc = "cerrado" /\ estado # 2 /\ pc' = "libre"
  <2>1. EnReposo /\ EnReposo' /\ ~PorMirar' /\ pc' \notin Abriendo
    BY <1>3 DEF EnReposo, PorMirar, Previas, Abriendo, Desempaquetando
  <2>2. QED
    BY <1>1, <1>3, <2>1 DEF Traidas, Salvadas, Ajenas, Primera, Puestas
<1>4. QED BY <1>2, <1>3

-----------------------------------------------------------------------------
(* Operations that leave the files as they are.                              *)

\* The download starts, with the tables set aside first if the number changes.
LEMMA PasoIniciar ==
    ASSUME TypeOK, Resto, inicializarTerminal
    PROVE  Resto'
<1> USE DEF Resto
<1>1. /\ UNCHANGED <<tabla, respaldo, estado, numero, auxiliar, cambio, ajustes,
                   conexion, envio, contenido, destino, vigente, huecos, faltas>>
      /\ pc = "libre" /\ terminal' = numero
      /\ \/ cambio /\ pc' = "apartar" /\ indice' = 1
         \/ ~cambio /\ pc' = "pedir" /\ indice' = 0
  BY DEF inicializarTerminal, invocar, archivos, parametros, servidor, historia
<1>2. Ficheros' /\ (\A h : Sin(h)' => Sin(h)) /\ Ultima = 5
  BY <1>1, LosQuietos, QuietoPrevias, Ordenadas DEF Quieto, Quedas
<1>3. EnSuLugar'
  BY <1>1, <1>2 DEF EnSuLugar, Marcadas, Terminando, Abriendo, Desempaquetando, EnEnvio
<1>4. Numeros'
  BY <1>1, <1>2, LasVueltas
     DEF Numeros, Guardado, EnEnvio, Terminando, Abriendo, Desempaquetando
<1>5. Desempaquetados'
  BY <1>1 DEF Desempaquetados, Desempaquetando, Leidas
<1>6. QED BY <1>2, <1>3, <1>4, <1>5

\* The number changes; the one before it is kept in the process.
LEMMA PasoCambiar ==
    ASSUME TypeOK, Resto, NEW t \in Terminales, verificarCambioTerminal(t)
    PROVE  Resto'
<1> USE DEF Resto
<1>1. /\ UNCHANGED <<tabla, respaldo, estado, auxiliar, cambio, ajustes, conexion, envio,
                   contenido, destino, vigente, huecos, faltas>>
      /\ pc = "libre"
      /\ \/ numero = 0 /\ pc' = "libre"
         \/ numero # 0 /\ pc' = "anotarAuxiliar" /\ terminal' = numero
  BY DEF verificarCambioTerminal, Ir, archivos, parametros, servidor, historia
<1>2. Ficheros' /\ (\A h : Sin(h)' => Sin(h)) /\ Ultima = 5
  BY <1>1, LosQuietos, QuietoPrevias, Ordenadas DEF Quieto, Quedas
<1>3. EnSuLugar'
  BY <1>1, <1>2 DEF EnSuLugar, Marcadas, Terminando, Abriendo, Desempaquetando, EnEnvio
<1>4. vigente # 0 => destino[vigente] # 0
  BY LasSuyas, LosContenidos, TerminalesAssumption
<1>5. Numeros'
  BY <1>1, <1>2, <1>4, LasVueltas
     DEF Numeros, Guardado, EnEnvio, Terminando, Abriendo, Desempaquetando
<1>6. Desempaquetados'
  BY <1>1 DEF Desempaquetados, Desempaquetando, Leidas
<1>7. QED BY <1>2, <1>3, <1>5, <1>6

\* The number before is kept in its parameter, and then the change is noted.
LEMMA PasoAnotar ==
    ASSUME TypeOK, Resto, anotarAuxiliar \/ anotarCambio
    PROVE  Resto'
<1> USE DEF Resto
<1>1. /\ UNCHANGED <<tabla, respaldo, estado, numero, ajustes, conexion, envio,
                   contenido, destino, vigente, huecos, faltas>>
      /\ \/ /\ pc = "anotarAuxiliar" /\ pc' = "anotarCambio"
            /\ auxiliar' = terminal /\ cambio' = cambio
         \/ /\ pc = "anotarCambio" /\ pc' = "conectar"
            /\ auxiliar' = auxiliar /\ cambio' = TRUE
  BY DEF anotarAuxiliar, anotarCambio, Ir, archivos, parametros, servidor, historia
<1>2. Ficheros' /\ (\A h : Sin(h)' => Sin(h)) /\ Ultima = 5
  BY <1>1, LosQuietos, QuietoPrevias, Ordenadas DEF Quieto, Quedas
<1>3. EnSuLugar'
  BY <1>1, <1>2 DEF EnSuLugar, Marcadas, Terminando, Abriendo, Desempaquetando, EnEnvio
<1>4. Numeros'
  BY <1>1, <1>2, LasVueltas
     DEF Numeros, Guardado, EnEnvio, Terminando, Abriendo, Desempaquetando
<1>5. Desempaquetados'
  BY <1>1 DEF Desempaquetados, Desempaquetando, Leidas
<1>6. QED BY <1>2, <1>3, <1>4, <1>5

\* The download of a change of number follows, if there is a connection.
LEMMA PasoConectar ==
    ASSUME TypeOK, Resto, conectar
    PROVE  Resto'
<1> USE DEF Resto
<1>1. /\ UNCHANGED <<tabla, respaldo, estado, numero, auxiliar, cambio, ajustes, conexion,
                   envio, contenido, destino, vigente, faltas>>
      /\ pc = "conectar"
      /\ \/ pc' = "apartar" /\ indice' = 1 /\ terminal' = numero /\ huecos' = huecos
         \/ pc' = "libre" /\ huecos' = huecos \cup {"numero"}
  BY DEF conectar, invocar, Ir, Marcar, archivos, parametros, servidor, historia
<1>2. Ficheros' /\ (\A h : Sin(h)' => Sin(h)) /\ Ultima = 5
  BY <1>1, LosQuietos, QuietoPrevias, Ordenadas DEF Quieto, Quedas
<1>3. EnSuLugar'
  BY <1>1, <1>2 DEF EnSuLugar, Marcadas, Terminando, Abriendo, Desempaquetando, EnEnvio
<1>4. Numeros'
  <2>1. pc' = "libre" => ~Sin({"numero", "borrado", "parcial", "cola"})'
    BY <1>1 DEF Sin
  <2>2. QED
    BY <1>1, <1>2, <2>1, LasVueltas
       DEF Numeros, Guardado, EnEnvio, Terminando, Abriendo, Desempaquetando
<1>5. Desempaquetados'
  BY <1>1 DEF Desempaquetados, Desempaquetando, Leidas
<1>6. QED BY <1>2, <1>3, <1>4, <1>5

\* The parameters are deleted under the tables: first the number.
LEMMA PasoBorrarNumero ==
    ASSUME TypeOK, Resto, borrarParametros
    PROVE  Resto'
<1> USE DEF Resto
<1>1. /\ UNCHANGED <<tabla, respaldo, estado, auxiliar, cambio, ajustes, conexion, envio,
                   contenido, destino, vigente, faltas>>
      /\ pc = "libre" /\ pc' = "borrarMarca" /\ huecos' = huecos \cup {"borrado"}
  BY DEF borrarParametros, Ir, Marcar, archivos, parametros, servidor, historia
<1>2. Ficheros' /\ (\A h : Sin(h)' => Sin(h)) /\ Ultima = 5
  BY <1>1, LosQuietos, QuietoPrevias, Ordenadas DEF Quieto, Quedas
<1>3. EnSuLugar'
  BY <1>1, <1>2 DEF EnSuLugar, Marcadas, Terminando, Abriendo, Desempaquetando, EnEnvio
<1>4. Numeros'
  <2>1. ~Sin({"numero", "borrado", "parcial", "cola"})'
    BY <1>1 DEF Sin
  <2>2. QED
    BY <1>1, <2>1 DEF Numeros, EnEnvio, Abriendo, Desempaquetando
<1>5. Desempaquetados'
  BY <1>1 DEF Desempaquetados, Desempaquetando, Leidas
<1>6. QED BY <1>2, <1>3, <1>4, <1>5

\* The first request is not answered.
LEMMA PasoSinRespuesta ==
    ASSUME TypeOK, Resto, sinRespuesta
    PROVE  Resto'
<1> USE DEF Resto
<1>1. /\ UNCHANGED <<tabla, respaldo, estado, numero, auxiliar, ajustes, conexion, envio,
                   contenido, destino, vigente, huecos, faltas>>
      /\ pc = "pedir" /\ cambio' = FALSE
      /\ pc' = IF cambio THEN "devolverPedir" ELSE "libre"
  BY EfectoQuitar, LasVueltas DEF sinRespuesta, archivos, servidor, historia, TypeOK
<1>2. Ficheros' /\ (\A h : Sin(h)' => Sin(h)) /\ Ultima = 5
  BY <1>1, LosQuietos, QuietoPrevias, Ordenadas DEF Quieto, Quedas
<1>3. EnSuLugar'
  BY <1>1, <1>2 DEF EnSuLugar, Marcadas, Terminando, Abriendo, Desempaquetando, EnEnvio
<1>4. Numeros'
  BY <1>1, <1>2, LasVueltas
     DEF Numeros, Guardado, EnEnvio, Terminando, Abriendo, Desempaquetando
<1>5. Desempaquetados'
  BY <1>1 DEF Desempaquetados, Desempaquetando, Leidas
<1>6. QED BY <1>2, <1>3, <1>4, <1>5

\* The download fails, and the tables will be put back.
LEMMA PasoFallo ==
    ASSUME TypeOK, Resto, falloDescarga
    PROVE  Resto'
<1> USE DEF Resto
<1>1. /\ UNCHANGED <<tabla, respaldo, estado, numero, auxiliar, ajustes, conexion, envio,
                   contenido, destino, vigente, huecos, faltas>>
      /\ pc = "recibir" /\ cambio' = FALSE
      /\ pc' = IF cambio THEN "devolverFallo" ELSE "mirarRespaldo"
  BY EfectoQuitar, LasVueltas DEF falloDescarga, archivos, servidor, historia, TypeOK
<1>2. Ficheros' /\ (\A h : Sin(h)' => Sin(h)) /\ Ultima = 5
  BY <1>1, LosQuietos, QuietoPorMirar, Ordenadas DEF Quieto
<1>3. EnSuLugar'
  BY <1>1, <1>2 DEF EnSuLugar, Marcadas, Terminando, Abriendo, Desempaquetando, EnEnvio
<1>4. Numeros'
  BY <1>1, <1>2, LasVueltas
     DEF Numeros, Guardado, EnEnvio, Terminando, Abriendo, Desempaquetando
<1>5. Desempaquetados'
  BY <1>1 DEF Desempaquetados, Desempaquetando, Leidas
<1>6. QED BY <1>2, <1>3, <1>4, <1>5

\* The unpacking fails, and the tables stay.
LEMMA PasoErrorAjustes ==
    ASSUME TypeOK, Resto, errorAjustes
    PROVE  Resto'
<1> USE DEF Resto
<1>1. /\ UNCHANGED <<tabla, respaldo, estado, numero, auxiliar, ajustes, conexion, envio,
                   contenido, destino, vigente, huecos, faltas>>
      /\ pc = "quitarAjustes" /\ cambio' = FALSE /\ terminal' = terminal
      /\ pc' = IF cambio THEN "devolverAjustes" ELSE "marcarUno"
  BY EfectoQuitar, LasVueltas DEF errorAjustes, archivos, servidor, historia, TypeOK
<1>2. Ficheros' /\ (\A h : Sin(h)' => Sin(h)) /\ Ultima = 5
  BY <1>1, LosQuietos, QuietoAbriendo, Ordenadas
     DEF Quieto, Abriendo, Desempaquetando, Abiertas
<1>3. EnSuLugar'
  BY <1>1, <1>2 DEF EnSuLugar, Marcadas, Terminando, Abriendo, Desempaquetando, EnEnvio
<1>4. Numeros'
  BY <1>1, <1>2, LasVueltas
     DEF Numeros, Guardado, EnEnvio, Terminando, Abriendo, Desempaquetando
<1>5. Desempaquetados'
  BY <1>1 DEF Desempaquetados, Desempaquetando, Leidas
<1>6. QED BY <1>2, <1>3, <1>4, <1>5

\* The tables are back, and TABPAR with them.
LEMMA PasoHabilitar ==
    ASSUME TypeOK, Resto, habilitarMultiplesCorresponsales
    PROVE  Resto'
<1> USE DEF Resto
<1>1. /\ UNCHANGED <<tabla, respaldo, estado, numero, auxiliar, ajustes, conexion, envio,
                   contenido, destino, vigente, huecos, faltas>>
      /\ pc = "habilitar" /\ cambio' = FALSE
      /\ pc' = IF cambio THEN "devolverRestaurada" ELSE "libre"
  BY EfectoQuitar, LasVueltas
     DEF habilitarMultiplesCorresponsales, archivos, servidor, historia, TypeOK
<1>2. Ficheros' /\ (\A h : Sin(h)' => Sin(h)) /\ Ultima = 5
  BY <1>1, LosQuietos, QuietoMarcadas, Ordenadas DEF Quieto, Marcadas
<1>3. EnSuLugar'
  BY <1>1, <1>2 DEF EnSuLugar, Marcadas, Terminando, Abriendo, Desempaquetando, EnEnvio
<1>4. Numeros'
  BY <1>1, <1>2, LasVueltas
     DEF Numeros, Guardado, EnEnvio, Terminando, Abriendo, Desempaquetando
<1>5. Desempaquetados'
  BY <1>1 DEF Desempaquetados, Desempaquetando, Leidas
<1>6. QED BY <1>2, <1>3, <1>4, <1>5

\* The second write of the four: the number.
LEMMA PasoDevolver ==
    ASSUME TypeOK, Resto, devolverNumero
    PROVE  Resto'
<1> USE DEF Resto
<1>1. /\ UNCHANGED <<tabla, respaldo, estado, auxiliar, cambio, ajustes, conexion, envio,
                   contenido, destino, vigente, huecos>>
      /\ numero' = auxiliar
      /\ \/ pc = "devolverPedir" /\ pc' = "libre" /\ faltas' = faltas
         \/ pc = "devolverFallo" /\ pc' = "mirarRespaldo" /\ faltas' = faltas
         \/ /\ pc = "devolverAjustes" /\ pc' = "marcarUno" /\ terminal' = terminal
            /\ faltas' = faltas \cup {"numero"}
         \/ pc = "devolverRestaurada" /\ pc' = "libre" /\ faltas' = faltas
  BY LasVueltas DEF devolverNumero, Ir, Faltar, archivos, servidor, historia
<1>2. Ficheros' /\ (\A h : Sin(h)' => Sin(h)) /\ Ultima = 5
  <2>1. Quieto /\ (\A h : Sin(h)' => Sin(h)) /\ Ultima = 5
    BY <1>1, LosQuietos, Ordenadas DEF Quieto
  <2>2. CASE pc = "devolverPedir"
    BY <1>1, <2>1, <2>2, QuietoPrevias DEF Quedas
  <2>3. CASE pc = "devolverFallo"
    BY <1>1, <2>1, <2>3, QuietoPorMirar DEF PorMirar
  <2>4. CASE pc = "devolverAjustes"
    BY <1>1, <2>1, <2>4, QuietoAbriendo DEF Abriendo, Desempaquetando, Abiertas
  <2>5. CASE pc = "devolverRestaurada"
    BY <1>1, <2>1, <2>5, QuietoMarcadas DEF Marcadas
  <2>6. QED BY <1>1, <2>1, <2>2, <2>3, <2>4, <2>5
<1>3. EnSuLugar'
  BY <1>1, <1>2 DEF EnSuLugar, Marcadas, Terminando, Abriendo, Desempaquetando, EnEnvio
<1>4. Numeros'
  BY <1>1, <1>2, LasVueltas
     DEF Numeros, Guardado, EnEnvio, Terminando, Abriendo, Desempaquetando
<1>5. Desempaquetados'
  BY <1>1 DEF Desempaquetados, Desempaquetando, Leidas
<1>6. QED BY <1>2, <1>3, <1>4, <1>5

-----------------------------------------------------------------------------
(* The unpacking and the end of the download.                                *)

\* The settings are cleared, read and written, group by group.
LEMMA PasoAjustes ==
    ASSUME TypeOK, Resto,
           \/ borrarConvenios \/ leerParametros
           \/ desempaquetarModos \/ desempaquetarConvenios \/ desempaquetarActivos
    PROVE  Resto'
<1> USE DEF Resto
<1>1. /\ UNCHANGED <<tabla, respaldo, estado, numero, auxiliar, cambio, conexion, envio,
                   contenido, destino, vigente, huecos>>
      /\ terminal' = terminal
      /\ \/ pc = "desempaquetar" /\ pc' = "leerParametros" /\ faltas' = faltas
         \/ pc = "leerParametros" /\ pc' = "nombradas" /\ faltas' = faltas
         \/ /\ pc = "leerParametros" /\ pc' \in {"quitarAjustes", "marcarUno"}
            /\ faltas' = faltas \cup {"ajustes", "incompleta"}
         \/ /\ pc = "modos" /\ pc' = "convenios" /\ faltas' = faltas
            /\ ajustes' = [ajustes EXCEPT !["modos"] = tabla["par"]]
         \/ /\ pc = "convenios" /\ pc' = "activos" /\ faltas' = faltas
            /\ ajustes' = [ajustes EXCEPT !["convenios"] = tabla["par"]]
         \/ /\ pc = "activos" /\ pc' \in {"quitarAjustes", "marcarUno"} /\ faltas' = faltas
            /\ ajustes' = [ajustes EXCEPT !["activos"] = tabla["par"]]
  BY DEF borrarConvenios, leerParametros, desempaquetarModos, desempaquetarConvenios,
         desempaquetarActivos, Desempaquetar, Faltar, Ir, archivos, parametros, servidor, historia
<1>2. Ficheros' /\ (\A h : Sin(h)' => Sin(h)) /\ Ultima = 5
  <2>1. Quieto /\ (\A h : Sin(h)' => Sin(h)) /\ Ultima = 5
    BY <1>1, LosQuietos, Ordenadas DEF Quieto
  <2>2. /\ pc \in Abriendo /\ pc' \in Abriendo /\ faltas \subseteq faltas'
        /\ pc' \in Abiertas => pc \in Abiertas \/ "incompleta" \in faltas'
    BY <1>1 DEF Abriendo, Desempaquetando, Abiertas
  <2>3. QED BY <2>1, <2>2, QuietoAbriendo
<1>3. EnSuLugar'
  BY <1>1, <1>2 DEF EnSuLugar, Marcadas, Terminando, Abriendo, Desempaquetando, EnEnvio
<1>4. Numeros'
  BY <1>1, <1>2, LasVueltas
     DEF Numeros, Guardado, EnEnvio, Terminando, Abriendo, Desempaquetando
<1>5. Desempaquetados'
  <2>1. tabla["par"] = envio
    <3>1. pc \in Abriendo /\ pc \in EnEnvio
      BY <1>1 DEF EnEnvio, Abriendo, Desempaquetando
    <3>2. "par" \in contenido[envio] /\ "par" \in Tablas
      BY <3>1, LosContenidos, Ordenadas DEF EnSuLugar
    <3>3. QED BY <3>1, <3>2 DEF Traidas, Ficheros
  <2>2. ajustes \in [Grupos -> 0 .. MaxDescargas] /\ Grupos = {"modos", "convenios", "activos"}
    BY DEF TypeOK, Grupos
  <2>3. /\ pc' \in {"convenios", "activos"} => ajustes'["modos"] = envio
        /\ pc' = "activos" => ajustes'["convenios"] = envio
    BY <1>1, <2>1, <2>2 DEF Desempaquetados
  <2>4. pc' \in Leidas => "ajustes" \in faltas' \/ \A g \in Grupos : ajustes'[g] = envio
    BY <1>1, <2>1, <2>2 DEF Desempaquetados, Leidas
  <2>5. pc' \in Desempaquetando /\ pc # "comunicacion" /\ pc' # "comunicacion"
    BY <1>1 DEF Desempaquetando
  <2>6. QED BY <1>1, <2>3, <2>4, <2>5 DEF Desempaquetados
<1>6. QED BY <1>2, <1>3, <1>4, <1>5

\* The named table comes whole, or one of the gaps says that it did not.
LEMMA PasoNombradas ==
    ASSUME TypeOK, Resto, recibirNombradas
    PROVE  Resto'
<1> USE DEF Resto, Ficheros
<1>1. /\ UNCHANGED <<respaldo, estado, numero, auxiliar, cambio, ajustes, conexion, envio,
                   contenido, destino, vigente, huecos>>
      /\ pc = "nombradas" /\ pc' = "modos" /\ terminal' = terminal /\ estado = 2
      /\ faltas' \in {faltas, faltas \cup {"incompleta"}}
  BY DEF recibirNombradas, Ir, Faltar, archivos, parametros, servidor, historia, EnSuLugar,
         Abriendo, Desempaquetando
<1>2. /\ \A t \in Tablas : t # "nombrada" => tabla'[t] = tabla[t]
      /\ "nombrada" \in Tablas /\ tabla'["nombrada"] \in {tabla["nombrada"], envio}
      /\ "nombrada" \notin contenido[envio] => tabla'["nombrada"] = tabla["nombrada"]
      /\ "nombrada" \in contenido[envio] =>
             tabla'["nombrada"] = envio \/ "incompleta" \in faltas'
  <2>1. tabla \in [Tablas -> 0 .. MaxDescargas] /\ "nombrada" \in Tablas
    BY Ordenadas DEF TypeOK
  <2>2. QED BY <2>1 DEF recibirNombradas, Faltar
<1>3. Suyas' = Suyas /\ Ciertas' = Ciertas /\ (\A h : Sin(h)' => Sin(h)) /\ Ultima = 5
  BY <1>1, Ordenadas DEF Suyas, Ciertas, Sin
<1>4. /\ ~EnReposo' /\ ~PorMirar' /\ pc \in Abriendo /\ pc' \in Abriendo
      /\ pc' \notin Previas /\ envio \in DOMAIN contenido
      /\ pc' \notin {"apartar", "reapartar", "marcar", "remarcar", "recibir", "restaurar",
                     "restaurada"}
  BY <1>1 DEF EnReposo, PorMirar, Previas, Marcadas, Terminando, Abriendo, Desempaquetando,
     EnSuLugar, EnEnvio
<1>5. EnSuLugar'
  BY <1>1, <1>3 DEF EnSuLugar, Marcadas, Terminando, Abriendo, Desempaquetando, EnEnvio
<1>6. Propias'
  BY <1>1, <1>2, <1>4 DEF Propias
<1>7. Traidas'
  <2>1. \A t \in Tablas :
           \/ tabla[t] = IF t \in contenido[envio] THEN envio ELSE 0
           \/ t = "nombrada" /\ tabla[t] = 0
    BY <1>4 DEF Traidas
  <2>2. \A t \in Tablas :
           \/ tabla'[t] = IF t \in contenido[envio] THEN envio ELSE 0
           \/ t = "nombrada" /\ tabla'[t] = 0 /\ "incompleta" \in faltas'
    BY <1>2, <2>1
  <2>3. QED BY <1>1, <1>4, <2>2 DEF Traidas
<1>8. Salvadas' /\ Ajenas'
  BY <1>1, <1>3, <1>4 DEF Salvadas, Ajenas
<1>9. Primera' /\ Puestas'
  BY <1>1, <1>3, <1>4 DEF Primera, Puestas
<1>10. Numeros'
  BY <1>1, <1>3, LasVueltas
     DEF Numeros, Guardado, EnEnvio, Terminando, Abriendo, Desempaquetando
<1>11. Desempaquetados'
  BY <1>1 DEF Desempaquetados, Desempaquetando, Leidas
<1>12. QED BY <1>5, <1>6, <1>7, <1>8, <1>9, <1>10, <1>11

\* The mark 1: its tables are those in use, all of them and no other, and its
\* number and its settings are the terminal's, but for the gaps it has.
LEMMA PasoMarcarUno ==
    ASSUME TypeOK, Resto, marcarInicializada
    PROVE  Resto'
<1> USE DEF Resto, Ficheros
<1>1. /\ UNCHANGED <<tabla, respaldo, numero, auxiliar, cambio, ajustes, conexion, envio,
                   contenido, destino>>
      /\ pc = "marcarUno" /\ pc' = "comunicacion" /\ terminal' = terminal /\ estado' = 1
      /\ vigente' = envio /\ huecos' = faltas /\ faltas' = {}
  BY DEF marcarInicializada, Ir, archivos, servidor
<1>2. /\ envio \in DOMAIN contenido /\ envio # 0
      /\ {"uno", "cuatro", "par"} \subseteq contenido[envio] /\ contenido[envio] \subseteq Tablas
      /\ \A t \in Tablas :
           \/ tabla[t] = IF t \in contenido[envio] THEN envio ELSE 0
           \/ t = "nombrada" /\ tabla[t] = 0 /\ "incompleta" \in faltas
  BY <1>1, LosContenidos DEF EnSuLugar, Traidas, EnEnvio, Abriendo, Desempaquetando, Abiertas
<1>3. /\ vigente' # 0 /\ Suyas' = contenido[envio] /\ Ciertas' \subseteq Tablas
      /\ \A t \in Ciertas' : tabla[t] = vigente'
      /\ \A t \in Tablas \ Suyas' : tabla[t] = 0
      /\ Len(contenido) \in Nat /\ DOMAIN contenido = 1 .. Len(contenido)
  BY <1>1, <1>2, LosContenidos, Ordenadas DEF Suyas, Ciertas
<1>4. /\ EnReposo' /\ ~PorMirar' /\ pc' \in Terminando
      /\ pc' \notin Previas \cup Abriendo \cup EnEnvio
      /\ pc' \notin {"apartar", "reapartar", "marcar", "remarcar", "recibir", "restaurar",
                     "restaurada"}
  BY <1>1 DEF EnReposo, PorMirar, Previas, Marcadas, Terminando, Abriendo, Desempaquetando,
     EnEnvio
<1>5. EnSuLugar'
  BY <1>1, <1>2, <1>3, <1>4, Ordenadas DEF EnSuLugar
<1>6. Propias' /\ Traidas'
  BY <1>1, <1>4 DEF Propias, Traidas
<1>7. Salvadas' /\ Ajenas'
  BY <1>1, <1>3, <1>4 DEF Salvadas, Ajenas
<1>8. Primera' /\ Puestas'
  BY <1>1, <1>3, <1>4 DEF Primera, Puestas
<1>9. Numeros'
  <2>1. (numero = terminal \/ "numero" \in faltas) /\ destino[envio] = terminal
    BY <1>1 DEF Numeros, EnEnvio, Abriendo, Desempaquetando
  <2>2. Sin({"numero", "borrado", "parcial", "cola"})' => numero = destino[vigente']
    BY <1>1, <2>1 DEF Sin
  <2>3. QED BY <1>1, <1>4, <2>2, LasVueltas DEF Numeros
<1>10. Desempaquetados'
  BY <1>1 DEF Desempaquetados, Desempaquetando, Leidas
<1>11. QED BY <1>5, <1>6, <1>7, <1>8, <1>9, <1>10

\* The addresses of the host are unpacked.
LEMMA PasoComunicacion ==
    ASSUME TypeOK, Resto, configurarDatosComunicacion
    PROVE  Resto'
<1> USE DEF Resto
<1>1. /\ UNCHANGED <<tabla, respaldo, estado, numero, auxiliar, cambio, ajustes, envio,
                   contenido, destino, vigente, huecos, faltas>>
      /\ pc = "comunicacion" /\ pc' = "borrarRespaldo" /\ indice' = 1
      /\ conexion' = tabla["cuatro"]
  BY DEF configurarDatosComunicacion, Recorrer, archivos, servidor, historia
<1>2. Ficheros' /\ (\A h : Sin(h)' => Sin(h)) /\ Ultima = 5 /\ 1 \in 1 .. Ultima
  BY <1>1, LosQuietos, QuietoMarcadas, Ordenadas DEF Quieto, Marcadas, Terminando
<1>3. EnSuLugar'
  BY <1>1, <1>2 DEF EnSuLugar, Marcadas, Terminando, Abriendo, Desempaquetando, EnEnvio
<1>4. Numeros'
  BY <1>1, <1>2, LasVueltas
     DEF Numeros, Guardado, EnEnvio, Terminando, Abriendo, Desempaquetando
<1>5. Desempaquetados'
  <2>1. Sin({"respaldo", "parcial"}) /\ estado = 1
    BY <1>1 DEF Sin, EnSuLugar, Terminando, Marcadas
  <2>2. vigente # 0 /\ \A t \in Ciertas : tabla[t] = vigente
    BY <1>1, <2>1 DEF Ficheros, Primera, Puestas, Sin
  <2>3. conexion' = vigente
    BY <1>1, <2>2, LasSuyas
  <2>4. QED BY <1>1, <2>3 DEF Desempaquetados, Desempaquetando, Leidas
<1>6. QED BY <1>2, <1>3, <1>4, <1>5

\* The last exchange, and the auxiliary number.
LEMMA PasoNotificar ==
    ASSUME TypeOK, Resto, notificarSerial
    PROVE  Resto'
<1> USE DEF Resto
<1>1. /\ UNCHANGED <<tabla, respaldo, estado, numero, cambio, ajustes, conexion, envio,
                   contenido, destino, vigente, huecos, faltas>>
      /\ pc = "notificar" /\ pc' = "libre" /\ auxiliar' = numero
  BY DEF notificarSerial, Ir, archivos, servidor, historia
<1>2. Ficheros' /\ (\A h : Sin(h)' => Sin(h)) /\ Ultima = 5
  BY <1>1, LosQuietos, QuietoMarcadas, Ordenadas DEF Quieto, Marcadas, Terminando
<1>3. EnSuLugar'
  BY <1>1, <1>2 DEF EnSuLugar, Marcadas, Terminando, Abriendo, Desempaquetando, EnEnvio
<1>4. Numeros'
  BY <1>1, <1>2, LasVueltas
     DEF Numeros, Guardado, EnEnvio, Terminando, Abriendo, Desempaquetando
<1>5. Desempaquetados'
  BY <1>1 DEF Desempaquetados, Desempaquetando, Leidas
<1>6. QED BY <1>2, <1>3, <1>4, <1>5

-----------------------------------------------------------------------------
(* The end of the process and the start of the application.                  *)

LEMMA PasoFin ==
    ASSUME TypeOK, Resto, finProceso \/ finPorTabpar
    PROVE  Resto'
<1> USE DEF Resto
<1>1. /\ UNCHANGED <<tabla, respaldo, estado, numero, auxiliar, cambio, ajustes, conexion,
                   envio, contenido, destino, vigente>>
      /\ pc \notin {"libre", "cerrado"} /\ pc' = "cerrado"
      /\ huecos' = huecos \cup HuecosDe(pc) /\ faltas' = {}
  BY DEF finProceso, finPorTabpar, Cerrar, archivos, parametros, servidor
<1>2. /\ HuecosDe(pc) \subseteq {"respaldo", "ajustes", "cola", "numero"}
      /\ pc \in {"apartar", "marcar", "reapartar", "remarcar"} /\ estado # 2 =>
            "respaldo" \in huecos'
      /\ pc \in Desempaquetando => "ajustes" \in huecos'
      /\ pc \in Terminando => "cola" \in huecos'
      /\ pc \in DOMAIN Vuelta \cup {"anotarAuxiliar", "anotarCambio", "conectar"} =>
            "numero" \in huecos'
      /\ cambio /\ estado # 2 /\ pc \in {"apartar", "marcar", "habilitar"} => "numero" \in huecos'
  BY <1>1 DEF HuecosDe
<1>3. Quieto /\ \A h : Sin(h)' => Sin(h)
  BY <1>1, <1>2, LosQuietos DEF Quieto
<1>4. Ficheros'
  BY <1>1, <1>2, <1>3, QuietoFin
<1>5. EnSuLugar'
  BY <1>1 DEF EnSuLugar, Marcadas, Terminando, Abriendo, Desempaquetando, EnEnvio
<1>6. Numeros'
  <2>1. SUFFICES ASSUME vigente # 0, Sin({"numero", "borrado", "parcial", "cola"})'
                 PROVE  /\ cambio => auxiliar = destino[vigente]
                        /\ cambio \/ numero = destino[vigente]
                        /\ estado # 2 => numero = destino[vigente]
    BY <1>1, LasVueltas
       DEF Numeros, Guardado, EnEnvio, Terminando, Abriendo, Desempaquetando
  <2>2. /\ Sin({"numero", "borrado", "parcial", "cola"})
        /\ pc \notin DOMAIN Vuelta \cup {"anotarAuxiliar", "anotarCambio", "conectar"}
        /\ pc \notin Terminando
        /\ cambio /\ estado # 2 => pc \notin {"apartar", "marcar", "habilitar"}
    BY <1>2, <1>3, <2>1 DEF Sin
  <2>3. /\ cambio => auxiliar = destino[vigente]
        /\ cambio \/ numero = destino[vigente]
    BY <2>1, <2>2 DEF Numeros, Guardado
  <2>4. cambio /\ estado # 2 => pc = "borrarMarca"
    <3>1. /\ pc \in {"recibir", "mirarRespaldo", "devolverFallo", "restaurar", "restaurada"}
                       \cup Abriendo => estado = 2
          /\ pc \in {"pedir", "reapartar", "remarcar"} /\ estado # 2 => ~cambio
      BY DEF EnSuLugar, Numeros
    <3>2. QED
      BY <1>1, <2>2, <3>1, PorTipos, LasVueltas
         DEF Tipos, Lugares, Terminando, Abriendo, Desempaquetando
  <2>5. pc # "borrarMarca"
    BY <2>2 DEF EnSuLugar, Sin
  <2>6. QED BY <2>3, <2>4, <2>5
<1>7. Desempaquetados'
  <2>1. pc' \notin Desempaquetando \cup Leidas \cup {"convenios", "activos"}
    BY <1>1 DEF Desempaquetando, Leidas
  <2>2. /\ "ajustes" \notin huecos' => "ajustes" \notin huecos /\ pc \notin Desempaquetando
        /\ "cola" \notin huecos' => "cola" \notin huecos /\ pc # "comunicacion"
    BY <1>1, <1>2 DEF Terminando
  <2>3. QED BY <1>1, <2>1, <2>2 DEF Desempaquetados
<1>8. QED BY <1>4, <1>5, <1>6, <1>7

\* The application starts, and looks at the mark 2.
LEMMA PasoArrancar ==
    ASSUME TypeOK, Resto, arrancar \/ restaurarInicializacion
    PROVE  Resto'
<1> USE DEF Resto
<1>1. /\ UNCHANGED <<tabla, respaldo, estado, numero, auxiliar, cambio, ajustes, conexion,
                   envio, contenido, destino, vigente, huecos, faltas>>
      /\ \/ pc = "cerrado" /\ estado = 2 /\ pc' = "mirarRespaldo"
         \/ pc = "cerrado" /\ estado # 2 /\ pc' = "libre"
         \/ pc = "libre" /\ estado = 2 /\ pc' = "mirarRespaldo"
  BY DEF arrancar, restaurarInicializacion, Ir, archivos, parametros, servidor, historia
<1>2. Ficheros' /\ (\A h : Sin(h)' => Sin(h)) /\ Ultima = 5
  BY <1>1, LosQuietos, QuietoArrancar, QuietoPorMirar, Ordenadas DEF Quieto, PorMirar
<1>3. EnSuLugar'
  BY <1>1, <1>2 DEF EnSuLugar, Marcadas, Terminando, Abriendo, Desempaquetando, EnEnvio
<1>4. Numeros'
  BY <1>1, <1>2, LasVueltas
     DEF Numeros, Guardado, EnEnvio, Terminando, Abriendo, Desempaquetando
<1>5. Desempaquetados'
  BY <1>1 DEF Desempaquetados, Desempaquetando, Leidas
<1>6. QED BY <1>2, <1>3, <1>4, <1>5

-----------------------------------------------------------------------------
(* Operations that write files, the mark or the books of the host.           *)

\* The mark is deleted under the tables.
LEMMA PasoBorrarMarca ==
    ASSUME TypeOK, Resto, borrarMarca
    PROVE  Resto'
<1> USE DEF Resto, Ficheros
<1>1. /\ UNCHANGED <<tabla, respaldo, numero, auxiliar, cambio, ajustes, conexion, envio,
                   contenido, destino, vigente, huecos, faltas>>
      /\ pc = "borrarMarca" /\ pc' = "libre" /\ estado' = 0
  BY DEF borrarMarca, Ir, archivos, servidor, historia
<1>2. Suyas' = Suyas /\ Ciertas' = Ciertas /\ (\A h : Sin(h)' => Sin(h)) /\ Ultima = 5
  BY <1>1, Ordenadas DEF Suyas, Ciertas, Sin
<1>3. /\ EnReposo /\ EnReposo' /\ ~PorMirar' /\ pc' \notin Abriendo
  BY <1>1 DEF EnReposo, PorMirar, Previas, Abriendo, Desempaquetando
<1>4. EnSuLugar'
  BY <1>1, <1>2 DEF EnSuLugar, Marcadas, Terminando, Abriendo, Desempaquetando, EnEnvio
<1>5. Propias' /\ Traidas'
  BY <1>1, <1>3 DEF Propias, Traidas
<1>6. Salvadas' /\ Ajenas'
  BY <1>1, <1>2, <1>3 DEF Salvadas, Ajenas
<1>7. Primera' /\ Puestas'
  BY <1>1, <1>2, <1>3 DEF Primera, Puestas
<1>8. Numeros'
  <2>1. ~Sin({"numero", "borrado", "parcial", "cola"})'
    BY <1>1 DEF EnSuLugar, Sin
  <2>2. QED BY <1>1, <2>1 DEF Numeros, EnEnvio, Abriendo, Desempaquetando
<1>9. Desempaquetados'
  BY <1>1 DEF Desempaquetados, Desempaquetando, Leidas
<1>10. QED BY <1>4, <1>5, <1>6, <1>7, <1>8, <1>9

\* The mark 2, with every table set aside.
LEMMA PasoMarcarEnCurso ==
    ASSUME TypeOK, Resto, marcarEnCurso
    PROVE  Resto'
<1> USE DEF Resto, Ficheros
<1>1. /\ UNCHANGED <<tabla, respaldo, numero, auxiliar, cambio, ajustes, conexion, envio,
                   contenido, destino, vigente, huecos, faltas>>
      /\ estado' = 2 /\ terminal' = terminal
      /\ \/ pc = "marcar" /\ pc' = "pedir"
         \/ pc = "remarcar" /\ pc' = "recibir" /\ indice' = 1
  BY DEF marcarEnCurso, Ir, Recorrer, archivos, servidor, historia
<1>2. /\ Suyas' = Suyas /\ Ciertas' = Ciertas /\ (\A h : Sin(h)' => Sin(h))
      /\ Ciertas \subseteq Tablas /\ (vigente = 0 => Ciertas = {})
      /\ Ultima = 5 /\ 1 \in 1 .. 4 /\ \A j \in 1 .. Ultima : ~(j < 1) /\ Orden[j] \in Tablas
  BY <1>1, Ordenadas, LasSuyas DEF Suyas, Ciertas, Sin
<1>3. /\ EnReposo /\ (EnReposo' <=> pc' = "pedir") /\ ~PorMirar' /\ pc' \notin Abriendo
      /\ pc' \notin {"apartar", "reapartar", "marcar", "remarcar", "restaurar", "restaurada"}
      /\ \A t \in Tablas : tabla[t] = 0
  BY <1>1 DEF EnReposo, PorMirar, Previas, Abriendo, Desempaquetando, Traidas, Marcadas, Terminando
<1>4. EnSuLugar'
  BY <1>1, <1>2 DEF EnSuLugar, Marcadas, Terminando, Abriendo, Desempaquetando, EnEnvio
<1>5. Propias' /\ Traidas'
  BY <1>1, <1>2, <1>3 DEF Propias, Traidas
<1>6. Salvadas' /\ Ajenas'
  BY <1>1, <1>2, <1>3 DEF Salvadas, Ajenas
<1>7. Primera' /\ Puestas'
  BY <1>1, <1>2, <1>3 DEF Primera, Puestas
<1>8. Numeros'
  BY <1>1, <1>2, LasVueltas
     DEF Numeros, Guardado, EnEnvio, Terminando, Abriendo, Desempaquetando
<1>9. Desempaquetados'
  BY <1>1 DEF Desempaquetados, Desempaquetando, Leidas
<1>10. QED BY <1>4, <1>5, <1>6, <1>7, <1>8, <1>9

\* The host begins a download, which changes no earlier one.
LEMMA PasoPrimeraRespuesta ==
    ASSUME TypeOK, Resto, primeraRespuesta
    PROVE  Resto'
<1> USE DEF Resto, Ficheros
<1>1. /\ UNCHANGED <<tabla, respaldo, estado, numero, auxiliar, cambio, ajustes, conexion,
                   vigente, huecos, faltas>>
      /\ pc = "pedir" /\ pc' = "reapartar" /\ indice' = 1 /\ terminal' = terminal
  BY DEF primeraRespuesta, Recorrer, archivos, parametros, historia
<1>2. PICK c \in Contenidos : contenido' = Append(contenido, c)
  BY DEF primeraRespuesta
<1>3. /\ contenido \in Seq(Contenidos) /\ destino \in Seq(Terminales)
      /\ Len(destino) = Len(contenido) /\ terminal \in Terminales
      /\ destino' = Append(destino, terminal) /\ envio' = Len(contenido) + 1
  BY DEF primeraRespuesta, TypeOK
<1>4. /\ Len(contenido') = Len(contenido) + 1 /\ Len(contenido) \in Nat
      /\ DOMAIN contenido' = 1 .. Len(contenido') /\ DOMAIN contenido = 1 .. Len(contenido)
      /\ \A d \in DOMAIN contenido : d \in DOMAIN contenido' /\ contenido'[d] = contenido[d]
  BY <1>2, <1>3
<1>5. /\ \A d \in DOMAIN contenido : destino'[d] = destino[d]
      /\ destino'[envio'] = terminal
  BY <1>3
<1>6. /\ Suyas' = Suyas /\ Ciertas' = Ciertas /\ \A h : Sin(h)' => Sin(h)
      /\ vigente # 0 => destino'[vigente] = destino[vigente]
      /\ envio' \in DOMAIN contenido' /\ vigente \in 0 .. Len(contenido')
      /\ Ultima = 5 /\ 1 \in 1 .. Ultima /\ \A j \in 1 .. Ultima : ~(j < 1)
  BY <1>1, <1>3, <1>4, <1>5, LasSuyas, Ordenadas DEF Suyas, Ciertas, Sin, EnSuLugar
<1>7. /\ EnReposo /\ EnReposo' /\ ~PorMirar' /\ pc' \notin Abriendo /\ pc \in Previas
  BY <1>1 DEF EnReposo, PorMirar, Previas, Abriendo, Desempaquetando
<1>8. EnSuLugar'
  BY <1>1, <1>6 DEF EnSuLugar, Marcadas, Terminando, Abriendo, Desempaquetando
<1>9. Propias' /\ Traidas'
  BY <1>1, <1>4, <1>6, <1>7 DEF Propias, Traidas
<1>10. Salvadas' /\ Ajenas'
  BY <1>1, <1>6, <1>7 DEF Salvadas, Ajenas
<1>11. Primera' /\ Puestas'
  BY <1>1, <1>6, <1>7 DEF Primera, Puestas
<1>12. Numeros'
  BY <1>1, <1>5, <1>6, LasVueltas
     DEF Numeros, Guardado, EnEnvio, Terminando, Abriendo, Desempaquetando
<1>13. Desempaquetados'
  BY <1>1 DEF Desempaquetados, Desempaquetando, Leidas
<1>14. QED BY <1>8, <1>9, <1>10, <1>11, <1>12, <1>13

\* A table is set aside: those of the marked download over nothing else.
LEMMA PasoApartar ==
    ASSUME TypeOK, Resto, respaldoTablas
    PROVE  Resto'
<1> USE DEF Resto, Ficheros
<1>1. /\ UNCHANGED <<estado, numero, auxiliar, cambio, ajustes, conexion, envio, contenido,
                   destino, vigente, huecos, faltas>>
      /\ pc \in {"apartar", "reapartar"} /\ indice \in 1 .. Ultima
      /\ Avanzar(IF pc = "apartar" THEN "marcar" ELSE "remarcar")
  BY DEF respaldoTablas, EnSuLugar, parametros, servidor, historia
<1>2. PICK s : s = Orden[indice]
  OBVIOUS
<1>3. /\ s \in Tablas
      /\ \A t \in Tablas : t # s => tabla'[t] = tabla[t] /\ respaldo'[t] = respaldo[t]
      /\ tabla'[s] = 0
      /\ respaldo'[s] = IF tabla[s] # 0 THEN tabla[s] ELSE respaldo[s]
  <2>1. s \in Tablas /\ Apartar(s)
    BY <1>1, <1>2, Ordenadas DEF respaldoTablas
  <2>2. tabla \in [Tablas -> 0 .. MaxDescargas] /\ respaldo \in [Tablas -> 0 .. MaxDescargas]
    BY DEF TypeOK
  <2>3. CASE tabla[s] # 0
    BY <2>1, <2>2, <2>3 DEF Apartar
  <2>4. CASE tabla[s] = 0
    BY <2>1, <2>2, <2>4 DEF Apartar, archivos
  <2>5. QED BY <2>1, <2>3, <2>4
<1>4. /\ terminal' = terminal
      /\ \/ indice' = indice + 1 /\ pc' = pc /\ indice' \in 1 .. Ultima
            /\ \A j \in 1 .. Ultima : j < indice' <=> j < indice \/ j = indice
         \/ /\ pc' = IF pc = "apartar" THEN "marcar" ELSE "remarcar"
            /\ \A j \in 1 .. Ultima : j < indice \/ j = indice
  <2>1. CASE pc = "apartar"
    <3>1. Avanzar("marcar")
      BY <1>1, <2>1
    <3>2. QED BY <1>1, <2>1, <3>1, EfectoRecorrer
  <2>2. CASE pc = "reapartar"
    <3>1. Avanzar("remarcar")
      BY <1>1, <2>2
    <3>2. QED BY <1>1, <2>2, <3>1, EfectoRecorrer
  <2>3. QED BY <1>1, <2>1, <2>2
<1>5. /\ Suyas' = Suyas /\ Ciertas' = Ciertas /\ Ciertas \subseteq Tablas
      /\ \A h : Sin(h)' => Sin(h)
      /\ \A t \in Tablas : tabla'[t] \in {0, tabla[t]}
      /\ \A j \in 1 .. Ultima : /\ Orden[j] \in Tablas
                                /\ Orden[j] = s <=> j = indice
      /\ \A t \in Tablas : \E j \in 1 .. Ultima : t = Orden[j]
      /\ Ultima = 5
  BY <1>1, <1>2, <1>3, Ordenadas, LasSuyas DEF Suyas, Ciertas, Sin
<1>6. /\ EnReposo /\ EnReposo' /\ ~PorMirar' /\ pc' \notin Abriendo /\ pc \in Previas
      /\ pc' \notin {"recibir", "restaurar", "restaurada"}
      /\ pc' \in {"apartar", "marcar", "reapartar", "remarcar"}
  BY <1>1, <1>4 DEF EnReposo, PorMirar, Previas, Abriendo, Desempaquetando
<1>7. EnSuLugar'
  BY <1>1, <1>4, <1>5 DEF EnSuLugar, Marcadas, Terminando, Abriendo, Desempaquetando, EnEnvio
<1>8. Propias'
  BY <1>1, <1>3 DEF Propias
<1>9. Traidas'
  <2>1. \A j \in 1 .. Ultima : j < indice \/ j = indice => tabla'[Orden[j]] = 0
    BY <1>1, <1>3, <1>5 DEF Traidas
  <2>2. estado = 2 => \A t \in Tablas : tabla'[t] = 0
    BY <1>5, <1>6 DEF Traidas
  <2>3. pc' \in {"marcar", "remarcar"} => \A t \in Tablas : tabla'[t] = 0
    BY <1>1, <1>4, <1>5, <2>1
  <2>4. QED BY <1>1, <1>4, <1>6, <2>1, <2>2, <2>3 DEF Traidas
<1>10. Salvadas' /\ Ajenas'
  BY <1>1, <1>3, <1>5, <1>6 DEF Salvadas, Ajenas
<1>11. Primera' /\ Puestas'
  BY <1>1, <1>3, <1>5, <1>6 DEF Primera, Puestas
<1>12. Numeros'
  BY <1>1, <1>4, <1>5, LasVueltas
     DEF Numeros, Guardado, EnEnvio, Terminando, Abriendo, Desempaquetando
<1>13. Desempaquetados'
  BY <1>1, <1>4 DEF Desempaquetados, Desempaquetando, Leidas
<1>14. QED BY <1>7, <1>8, <1>9, <1>10, <1>11, <1>12, <1>13

\* A table of the download comes, while those of the marked one are set aside.
LEMMA PasoRecibir ==
    ASSUME TypeOK, Resto, recibirTabla
    PROVE  Resto'
<1> USE DEF Resto, Ficheros
<1>1. /\ UNCHANGED <<respaldo, estado, numero, auxiliar, cambio, ajustes, conexion, envio,
                   contenido, destino, vigente, huecos, faltas>>
      /\ pc = "recibir" /\ indice \in 1 .. 4 /\ estado = 2 /\ terminal' = terminal
      /\ envio \in DOMAIN contenido
      /\ \/ indice # 4 /\ indice' = indice + 1 /\ pc' = "recibir"
         \/ indice = 4 /\ pc' = "desempaquetar"
  <2>1. indice \in 1 .. 4 /\ (Orden[indice] = "par" <=> indice = 4)
    BY Ordenadas DEF recibirTabla, EnSuLugar
  <2>2. QED
    BY <2>1 DEF recibirTabla, Ir, EnSuLugar, EnEnvio, parametros, servidor, historia
<1>2. /\ \A j \in 1 .. Ultima : j # indice => tabla'[Orden[j]] = tabla[Orden[j]]
      /\ tabla'[Orden[indice]] =
            IF Orden[indice] \in contenido[envio] THEN envio ELSE tabla[Orden[indice]]
      /\ Ultima = 5
  <2>1. envio \in 0 .. MaxDescargas /\ tabla \in [Tablas -> 0 .. MaxDescargas]
    BY DEF TypeOK
  <2>2. QED BY <1>1, <2>1, Ordenadas DEF recibirTabla
<1>3. Suyas' = Suyas /\ Ciertas' = Ciertas /\ \A h : Sin(h)' => Sin(h)
  BY <1>1 DEF Suyas, Ciertas, Sin
<1>4. /\ ~EnReposo' /\ ~PorMirar' /\ pc' \notin Abiertas /\ pc' \notin Previas
      /\ pc' \notin {"apartar", "reapartar", "marcar", "remarcar", "restaurar", "restaurada"}
      /\ pc' = "desempaquetar" <=> pc' \in Abriendo
  BY <1>1 DEF EnReposo, PorMirar, Previas, Marcadas, Terminando, Abriendo, Desempaquetando, Abiertas
<1>5. EnSuLugar'
  BY <1>1, <1>3 DEF EnSuLugar, Marcadas, Terminando, Abriendo, Desempaquetando, EnEnvio
<1>6. \A j \in 1 .. Ultima : tabla'[Orden[j]] =
          IF (j < indice \/ j = indice) /\ Orden[j] \in contenido[envio] THEN envio ELSE 0
  BY <1>1, <1>2 DEF Traidas
<1>7. Propias'
  <2>1. \A t \in Tablas : \E j \in 1 .. Ultima : t = Orden[j]
    BY Ordenadas
  <2>2. QED BY <1>1, <1>6, <2>1 DEF Propias
<1>8. Traidas'
  <2>1. CASE pc' = "recibir"
    <3>1. \A j \in 1 .. Ultima : j < indice' <=> j < indice \/ j = indice
      BY <1>1, <1>2, <2>1
    <3>2. QED BY <1>1, <1>4, <1>6, <2>1, <3>1 DEF Traidas
  <2>2. CASE pc' = "desempaquetar"
    <3>1. \A t \in Tablas : \E j \in 1 .. Ultima : t = Orden[j] /\ (j = 5 => t = "nombrada")
      BY Ordenadas
    <3>2. \A t \in Tablas : \/ tabla'[t] = IF t \in contenido[envio] THEN envio ELSE 0
                            \/ t = "nombrada" /\ tabla'[t] = 0
      BY <1>1, <1>2, <1>6, <2>2, <3>1
    <3>3. QED BY <1>1, <1>4, <2>2, <3>2 DEF Traidas
  <2>3. QED BY <1>1, <2>1, <2>2
<1>9. Salvadas' /\ Ajenas'
  BY <1>1, <1>3, <1>4 DEF Salvadas, Ajenas
<1>10. Primera' /\ Puestas'
  BY <1>1, <1>3, <1>4 DEF Primera, Puestas
<1>11. Numeros'
  BY <1>1, <1>3, LasVueltas
     DEF Numeros, Guardado, EnEnvio, Terminando, Abriendo, Desempaquetando
<1>12. Desempaquetados'
  BY <1>1 DEF Desempaquetados, Desempaquetando, Leidas
<1>13. QED BY <1>5, <1>7, <1>8, <1>9, <1>10, <1>11, <1>12

\* A backup of the previous download is deleted: the tables in use stay.
LEMMA PasoBorrarRespaldo ==
    ASSUME TypeOK, Resto, borrarTablas
    PROVE  Resto'
<1> USE DEF Resto, Ficheros
<1>1. /\ UNCHANGED <<tabla, estado, numero, auxiliar, cambio, ajustes, conexion, envio,
                   contenido, destino, vigente, huecos, faltas>>
      /\ pc = "borrarRespaldo" /\ indice \in 1 .. Ultima /\ estado = 1
      /\ huecos \subseteq {"ajustes", "incompleta", "numero"}
      /\ \A t \in Tablas : respaldo'[t] \in {0, respaldo[t]}
  BY Ordenadas DEF borrarTablas, TypeOK, EnSuLugar, Marcadas, Terminando, parametros, servidor,
                   historia
<1>2. \/ pc' = "borrarRespaldo" /\ indice' \in 1 .. Ultima
      \/ pc' = "notificar"
  BY <1>1, EfectoRecorrer DEF borrarTablas
<1>3. /\ Suyas' = Suyas /\ Ciertas' = Ciertas /\ (\A h : Sin(h)' => Sin(h)) /\ Ultima = 5
      /\ Sin({"respaldo", "parcial"})
  BY <1>1, Ordenadas DEF Suyas, Ciertas, Sin
<1>4. /\ EnReposo /\ EnReposo' /\ ~PorMirar' /\ pc' \notin Abriendo /\ pc' \notin Previas
      /\ pc' \notin {"recibir", "restaurar", "restaurada"}
      /\ pc \notin {"apartar", "reapartar", "marcar", "remarcar"}
      /\ pc' \notin {"apartar", "reapartar", "marcar", "remarcar"}
  BY <1>1, <1>2
     DEF EnReposo, PorMirar, Previas, Marcadas, Terminando, Abriendo, Desempaquetando
<1>5. \A t \in Ciertas : tabla[t] = vigente
  BY <1>1, <1>3, <1>4 DEF Puestas
<1>6. EnSuLugar'
  BY <1>1, <1>2, <1>3 DEF EnSuLugar, Marcadas, Terminando, Abriendo, Desempaquetando, EnEnvio
<1>7. Propias' /\ Traidas'
  BY <1>1, <1>4 DEF Propias, Traidas
<1>8. Salvadas' /\ Ajenas'
  BY <1>1, <1>3, <1>4, <1>5 DEF Salvadas, Ajenas
<1>9. Primera' /\ Puestas'
  BY <1>1, <1>3, <1>4, <1>5 DEF Primera, Puestas
<1>10. Numeros'
  BY <1>1, <1>2, <1>3, LasVueltas
     DEF Numeros, Guardado, EnEnvio, Terminando, Abriendo, Desempaquetando
<1>11. Desempaquetados'
  BY <1>1, <1>2 DEF Desempaquetados, Desempaquetando, Leidas
<1>12. QED BY <1>6, <1>7, <1>8, <1>9, <1>10, <1>11

-----------------------------------------------------------------------------
(* The restoration.                                                          *)

\* Table 1 set aside tells whether there is something to put back.
LEMMA PasoMirar ==
    ASSUME TypeOK, Resto, mirarRespaldo
    PROVE  Resto'
<1> USE DEF Resto, Ficheros
<1>1. /\ UNCHANGED <<tabla, respaldo, numero, auxiliar, cambio, ajustes, conexion, envio,
                   contenido, destino, vigente, faltas>>
      /\ pc = "mirarRespaldo" /\ estado = 2
      /\ \/ /\ respaldo["uno"] # 0 /\ pc' = "restaurar" /\ indice' = 1
            /\ estado' = estado /\ huecos' = huecos
         \/ /\ respaldo["uno"] = 0 /\ pc' = "libre" /\ estado' = 0
            /\ \/ huecos' = huecos \cup {"parcial"}
               \/ huecos' = huecos /\ \A t \in Tablas : tabla[t] = 0
  BY DEF mirarRespaldo, Marcar, Recorrer, Ir, EnSuLugar, archivos, parametros, servidor, historia
<1>2. /\ Suyas' = Suyas /\ Ciertas' = Ciertas /\ (\A h : Sin(h)' => Sin(h))
      /\ Ciertas \subseteq Tablas /\ Suyas \subseteq Tablas /\ (vigente # 0 => "uno" \in Ciertas)
      /\ (vigente = 0 => Ciertas = {})
      /\ Ultima = 5 /\ 1 \in 1 .. Ultima /\ "uno" \in Tablas
      /\ \A j \in 1 .. Ultima : ~(j < 1) /\ Orden[j] \in Tablas
  BY <1>1, Ordenadas, LasSuyas DEF Suyas, Ciertas, Sin
<1>3. /\ PorMirar /\ (EnReposo' <=> pc' = "libre") /\ ~PorMirar' /\ pc' \notin Abriendo
      /\ pc' \notin {"apartar", "reapartar", "marcar", "remarcar", "recibir", "restaurada"}
  BY <1>1 DEF EnReposo, PorMirar, Previas, Abriendo, Desempaquetando, Marcadas, Terminando
<1>4. pc' = "libre" /\ Sin({"parcial"})' => vigente = 0 /\ \A t \in Tablas : tabla[t] = 0
  <2>1. pc' = "libre" /\ Sin({"parcial"})' =>
            respaldo["uno"] = 0 /\ \A t \in Tablas : tabla[t] = 0
    BY <1>1 DEF Sin
  <2>2. QED BY <1>2, <1>3, <2>1 DEF Salvadas
<1>5. pc' = "restaurar" /\ Sin({"parcial"})' =>
          vigente # 0 /\ \A t \in Ciertas : respaldo[t] = vigente
  <2>1. pc' = "restaurar" /\ Sin({"parcial"})' => vigente # 0
    BY <1>1, <1>2 DEF Primera
  <2>2. QED BY <1>1, <1>2, <1>3, <2>1 DEF Salvadas
<1>6. EnSuLugar'
  BY <1>1, <1>2 DEF EnSuLugar, Marcadas, Terminando, Abriendo, Desempaquetando, EnEnvio
<1>7. Propias' /\ Traidas'
  BY <1>1, <1>2, <1>3 DEF Propias, Traidas, Previas
<1>8. Salvadas'
  BY <1>1, <1>2, <1>3, <1>4, <1>5 DEF Salvadas
<1>9. Ajenas'
  <2>1. Sin({"parcial", "sobras", "viejas"})' => Sin({"parcial"})'
    BY DEF Sin
  <2>2. QED BY <1>1, <1>2, <1>3, <1>4, <2>1 DEF Ajenas
<1>10. Primera' /\ Puestas'
  BY <1>1, <1>2, <1>3, <1>4, <1>5 DEF Primera, Puestas
<1>11. Numeros'
  <2>1. /\ vigente # 0 /\ Sin({"numero", "borrado", "parcial", "cola"})' => pc' = "restaurar"
    BY <1>1, <1>4 DEF Sin
  <2>2. QED
    BY <1>1, <1>2, <2>1, LasVueltas
       DEF Numeros, Guardado, EnEnvio, Terminando, Abriendo, Desempaquetando
<1>12. Desempaquetados'
  BY <1>1 DEF Desempaquetados, Desempaquetando, Leidas
<1>13. QED BY <1>6, <1>7, <1>8, <1>9, <1>10, <1>11, <1>12

\* A table is put back: none of the marked download is lost by it, and one of
\* another download is marked as such.
LEMMA PasoReponer ==
    ASSUME TypeOK, Resto, restaurarTabla
    PROVE  Resto'
<1> USE DEF Resto, Ficheros
<1>1. /\ UNCHANGED <<estado, numero, auxiliar, cambio, ajustes, conexion, envio, contenido,
                   destino, vigente, faltas>>
      /\ pc = "restaurar" /\ indice \in 1 .. Ultima /\ estado = 2
      /\ Avanzar("restaurada")
  BY DEF restaurarTabla, Reponer, Marcar, EnSuLugar, parametros, servidor, historia
<1>2. PICK s : s = Orden[indice]
  OBVIOUS
<1>3. /\ s \in Tablas
      /\ \A t \in Tablas : t # s => tabla'[t] = tabla[t] /\ respaldo'[t] = respaldo[t]
      /\ \/ /\ respaldo[s] # 0 \/ s \notin Numeradas
            /\ tabla'[s] = respaldo[s] /\ respaldo'[s] = 0
            /\ huecos' = huecos \cup (IF s # "uno" /\ respaldo[s] \notin {0, tabla["uno"]}
                                        THEN {"viejas"} ELSE {})
         \/ /\ respaldo[s] = 0 /\ tabla'[s] = tabla[s] /\ respaldo'[s] = respaldo[s]
            /\ huecos' = huecos \cup (IF tabla[s] # 0 THEN {"sobras"} ELSE {})
  <2>1. s \in Tablas /\ Reponer(s)
    BY <1>1, <1>2, Ordenadas DEF restaurarTabla
  <2>2. tabla \in [Tablas -> 0 .. MaxDescargas] /\ respaldo \in [Tablas -> 0 .. MaxDescargas]
    BY DEF TypeOK
  <2>3. CASE respaldo[s] # 0 \/ s \notin Numeradas
    BY <2>1, <2>2, <2>3 DEF Reponer, Marcar
  <2>4. CASE ~(respaldo[s] # 0 \/ s \notin Numeradas)
    BY <2>1, <2>2, <2>4 DEF Reponer, Marcar, archivos
  <2>5. QED BY <2>1, <2>3, <2>4
<1>4. /\ \/ indice' = indice + 1 /\ pc' = pc /\ indice' \in 1 .. Ultima /\ indice' > 1
            /\ \A j \in 1 .. Ultima : j < indice' <=> j < indice \/ j = indice
         \/ /\ pc' = "restaurada"
            /\ \A j \in 1 .. Ultima : j < indice \/ j = indice
  BY <1>1, EfectoRecorrer, Ordenadas
<1>5. /\ huecos' \in {huecos, huecos \cup {"viejas"}, huecos \cup {"sobras"}}
      /\ Suyas' = Suyas /\ Ciertas' = Ciertas /\ (\A h : Sin(h)' => Sin(h))
  <2>1. huecos' \in {huecos, huecos \cup {"viejas"}, huecos \cup {"sobras"}}
    BY <1>3
  <2>2. QED BY <1>1, <2>1 DEF Suyas, Ciertas, Sin
<1>6. /\ Ciertas \subseteq Tablas /\ Ciertas \subseteq Suyas /\ Suyas \subseteq Tablas
      /\ vigente # 0 => vigente \in DOMAIN contenido /\ "uno" \in Ciertas
                        /\ Suyas = contenido[vigente]
      /\ Ultima = 5 /\ Orden[1] = "uno" /\ "uno" \in Tablas /\ 1 \in 1 .. Ultima
      /\ \A j \in 1 .. Ultima : /\ Orden[j] \in Tablas
                                /\ Orden[j] = s <=> j = indice
                                /\ ~(j < indice /\ j = indice)
      /\ \A t \in Tablas : \E j \in 1 .. Ultima : t = Orden[j]
      /\ indice > 1 \/ indice = 1
  <2>1. Suyas = IF vigente = 0 THEN {} ELSE contenido[vigente]
    BY DEF Suyas
  <2>2. QED BY <1>1, <1>2, <2>1, Ordenadas, LasSuyas
<1>7. /\ ~EnReposo' /\ ~PorMirar' /\ pc' \notin Abriendo /\ pc' \notin Previas
      /\ pc' \notin {"apartar", "reapartar", "marcar", "remarcar", "recibir"}
      /\ pc' \in {"restaurar", "restaurada"}
  BY <1>1, <1>4
     DEF EnReposo, PorMirar, Previas, Marcadas, Terminando, Abriendo, Desempaquetando
<1>8. EnSuLugar'
  <2>1. pc' \notin Terminando /\ pc' # "borrarMarca"
    BY <1>7 DEF Terminando
  <2>2. QED
    BY <1>1, <1>4, <1>6, <1>7, <2>1 DEF EnSuLugar, Marcadas, Abriendo, Desempaquetando, EnEnvio
<1>9. Propias'
  BY <1>1, <1>3 DEF Propias
<1>10. Traidas'
  <2>1. respaldo'["uno"] = 0
    <3>1. CASE indice = 1
      BY <1>2, <1>3, <1>6, <3>1
    <3>2. CASE indice > 1
      BY <1>1, <1>3, <1>6, <3>2 DEF Traidas
    <3>3. QED BY <1>6, <3>1, <3>2
  <2>2. QED BY <1>1, <1>7, <2>1 DEF Traidas
<1>11. Salvadas'
  <2>1. SUFFICES ASSUME Sin({"parcial"})'
                 PROVE  \A j \in 1 .. Ultima : Orden[j] \in Ciertas =>
                           IF j < indice \/ j = indice THEN tabla'[Orden[j]] = vigente
                                                       ELSE respaldo'[Orden[j]] = vigente
    <3>1. CASE pc' = "restaurada"
      BY <1>1, <1>4, <1>5, <1>6, <1>7, <3>1 DEF Salvadas
    <3>2. CASE pc' = "restaurar"
      BY <1>1, <1>4, <1>5, <1>6, <1>7, <3>2 DEF Salvadas
    <3>3. QED BY <1>7, <3>1, <3>2
  <2>2. vigente # 0 /\ \A j \in 1 .. Ultima : Orden[j] \in Ciertas =>
           IF j < indice THEN tabla[Orden[j]] = vigente ELSE respaldo[Orden[j]] = vigente
    BY <1>1, <1>5, <2>1 DEF Salvadas, Primera
  <2>3. QED BY <1>3, <1>6, <2>2
<1>12. Ajenas'
  <2>1. SUFFICES ASSUME Sin({"parcial", "sobras", "viejas"})', NEW t \in Tablas \ Suyas
                 PROVE  \A j \in 1 .. Ultima :
                              (j < indice \/ j = indice) /\ t = Orden[j] => tabla'[t] = 0
    <3>1. CASE pc' = "restaurada"
      BY <1>1, <1>4, <1>5, <1>6, <1>7, <3>1 DEF Ajenas
    <3>2. CASE pc' = "restaurar"
      BY <1>1, <1>4, <1>5, <1>6, <1>7, <3>2 DEF Ajenas
    <3>3. QED BY <1>7, <3>1, <3>2
  <2>2. /\ Sin({"parcial"}) /\ Sin({"parcial", "sobras", "viejas"})
        /\ "sobras" \notin huecos' /\ "viejas" \notin huecos'
    BY <1>5, <2>1 DEF Sin
  <2>3. vigente # 0
    BY <1>1, <2>2 DEF Primera
  <2>4. \A j \in 1 .. Ultima : j < indice /\ t = Orden[j] => tabla[t] = 0
    BY <1>1, <2>1, <2>2 DEF Ajenas
  <2>5. t = s => tabla'[t] = 0
    <3>1. SUFFICES ASSUME t = s, tabla'[s] # 0 PROVE FALSE
      OBVIOUS
    <3>2. respaldo[s] # 0 /\ (s = "uno" \/ respaldo[s] = tabla["uno"])
      BY <1>3, <2>2, <3>1
    <3>3. s # "uno" /\ indice # 1
      BY <1>2, <1>6, <2>1, <2>3, <3>1
    <3>4. tabla["uno"] = vigente
      BY <1>1, <1>6, <2>2, <2>3, <3>3 DEF Salvadas
    <3>5. s \in contenido[vigente]
      BY <1>3, <3>2, <3>3, <3>4 DEF Propias
    <3>6. QED BY <1>6, <2>1, <2>3, <3>1, <3>5
  <2>6. t # s => tabla'[t] = tabla[t]
    BY <1>3
  <2>7. QED BY <1>6, <2>4, <2>5, <2>6
<1>13. Primera' /\ Puestas'
  BY <1>1, <1>5, <1>7 DEF Primera, Puestas
<1>14. Numeros'
  BY <1>1, <1>5, <1>7, LasVueltas
     DEF Numeros, Guardado, EnEnvio, Terminando, Abriendo, Desempaquetando
<1>15. Desempaquetados'
  BY <1>1, <1>5, <1>7 DEF Desempaquetados, Desempaquetando, Leidas
<1>16. QED BY <1>8, <1>9, <1>10, <1>11, <1>12, <1>13, <1>14, <1>15

\* The tables are back: the mark 1, with the number still to be taken back.
LEMMA PasoRestaurada ==
    ASSUME TypeOK, Resto, marcarRestaurada
    PROVE  Resto'
<1> USE DEF Resto, Ficheros
<1>1. /\ UNCHANGED <<tabla, respaldo, numero, auxiliar, cambio, ajustes, conexion, envio,
                   contenido, destino, vigente, huecos, faltas>>
      /\ pc = "restaurada" /\ pc' = "habilitar" /\ estado' = 1
  BY DEF marcarRestaurada, Ir, archivos, servidor, historia
<1>2. Suyas' = Suyas /\ Ciertas' = Ciertas /\ (\A h : Sin(h)' => Sin(h)) /\ Ultima = 5
      /\ (Sin({"respaldo", "parcial"}) => Sin({"parcial"}))
  BY <1>1, Ordenadas DEF Suyas, Ciertas, Sin
<1>3. /\ EnReposo' /\ ~PorMirar' /\ pc' \notin Abriendo /\ pc' \notin Previas
      /\ pc' \notin {"apartar", "reapartar", "marcar", "remarcar", "recibir", "restaurar",
                     "restaurada"}
  BY <1>1 DEF EnReposo, PorMirar, Previas, Abriendo, Desempaquetando, Marcadas
<1>4. EnSuLugar'
  BY <1>1, <1>2 DEF EnSuLugar, Marcadas, Terminando, Abriendo, Desempaquetando, EnEnvio
<1>5. Propias' /\ Traidas'
  BY <1>1, <1>3 DEF Propias, Traidas
<1>6. Salvadas' /\ Ajenas'
  BY <1>1, <1>2, <1>3 DEF Salvadas, Ajenas
<1>7. Primera' /\ Puestas'
  BY <1>1, <1>2, <1>3 DEF Primera, Puestas, Salvadas
<1>8. Numeros'
  BY <1>1, <1>2, LasVueltas
     DEF Numeros, Guardado, EnEnvio, Terminando, Abriendo, Desempaquetando
<1>9. Desempaquetados'
  BY <1>1 DEF Desempaquetados, Desempaquetando, Leidas
<1>10. QED BY <1>4, <1>5, <1>6, <1>7, <1>8, <1>9

-----------------------------------------------------------------------------
(* The invariant, step by step.                                              *)

LEMMA PasoQuieto ==
    ASSUME TypeOK, Resto, UNCHANGED vars
    PROVE  Resto'
<1>1. /\ UNCHANGED <<tabla, respaldo, estado, numero, auxiliar, cambio, ajustes, conexion, pc,
                   indice, terminal, envio, contenido, destino, vigente, faltas, huecos>>
  BY DEF vars, archivos, parametros, proceso, servidor, historia
<1>2. Ficheros'
  BY <1>1, QuietoArrancar DEF Quieto, Resto
<1>3. QED
  BY <1>1, <1>2 DEF Resto, EnSuLugar, Numeros, Desempaquetados, Guardado, Sin

LEMMA PasoInicializacion ==
    ASSUME IInvInicializacion, [Next]_vars
    PROVE  IInvInicializacion'
<1>1. TypeOK /\ Resto
  BY DEF IInvInicializacion
<1>2. TypeOK'
  BY <1>1, TipoInicializacion
<1>3. Resto'
  <2>1. CASE Operacion
    BY <1>1, <2>1, PasoIniciar, PasoCambiar, PasoBorrarNumero DEF Operacion
  <2>2. CASE anotarAuxiliar \/ anotarCambio \/ conectar \/ borrarMarca
    BY <1>1, <2>2, PasoAnotar, PasoConectar, PasoBorrarMarca
  <2>3. CASE respaldoTablas \/ marcarEnCurso \/ primeraRespuesta \/ sinRespuesta
    BY <1>1, <2>3, PasoApartar, PasoMarcarEnCurso, PasoPrimeraRespuesta, PasoSinRespuesta
  <2>4. CASE recibirTabla \/ falloDescarga \/ errorAjustes \/ devolverNumero
    BY <1>1, <2>4, PasoRecibir, PasoFallo, PasoErrorAjustes, PasoDevolver
  <2>5. CASE desempaquetarTablaParametros
    BY <1>1, <2>5, PasoAjustes, PasoNombradas DEF desempaquetarTablaParametros
  <2>6. CASE marcarInicializada \/ configurarDatosComunicacion \/ borrarTablas \/ notificarSerial
    BY <1>1, <2>6, PasoMarcarUno, PasoComunicacion, PasoBorrarRespaldo, PasoNotificar
  <2>7. CASE \/ mirarRespaldo \/ restaurarTabla \/ marcarRestaurada
             \/ habilitarMultiplesCorresponsales
    BY <1>1, <2>7, PasoMirar, PasoReponer, PasoRestaurada, PasoHabilitar
  <2>8. CASE restaurarInicializacion \/ arrancar \/ finProceso \/ finPorTabpar
    BY <1>1, <2>8, PasoArrancar, PasoFin
  <2>9. CASE UNCHANGED vars
    BY <1>1, <2>9, PasoQuieto
  <2>10. QED
    BY <2>1, <2>2, <2>3, <2>4, <2>5, <2>6, <2>7, <2>8, <2>9 DEF Next, Paso
<1>4. QED BY <1>2, <1>3 DEF IInvInicializacion

\* The inductive invariant holds in every reachable state.
THEOREM InvarianteInicializacion == Spec => []IInvInicializacion
<1>1. IInvInicializacion /\ [Next]_vars => IInvInicializacion'
  BY PasoInicializacion
<1>2. QED BY <1>1, InicioInicializacion, PTL DEF Spec

-----------------------------------------------------------------------------
(* What it gives.                                                            *)

(* Every variable has its type, and the host's books describe the downloads  *)
(* that were begun, whatever the number of them.                             *)
THEOREM InicializacionTipo == Spec => []TypeOK
<1>1. IInvInicializacion => TypeOK
  BY DEF IInvInicializacion
<1>2. QED BY <1>1, InvarianteInicializacion, PTL

\* Where an initialised terminal is at rest, the tables of the marked download
\* are in use.
LEMMA EnUso ==
    ASSUME IInvInicializacion, pc = "libre", estado = 1, Sin({"respaldo", "parcial"})
    PROVE  /\ vigente # 0 /\ vigente \in DOMAIN contenido /\ Suyas = contenido[vigente]
           /\ tabla["uno"] = vigente /\ tabla["cuatro"] = vigente /\ tabla["par"] = vigente
           /\ \A t \in Ciertas : tabla[t] = vigente
<1>1. TypeOK /\ EnSuLugar /\ Primera /\ Puestas
  BY DEF IInvInicializacion, Resto, Ficheros
<1>2. vigente # 0 /\ vigente \in DOMAIN contenido
  BY <1>1, LasSuyas DEF Primera, Sin
<1>3. Suyas = contenido[vigente] /\ {"uno", "cuatro", "par"} \subseteq Ciertas
  BY <1>1, <1>2, LasSuyas DEF Suyas
<1>4. \A t \in Ciertas : tabla[t] = vigente
  BY <1>1 DEF Puestas
<1>5. QED BY <1>2, <1>3, <1>4

(* An initialised terminal at rest works with the tables of the last         *)
(* download that was marked, all of them and no other, after any downloads   *)
(* cut, refused or ended with the process, out of the gaps of the code.      *)
THEOREM InicializacionTablas == Spec => []TablasVigentes
<1>1. IInvInicializacion => TablasVigentes
  <2>1. SUFFICES ASSUME IInvInicializacion, pc = "libre", estado = 1,
                        Sin({"respaldo", "parcial", "sobras", "viejas", "incompleta"})
                 PROVE  vigente \in DOMAIN contenido /\ SonDe(vigente)
    BY DEF TablasVigentes, Sin
  <2>2. /\ Sin({"respaldo", "parcial"}) /\ Sin({"parcial", "sobras", "viejas"})
        /\ "incompleta" \notin huecos
    BY <2>1 DEF Sin
  <2>3. /\ vigente \in DOMAIN contenido /\ Suyas = contenido[vigente]
        /\ \A t \in Suyas : tabla[t] = vigente
    BY <2>1, <2>2, EnUso DEF Ciertas
  <2>4. \A t \in Tablas \ Suyas : tabla[t] = 0
    BY <2>1, <2>2 DEF IInvInicializacion, Resto, Ficheros, Ajenas, EnReposo, Previas
  <2>5. tabla \in [Tablas -> 0 .. MaxDescargas]
    BY <2>1 DEF IInvInicializacion, TypeOK
  <2>6. QED BY <2>3, <2>4, <2>5 DEF SonDe
<1>2. QED BY <1>1, InvarianteInicializacion, PTL

(* The number of an initialised terminal at rest is the one its tables were  *)
(* downloaded for: a change of number that failed took it back.              *)
THEOREM InicializacionNumero == Spec => []NumeroDeLasTablas
<1>1. IInvInicializacion => NumeroDeLasTablas
  <2>1. SUFFICES ASSUME IInvInicializacion, pc = "libre", estado = 1, tabla["uno"] # 0,
                        Sin({"numero", "borrado", "parcial", "cola"})
                 PROVE  numero = destino[tabla["uno"]]
    BY DEF NumeroDeLasTablas, Sin
  <2>2. TypeOK /\ EnSuLugar /\ Primera /\ Salvadas /\ Numeros
    BY <2>1 DEF IInvInicializacion, Resto, Ficheros
  <2>3. Sin({"parcial"})
    BY <2>1 DEF Sin
  <2>4. vigente # 0
    BY <2>1, <2>2, <2>3 DEF Primera
  <2>5. tabla["uno"] = vigente
    BY <2>1, <2>2, <2>3, <2>4, LasSuyas DEF Salvadas, EnReposo, Previas
  <2>6. QED BY <2>1, <2>2, <2>4, <2>5 DEF Numeros, Terminando
<1>2. QED BY <1>1, InvarianteInicializacion, PTL

(* The settings and the addresses of an initialised terminal at rest were    *)
(* unpacked from the tables it has.                                          *)
THEOREM InicializacionAjustes == Spec => []AjustesDeLasTablas
<1>1. IInvInicializacion => AjustesDeLasTablas
  <2>1. SUFFICES ASSUME IInvInicializacion, pc = "libre", estado = 1,
                        Sin({"respaldo", "parcial"})
                 PROVE  /\ "ajustes" \in huecos \/ \A g \in Grupos : ajustes[g] = tabla["par"]
                        /\ "cola" \in huecos \/ conexion = tabla["cuatro"]
    BY DEF AjustesDeLasTablas, Sin
  <2>2. tabla["par"] = vigente /\ tabla["cuatro"] = vigente
    BY <2>1, EnUso
  <2>3. Desempaquetados /\ pc \notin Desempaquetando /\ pc # "comunicacion"
    BY <2>1 DEF IInvInicializacion, Resto, Desempaquetando
  <2>4. QED BY <2>2, <2>3 DEF Desempaquetados
<1>2. QED BY <1>1, InvarianteInicializacion, PTL

(* Each table of the last download that was marked is in use or set aside at *)
(* every step, wherever the process ends and however many times.             *)
THEOREM InicializacionNadaSePierde == Spec => []NadaSePierde
<1>1. IInvInicializacion => NadaSePierde
  <2>1. SUFFICES ASSUME IInvInicializacion, vigente # 0, Sin({"parcial"}),
                        NEW t \in contenido[vigente],
                        ~(t = "nombrada" /\ "incompleta" \in huecos)
                 PROVE  vigente \in {tabla[t], respaldo[t]}
    BY DEF NadaSePierde, Sin
  <2>2. t \in Ciertas
    BY <2>1 DEF Suyas, Ciertas
  <2>3. TypeOK /\ Salvadas /\ EnSuLugar
    BY <2>1 DEF IInvInicializacion, Resto, Ficheros
  <2>4. CASE EnReposo \/ PorMirar
    BY <2>1, <2>2, <2>3, <2>4 DEF Salvadas
  <2>5. CASE pc \in {"recibir", "restaurada"} \cup Abriendo
    BY <2>1, <2>2, <2>3, <2>5 DEF Salvadas
  <2>6. CASE pc = "restaurar"
    <3>1. PICK j \in 1 .. Ultima : t = Orden[j]
      BY <2>2, <2>3, LasSuyas, Ordenadas
    <3>2. QED BY <2>1, <2>2, <2>3, <2>6, <3>1 DEF Salvadas
  <2>7. EnReposo \/ PorMirar \/ pc \in {"recibir", "restaurada", "restaurar"} \cup Abriendo
    BY <2>3, PorTipos, LasVueltas
       DEF Tipos, Lugares, EnReposo, PorMirar, Previas, Marcadas, Terminando, Abriendo,
           Desempaquetando
  <2>8. QED BY <2>4, <2>5, <2>6, <2>7
<1>2. QED BY <1>1, InvarianteInicializacion, PTL

=============================================================================
