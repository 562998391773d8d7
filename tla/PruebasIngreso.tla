--------------------------- MODULE PruebasIngreso ---------------------------
(***************************************************************************)
(* Proofs about the login and the password screens, for any number of      *)
(* screens and users: one chain of workers and messages at a time while no *)
(* screen replaced another, never more chains than screens, no field found *)
(* null, and the preferences of one user in the session.                   *)
(***************************************************************************)
EXTENDS Ingreso, FiniteSetTheorems, TLAPS

USE UsuariosAssumption, MaxPantallasAssumption, CompletasAssumption

\* The workers under way, and the screens whose loader is open.
Ocupados == {h \in Hilos : hilo[h].pc # "libre"}
Abiertas == {i \in 1..n : campo[i].loader = "abierto"}
Reposo   == Ocupados = {} /\ cola = <<>>

\* How far the preferences are those of the user who logged in.
ConClave        == prefs.userId \in Usuarios /\ prefs.clave = prefs.userId
ConParametricas == ConClave /\ prefs.parametricas = prefs.userId
ConBanco        == ConParametricas /\ prefs.banco = prefs.userId

\* A class that has screens has a last one, which its messages go to, and the
\* screen in front is the last one of its class.
Ultimas ==
    /\ campo[1].clase = "login"
    /\ \A c \in Clases : (\E i \in 1..n : campo[i].clase = c) =>
          \E i \in 1..n : campo[i].clase = c /\ \A j \in 1..n : campo[j].clase = c => j <= i
    /\ frente # Inicio => \A j \in 1..n : campo[j].clase = campo[frente].clase => j <= frente

\* The messages the handler of a class knows.
Admite(c, q) == q = 1 \/ (q = 3 /\ c # "cambio") \/ (q \in {4, 5, 6, 7} /\ c = "login")

\* A worker is of a screen that was created, and does what its class does.
Propio(r) ==
    /\ r.de \in 1..n
    /\ r.pc = "token" => campo[r.de].clase # "cambio"
    /\ r.pc \in {"login", "entra", "clave", "parametricas", "carga", "banco", "cargaBanco",
                 "ubica"} => campo[r.de].clase = "login"
    /\ r.pc \in {"cambio", "cambia"} => campo[r.de].clase = "cambio"
    /\ r.pc = "envia" => campo[r.de].clase = "olvido"
    /\ r.pc = "asigna" =>
          \/ r.que = 1 /\ r.val \in Tokens /\ campo[r.de].clase # "cambio"
          \/ r.que = 1 /\ r.val \in {"1", "0"} /\ campo[r.de].clase = "cambio"
          \/ r.que = 4 /\ r.val \in {"1", "cambio", "otro"} /\ campo[r.de].clase = "login"
    /\ r.pc = "avisa" => Admite(campo[r.de].clase, r.que)

Propios ==
    /\ \A h \in Ocupados : Propio(hilo[h])
    /\ \A k \in 1..Len(cola) : cola[k].para \in 1..n
                               /\ Admite(campo[cola[k].para].clase, cola[k].que)

\* Every chain is under a loader of its own.
BajoLoader == EnCurso <= Cardinality(Abiertas)

\* Without a screen that replaced another there is one chain at most, of the
\* screen in front, and under its loader.
Sola ==
    /\ Ocupados # {} => cola = <<>>
    /\ \A g, h \in Ocupados : g = h
    /\ Len(cola) <= 1
    /\ ~Reposo => frente # Inicio /\ campo[frente].loader = "abierto"
    /\ \A h \in Ocupados : hilo[h].de = frente
    /\ cola # <<>> => cola[1].para = frente

\* What a message of that chain finds when it is handled.
Preparado(q, i) ==
    /\ q = 1 /\ campo[i].clase # "cambio" => campo[i].token # "nulo"
    /\ q = 1 /\ campo[i].clase = "cambio" => campo[i].estado # "nulo"
    /\ q = 4 => campo[i].estado # "nulo"
    /\ q = 4 /\ campo[i].estado = "1" => ConClave
    /\ q = 6 => ConParametricas
    /\ q \in {5, 7} => ConBanco
    /\ campo[i].clase = "login" => campo[i].usuario \in Usuarios

\* What its worker knows at each place.
EnEtapa(r) ==
    /\ campo[r.de].clase = "login" => campo[r.de].usuario \in Usuarios
    /\ r.pc = "entra" => r.usuario \in Usuarios
    /\ r.pc = "clave" => prefs.userId = r.usuario /\ r.usuario \in Usuarios
    /\ r.pc \in {"parametricas", "carga"} => ConClave
    /\ r.pc \in {"banco", "cargaBanco"} => ConParametricas
    /\ r.pc \in {"carga", "cargaBanco"} => r.usuario = prefs.userId
    /\ r.pc = "ubica" => ConBanco
    /\ r.pc = "asigna" /\ r.que = 4 /\ r.val = "1" => ConClave
    /\ r.pc = "avisa" => Preparado(r.que, r.de)

Etapas ==
    /\ \A h \in Ocupados : EnEtapa(hilo[h])
    /\ cola # <<>> => Preparado(cola[1].que, cola[1].para)

\* While nothing was replaced.
SinRelevo ==
    ~relevo => /\ Sola /\ Etapas
               /\ vida # "campoNulo"
               /\ frente = Inicio => ConBanco

Resto == Ultimas /\ Propios /\ BajoLoader /\ SinRelevo

IInvIngreso == TypeOK /\ Resto

-----------------------------------------------------------------------------
(* Types and counts.                                                         *)

\* The types, but for the length of the queue, which BajoLoader gives.
Tipos ==
    /\ vida \in {"viva", "campoNulo", "sinUsuario", "sinRespuesta"}
    /\ n \in Pantallas /\ frente \in 0..n
    /\ campo \in [Pantallas -> Campo]
    /\ hilo \in [Hilos -> Hilo]
    /\ cola \in Seq([para : Pantallas, que : 1..7])
    /\ temporizador \in BOOLEAN /\ relevo \in BOOLEAN
    /\ prefs \in [Claves -> {Nadie} \cup Usuarios]

LEMMA Cuentas ==
    ASSUME Tipos
    PROVE  /\ IsFiniteSet(Ocupados) /\ Cardinality(Ocupados) \in Nat
           /\ IsFiniteSet(Abiertas) /\ Cardinality(Abiertas) \in Nat
           /\ Cardinality(Abiertas) <= n
           /\ Len(cola) \in Nat
           /\ EnCurso = Cardinality(Ocupados) + Len(cola)
           /\ n \in Nat /\ 1..n \subseteq Pantallas
<1>1. n \in Nat /\ 1..n \subseteq Pantallas /\ Len(cola) \in Nat /\ MaxPantallas \in Nat
  BY DEF Tipos, Pantallas
<1>2. IsFiniteSet(Hilos) /\ IsFiniteSet(1..n) /\ Cardinality(1..n) = n
  BY <1>1, FS_Interval DEF Hilos
<1>3. Ocupados \subseteq Hilos /\ Abiertas \subseteq 1..n
  BY DEF Ocupados, Abiertas
<1>4. IsFiniteSet(Ocupados) /\ IsFiniteSet(Abiertas) /\ Cardinality(Abiertas) <= n
  BY <1>2, <1>3, FS_Subset
<1>5. Cardinality(Ocupados) \in Nat /\ Cardinality(Abiertas) \in Nat
  BY <1>4, FS_CardinalityType
<1>6. QED BY <1>1, <1>4, <1>5 DEF EnCurso, Ocupados

\* The same of the next state.
LEMMA CuentasTras ==
    ASSUME Tipos'
    PROVE  /\ IsFiniteSet(Ocupados') /\ Cardinality(Ocupados') \in Nat
           /\ IsFiniteSet(Abiertas') /\ Cardinality(Abiertas') \in Nat
           /\ Cardinality(Abiertas') <= n'
           /\ Len(cola') \in Nat
           /\ EnCurso' = Cardinality(Ocupados') + Len(cola')
<1>1. n' \in Nat /\ Len(cola') \in Nat /\ MaxPantallas \in Nat
  BY DEF Tipos, Pantallas
<1>2. IsFiniteSet(Hilos) /\ IsFiniteSet(1..n') /\ Cardinality(1..n') = n'
  <2>1. \A m \in Nat : IsFiniteSet(1..m) /\ Cardinality(1..m) = m
    BY FS_Interval
  <2>2. QED BY <1>1, <2>1 DEF Hilos
<1>3. Ocupados' \subseteq Hilos /\ Abiertas' \subseteq 1..n'
  BY DEF Ocupados, Abiertas
<1>4. IsFiniteSet(Ocupados') /\ IsFiniteSet(Abiertas') /\ Cardinality(Abiertas') <= n'
  BY <1>2, <1>3, FS_Subset
<1>5. Cardinality(Ocupados') \in Nat /\ Cardinality(Abiertas') \in Nat
  BY <1>4, FS_CardinalityType
<1>6. QED BY <1>1, <1>4, <1>5 DEF EnCurso, Ocupados

\* The queue is no longer than the screens are many.
LEMMA TiposYCota == Tipos /\ BajoLoader => TypeOK
<1>1. ASSUME Tipos, BajoLoader PROVE Len(cola) <= MaxPantallas
  BY <1>1, Cuentas DEF BajoLoader, Tipos, Pantallas
<1>2. QED BY <1>1 DEF Tipos, TypeOK

LEMMA TiposYCotaTras == Tipos' /\ BajoLoader' => TypeOK'
<1>1. ASSUME Tipos', BajoLoader' PROVE Len(cola') <= MaxPantallas
  <2>1. n' <= MaxPantallas /\ MaxPantallas \in Nat /\ n' \in Nat
    BY <1>1 DEF Tipos, Pantallas
  <2>2. QED BY <1>1, <2>1, CuentasTras DEF BajoLoader
<1>2. QED BY <1>1 DEF Tipos, TypeOK

\* The handler of a class with screens is one of them, and no other is later.
LEMMA ManejadorDe ==
    ASSUME Tipos, Ultimas, NEW c \in Clases, \E i \in 1..n : campo[i].clase = c
    PROVE  /\ Manejador(c) \in 1..n /\ campo[Manejador(c)].clase = c
           /\ \A j \in 1..n : campo[j].clase = c => j <= Manejador(c)
  BY DEF Ultimas, Manejador

\* Initial states.
LEMMA InicioIngreso == Init => IInvIngreso
<1> SUFFICES ASSUME Init PROVE IInvIngreso
  OBVIOUS
<1> USE DEF Init, Arranque
<1>1. /\ Nueva("login") \in Campo /\ Ocioso \in Hilo
      /\ Nueva("login").clase = "login" /\ Nueva("login").loader = "nunca"
      /\ Ocioso.pc = "libre"
  BY DEF Nueva, Campo, Clases, Ocioso, Hilo
<1>2. Tipos
  <2>1. /\ campo \in [Pantallas -> Campo] /\ hilo \in [Hilos -> Hilo]
        /\ prefs \in [Claves -> {Nadie} \cup Usuarios]
    BY <1>1
  <2>2. temporizador \in BOOLEAN /\ relevo \in BOOLEAN
    OBVIOUS
  <2>3. cola \in Seq([para : Pantallas, que : 1..7]) /\ n \in Pantallas /\ frente \in 0..n
    BY DEF Pantallas
  <2>4. QED BY <2>1, <2>2, <2>3 DEF Tipos
<1>3. Ocupados = {} /\ cola = <<>> /\ Len(cola) = 0 /\ Cardinality(Ocupados) = 0
  BY <1>1, FS_EmptySet DEF Ocupados
<1>4. BajoLoader
  BY <1>2, <1>3, Cuentas DEF BajoLoader
<1>5. Ultimas
  BY <1>1, <1>2 DEF Ultimas, Pantallas
<1>6. Propios
  BY <1>3 DEF Propios
<1>7. SinRelevo
  BY <1>3 DEF SinRelevo, Sola, Etapas, Reposo, Inicio
<1>8. TypeOK
  BY <1>2, <1>4, TiposYCota
<1>9. QED BY <1>4, <1>5, <1>6, <1>7, <1>8 DEF IInvIngreso, Resto

-----------------------------------------------------------------------------
(* What each kind of step does to the chains, whichever the operation is.    *)

\* No screen is created: the last of each class stays.
LEMMA UltimasQuietas ==
    ASSUME Tipos, Ultimas, n' = n, \A i \in 1..n : campo'[i].clase = campo[i].clase,
           frente' = frente \/ frente' = Inicio
    PROVE  Ultimas'
<1>1. 1 \in 1..n /\ (frente # Inicio => frente \in 1..n)
  BY Cuentas DEF Tipos, Pantallas, Inicio
<1>2. ASSUME NEW c \in Clases, NEW i \in 1..n, campo'[i].clase = c
      PROVE  \E k \in 1..n : campo'[k].clase = c /\ \A j \in 1..n : campo'[j].clase = c => j <= k
  <2>1. PICK k \in 1..n : campo[k].clase = c /\ \A j \in 1..n : campo[j].clase = c => j <= k
    BY <1>2 DEF Ultimas
  <2>2. QED BY <2>1
<1>3. QED BY <1>1, <1>2 DEF Ultimas

\* A worker goes on.
LEMMA SigueHilo ==
    ASSUME Tipos, Tipos', Resto, NEW h \in Hilos,
           hilo[h].pc # "libre", hilo'[h].pc # "libre", hilo'[h].de = hilo[h].de,
           \A g \in Hilos \ {h} : hilo'[g] = hilo[g],
           UNCHANGED <<frente, n, cola, relevo>>, vida' # "campoNulo" \/ vida' = vida,
           \A i \in Pantallas : /\ campo'[i].clase = campo[i].clase
                                /\ campo'[i].loader = campo[i].loader,
           Propio(hilo[h])', ~relevo => EnEtapa(hilo[h])'
    PROVE  Resto'
<1>1. Ocupados' = Ocupados /\ h \in Ocupados /\ \A g \in Ocupados : g \in Hilos
  BY DEF Ocupados
<1>2. n' = n /\ 1..n \subseteq Pantallas /\ n \in Nat
  BY Cuentas
<1>3. Abiertas' = Abiertas
  BY <1>2 DEF Abiertas
<1>4. BajoLoader'
  BY <1>1, <1>3, Cuentas, CuentasTras DEF BajoLoader, Resto
<1>5. Ultimas'
  BY <1>2, UltimasQuietas DEF Resto
<1>6. Propios'
  <2>1. ASSUME NEW g \in Ocupados, g # h PROVE Propio(hilo[g])'
    <3>1. Propio(hilo[g]) /\ hilo'[g] = hilo[g]
      BY <1>1, <2>1 DEF Resto, Propios
    <3>2. QED BY <1>2, <3>1 DEF Propio
  <2>2. ASSUME NEW k \in 1..Len(cola)
        PROVE  cola[k].para \in 1..n /\ Admite(campo'[cola[k].para].clase, cola[k].que)
    BY <1>2, <2>2 DEF Resto, Propios
  <2>3. QED BY <1>1, <1>2, <2>1, <2>2 DEF Propios
<1>7. SinRelevo'
  <2>1. SUFFICES ASSUME ~relevo
                 PROVE  Sola' /\ Etapas' /\ vida' # "campoNulo" /\ (frente = Inicio => ConBanco')
    BY DEF SinRelevo
  <2>2. Sola /\ vida # "campoNulo" /\ ~Reposo /\ cola = <<>>
    BY <1>1, <2>1 DEF Resto, SinRelevo, Sola, Reposo
  <2>3. \A g \in Ocupados : g = h
    BY <1>1, <2>2 DEF Sola
  <2>4. frente # Inicio /\ campo[frente].loader = "abierto" /\ frente \in Pantallas
    BY <1>2, <2>2 DEF Sola, Tipos, Inicio
  <2>5. Sola'
    BY <1>1, <2>2, <2>3, <2>4 DEF Sola, Inicio
  <2>6. Etapas'
    BY <1>1, <2>1, <2>2, <2>3 DEF Etapas
  <2>7. QED BY <2>2, <2>4, <2>5, <2>6
<1>8. QED BY <1>4, <1>5, <1>6, <1>7 DEF Resto

\* A worker ends, with a message or in silence.
LEMMA AcabaHilo ==
    ASSUME Tipos, Tipos', Resto, NEW h \in Hilos,
           hilo[h].pc # "libre", hilo'[h].pc = "libre",
           \A g \in Hilos \ {h} : hilo'[g] = hilo[g],
           UNCHANGED <<frente, n, campo, relevo, vida, prefs>>, NEW m,
           cola' = cola \/ cola' = Append(cola, m),
           m.para \in 1..n, Admite(campo[m.para].clase, m.que),
           ~relevo => m.para = frente /\ (cola' # cola => Preparado(m.que, m.para))
    PROVE  Resto'
<1>1. /\ Ocupados' = Ocupados \ {h} /\ h \in Ocupados /\ \A g \in Ocupados : g \in Hilos
  BY DEF Ocupados
<1>2. n' = n /\ n \in Nat /\ Abiertas' = Abiertas
  BY Cuentas DEF Abiertas
<1>3. /\ Len(cola) \in Nat
      /\ \/ cola' = cola
         \/ /\ Len(cola') = Len(cola) + 1 /\ cola'[Len(cola) + 1] = m
            /\ \A k \in 1..Len(cola) : cola'[k] = cola[k]
  BY DEF Tipos
<1>4. Len(cola') <= Len(cola) + 1 /\ Len(cola') \in Nat
  BY <1>3
<1>5. BajoLoader'
  <2>1. Cardinality(Ocupados') = Cardinality(Ocupados) - 1
    BY <1>1, Cuentas, FS_RemoveElement
  <2>2. QED BY <1>2, <1>4, <2>1, Cuentas, CuentasTras DEF BajoLoader, Resto
<1>6. Ultimas'
  BY <1>2, UltimasQuietas DEF Resto
<1>7. Propios'
  <2>1. ASSUME NEW g \in Ocupados, g # h PROVE Propio(hilo[g])'
    <3>1. Propio(hilo[g]) /\ hilo'[g] = hilo[g]
      BY <1>1, <2>1 DEF Resto, Propios
    <3>2. QED BY <1>2, <3>1 DEF Propio
  <2>2. ASSUME NEW k \in 1..Len(cola')
        PROVE  cola'[k].para \in 1..n /\ Admite(campo[cola'[k].para].clase, cola'[k].que)
    <3>1. CASE k \in 1..Len(cola) /\ cola'[k] = cola[k]
      BY <3>1 DEF Resto, Propios
    <3>2. CASE cola'[k] = m
      BY <3>2
    <3>3. QED BY <1>3, <2>2, <3>1, <3>2
  <2>3. QED BY <1>1, <1>2, <2>1, <2>2 DEF Propios
<1>8. SinRelevo'
  <2>1. SUFFICES ASSUME ~relevo
                 PROVE  Sola' /\ Etapas' /\ vida' # "campoNulo" /\ (frente = Inicio => ConBanco)
    BY DEF SinRelevo, ConBanco, ConParametricas, ConClave
  <2>2. Sola /\ vida # "campoNulo" /\ ~Reposo /\ cola = <<>> /\ Ocupados' = {}
    BY <1>1, <2>1 DEF Resto, SinRelevo, Sola, Reposo
  <2>3. frente # Inicio /\ campo[frente].loader = "abierto" /\ Len(cola) = 0
    BY <2>2 DEF Sola
  <2>4. Len(cola') <= 1 /\ (cola' # <<>> => cola' # cola /\ cola'[1] = m)
    <3>1. CASE cola' = cola
      BY <2>2, <2>3, <3>1
    <3>2. CASE cola' = Append(cola, m)
      BY <1>3, <2>2, <2>3, <3>2
    <3>3. QED BY <3>1, <3>2
  <2>5. Sola'
    BY <2>1, <2>2, <2>3, <2>4 DEF Sola, Reposo
  <2>6. Etapas'
    <3>1. cola' # <<>> => Preparado(m.que, m.para)
      BY <2>1, <2>4
    <3>2. cola' # <<>> => Preparado(cola[1].que, cola[1].para)'
      BY <2>4, <3>1 DEF Preparado, ConBanco, ConParametricas, ConClave
    <3>3. QED BY <2>2, <3>2 DEF Etapas
  <2>7. QED BY <2>2, <2>3, <2>5, <2>6
<1>9. QED BY <1>5, <1>6, <1>7, <1>8 DEF Resto

\* The queue without its first message.
LEMMA SinPrimero ==
    ASSUME Tipos, Resto, cola # <<>>, cola' = Tail(cola)
    PROVE  /\ Len(cola) \in Nat /\ Len(cola) >= 1 /\ Len(cola') = Len(cola) - 1
           /\ \A k \in 1..Len(cola') : k + 1 \in 1..Len(cola) /\ cola'[k] = cola[k + 1]
           /\ Head(cola) = cola[1] /\ cola[1] \in [para : Pantallas, que : 1..7]
           /\ cola[1].para \in 1..n /\ Admite(campo[cola[1].para].clase, cola[1].que)
           /\ ~relevo => /\ Ocupados = {} /\ cola' = <<>>
                         /\ frente # Inicio /\ campo[frente].loader = "abierto"
                         /\ cola[1].para = frente
                         /\ Preparado(cola[1].que, cola[1].para)
<1>1. cola \in Seq([para : Pantallas, que : 1..7]) /\ Len(cola) \in Nat
  BY DEF Tipos
<1>2. Len(cola) # 0
  BY <1>1
<1>3. /\ Len(cola) >= 1 /\ Len(cola') = Len(cola) - 1 /\ 1 \in 1..Len(cola)
      /\ Head(cola) = cola[1] /\ cola[1] \in [para : Pantallas, que : 1..7]
  <2>1. Len(cola) >= 1 /\ 1 \in 1..Len(cola)
    BY <1>1, <1>2
  <2>2. \A M : cola \in Seq(M) => cola[1] \in M
    BY <2>1
  <2>3. Len(Tail(cola)) = Len(cola) - 1 /\ Head(cola) = cola[1]
    BY <1>1, <2>1
  <2>4. QED BY <1>1, <2>1, <2>2, <2>3
<1>4. \A k \in 1..Len(cola') : k + 1 \in 1..Len(cola) /\ cola'[k] = cola[k + 1]
  BY <1>1, <1>3
<1>5. cola[1].para \in 1..n /\ Admite(campo[cola[1].para].clase, cola[1].que)
  BY <1>3 DEF Resto, Propios
<1>6. ASSUME ~relevo
      PROVE  /\ Ocupados = {} /\ cola' = <<>>
             /\ frente # Inicio /\ campo[frente].loader = "abierto"
             /\ cola[1].para = frente
             /\ Preparado(cola[1].que, cola[1].para)
  <2>1. Sola /\ Etapas
    BY <1>6 DEF Resto, SinRelevo
  <2>2. Len(cola) = 1
    BY <1>1, <1>3, <2>1 DEF Sola
  <2>3. cola' = <<>>
    BY <1>1, <1>3, <2>2
  <2>4. QED BY <2>1, <2>3 DEF Sola, Etapas, Reposo
<1>7. QED BY <1>1, <1>3, <1>4, <1>5, <1>6

\* The messages that stay are still of their classes.
LEMMA MensajesQuedan ==
    ASSUME Tipos, Resto, cola # <<>>, cola' = Tail(cola), n' \in Nat, n <= n',
           \A i \in 1..n : campo'[i].clase = campo[i].clase
    PROVE  \A k \in 1..Len(cola') : /\ cola'[k].para \in 1..n'
                                    /\ Admite(campo'[cola'[k].para].clase, cola'[k].que)
<1>1. ASSUME NEW k \in 1..Len(cola')
      PROVE  /\ cola'[k].para \in 1..n'
             /\ Admite(campo'[cola'[k].para].clase, cola'[k].que)
  <2>1. cola[k + 1].para \in 1..n /\ Admite(campo[cola[k + 1].para].clase, cola[k + 1].que)
    BY <1>1, SinPrimero DEF Resto, Propios
  <2>2. 1..n \subseteq 1..n'
    BY Cuentas
  <2>3. QED BY <1>1, <2>1, <2>2, SinPrimero
<1>2. QED BY <1>1

\* Workers that a step does not touch are still of their classes.
LEMMA HilosQuedan ==
    ASSUME Tipos, Resto, n' \in Nat, n <= n', NEW g \in Ocupados, hilo'[g] = hilo[g],
           \A i \in 1..n : campo'[i].clase = campo[i].clase
    PROVE  Propio(hilo[g])'
<1>1. Propio(hilo[g])
  BY DEF Resto, Propios
<1>2. 1..n \subseteq 1..n'
  BY Cuentas
<1>3. QED BY <1>1, <1>2 DEF Propio

\* Without a chain there is nothing to say of one.
LEMMA SinCadenas ==
    ASSUME Ocupados' = {}, cola' = <<>>
    PROVE  Sola' /\ Etapas'
<1>1. Reposo' /\ Len(cola') = 0
  BY DEF Reposo
<1>2. Sola'
  BY <1>1 DEF Sola
<1>3. Etapas'
  BY <1>1 DEF Etapas
<1>4. QED BY <1>2, <1>3

\* A message is handled, and its chain ends there.
LEMMA AcabaMensaje ==
    ASSUME Tipos, Tipos', Resto, cola # <<>>, cola' = Tail(cola),
           UNCHANGED <<n, hilo, prefs, relevo>>, NEW i, frente' = frente \/ frente' = Inicio,
           \A j \in Pantallas :
              /\ campo'[j].clase = campo[j].clase
              /\ campo'[j].loader = campo[j].loader \/ (j = i /\ campo'[j].loader = "cerrado"),
           ~relevo => vida' # "campoNulo" /\ (frente' = Inicio => ConBanco)
    PROVE  Resto'
<1>1. /\ Ocupados' = Ocupados /\ n' = n /\ n \in Nat /\ 1..n \subseteq Pantallas
      /\ n' \in Nat /\ n <= n' /\ \A g \in Ocupados : hilo'[g] = hilo[g]
  BY Cuentas DEF Ocupados
<1>2. BajoLoader'
  <2>1. Abiertas' = Abiertas \/ Abiertas' = Abiertas \ {i}
    BY <1>1 DEF Abiertas
  <2>2. Cardinality(Abiertas') >= Cardinality(Abiertas) - 1
    <3>1. CASE Abiertas' = Abiertas
      BY <3>1, Cuentas
    <3>2. CASE Abiertas' = Abiertas \ {i}
      <4>1. \/ Cardinality(Abiertas \ {i}) = Cardinality(Abiertas) - 1
            \/ Cardinality(Abiertas \ {i}) = Cardinality(Abiertas)
        BY Cuentas, FS_RemoveElement
      <4>2. QED BY <3>2, <4>1, Cuentas
    <3>3. QED BY <2>1, <3>1, <3>2
  <2>3. QED BY <1>1, <2>2, Cuentas, CuentasTras, SinPrimero DEF BajoLoader, Resto
<1>3. Ultimas'
  BY <1>1, UltimasQuietas DEF Resto
<1>4. Propios'
  <2>1. ASSUME NEW g \in Ocupados PROVE Propio(hilo[g])'
    BY <1>1, HilosQuedan
  <2>2. QED BY <1>1, <2>1, MensajesQuedan DEF Propios
<1>5. SinRelevo'
  <2>1. SUFFICES ASSUME ~relevo PROVE Sola' /\ Etapas' /\ (frente' = Inicio => ConBanco')
    BY DEF SinRelevo
  <2>2. Ocupados' = {} /\ cola' = <<>> /\ Len(cola') = 0
    BY <1>1, <2>1, SinPrimero
  <2>3. Sola' /\ Etapas'
    BY <2>2, SinCadenas
  <2>4. frente' = Inicio => ConBanco'
    BY <2>1 DEF ConBanco, ConParametricas, ConClave
  <2>5. QED BY <2>3, <2>4
<1>6. QED BY <1>2, <1>3, <1>4, <1>5 DEF Resto

\* A message is handled and its chain goes on with a new worker.
LEMMA SigueMensaje ==
    ASSUME Tipos, Tipos', Resto, cola # <<>>, cola' = Tail(cola), NEW h \in Hilos,
           UNCHANGED <<frente, n, campo, prefs, relevo, vida>>,
           hilo[h].pc = "libre", hilo'[h].pc # "libre",
           \A g \in Hilos \ {h} : hilo'[g] = hilo[g],
           hilo'[h].de = cola[1].para,
           Propio(hilo[h])', ~relevo => EnEtapa(hilo[h])'
    PROVE  Resto'
<1>1. /\ Ocupados' = Ocupados \cup {h} /\ h \notin Ocupados /\ \A g \in Ocupados : g \in Hilos
      /\ n' = n /\ n \in Nat /\ Abiertas' = Abiertas /\ frente' = frente /\ campo' = campo
  BY Cuentas DEF Ocupados, Abiertas
<1>2. BajoLoader'
  <2>1. Cardinality(Ocupados') = Cardinality(Ocupados) + 1
    BY <1>1, Cuentas, FS_AddElement
  <2>2. QED BY <1>1, <2>1, Cuentas, CuentasTras, SinPrimero DEF BajoLoader, Resto
<1>3. Ultimas'
  BY <1>1 DEF Ultimas, Resto
<1>4. Propios'
  <2>1. ASSUME NEW g \in Ocupados PROVE Propio(hilo[g])'
    BY <1>1, HilosQuedan
  <2>2. QED BY <1>1, <2>1, MensajesQuedan DEF Propios
<1>5. SinRelevo'
  <2>1. SUFFICES ASSUME ~relevo
                 PROVE  Sola' /\ Etapas' /\ vida # "campoNulo" /\ (frente = Inicio => ConBanco')
    BY DEF SinRelevo
  <2>2. /\ Ocupados' = {h} /\ cola' = <<>> /\ Len(cola') = 0 /\ hilo'[h].de = frente
        /\ frente # Inicio /\ campo[frente].loader = "abierto"
    <3>1. /\ Ocupados = {} /\ cola' = <<>> /\ cola[1].para = frente
          /\ frente # Inicio /\ campo[frente].loader = "abierto"
      BY <2>1, SinPrimero
    <3>2. QED BY <1>1, <3>1
  <2>3. Sola'
    <3>1. /\ \A g \in Ocupados' : g = h /\ hilo'[g].de = frente
          /\ Len(cola') <= 1
      BY <2>2
    <3>2. frente' # Inicio /\ campo'[frente'].loader = "abierto" /\ frente' = frente
      BY <1>1, <2>2
    <3>3. QED BY <2>2, <3>1, <3>2 DEF Sola
  <2>4. Etapas'
    BY <2>1, <2>2 DEF Etapas
  <2>5. QED BY <2>1, <2>2, <2>3, <2>4 DEF Resto, SinRelevo
<1>6. QED BY <1>2, <1>3, <1>4, <1>5 DEF Resto

\* A press of the screen in front, whose loader is not open, starts a chain.
LEMMA Pulsada ==
    ASSUME Tipos, Tipos', Resto, NEW h \in Hilos, frente # Inicio,
           campo[frente].loader # "abierto", campo'[frente].loader = "abierto",
           UNCHANGED <<frente, n, cola, prefs, relevo, vida>>,
           hilo[h].pc = "libre", hilo'[h].pc # "libre",
           \A g \in Hilos \ {h} : hilo'[g] = hilo[g],
           \A j \in Pantallas : /\ campo'[j].clase = campo[j].clase
                                /\ j # frente => campo'[j].loader = campo[j].loader,
           hilo'[h].de = frente, Propio(hilo[h])', ~relevo => EnEtapa(hilo[h])'
    PROVE  Resto'
<1>1. /\ Ocupados' = Ocupados \cup {h} /\ h \notin Ocupados /\ \A g \in Ocupados : g \in Hilos
      /\ n' = n /\ n \in Nat /\ frente \in 1..n /\ 1..n \subseteq Pantallas
  BY Cuentas DEF Ocupados, Tipos, Inicio
<1>2. BajoLoader'
  <2>1. Abiertas' = Abiertas \cup {frente} /\ frente \notin Abiertas
    BY <1>1 DEF Abiertas
  <2>2. /\ Cardinality(Ocupados') = Cardinality(Ocupados) + 1
        /\ Cardinality(Abiertas') = Cardinality(Abiertas) + 1
    BY <1>1, <2>1, Cuentas, FS_AddElement
  <2>3. QED BY <1>1, <2>2, Cuentas, CuentasTras DEF BajoLoader, Resto
<1>3. Ultimas'
  BY <1>1, UltimasQuietas DEF Resto
<1>4. Propios'
  <2>1. ASSUME NEW g \in Ocupados PROVE Propio(hilo[g])'
    BY <1>1, HilosQuedan
  <2>2. ASSUME NEW k \in 1..Len(cola)
        PROVE  cola[k].para \in 1..n /\ Admite(campo'[cola[k].para].clase, cola[k].que)
    BY <1>1, <2>2 DEF Resto, Propios
  <2>3. QED BY <1>1, <2>1, <2>2 DEF Propios
<1>5. SinRelevo'
  <2>1. SUFFICES ASSUME ~relevo
                 PROVE  Sola' /\ Etapas' /\ vida # "campoNulo"
    BY DEF SinRelevo
  <2>2. Ocupados = {} /\ cola = <<>> /\ Len(cola) = 0
    BY <2>1 DEF Resto, SinRelevo, Sola, Reposo
  <2>3. Sola'
    BY <1>1, <2>2 DEF Sola
  <2>4. Etapas'
    BY <1>1, <2>1, <2>2 DEF Etapas
  <2>5. QED BY <2>1, <2>3, <2>4 DEF Resto, SinRelevo
<1>6. QED BY <1>2, <1>3, <1>4, <1>5 DEF Resto

\* A new screen comes to the front, with a message handled before it or none.
LEMMA Abierta ==
    ASSUME Tipos, Tipos', Resto, NEW c \in Clases, n' = n + 1, frente' = n + 1,
           cola' = cola \/ (cola # <<>> /\ cola' = Tail(cola)),
           UNCHANGED <<hilo, vida>>,
           campo'[n + 1].clase = c, campo'[n + 1].loader # "abierto",
           \A j \in 1..n : campo'[j] = campo[j],
           relevo' = (relevo \/ cola' # <<>> \/ \E h \in Hilos : hilo'[h].pc # "libre")
    PROVE  Resto'
<1>1. /\ Ocupados' = Ocupados /\ n \in Nat /\ n + 1 \in 1..n' /\ 1 \in 1..n /\ n <= n' /\ n' \in Nat
      /\ \A j : j \in 1..n' <=> j \in 1..n \/ j = n + 1
      /\ \A j \in 1..n : j < n + 1
  BY Cuentas DEF Ocupados, Tipos, Pantallas
<1>2. BajoLoader'
  <2>1. Abiertas' = Abiertas
    BY <1>1 DEF Abiertas
  <2>2. Len(cola') <= Len(cola)
    BY Cuentas, SinPrimero
  <2>3. QED BY <1>1, <2>1, <2>2, Cuentas, CuentasTras DEF BajoLoader, Resto
<1>3. Ultimas'
  <2>1. ASSUME NEW e \in Clases, NEW i \in 1..n', campo'[i].clase = e
        PROVE  \E k \in 1..n' : /\ campo'[k].clase = e
                                /\ \A j \in 1..n' : campo'[j].clase = e => j <= k
    <3>1. CASE e = c
      BY <1>1, <3>1
    <3>2. CASE e # c
      <4>1. i \in 1..n /\ campo[i].clase = e
        BY <1>1, <2>1, <3>2
      <4>2. PICK k \in 1..n : campo[k].clase = e /\ \A j \in 1..n : campo[j].clase = e => j <= k
        BY <4>1 DEF Resto, Ultimas
      <4>3. QED BY <1>1, <3>2, <4>2
    <3>3. QED BY <3>1, <3>2
  <2>2. \A j \in 1..n' : j <= frente'
    BY <1>1
  <2>3. QED BY <1>1, <2>1, <2>2 DEF Ultimas, Resto
<1>4. Propios'
  <2>1. ASSUME NEW g \in Ocupados PROVE Propio(hilo[g])'
    BY <1>1, HilosQuedan
  <2>2. ASSUME NEW k \in 1..Len(cola')
        PROVE  /\ cola'[k].para \in 1..n'
               /\ Admite(campo'[cola'[k].para].clase, cola'[k].que)
    <3>1. CASE cola' = cola
      BY <1>1, <2>2, <3>1 DEF Resto, Propios
    <3>2. CASE cola # <<>> /\ cola' = Tail(cola)
      BY <1>1, <2>2, <3>2, MensajesQuedan
    <3>3. QED BY <3>1, <3>2
  <2>3. QED BY <1>1, <2>1, <2>2 DEF Propios
<1>5. SinRelevo'
  <2>1. SUFFICES ASSUME ~relevo' PROVE Sola' /\ Etapas' /\ vida' # "campoNulo" /\ frente' # Inicio
    BY DEF SinRelevo
  <2>2. ~relevo /\ Ocupados' = {} /\ cola' = <<>> /\ Len(cola') = 0
    BY <2>1 DEF Ocupados
  <2>3. QED BY <1>1, <2>2 DEF Resto, SinRelevo, Sola, Etapas, Reposo, Inicio
<1>6. QED BY <1>2, <1>3, <1>4, <1>5 DEF Resto

-----------------------------------------------------------------------------
(* Types of what the operations write.                                       *)

Puestos == {"libre", "token", "login", "entra", "clave", "parametricas", "carga", "banco",
            "cargaBanco", "ubica", "cambio", "cambia", "envia", "asigna", "avisa"}

\* The fields of a worker and of a screen.
LEMMA CamposDeHilo ==
    /\ \A r \in Hilo : /\ r.pc \in Puestos /\ r.de \in 0..MaxPantallas
                       /\ r.usuario \in {Nadie} \cup Usuarios /\ r.que \in 0..7
                       /\ r.val \in {"nulo"} \cup Tokens \cup Estados
    /\ \A f \in Campo : /\ f.clase \in Clases /\ f.token \in {"nulo"} \cup Tokens
                        /\ f.estado \in {"nulo"} \cup Estados
                        /\ f.usuario \in {Nadie} \cup Usuarios
                        /\ f.loader \in {"nunca", "abierto", "cerrado"}
  BY DEF Hilo, Campo, Puestos

\* A new thread of a screen.
LEMMA EfectoLanzar ==
    ASSUME Tipos, NEW p \in Puestos, p # "libre", NEW i \in 1..n, Lanzar(p, i)
    PROVE  /\ hilo' \in [Hilos -> Hilo]
           /\ \E h \in Hilos : /\ hilo[h].pc = "libre" /\ hilo'[h].pc = p /\ hilo'[h].de = i
                               /\ \A g \in Hilos \ {h} : hilo'[g] = hilo[g]
<1>1. PICK h \in Hilos : /\ hilo[h].pc = "libre"
                         /\ hilo' = [hilo EXCEPT ![h] = [Ocioso EXCEPT !.pc = p, !.de = i]]
  BY DEF Lanzar
<1>2. PICK r : r = [Ocioso EXCEPT !.pc = p, !.de = i]
  OBVIOUS
<1>3. i \in 0..MaxPantallas /\ 0 \in 0..7
  BY Cuentas DEF Pantallas, Tipos
<1>4. r \in Hilo /\ r.pc = p /\ r.de = i
  <2>1. r = [pc |-> p, de |-> i, usuario |-> Nadie, que |-> 0, val |-> "nulo"]
    BY <1>2 DEF Ocioso
  <2>2. QED BY <1>3, <2>1 DEF Hilo, Puestos
<1>5. hilo \in [Hilos -> Hilo] /\ hilo' = [hilo EXCEPT ![h] = r]
  BY <1>1, <1>2 DEF Tipos
<1>6. QED BY <1>1, <1>4, <1>5

\* A worker of a thread goes to a place, to store a result, or to tell it.
LEMMA EfectoIr ==
    ASSUME Tipos, NEW h \in Hilos, NEW p \in Puestos, Ir(h, p)
    PROVE  /\ hilo' \in [Hilos -> Hilo] /\ \A g \in Hilos \ {h} : hilo'[g] = hilo[g]
           /\ hilo'[h].pc = p /\ hilo'[h].de = hilo[h].de
           /\ hilo'[h].usuario = hilo[h].usuario /\ hilo'[h].que = hilo[h].que
<1>1. PICK r : r = [hilo[h] EXCEPT !.pc = p]
  OBVIOUS
<1>2. hilo[h] \in Hilo /\ hilo \in [Hilos -> Hilo] /\ hilo' = [hilo EXCEPT ![h] = r]
  BY <1>1 DEF Tipos, Ir
<1>3. /\ r \in Hilo /\ r.pc = p /\ r.de = hilo[h].de
      /\ r.usuario = hilo[h].usuario /\ r.que = hilo[h].que
  BY <1>1, <1>2 DEF Hilo, Puestos
<1>4. QED BY <1>2, <1>3

LEMMA EfectoAsigna ==
    ASSUME Tipos, NEW h \in Hilos, NEW q \in 1..7, NEW v \in Tokens \cup Estados, Asigna(h, q, v)
    PROVE  /\ hilo' \in [Hilos -> Hilo] /\ \A g \in Hilos \ {h} : hilo'[g] = hilo[g]
           /\ hilo'[h].pc = "asigna" /\ hilo'[h].de = hilo[h].de
           /\ hilo'[h].que = q /\ hilo'[h].val = v
<1>1. PICK r : r = [hilo[h] EXCEPT !.pc = "asigna", !.que = q, !.val = v]
  OBVIOUS
<1>2. hilo[h] \in Hilo /\ hilo \in [Hilos -> Hilo] /\ hilo' = [hilo EXCEPT ![h] = r]
  BY <1>1 DEF Tipos, Asigna
<1>3. r \in Hilo /\ r.pc = "asigna" /\ r.de = hilo[h].de /\ r.que = q /\ r.val = v
  <2>1. q \in 0..7 /\ v \in {"nulo"} \cup Tokens \cup Estados
    OBVIOUS
  <2>2. QED BY <1>1, <1>2, <2>1 DEF Hilo
<1>4. QED BY <1>2, <1>3

LEMMA EfectoAvisa ==
    ASSUME Tipos, NEW h \in Hilos, NEW q \in 1..7, Avisa(h, q)
    PROVE  /\ hilo' \in [Hilos -> Hilo] /\ \A g \in Hilos \ {h} : hilo'[g] = hilo[g]
           /\ hilo'[h].pc = "avisa" /\ hilo'[h].de = hilo[h].de /\ hilo'[h].que = q
<1>1. PICK r : r = [hilo[h] EXCEPT !.pc = "avisa", !.que = q]
  OBVIOUS
<1>2. hilo[h] \in Hilo /\ hilo \in [Hilos -> Hilo] /\ hilo' = [hilo EXCEPT ![h] = r]
  BY <1>1 DEF Tipos, Avisa
<1>3. r \in Hilo /\ r.pc = "avisa" /\ r.de = hilo[h].de /\ r.que = q
  <2>1. q \in 0..7
    OBVIOUS
  <2>2. QED BY <1>1, <1>2, <2>1 DEF Hilo
<1>4. QED BY <1>2, <1>3

\* A loader opens or closes, and a pop-up says why.
LEMMA EfectoLoader ==
    ASSUME Tipos, NEW i \in Pantallas, NEW l \in {"abierto", "cerrado"},
           NEW a \in {"ninguno", "servidor", "fallido", "parametricas", "cambio", "correo"},
           campo' = [campo EXCEPT ![i].loader = l, ![i].aviso = a]
    PROVE  /\ campo' \in [Pantallas -> Campo] /\ campo'[i].loader = l
           /\ \A j \in Pantallas :
                 /\ campo'[j].clase = campo[j].clase /\ campo'[j].usuario = campo[j].usuario
                 /\ campo'[j].token = campo[j].token /\ campo'[j].estado = campo[j].estado
                 /\ j # i => campo'[j].loader = campo[j].loader
<1>1. PICK f : f = [campo[i] EXCEPT !.loader = l, !.aviso = a]
  OBVIOUS
<1>2. campo[i] \in Campo /\ campo \in [Pantallas -> Campo] /\ campo' = [campo EXCEPT ![i] = f]
  BY <1>1 DEF Tipos
<1>3. /\ f \in Campo /\ f.loader = l /\ f.clase = campo[i].clase /\ f.usuario = campo[i].usuario
      /\ f.token = campo[i].token /\ f.estado = campo[i].estado
  BY <1>1, <1>2 DEF Campo
<1>4. QED BY <1>2, <1>3

-----------------------------------------------------------------------------
(* The workers.                                                              *)

\* A step of a worker that writes only fields, preferences and its own place.
LEMMA TiposDeHilo ==
    ASSUME Tipos, hilo' \in [Hilos -> Hilo], campo' \in [Pantallas -> Campo],
           prefs' \in [Claves -> {Nadie} \cup Usuarios],
           vida' \in {"viva", "campoNulo", "sinUsuario", "sinRespuesta"},
           UNCHANGED <<frente, n, cola, relevo, temporizador>>
    PROVE  Tipos'
  BY DEF Tipos

\* What is known of a worker under way.
LEMMA DelHilo ==
    ASSUME Tipos, Resto, NEW h \in Hilos, hilo[h].pc # "libre"
    PROVE  /\ Propio(hilo[h]) /\ (~relevo => EnEtapa(hilo[h]) /\ frente = hilo[h].de)
           /\ hilo[h].de \in 1..n /\ hilo[h].de \in Pantallas
           /\ hilo[h] \in Hilo /\ campo[hilo[h].de] \in Campo
           /\ prefs \in [Claves -> {Nadie} \cup Usuarios]
           /\ campo \in [Pantallas -> Campo] /\ hilo \in [Hilos -> Hilo]
           /\ vida \in {"viva", "campoNulo", "sinUsuario", "sinRespuesta"}
<1>1. h \in Ocupados
  BY DEF Ocupados
<1>2. Propio(hilo[h]) /\ (~relevo => EnEtapa(hilo[h]) /\ frente = hilo[h].de)
  BY <1>1 DEF Resto, Propios, SinRelevo, Sola, Etapas
<1>3. /\ campo \in [Pantallas -> Campo] /\ hilo \in [Hilos -> Hilo]
      /\ prefs \in [Claves -> {Nadie} \cup Usuarios]
      /\ vida \in {"viva", "campoNulo", "sinUsuario", "sinRespuesta"}
  BY DEF Tipos
<1>4. hilo[h].de \in 1..n /\ hilo[h].de \in Pantallas
  BY <1>2, Cuentas DEF Propio
<1>5. QED BY <1>2, <1>3, <1>4

LEMMA PasoToken ==
    ASSUME Tipos, Resto, NEW h \in Hilos, solicitarToken(h)
    PROVE  Tipos' /\ Resto'
<1>1. /\ hilo[h].pc = "token"
      /\ UNCHANGED <<vida, frente, n, campo, relevo, cola, temporizador, prefs>>
  BY DEF solicitarToken, EnHilo, pantalla
<1>2. PICK t \in Tokens : Asigna(h, 1, t)
  BY DEF solicitarToken
<1>3. /\ hilo' \in [Hilos -> Hilo] /\ \A g \in Hilos \ {h} : hilo'[g] = hilo[g]
      /\ hilo'[h].pc = "asigna" /\ hilo'[h].de = hilo[h].de
      /\ hilo'[h].que = 1 /\ hilo'[h].val = t
  BY <1>2, EfectoAsigna
<1>4. Tipos'
  BY <1>1, <1>3, DelHilo, TiposDeHilo
<1>5. Propio(hilo[h])'
  BY <1>1, <1>3, DelHilo DEF Propio
<1>6. ~relevo => EnEtapa(hilo[h])'
  BY <1>1, <1>3, DelHilo DEF EnEtapa
<1>7. Resto'
  BY <1>1, <1>3, <1>4, <1>5, <1>6, SigueHilo
<1>8. QED BY <1>4, <1>7

LEMMA PasoPedir ==
    ASSUME Tipos, Resto, NEW h \in Hilos, pedir(h)
    PROVE  Tipos' /\ Resto'
<1>1. /\ hilo[h].pc \in {"login", "parametricas", "banco"}
      /\ UNCHANGED <<vida, frente, n, campo, relevo, cola, temporizador, prefs>>
  BY DEF pedir, Peticiones, pantalla
<1>2. PICK u : u = IF hilo[h].pc = "login" THEN campo[hilo[h].de].usuario ELSE prefs.userId
  OBVIOUS
<1>3. PICK p : p = IF hilo[h].pc = "login" THEN "entra"
                   ELSE IF hilo[h].pc = "parametricas" THEN "carga" ELSE "cargaBanco"
  OBVIOUS
<1>4. PICK r : r = [hilo[h] EXCEPT !.pc = p, !.usuario = u]
  OBVIOUS
<1>5. hilo' = [hilo EXCEPT ![h] = r]
  <2>1. hilo[h] \in Hilo /\ hilo \in [Hilos -> Hilo]
    BY <1>1, DelHilo
  <2>2. Peticiones[hilo[h].pc] = p
    BY <1>1, <1>3 DEF Peticiones
  <2>3. hilo' = [hilo EXCEPT ![h].pc = Peticiones[hilo[h].pc], ![h].usuario = u]
    BY <1>2, <2>1 DEF pedir
  <2>4. QED BY <1>4, <2>1, <2>2, <2>3
<1>6. u \in {Nadie} \cup Usuarios /\ p \in {"entra", "carga", "cargaBanco"}
  BY <1>1, <1>2, <1>3, DelHilo, CamposDeHilo DEF Claves
<1>7. r \in Hilo /\ r.pc = p /\ r.de = hilo[h].de /\ r.usuario = u
  BY <1>1, <1>4, <1>6, DelHilo DEF Hilo
<1>8. /\ hilo' \in [Hilos -> Hilo] /\ \A g \in Hilos \ {h} : hilo'[g] = hilo[g]
      /\ hilo'[h].pc = p /\ hilo'[h].de = hilo[h].de /\ hilo'[h].usuario = u
  BY <1>1, <1>5, <1>7, DelHilo
<1>9. Tipos'
  BY <1>1, <1>8, DelHilo, TiposDeHilo
<1>10. Propio(hilo[h])'
  BY <1>1, <1>3, <1>8, DelHilo DEF Propio
<1>11. ~relevo => EnEtapa(hilo[h])'
  <2>1. ASSUME ~relevo PROVE EnEtapa(hilo[h])'
    <3>1. EnEtapa(hilo[h]) /\ Propio(hilo[h])
      BY <1>1, <2>1, DelHilo
    <3>2. CASE hilo[h].pc = "login"
      BY <1>1, <1>2, <1>3, <1>8, <3>1, <3>2 DEF EnEtapa, Propio
    <3>3. CASE hilo[h].pc # "login"
      BY <1>1, <1>2, <1>3, <1>8, <3>1, <3>3
         DEF EnEtapa, ConClave, ConParametricas
    <3>4. QED BY <3>2, <3>3
  <2>2. QED BY <2>1
<1>12. Resto'
  BY <1>1, <1>6, <1>8, <1>9, <1>10, <1>11, SigueHilo
<1>13. QED BY <1>9, <1>12

LEMMA PasoLogin ==
    ASSUME Tipos, Resto, NEW h \in Hilos, Login(h)
    PROVE  Tipos' /\ Resto'
<1>1. /\ hilo[h].pc = "entra"
      /\ UNCHANGED <<vida, frente, n, campo, relevo, cola, temporizador>>
  BY DEF Login, EnHilo, pantalla
<1>2. /\ hilo' \in [Hilos -> Hilo] /\ \A g \in Hilos \ {h} : hilo'[g] = hilo[g]
      /\ hilo'[h].de = hilo[h].de
      /\ prefs' \in [Claves -> {Nadie} \cup Usuarios]
      /\ \/ hilo'[h].pc = "clave" /\ hilo'[h].usuario = hilo[h].usuario
            /\ prefs'.userId = hilo[h].usuario
         \/ hilo'[h].pc = "asigna" /\ hilo'[h].que = 4 /\ hilo'[h].val \in {"cambio", "otro"}
  <2>1. CASE Ir(h, "clave") /\ prefs' = [prefs EXCEPT !.userId = hilo[h].usuario]
    <3>1. prefs' \in [Claves -> {Nadie} \cup Usuarios] /\ prefs'.userId = hilo[h].usuario
      BY <1>1, <2>1, DelHilo, CamposDeHilo DEF Claves
    <3>2. QED BY <2>1, <3>1, EfectoIr DEF Puestos
  <2>2. CASE UNCHANGED prefs /\ \E e \in {"cambio", "otro"} : Asigna(h, 4, e)
    <3>1. PICK e \in {"cambio", "otro"} : Asigna(h, 4, e)
      BY <2>2
    <3>2. e \in Tokens \cup Estados
      BY DEF Estados
    <3>3. QED BY <1>1, <2>2, <3>1, <3>2, EfectoAsigna, DelHilo
  <2>3. QED BY <2>1, <2>2 DEF Login
<1>3. Tipos'
  BY <1>1, <1>2, DelHilo, TiposDeHilo
<1>4. Propio(hilo[h])'
  BY <1>1, <1>2, DelHilo DEF Propio
<1>5. ~relevo => EnEtapa(hilo[h])'
  BY <1>1, <1>2, DelHilo DEF EnEtapa
<1>6. Resto'
  BY <1>1, <1>2, <1>3, <1>4, <1>5, SigueHilo
<1>7. QED BY <1>3, <1>6

LEMMA PasoClave ==
    ASSUME Tipos, Resto, NEW h \in Hilos, guardarClave(h)
    PROVE  Tipos' /\ Resto'
<1>1. /\ hilo[h].pc = "clave"
      /\ UNCHANGED <<vida, frente, n, campo, relevo, cola, temporizador>>
  BY DEF guardarClave, EnHilo, pantalla
<1>2. PICK completa \in Completas :
          /\ prefs' = [prefs EXCEPT !.clave = IF completa THEN hilo[h].usuario ELSE @]
          /\ Asigna(h, 4, IF completa THEN "1" ELSE "otro")
  BY DEF guardarClave
<1>3. PICK v : v = IF completa THEN "1" ELSE "otro"
  OBVIOUS
<1>4. v \in {"1", "otro"} /\ v \in Tokens \cup Estados /\ Asigna(h, 4, v)
  BY <1>2, <1>3 DEF Estados
<1>5. /\ hilo' \in [Hilos -> Hilo] /\ \A g \in Hilos \ {h} : hilo'[g] = hilo[g]
      /\ hilo'[h].de = hilo[h].de
      /\ hilo'[h].pc = "asigna" /\ hilo'[h].que = 4 /\ hilo'[h].val = v
  BY <1>4, EfectoAsigna
<1>6. /\ prefs' \in [Claves -> {Nadie} \cup Usuarios]
      /\ prefs'.userId = prefs.userId
      /\ v = "1" => prefs'.clave = hilo[h].usuario
  BY <1>1, <1>2, <1>3, DelHilo, CamposDeHilo DEF Claves
<1>7. Tipos'
  BY <1>1, <1>5, <1>6, DelHilo, TiposDeHilo
<1>8. Propio(hilo[h])'
  BY <1>1, <1>4, <1>5, DelHilo DEF Propio
<1>9. ~relevo => EnEtapa(hilo[h])'
  BY <1>1, <1>5, <1>6, DelHilo DEF EnEtapa, ConClave
<1>10. Resto'
  BY <1>1, <1>5, <1>7, <1>8, <1>9, SigueHilo
<1>11. QED BY <1>7, <1>10

\* The two loads of parameters: who keeps them, who fails, who says nothing.
LEMMA PasoCarga ==
    ASSUME Tipos, Resto, NEW h \in Hilos, obtenerParametricas(h) \/ obtenerParametricasBanco(h)
    PROVE  Tipos' /\ Resto'
<1>1. /\ hilo[h].pc \in {"carga", "cargaBanco"}
      /\ UNCHANGED <<vida, frente, n, campo, relevo, cola, temporizador>>
  BY DEF obtenerParametricas, obtenerParametricasBanco, EnHilo, pantalla
<1>2. PICK u : u = hilo[h].usuario
  OBVIOUS
<1>3. u \in {Nadie} \cup Usuarios /\ prefs \in [Claves -> {Nadie} \cup Usuarios]
  BY <1>1, <1>2, DelHilo, CamposDeHilo
<1>4. CASE hilo' = [hilo EXCEPT ![h] = Ocioso] /\ UNCHANGED prefs
  <2>1. Ocioso.pc = "libre" /\ Ocioso \in Hilo
    BY DEF Ocioso, Hilo
  <2>2. /\ hilo' \in [Hilos -> Hilo] /\ \A g \in Hilos \ {h} : hilo'[g] = hilo[g]
        /\ hilo'[h].pc = "libre"
    BY <1>1, <1>4, <2>1, DelHilo
  <2>3. Tipos'
    BY <1>1, <1>3, <1>4, <2>2, DelHilo, TiposDeHilo
  <2>4. PICK m : m = [para |-> hilo[h].de, que |-> 3]
    OBVIOUS
  <2>5. /\ m.para \in 1..n /\ Admite(campo[m.para].clase, m.que)
        /\ ~relevo => m.para = frente
    BY <1>1, <2>4, DelHilo DEF Propio, Admite
  <2>6. Resto'
    BY <1>1, <1>4, <2>2, <2>3, <2>5, AcabaHilo
  <2>7. QED BY <2>3, <2>6
<1>5. CASE ~(hilo' = [hilo EXCEPT ![h] = Ocioso] /\ UNCHANGED prefs)
  <2>1. /\ hilo' \in [Hilos -> Hilo] /\ \A g \in Hilos \ {h} : hilo'[g] = hilo[g]
        /\ hilo'[h].de = hilo[h].de /\ hilo'[h].pc = "avisa"
        /\ \/ hilo'[h].que = 3 /\ prefs' = prefs
           \/ hilo'[h].que = 6 /\ hilo[h].pc = "carga"
              /\ prefs' = [prefs EXCEPT !.parametricas = u]
           \/ hilo'[h].que = 5 /\ hilo[h].pc = "cargaBanco"
              /\ prefs' = [prefs EXCEPT !.banco = u]
    <3>1. \/ Avisa(h, 3) /\ prefs' = prefs
          \/ Avisa(h, 6) /\ hilo[h].pc = "carga"
             /\ prefs' = [prefs EXCEPT !.parametricas = u]
          \/ Avisa(h, 5) /\ hilo[h].pc = "cargaBanco"
             /\ prefs' = [prefs EXCEPT !.banco = u]
      BY <1>2, <1>5 DEF obtenerParametricas, obtenerParametricasBanco, EnHilo
    <3>2. ASSUME NEW q \in {3, 5, 6}, Avisa(h, q)
          PROVE  /\ hilo' \in [Hilos -> Hilo] /\ \A g \in Hilos \ {h} : hilo'[g] = hilo[g]
                 /\ hilo'[h].de = hilo[h].de /\ hilo'[h].pc = "avisa" /\ hilo'[h].que = q
      BY <3>2, EfectoAvisa
    <3>3. QED BY <3>1, <3>2
  <2>2. prefs' \in [Claves -> {Nadie} \cup Usuarios]
    BY <1>3, <2>1
  <2>3. Tipos'
    BY <1>1, <2>1, <2>2, DelHilo, TiposDeHilo
  <2>4. Propio(hilo[h])'
    BY <1>1, <2>1, DelHilo DEF Propio, Admite
  <2>5. ~relevo => EnEtapa(hilo[h])'
    <3>1. SUFFICES ASSUME ~relevo PROVE EnEtapa(hilo[h])'
      OBVIOUS
    <3>2. EnEtapa(hilo[h]) /\ Propio(hilo[h])
      BY <1>1, <3>1, DelHilo
    <3>3. CASE hilo'[h].que = 3 /\ prefs' = prefs
      BY <1>1, <2>1, <3>2, <3>3 DEF EnEtapa, Propio, Preparado
    <3>4. CASE hilo'[h].que = 6 /\ hilo[h].pc = "carga"
               /\ prefs' = [prefs EXCEPT !.parametricas = u]
      <4>1. /\ prefs'.userId = prefs.userId /\ prefs'.clave = prefs.clave
            /\ prefs'.parametricas = u
        BY <1>3, <3>4 DEF Claves
      <4>2. QED
        BY <1>1, <1>2, <2>1, <3>2, <3>4, <4>1
           DEF EnEtapa, Propio, Preparado, ConClave, ConParametricas
    <3>5. CASE hilo'[h].que = 5 /\ hilo[h].pc = "cargaBanco"
               /\ prefs' = [prefs EXCEPT !.banco = u]
      <4>1. /\ prefs'.userId = prefs.userId /\ prefs'.clave = prefs.clave
            /\ prefs'.parametricas = prefs.parametricas /\ prefs'.banco = u
        BY <1>3, <3>5 DEF Claves
      <4>2. QED
        BY <1>1, <1>2, <2>1, <3>2, <3>5, <4>1
           DEF EnEtapa, Propio, Preparado, ConClave, ConParametricas, ConBanco
    <3>6. QED BY <2>1, <3>3, <3>4, <3>5
  <2>6. Resto'
    BY <1>1, <2>1, <2>3, <2>4, <2>5, SigueHilo
  <2>7. QED BY <2>3, <2>6
<1>6. QED BY <1>4, <1>5

LEMMA PasoUbica ==
    ASSUME Tipos, Resto, NEW h \in Hilos, onLocationChanged(h)
    PROVE  Tipos' /\ Resto'
<1>1. /\ hilo[h].pc = "ubica" /\ Avisa(h, 7)
      /\ UNCHANGED <<vida, frente, n, campo, relevo, cola, temporizador, prefs>>
  BY DEF onLocationChanged, EnHilo, pantalla
<1>2. /\ hilo' \in [Hilos -> Hilo] /\ \A g \in Hilos \ {h} : hilo'[g] = hilo[g]
      /\ hilo'[h].pc = "avisa" /\ hilo'[h].de = hilo[h].de /\ hilo'[h].que = 7
  BY <1>1, EfectoAvisa
<1>3. Tipos'
  BY <1>1, <1>2, DelHilo, TiposDeHilo
<1>4. Propio(hilo[h])'
  BY <1>1, <1>2, DelHilo DEF Propio, Admite
<1>5. ~relevo => EnEtapa(hilo[h])'
  BY <1>1, <1>2, DelHilo DEF EnEtapa, Preparado, ConBanco, ConParametricas, ConClave, Propio
<1>6. Resto'
  BY <1>1, <1>2, <1>3, <1>4, <1>5, SigueHilo
<1>7. QED BY <1>3, <1>6

\* The request to change a password: it is built, or its worker throws.
LEMMA PasoPedirCambio ==
    ASSUME Tipos, Resto, NEW h \in Hilos, pedirCambio(h)
    PROVE  Tipos' /\ Resto'
<1>1. /\ hilo[h].pc = "cambio"
      /\ UNCHANGED <<frente, n, campo, relevo, cola, temporizador, prefs>>
      /\ vida' = vida \/ vida' = "sinUsuario"
  BY DEF pedirCambio, EnHilo, pantalla
<1>2. /\ hilo' \in [Hilos -> Hilo] /\ \A g \in Hilos \ {h} : hilo'[g] = hilo[g]
      /\ hilo'[h].pc \in {"cambio", "cambia"} /\ hilo'[h].de = hilo[h].de
  <2>1. CASE hilo' = hilo
    BY <1>1, <2>1, DelHilo
  <2>2. CASE hilo' # hilo
    <3>1. PICK r : r = [hilo[h] EXCEPT !.pc = "cambia", !.usuario = prefs.userId]
      OBVIOUS
    <3>2. prefs.userId \in {Nadie} \cup Usuarios
      BY <1>1, DelHilo DEF Claves
    <3>3. r \in Hilo /\ r.pc = "cambia" /\ r.de = hilo[h].de
      BY <1>1, <3>1, <3>2, DelHilo DEF Hilo
    <3>4. hilo' = [hilo EXCEPT ![h] = r]
      BY <1>1, <2>2, <3>1, DelHilo DEF pedirCambio
    <3>5. QED BY <1>1, <3>3, <3>4, DelHilo
  <2>3. QED BY <2>1, <2>2
<1>3. Tipos'
  BY <1>1, <1>2, DelHilo, TiposDeHilo
<1>4. Propio(hilo[h])'
  BY <1>1, <1>2, DelHilo DEF Propio
<1>5. ~relevo => EnEtapa(hilo[h])'
  BY <1>1, <1>2, DelHilo DEF EnEtapa, Propio
<1>6. Resto'
  BY <1>1, <1>2, <1>3, <1>4, <1>5, SigueHilo
<1>7. QED BY <1>3, <1>6

LEMMA PasoCambia ==
    ASSUME Tipos, Resto, NEW h \in Hilos, cambiarContrasenaServicio(h)
    PROVE  Tipos' /\ Resto'
<1>1. /\ hilo[h].pc = "cambia"
      /\ UNCHANGED <<vida, frente, n, relevo, cola, temporizador, prefs>>
  BY DEF cambiarContrasenaServicio, EnHilo
<1>2. PICK i : i = hilo[h].de
  OBVIOUS
<1>3. i \in Pantallas /\ campo \in [Pantallas -> Campo] /\ campo[i] \in Campo
  BY <1>1, <1>2, DelHilo
<1>4. PICK e \in {"1", "0"} : /\ Asigna(h, 1, e)
                              /\ \/ campo' = [campo EXCEPT ![i].servicio = TRUE]
                                 \/ campo' = campo
  BY <1>2 DEF cambiarContrasenaServicio
<1>5. /\ campo' \in [Pantallas -> Campo]
      /\ \A j \in Pantallas : /\ campo'[j].clase = campo[j].clase
                              /\ campo'[j].loader = campo[j].loader
  <2>1. CASE campo' = campo
    BY <1>3, <2>1
  <2>2. CASE campo' = [campo EXCEPT ![i].servicio = TRUE]
    <3>1. PICK f : f = [campo[i] EXCEPT !.servicio = TRUE]
      OBVIOUS
    <3>2. campo' = [campo EXCEPT ![i] = f]
      BY <2>2, <3>1
    <3>3. f \in Campo /\ f.clase = campo[i].clase /\ f.loader = campo[i].loader
      BY <1>3, <3>1 DEF Campo
    <3>4. QED BY <1>3, <3>2, <3>3
  <2>3. QED BY <1>4, <2>1, <2>2
<1>6. /\ hilo' \in [Hilos -> Hilo] /\ \A g \in Hilos \ {h} : hilo'[g] = hilo[g]
      /\ hilo'[h].pc = "asigna" /\ hilo'[h].de = hilo[h].de
      /\ hilo'[h].que = 1 /\ hilo'[h].val = e
  <2>1. e \in Tokens \cup Estados
    BY DEF Estados
  <2>2. QED BY <1>4, <2>1, EfectoAsigna
<1>7. Tipos'
  BY <1>1, <1>5, <1>6, DelHilo, TiposDeHilo
<1>8. Propio(hilo[h])'
  BY <1>1, <1>2, <1>3, <1>5, <1>6, DelHilo DEF Propio
<1>9. ~relevo => EnEtapa(hilo[h])'
  BY <1>1, <1>2, <1>3, <1>5, <1>6, DelHilo DEF EnEtapa, Propio
<1>10. Resto'
  BY <1>1, <1>5, <1>6, <1>7, <1>8, <1>9, SigueHilo
<1>11. QED BY <1>7, <1>10

LEMMA PasoEnvia ==
    ASSUME Tipos, Resto, NEW h \in Hilos, obtenerContrasenaTemporal(h)
    PROVE  Tipos' /\ Resto'
<1>1. /\ hilo[h].pc = "envia" /\ Avisa(h, 3)
      /\ UNCHANGED <<vida, frente, n, relevo, cola, temporizador, prefs>>
  BY DEF obtenerContrasenaTemporal, EnHilo
<1>2. PICK i : i = hilo[h].de
  OBVIOUS
<1>3. i \in Pantallas /\ campo \in [Pantallas -> Campo] /\ campo[i] \in Campo
  BY <1>1, <1>2, DelHilo
<1>4. PICK e \in {"enviado", "noEnviado"} : campo' = [campo EXCEPT ![i].estado = e]
  BY <1>2 DEF obtenerContrasenaTemporal
<1>5. /\ campo' \in [Pantallas -> Campo]
      /\ \A j \in Pantallas : /\ campo'[j].clase = campo[j].clase
                              /\ campo'[j].loader = campo[j].loader
  <2>1. PICK f : f = [campo[i] EXCEPT !.estado = e]
    OBVIOUS
  <2>2. campo' = [campo EXCEPT ![i] = f]
    BY <1>4, <2>1
  <2>3. f \in Campo /\ f.clase = campo[i].clase /\ f.loader = campo[i].loader
    BY <1>3, <2>1 DEF Campo, Estados
  <2>4. QED BY <1>3, <2>2, <2>3
<1>6. /\ hilo' \in [Hilos -> Hilo] /\ \A g \in Hilos \ {h} : hilo'[g] = hilo[g]
      /\ hilo'[h].pc = "avisa" /\ hilo'[h].de = hilo[h].de /\ hilo'[h].que = 3
  BY <1>1, EfectoAvisa
<1>7. Tipos'
  BY <1>1, <1>5, <1>6, DelHilo, TiposDeHilo
<1>8. Propio(hilo[h])'
  BY <1>1, <1>2, <1>3, <1>5, <1>6, DelHilo DEF Propio, Admite
<1>9. ~relevo => EnEtapa(hilo[h])'
  BY <1>1, <1>2, <1>3, <1>5, <1>6, DelHilo DEF EnEtapa, Propio, Preparado
<1>10. Resto'
  BY <1>1, <1>5, <1>6, <1>7, <1>8, <1>9, SigueHilo
<1>11. QED BY <1>7, <1>10

\* A result is stored in the screen of the worker.
LEMMA PasoAsignar ==
    ASSUME Tipos, Resto, NEW h \in Hilos, asignar(h)
    PROVE  Tipos' /\ Resto'
<1>1. /\ hilo[h].pc = "asigna" /\ Ir(h, "avisa")
      /\ UNCHANGED <<vida, frente, n, relevo, cola, temporizador, prefs>>
  BY DEF asignar, EnHilo
<1>2. PICK i : i = hilo[h].de
  OBVIOUS
<1>3. PICK v : v = hilo[h].val
  OBVIOUS
<1>4. i \in Pantallas /\ campo \in [Pantallas -> Campo] /\ campo[i] \in Campo
  BY <1>1, <1>2, DelHilo
<1>5. PICK f : f = IF v \in Tokens THEN [campo[i] EXCEPT !.token = v]
                                   ELSE [campo[i] EXCEPT !.estado = v]
  OBVIOUS
<1>6. campo' = [campo EXCEPT ![i] = f]
  BY <1>2, <1>3, <1>4, <1>5 DEF asignar
<1>7. /\ \/ hilo[h].que = 1 /\ v \in Tokens /\ campo[i].clase # "cambio"
         \/ hilo[h].que = 1 /\ v \in {"1", "0"} /\ campo[i].clase = "cambio"
         \/ hilo[h].que = 4 /\ v \in {"1", "cambio", "otro"} /\ campo[i].clase = "login"
      /\ i \in 1..n
  BY <1>1, <1>2, <1>3, DelHilo DEF Propio
<1>8. /\ f \in Campo /\ f.clase = campo[i].clase /\ f.loader = campo[i].loader
      /\ f.usuario = campo[i].usuario
      /\ v \in Tokens => f.token = v
      /\ v \notin Tokens => f.estado = v
      /\ v \in Tokens <=> v \notin {"1", "0", "cambio", "otro"}
  <2>1. v \in Tokens \/ v \in {"1", "0", "cambio", "otro"}
    BY <1>7
  <2>2. v \in Tokens <=> v \notin {"1", "0", "cambio", "otro"}
    BY <2>1 DEF Tokens
  <2>3. CASE v \in Tokens
    BY <1>4, <1>5, <2>2, <2>3 DEF Campo
  <2>4. CASE v \notin Tokens
    BY <1>4, <1>5, <2>1, <2>2, <2>4 DEF Campo, Estados
  <2>5. QED BY <2>2, <2>3, <2>4
<1>9. /\ campo' \in [Pantallas -> Campo] /\ campo'[i] = f
      /\ \A j \in Pantallas : /\ campo'[j].clase = campo[j].clase
                              /\ campo'[j].loader = campo[j].loader
  BY <1>4, <1>6, <1>8
<1>10. /\ hilo' \in [Hilos -> Hilo] /\ \A g \in Hilos \ {h} : hilo'[g] = hilo[g]
       /\ hilo'[h].pc = "avisa" /\ hilo'[h].de = i /\ hilo'[h].que = hilo[h].que
  BY <1>1, <1>2, EfectoIr DEF Puestos
<1>11. Tipos'
  BY <1>1, <1>9, <1>10, DelHilo, TiposDeHilo
<1>12. Propio(hilo[h])'
  BY <1>1, <1>4, <1>7, <1>9, <1>10 DEF Propio, Admite
<1>13. ~relevo => EnEtapa(hilo[h])'
  <2>1. SUFFICES ASSUME ~relevo PROVE EnEtapa(hilo[h])'
    OBVIOUS
  <2>2. EnEtapa(hilo[h])
    BY <1>1, <2>1, DelHilo
  <2>3. /\ campo[i].clase = "login" => campo[i].usuario \in Usuarios
        /\ hilo[h].que = 4 /\ v = "1" => ConClave
    BY <1>1, <1>2, <1>3, <2>2 DEF EnEtapa
  <2>4. /\ hilo[h].que = 1 /\ campo[i].clase # "cambio" => v \in Tokens
        /\ hilo[h].que = 1 /\ campo[i].clase = "cambio" => v \in {"1", "0"}
        /\ hilo[h].que = 4 => v \in {"1", "cambio", "otro"} /\ campo[i].clase = "login"
        /\ hilo[h].que \in {1, 4}
    BY <1>7 DEF Tokens
  <2>5. "nulo" \notin Tokens
    BY DEF Tokens
  <2>6. Preparado(hilo[h].que, i)'
    BY <1>1, <1>8, <1>9, <1>10, <2>3, <2>4, <2>5
       DEF Preparado, ConBanco, ConParametricas, ConClave
  <2>7. QED BY <1>4, <1>8, <1>9, <1>10, <2>3, <2>6 DEF EnEtapa, Preparado
<1>14. Resto'
  BY <1>1, <1>2, <1>9, <1>10, <1>11, <1>12, <1>13, SigueHilo
<1>15. QED BY <1>11, <1>14

\* The message goes to the handler of the class.
LEMMA PasoSendMessage ==
    ASSUME Tipos, Resto, NEW h \in Hilos, sendMessage(h)
    PROVE  Tipos' /\ Resto'
<1>1. /\ hilo[h].pc = "avisa"
      /\ UNCHANGED <<vida, frente, n, campo, relevo, temporizador, prefs>>
      /\ hilo' = [hilo EXCEPT ![h] = Ocioso]
  BY DEF sendMessage, EnHilo, pantalla
<1>2. PICK c : c = campo[hilo[h].de].clase
  OBVIOUS
<1>3. PICK m : m = [para |-> Manejador(c), que |-> hilo[h].que]
  OBVIOUS
<1>4. cola' = Append(cola, m)
  BY <1>2, <1>3 DEF sendMessage
<1>5. c \in Clases /\ hilo[h].de \in 1..n
  BY <1>1, <1>2, DelHilo, CamposDeHilo
<1>6. /\ Manejador(c) \in 1..n /\ campo[Manejador(c)].clase = c
      /\ \A j \in 1..n : campo[j].clase = c => j <= Manejador(c)
  BY <1>2, <1>5, ManejadorDe DEF Resto
<1>7. /\ m.para \in 1..n /\ m.que = hilo[h].que /\ campo[m.para].clase = c
      /\ Admite(c, hilo[h].que)
  BY <1>1, <1>2, <1>3, <1>6, DelHilo DEF Propio
<1>8. m \in [para : Pantallas, que : 1..7]
  <2>1. m.para \in Pantallas /\ hilo[h].que \in 1..7
    BY <1>7, Cuentas DEF Admite
  <2>2. QED BY <1>3, <2>1
<1>9. /\ hilo' \in [Hilos -> Hilo] /\ \A g \in Hilos \ {h} : hilo'[g] = hilo[g]
      /\ hilo'[h].pc = "libre"
  <2>1. Ocioso \in Hilo /\ Ocioso.pc = "libre"
    BY DEF Ocioso, Hilo
  <2>2. QED BY <1>1, <2>1, DelHilo
<1>10. Tipos'
  <2>1. cola' \in Seq([para : Pantallas, que : 1..7])
    BY <1>4, <1>8 DEF Tipos
  <2>2. QED BY <1>1, <1>9, <2>1 DEF Tipos
<1>11. ~relevo => m.para = frente /\ (cola' # cola => Preparado(m.que, m.para))
  <2>1. SUFFICES ASSUME ~relevo PROVE m.para = frente /\ Preparado(m.que, m.para)
    OBVIOUS
  <2>2. Preparado(hilo[h].que, hilo[h].de) /\ frente = hilo[h].de
    BY <1>1, <2>1, DelHilo DEF EnEtapa
  <2>3. Manejador(c) <= frente /\ frente <= Manejador(c)
    <3>1. frente # Inicio /\ frente \in 1..n
      BY <1>5, <2>2, Cuentas DEF Inicio
    <3>2. QED BY <1>2, <1>6, <2>2, <3>1 DEF Resto, Ultimas
  <2>4. Manejador(c) = frente
    BY <1>5, <1>6, <2>2, <2>3, Cuentas
  <2>5. QED BY <1>3, <2>2, <2>4
<1>12. Resto'
  BY <1>1, <1>4, <1>7, <1>9, <1>10, <1>11, AcabaHilo
<1>13. QED BY <1>10, <1>12

-----------------------------------------------------------------------------
(* The user, and the ends of sessions and processes.                         *)

\* A screen is pressed: its chain begins.
LEMMA PorPulsacion ==
    ASSUME Tipos, Resto, frente # Inicio, campo[frente].loader # "abierto",
           NEW p \in {"token", "cambio"}, Lanzar(p, frente),
           p = "token" => campo[frente].clase # "cambio",
           p = "cambio" => campo[frente].clase = "cambio",
           UNCHANGED <<vida, frente, n, cola, temporizador, prefs, relevo>>,
           campo' \in [Pantallas -> Campo], campo'[frente].loader = "abierto",
           campo'[frente].clase = "login" => campo'[frente].usuario \in Usuarios,
           \A j \in Pantallas : /\ campo'[j].clase = campo[j].clase
                                /\ j # frente => campo'[j].loader = campo[j].loader
    PROVE  Tipos' /\ Resto'
<1>1. frente \in 1..n /\ frente \in Pantallas /\ frente' = frente /\ n' = n
  BY Cuentas DEF Tipos, Inicio
<1>2. p \in Puestos /\ p # "libre"
  BY DEF Puestos
<1>3. hilo' \in [Hilos -> Hilo]
  BY <1>1, <1>2, EfectoLanzar
<1>4. PICK h \in Hilos : /\ hilo[h].pc = "libre" /\ hilo'[h].pc = p /\ hilo'[h].de = frente
                         /\ \A g \in Hilos \ {h} : hilo'[g] = hilo[g]
  BY <1>1, <1>2, EfectoLanzar
<1>5. Tipos'
  <2>1. prefs \in [Claves -> {Nadie} \cup Usuarios]
        /\ vida \in {"viva", "campoNulo", "sinUsuario", "sinRespuesta"}
    BY DEF Tipos
  <2>2. QED BY <1>3, <2>1, TiposDeHilo
<1>6. Propio(hilo[h])'
  BY <1>1, <1>4 DEF Propio
<1>7. EnEtapa(hilo[h])'
  BY <1>1, <1>4 DEF EnEtapa
<1>8. Resto'
  BY <1>1, <1>4, <1>5, <1>6, <1>7, Pulsada
<1>9. QED BY <1>5, <1>8

LEMMA PasoInicioSesion ==
    ASSUME Tipos, Resto, NEW u \in Usuarios, inicioSesion(u)
    PROVE  Tipos' /\ Resto'
<1>1. /\ frente # Inicio /\ campo[frente].clase = "login" /\ campo[frente].loader # "abierto"
      /\ Lanzar("token", frente)
      /\ UNCHANGED <<vida, frente, n, cola, temporizador, prefs, relevo>>
  BY DEF inicioSesion, Tocable, EnFrente
<1>2. frente \in Pantallas /\ campo \in [Pantallas -> Campo] /\ campo[frente] \in Campo
  BY <1>1, Cuentas DEF Tipos, Inicio
<1>3. PICK f : f = [campo[frente] EXCEPT !.loader = "abierto", !.aviso = "ninguno",
                                         !.usuario = u]
  OBVIOUS
<1>4. campo' = [campo EXCEPT ![frente] = f]
  BY <1>2, <1>3 DEF inicioSesion
<1>5. f \in Campo /\ f.loader = "abierto" /\ f.clase = campo[frente].clase /\ f.usuario = u
  BY <1>2, <1>3 DEF Campo
<1>6. /\ campo' \in [Pantallas -> Campo] /\ campo'[frente].loader = "abierto"
      /\ campo'[frente].usuario \in Usuarios
      /\ \A j \in Pantallas : /\ campo'[j].clase = campo[j].clase
                              /\ j # frente => campo'[j].loader = campo[j].loader
  BY <1>2, <1>4, <1>5
<1>7. QED BY <1>1, <1>6, PorPulsacion

LEMMA PasoPresion ==
    ASSUME Tipos, Resto, solicitarClaveTemporal \/ cambiarContrasena
    PROVE  Tipos' /\ Resto'
<1>1. /\ frente # Inicio /\ campo[frente].loader # "abierto"
      /\ UNCHANGED <<vida, frente, n, cola, temporizador, prefs, relevo>>
      /\ campo' = [campo EXCEPT ![frente].loader = "abierto", ![frente].aviso = "ninguno"]
      /\ \/ Lanzar("token", frente) /\ campo[frente].clase = "olvido"
         \/ Lanzar("cambio", frente) /\ campo[frente].clase = "cambio"
  BY DEF solicitarClaveTemporal, cambiarContrasena, Tocable, EnFrente, AbrirLoader
<1>2. frente \in Pantallas
  BY <1>1, Cuentas DEF Tipos, Inicio
<1>3. /\ campo' \in [Pantallas -> Campo] /\ campo'[frente].loader = "abierto"
      /\ \A j \in Pantallas : /\ campo'[j].clase = campo[j].clase
                              /\ j # frente => campo'[j].loader = campo[j].loader
  BY <1>1, <1>2, EfectoLoader
<1>4. campo'[frente].clase # "login"
  BY <1>1, <1>2, <1>3
<1>5. QED BY <1>1, <1>3, <1>4, PorPulsacion

\* A screen is opened over whatever there is.
LEMMA PorAbrir ==
    ASSUME Tipos, Resto, NEW c \in Clases, Abrir(c),
           cola' = cola \/ (cola # <<>> /\ cola' = Tail(cola)),
           UNCHANGED <<vida, hilo, prefs>>, temporizador' \in BOOLEAN
    PROVE  Tipos' /\ Resto'
<1>1. /\ n' = n + 1 /\ frente' = n + 1 /\ campo' = [campo EXCEPT ![n + 1] = Nueva(c)]
      /\ relevo' = (relevo \/ cola' # <<>> \/ \E h \in Hilos : hilo'[h].pc # "libre")
      /\ n < MaxPantallas
  BY DEF Abrir
<1>2. n + 1 \in Pantallas /\ n \in Nat /\ 1..n \subseteq Pantallas /\ n + 1 \notin 1..n
  BY <1>1, Cuentas DEF Tipos, Pantallas
<1>3. Nueva(c) \in Campo /\ Nueva(c).clase = c /\ Nueva(c).loader = "nunca"
  BY DEF Nueva, Campo
<1>4. campo \in [Pantallas -> Campo]
  BY DEF Tipos
<1>5. /\ campo' \in [Pantallas -> Campo] /\ campo'[n + 1] = Nueva(c)
      /\ \A j \in 1..n : campo'[j] = campo[j]
  BY <1>1, <1>2, <1>3, <1>4
<1>6. Tipos'
  <2>1. \A M : cola \in Seq(M) /\ cola # <<>> => Tail(cola) \in Seq(M)
    OBVIOUS
  <2>2. cola' \in Seq([para : Pantallas, que : 1..7])
    BY <2>1 DEF Tipos
  <2>3. n' \in Pantallas /\ frente' \in 0..n'
    BY <1>1, <1>2
  <2>4. relevo' \in BOOLEAN
    BY <1>1
  <2>5. /\ hilo' \in [Hilos -> Hilo] /\ prefs' \in [Claves -> {Nadie} \cup Usuarios]
        /\ vida' \in {"viva", "campoNulo", "sinUsuario", "sinRespuesta"}
    BY DEF Tipos
  <2>6. QED BY <1>5, <2>2, <2>3, <2>4, <2>5 DEF Tipos
<1>7. campo'[n + 1].clase = c /\ campo'[n + 1].loader # "abierto"
  BY <1>3, <1>5
<1>8. Resto'
  BY <1>1, <1>5, <1>6, <1>7, Abierta
<1>9. QED BY <1>6, <1>8

LEMMA PasoAbrir ==
    ASSUME Tipos, Resto, abrirOlvido \/ irAIngreso \/ cerrarSesion \/ doLogout
    PROVE  Tipos' /\ Resto'
<1>1. /\ Abrir("olvido") \/ Abrir("login")
      /\ UNCHANGED <<vida, hilo, cola, prefs>>
      /\ temporizador' \in {temporizador, FALSE}
  BY DEF abrirOlvido, irAIngreso, cerrarSesion, doLogout
<1>2. temporizador' \in BOOLEAN
  <2>1. temporizador \in BOOLEAN
    BY DEF Tipos
  <2>2. QED BY <1>1, <2>1
<1>3. "olvido" \in Clases /\ "login" \in Clases
  BY DEF Clases
<1>4. QED BY <1>1, <1>2, <1>3, PorAbrir

\* Back to the last login screen.
LEMMA PasoVolver ==
    ASSUME Tipos, Resto, volver
    PROVE  Tipos' /\ Resto'
<1>1. /\ frente # Inicio /\ campo[frente].loader # "abierto" /\ frente' = Manejador("login")
      /\ UNCHANGED <<vida, n, campo, hilo, cola, temporizador, prefs, relevo>>
  BY DEF volver, Tocable, EnFrente
<1>2. /\ frente' \in 1..n /\ campo[frente'].clase = "login"
      /\ \A j \in 1..n : campo[j].clase = "login" => j <= frente'
  <2>1. "login" \in Clases /\ 1 \in 1..n /\ campo[1].clase = "login"
    BY Cuentas DEF Resto, Ultimas, Clases, Tipos, Pantallas
  <2>2. QED BY <1>1, <2>1, ManejadorDe DEF Resto
<1>3. Tipos'
  <2>1. frente' \in 0..n'
    BY <1>1, <1>2, Cuentas
  <2>2. QED BY <1>1, <2>1 DEF Tipos
<1>4. /\ Ocupados' = Ocupados /\ Abiertas' = Abiertas /\ EnCurso' = EnCurso
      /\ campo' = campo /\ hilo' = hilo /\ cola' = cola /\ n' = n /\ relevo' = relevo
      /\ vida' = vida
  BY <1>1 DEF Ocupados, Abiertas, EnCurso
<1>5. Propios' /\ BajoLoader'
  BY <1>4 DEF Resto, Propios, Propio, BajoLoader
<1>6. Ultimas'
  BY <1>2, <1>4 DEF Resto, Ultimas
<1>7. SinRelevo'
  <2>1. SUFFICES ASSUME ~relevo PROVE Sola' /\ Etapas' /\ vida # "campoNulo" /\ frente' # Inicio
    BY <1>4 DEF SinRelevo
  <2>2. Ocupados = {} /\ cola = <<>> /\ vida # "campoNulo"
    BY <1>1, <2>1 DEF Resto, SinRelevo, Sola, Reposo
  <2>3. Sola' /\ Etapas'
    BY <1>4, <2>2, SinCadenas
  <2>4. frente' # Inicio
    BY <1>2, Cuentas DEF Inicio
  <2>5. QED BY <2>2, <2>3, <2>4
<1>8. QED BY <1>3, <1>5, <1>6, <1>7 DEF Resto

\* The process starts again, with the preferences as they were.
LEMMA PasoReiniciar ==
    ASSUME Tipos, Resto, reiniciar
    PROVE  Tipos' /\ Resto'
<1>1. /\ vida' = "viva" /\ frente' = 1 /\ n' = 1 /\ cola' = <<>> /\ relevo' = FALSE
      /\ campo' = [i \in Pantallas |-> Nueva("login")] /\ hilo' = [h \in Hilos |-> Ocioso]
      /\ temporizador' = FALSE /\ prefs' = prefs
  BY DEF reiniciar
<1>2. /\ Nueva("login") \in Campo /\ Ocioso \in Hilo
      /\ Nueva("login").clase = "login" /\ Nueva("login").loader = "nunca"
      /\ Ocioso.pc = "libre"
  BY DEF Nueva, Campo, Clases, Ocioso, Hilo
<1>3. Tipos'
  <2>1. /\ campo' \in [Pantallas -> Campo] /\ hilo' \in [Hilos -> Hilo]
        /\ prefs' \in [Claves -> {Nadie} \cup Usuarios]
    BY <1>1, <1>2 DEF Tipos
  <2>2. temporizador' \in BOOLEAN /\ relevo' \in BOOLEAN
    BY <1>1
  <2>3. cola' \in Seq([para : Pantallas, que : 1..7]) /\ n' \in Pantallas /\ frente' \in 0..n'
    BY <1>1 DEF Pantallas
  <2>4. QED BY <1>1, <2>1, <2>2, <2>3 DEF Tipos
<1>4. Ocupados' = {} /\ Len(cola') = 0 /\ Cardinality(Ocupados') = 0
  BY <1>1, <1>2, FS_EmptySet DEF Ocupados
<1>5. BajoLoader'
  BY <1>3, <1>4, CuentasTras DEF BajoLoader
<1>6. Ultimas'
  <2>1. 1 \in Pantallas /\ \A i \in 1..n' : i = 1
    BY <1>1 DEF Pantallas
  <2>2. QED BY <1>1, <1>2, <2>1 DEF Ultimas
<1>7. Propios'
  BY <1>4 DEF Propios
<1>8. SinRelevo'
  BY <1>1, <1>4, SinCadenas DEF SinRelevo, Inicio
<1>9. QED BY <1>3, <1>5, <1>6, <1>7, <1>8 DEF Resto

-----------------------------------------------------------------------------
(* The handlers.                                                             *)

\* A handler takes the first message, which is for a screen of its class.
LEMMA EfectoRecibe ==
    ASSUME Tipos, Resto, NEW c, NEW q, Recibe(c, q)
    PROVE  /\ cola # <<>> /\ cola' = Tail(cola)
           /\ Destino = cola[1].para /\ cola[1].que = q /\ campo[Destino].clase = c
           /\ Destino \in 1..n /\ Destino \in Pantallas /\ campo[Destino] \in Campo
           /\ ~relevo => /\ Destino = frente /\ campo[Destino].loader = "abierto"
                         /\ Preparado(q, Destino)
<1>1. cola # <<>> /\ cola' = Tail(cola) /\ Head(cola).que = q /\ campo[Destino].clase = c
  BY DEF Recibe
<1>2. Destino = cola[1].para /\ cola[1].que = q
  BY <1>1, SinPrimero DEF Destino
<1>3. Destino \in 1..n /\ Destino \in Pantallas /\ campo[Destino] \in Campo
  BY <1>1, <1>2, SinPrimero, Cuentas DEF Tipos
<1>4. ASSUME ~relevo
      PROVE  Destino = frente /\ campo[Destino].loader = "abierto" /\ Preparado(q, Destino)
  BY <1>1, <1>2, <1>4, SinPrimero
<1>5. QED BY <1>1, <1>2, <1>3, <1>4

\* The types after a message that starts no worker and opens no screen.
LEMMA TiposDeMensaje ==
    ASSUME Tipos, cola # <<>>, cola' = Tail(cola), campo' \in [Pantallas -> Campo],
           vida' \in {"viva", "campoNulo", "sinUsuario", "sinRespuesta"},
           frente' = frente \/ frente' = Inicio, temporizador' \in BOOLEAN,
           hilo' \in [Hilos -> Hilo], UNCHANGED <<n, relevo, prefs>>
    PROVE  Tipos'
<1>1. \A M : cola \in Seq(M) => Tail(cola) \in Seq(M)
  OBVIOUS
<1>2. cola' \in Seq([para : Pantallas, que : 1..7])
  BY <1>1 DEF Tipos
<1>3. n \in Nat /\ n' = n /\ frente' \in 0..n'
  BY Cuentas DEF Tipos, Inicio
<1>4. n' \in Pantallas /\ relevo' \in BOOLEAN /\ prefs' \in [Claves -> {Nadie} \cup Usuarios]
  BY DEF Tipos
<1>5. QED BY <1>2, <1>3, <1>4 DEF Tipos

\* The chain ends with nothing closed: the process, the permission or the login.
LEMMA PorFin ==
    ASSUME Tipos, Resto, cola # <<>>, cola' = Tail(cola),
           UNCHANGED <<n, campo, hilo, prefs, relevo>>, temporizador' \in BOOLEAN,
           vida' \in {vida, "campoNulo", "sinRespuesta"}, vida' = "campoNulo" => relevo \/ vida' = vida,
           frente' = frente \/ (frente' = Inicio /\ (~relevo => ConBanco))
    PROVE  Tipos' /\ Resto'
<1>1. /\ vida \in {"viva", "campoNulo", "sinUsuario", "sinRespuesta"}
      /\ campo \in [Pantallas -> Campo] /\ hilo \in [Hilos -> Hilo]
  BY DEF Tipos
<1>2. Tipos'
  BY <1>1, TiposDeMensaje
<1>3. ~relevo => vida' # "campoNulo" /\ (frente' = Inicio => ConBanco)
  BY DEF Resto, SinRelevo
<1>4. \A j \in Pantallas : campo'[j].clase = campo[j].clase /\ campo'[j].loader = campo[j].loader
  OBVIOUS
<1>5. Resto'
  BY <1>2, <1>3, <1>4, AcabaMensaje
<1>6. QED BY <1>2, <1>5

\* A loader that is there is closed, and the timer may be stopped with it.
LEMMA PorCierre ==
    ASSUME Tipos, Resto, cola # <<>>, cola' = Tail(cola),
           UNCHANGED <<vida, frente, n, hilo, prefs, relevo>>, temporizador' \in BOOLEAN,
           NEW i \in Pantallas,
           NEW a \in {"servidor", "fallido", "parametricas", "cambio", "correo"},
           campo' = [campo EXCEPT ![i].loader = "cerrado", ![i].aviso = a]
    PROVE  Tipos' /\ Resto'
<1>1. /\ vida \in {"viva", "campoNulo", "sinUsuario", "sinRespuesta"}
      /\ hilo \in [Hilos -> Hilo]
  BY DEF Tipos
<1>2. /\ campo' \in [Pantallas -> Campo] /\ campo'[i].loader = "cerrado"
      /\ \A j \in Pantallas : /\ campo'[j].clase = campo[j].clase
                              /\ j # i => campo'[j].loader = campo[j].loader
  BY EfectoLoader
<1>3. Tipos'
  BY <1>1, <1>2, TiposDeMensaje
<1>4. ~relevo => vida' # "campoNulo" /\ (frente' = Inicio => ConBanco)
  BY DEF Resto, SinRelevo
<1>5. \A j \in Pantallas :
         /\ campo'[j].clase = campo[j].clase
         /\ campo'[j].loader = campo[j].loader \/ (j = i /\ campo'[j].loader = "cerrado")
  BY <1>2
<1>6. /\ UNCHANGED <<n, hilo, prefs, relevo>>
      /\ frente' = frente \/ frente' = Inicio
  OBVIOUS
<1>7. Resto'
  BY ONLY Tipos, Tipos', Resto, cola # <<>>, cola' = Tail(cola), <1>4, <1>5, <1>6,
          AcabaMensaje
<1>8. QED BY <1>3, <1>7

\* A field is null only after a screen replaced another, so Cerrar closes.
LEMMA PorNulo ==
    ASSUME Tipos, Resto, cola # <<>>, cola' = Tail(cola), CampoNulo, UNCHANGED prefs, relevo
    PROVE  Tipos' /\ Resto'
<1>1. /\ vida' = "campoNulo" /\ temporizador' = temporizador
      /\ UNCHANGED <<frente, n, campo, relevo, hilo, prefs>>
  BY DEF CampoNulo, pantalla
<1>2. temporizador' \in BOOLEAN
  BY <1>1 DEF Tipos
<1>3. QED BY <1>1, <1>2, PorFin

LEMMA PorCerrar ==
    ASSUME Tipos, Resto, NEW c, NEW q, Recibe(c, q),
           NEW a \in {"servidor", "fallido", "parametricas", "cambio", "correo"},
           Cerrar(Destino, a)
    PROVE  Tipos' /\ Resto'
<1>1. CASE campo[Destino].loader = "nunca" /\ CampoNulo
  <2>1. relevo
    BY <1>1, EfectoRecibe
  <2>2. UNCHANGED prefs
    BY <1>1 DEF CampoNulo
  <2>3. QED BY <1>1, <2>1, <2>2, EfectoRecibe, PorNulo
<1>2. CASE ~(campo[Destino].loader = "nunca" /\ CampoNulo)
  <2>1. PICK i : i = Destino
    OBVIOUS
  <2>2. /\ campo' = [campo EXCEPT ![i].loader = "cerrado", ![i].aviso = a]
        /\ UNCHANGED <<vida, frente, n, hilo, prefs, relevo, temporizador>>
    BY <1>2, <2>1 DEF Cerrar
  <2>3. temporizador' \in BOOLEAN
    BY <2>2 DEF Tipos
  <2>4. QED BY <2>1, <2>2, <2>3, EfectoRecibe, PorCierre
<1>3. QED BY <1>1, <1>2

\* The chain goes on with the next worker of the screen.
LEMMA PorSigue ==
    ASSUME Tipos, Resto, NEW c, NEW q, Recibe(c, q),
           NEW p \in {"login", "parametricas", "banco", "ubica", "envia"}, Sigue(p),
           p = "envia" => c = "olvido", p # "envia" => c = "login",
           ~relevo /\ p = "parametricas" => ConClave,
           ~relevo /\ p = "banco" => ConParametricas,
           ~relevo /\ p = "ubica" => ConBanco
    PROVE  Tipos' /\ Resto'
<1>1. /\ UNCHANGED <<vida, frente, n, campo, relevo, temporizador, prefs>>
      /\ Lanzar(p, Destino)
  BY DEF Sigue, pantalla
<1>2. /\ cola # <<>> /\ cola' = Tail(cola) /\ Destino = cola[1].para
      /\ Destino \in 1..n /\ campo[Destino].clase = c
      /\ ~relevo => Preparado(q, Destino)
  BY EfectoRecibe
<1>3. PICK i \in 1..n : i = Destino
  BY <1>2
<1>4. p \in Puestos /\ p # "libre" /\ Lanzar(p, i)
  BY <1>1, <1>3 DEF Puestos
<1>5. hilo' \in [Hilos -> Hilo]
  BY <1>4, EfectoLanzar
<1>6. PICK h \in Hilos : /\ hilo[h].pc = "libre" /\ hilo'[h].pc = p /\ hilo'[h].de = i
                         /\ \A g \in Hilos \ {h} : hilo'[g] = hilo[g]
  BY <1>4, EfectoLanzar
<1>7. Tipos'
  <2>1. /\ vida' \in {"viva", "campoNulo", "sinUsuario", "sinRespuesta"}
        /\ campo' \in [Pantallas -> Campo] /\ temporizador' \in BOOLEAN
    BY <1>1 DEF Tipos
  <2>2. QED BY <1>1, <1>2, <1>5, <2>1, TiposDeMensaje
<1>8. Propio(hilo[h])'
  BY <1>1, <1>2, <1>3, <1>6 DEF Propio
<1>9. ~relevo => EnEtapa(hilo[h])'
  <2>1. ASSUME ~relevo PROVE EnEtapa(hilo[h])'
    <3>1. campo[i].clase = "login" => campo[i].usuario \in Usuarios
      BY <1>2, <1>3, <2>1 DEF Preparado
    <3>2. campo' = campo /\ prefs' = prefs
      BY <1>1
    <3>3. QED BY <1>6, <2>1, <3>1, <3>2 DEF EnEtapa, ConClave, ConParametricas, ConBanco
  <2>2. QED BY <2>1
<1>10. Resto'
  BY <1>1, <1>2, <1>3, <1>6, <1>7, <1>8, <1>9, SigueMensaje
<1>11. QED BY <1>7, <1>10

LEMMA PasoMensajeToken ==
    ASSUME Tipos, Resto, NEW c \in {"login", "olvido"}, mensajeToken(c)
    PROVE  Tipos' /\ Resto'
<1>1. Recibe(c, 1)
  BY DEF mensajeToken
<1>2. CASE campo[Destino].token = "nulo" /\ CampoNulo
  <2>1. relevo
    BY <1>1, <1>2, EfectoRecibe DEF Preparado
  <2>2. UNCHANGED prefs
    BY <1>2 DEF CampoNulo
  <2>3. QED BY <1>1, <1>2, <2>1, <2>2, EfectoRecibe, PorNulo
<1>3. CASE Cerrar(Destino, "servidor")
  BY <1>1, <1>3, PorCerrar
<1>4. CASE Sigue(IF c = "login" THEN "login" ELSE "envia")
  <2>1. CASE c = "login"
    <3>1. Sigue("login")
      BY <1>4, <2>1
    <3>2. QED BY <1>1, <2>1, <3>1, PorSigue
  <2>2. CASE c = "olvido"
    <3>1. Sigue("envia")
      BY <1>4, <2>2
    <3>2. QED BY <1>1, <2>2, <3>1, PorSigue
  <2>3. QED BY <2>1, <2>2
<1>5. QED BY <1>2, <1>3, <1>4 DEF mensajeToken

LEMMA PasoMensajeEstado ==
    ASSUME Tipos, Resto, mensajeEstado
    PROVE  Tipos' /\ Resto'
<1>1. Recibe("login", 4)
  BY DEF mensajeEstado
<1>2. CASE campo[Destino].estado = "nulo" /\ CampoNulo
  <2>1. relevo
    BY <1>1, <1>2, EfectoRecibe DEF Preparado
  <2>2. UNCHANGED prefs
    BY <1>2 DEF CampoNulo
  <2>3. QED BY <1>1, <1>2, <2>1, <2>2, EfectoRecibe, PorNulo
<1>3. CASE campo[Destino].estado = "1" /\ Sigue("parametricas")
  <2>1. ~relevo => ConClave
    BY <1>1, <1>3, EfectoRecibe DEF Preparado
  <2>2. QED BY <1>1, <1>3, <2>1, PorSigue
<1>4. CASE Cerrar(Destino, "fallido")
  BY <1>1, <1>4, PorCerrar
<1>5. CASE temporizador' = TRUE /\ UNCHANGED <<vida, hilo, prefs>> /\ Abrir("cambio")
  BY <1>1, <1>5, EfectoRecibe, PorAbrir DEF Clases
<1>6. QED BY <1>2, <1>3, <1>4, <1>5 DEF mensajeEstado

LEMMA PasoMensajeCambio ==
    ASSUME Tipos, Resto, mensajeCambio
    PROVE  Tipos' /\ Resto'
<1>1. Recibe("cambio", 1)
  BY DEF mensajeCambio
<1>2. CASE campo[Destino].estado = "nulo" /\ CampoNulo
  <2>1. relevo
    BY <1>1, <1>2, EfectoRecibe DEF Preparado
  <2>2. UNCHANGED prefs
    BY <1>2 DEF CampoNulo
  <2>3. QED BY <1>1, <1>2, <2>1, <2>2, EfectoRecibe, PorNulo
<1>3. CASE Cerrar(Destino, "fallido")
  BY <1>1, <1>3, PorCerrar
<1>4. CASE vida' = "sinRespuesta" /\ UNCHANGED <<pantalla, hilo, temporizador, prefs>>
  <2>1. temporizador' \in BOOLEAN
    BY <1>4 DEF Tipos
  <2>2. UNCHANGED <<n, campo, hilo, prefs, relevo, frente>>
    BY <1>4 DEF pantalla
  <2>3. QED BY <1>1, <1>4, <2>1, <2>2, EfectoRecibe, PorFin
<1>5. CASE /\ campo' = [campo EXCEPT ![Destino].loader = "cerrado", ![Destino].aviso = "cambio"]
           /\ temporizador' = FALSE
           /\ UNCHANGED <<vida, frente, n, relevo, hilo, prefs>>
  <2>1. PICK i : i = Destino
    OBVIOUS
  <2>2. campo' = [campo EXCEPT ![i].loader = "cerrado", ![i].aviso = "cambio"]
    BY <1>5, <2>1
  <2>3. temporizador' \in BOOLEAN
    BY <1>5
  <2>4. QED BY <1>1, <1>5, <2>1, <2>2, <2>3, EfectoRecibe, PorCierre
<1>6. QED BY <1>2, <1>3, <1>4, <1>5 DEF mensajeCambio

\* The other messages: a load that failed, one that went well, the location, the
\* session, and the password that was sent.
LEMMA PasoMensajes ==
    ASSUME Tipos, Resto,
           \/ mensajeErrorParametricas \/ mensajeUbicacion \/ mensajeBanco
           \/ mensajeInicio \/ mensajeCorreo
    PROVE  Tipos' /\ Resto'
<1>1. CASE mensajeErrorParametricas
  BY <1>1, PorCerrar DEF mensajeErrorParametricas
<1>2. CASE mensajeCorreo
  BY <1>2, PorCerrar DEF mensajeCorreo
<1>3. CASE mensajeBanco
  <2>1. ~relevo => ConParametricas
    BY <1>3, EfectoRecibe DEF mensajeBanco, Preparado
  <2>2. QED BY <1>3, <2>1, PorSigue DEF mensajeBanco
<1>4. CASE mensajeUbicacion
  <2>1. Recibe("login", 5)
    BY <1>4 DEF mensajeUbicacion
  <2>2. CASE Sigue("ubica")
    <3>1. ~relevo => ConBanco
      BY <2>1, EfectoRecibe DEF Preparado
    <3>2. QED BY <2>1, <2>2, <3>1, PorSigue
  <2>3. CASE UNCHANGED <<vida, pantalla, hilo, temporizador, prefs>>
    <3>1. temporizador' \in BOOLEAN
      BY <2>3 DEF Tipos
    <3>2. UNCHANGED <<vida, n, campo, hilo, prefs, relevo, frente>>
      BY <2>3 DEF pantalla
    <3>3. QED BY <2>1, <3>1, <3>2, EfectoRecibe, PorFin
  <2>4. QED BY <1>4, <2>2, <2>3 DEF mensajeUbicacion
<1>5. CASE mensajeInicio
  <2>1. /\ Recibe("login", 7) /\ frente' = Inicio
        /\ UNCHANGED <<vida, n, campo, relevo, hilo, prefs>>
    BY <1>5 DEF mensajeInicio
  <2>2. temporizador' \in BOOLEAN
    BY <1>5 DEF mensajeInicio
  <2>3. ~relevo => ConBanco
    BY <2>1, EfectoRecibe DEF Preparado
  <2>4. QED BY <2>1, <2>2, <2>3, EfectoRecibe, PorFin
<1>6. QED BY <1>1, <1>2, <1>3, <1>4, <1>5

-----------------------------------------------------------------------------
(* The invariant, and the properties it gives.                               *)

\* A step that leaves everything alone leaves the invariant alone.
LEMMA IngresoQuieto ==
    ASSUME IInvIngreso, UNCHANGED vars
    PROVE  IInvIngreso'
<1>1. UNCHANGED <<vida, frente, n, campo, hilo, cola, temporizador, prefs, relevo>>
  BY DEF vars
<1>2. Ocupados' = Ocupados /\ Abiertas' = Abiertas /\ EnCurso' = EnCurso
  BY <1>1 DEF Ocupados, Abiertas, EnCurso
<1>3. TypeOK' /\ Ultimas'
  BY <1>1 DEF IInvIngreso, Resto, TypeOK, Ultimas
<1>4. Propios' /\ BajoLoader'
  BY <1>1, <1>2 DEF IInvIngreso, Resto, Propios, Propio, BajoLoader
<1>5. SinRelevo'
  BY <1>1, <1>2 DEF IInvIngreso, Resto, SinRelevo, Sola, Reposo, Etapas, EnEtapa, Preparado,
                    ConClave, ConParametricas, ConBanco
<1>6. QED BY <1>3, <1>4, <1>5 DEF IInvIngreso, Resto

\* One case per operation of the user, of a worker and of the UI thread.
LEMMA PasoIngreso == IInvIngreso /\ [Next]_vars => IInvIngreso'
<1> SUFFICES ASSUME IInvIngreso, [Next]_vars PROVE Tipos' /\ Resto'
  BY TiposYCotaTras DEF IInvIngreso, Resto
<1>1. Tipos /\ Resto
  BY DEF IInvIngreso, TypeOK, Tipos
<1>2. CASE Usuario
  <2>1. CASE \E u \in Usuarios : inicioSesion(u)
    <3>1. PICK u \in Usuarios : inicioSesion(u)
      BY <2>1
    <3>2. QED BY <1>1, <3>1, PasoInicioSesion
  <2>2. CASE solicitarClaveTemporal \/ cambiarContrasena
    BY <1>1, <2>2, PasoPresion
  <2>3. CASE abrirOlvido \/ irAIngreso \/ cerrarSesion
    BY <1>1, <2>3, PasoAbrir
  <2>4. CASE volver
    BY <1>1, <2>4, PasoVolver
  <2>5. QED BY <1>2, <2>1, <2>2, <2>3, <2>4 DEF Usuario
<1>3. CASE \E h \in Hilos : Trabaja(h)
  <2>1. PICK h \in Hilos : Trabaja(h)
    BY <1>3
  <2>2. CASE solicitarToken(h)
    BY <1>1, <2>2, PasoToken
  <2>3. CASE pedir(h)
    BY <1>1, <2>3, PasoPedir
  <2>4. CASE Login(h)
    BY <1>1, <2>4, PasoLogin
  <2>5. CASE guardarClave(h)
    BY <1>1, <2>5, PasoClave
  <2>6. CASE obtenerParametricas(h) \/ obtenerParametricasBanco(h)
    BY <1>1, <2>6, PasoCarga
  <2>7. CASE onLocationChanged(h)
    BY <1>1, <2>7, PasoUbica
  <2>8. CASE pedirCambio(h)
    BY <1>1, <2>8, PasoPedirCambio
  <2>9. CASE cambiarContrasenaServicio(h)
    BY <1>1, <2>9, PasoCambia
  <2>10. CASE obtenerContrasenaTemporal(h)
    BY <1>1, <2>10, PasoEnvia
  <2>11. CASE asignar(h)
    BY <1>1, <2>11, PasoAsignar
  <2>12. CASE sendMessage(h)
    BY <1>1, <2>12, PasoSendMessage
  <2>13. QED BY <2>1, <2>2, <2>3, <2>4, <2>5, <2>6, <2>7, <2>8, <2>9, <2>10, <2>11, <2>12
             DEF Trabaja
<1>4. CASE HiloUI
  <2>1. CASE \E c \in {"login", "olvido"} : mensajeToken(c)
    <3>1. PICK c \in {"login", "olvido"} : mensajeToken(c)
      BY <2>1
    <3>2. QED BY <1>1, <3>1, PasoMensajeToken
  <2>2. CASE mensajeEstado
    BY <1>1, <2>2, PasoMensajeEstado
  <2>3. CASE mensajeCambio
    BY <1>1, <2>3, PasoMensajeCambio
  <2>4. CASE \/ mensajeErrorParametricas \/ mensajeUbicacion \/ mensajeBanco
             \/ mensajeInicio \/ mensajeCorreo
    BY <1>1, <2>4, PasoMensajes
  <2>5. QED BY <1>4, <2>1, <2>2, <2>3, <2>4 DEF HiloUI
<1>5. CASE doLogout
  BY <1>1, <1>5, PasoAbrir
<1>6. CASE reiniciar
  BY <1>1, <1>6, PasoReiniciar
<1>7. CASE UNCHANGED vars
  <2>1. IInvIngreso'
    BY <1>7, IngresoQuieto
  <2>2. QED BY <2>1 DEF IInvIngreso, TypeOK, Tipos
<1>8. QED BY <1>2, <1>3, <1>4, <1>5, <1>6, <1>7 DEF Next

\* IInvIngreso holds in every reachable state of LogIn.java and its siblings, for
\* any number of screens and of users.
THEOREM InvarianteIngreso == Spec => []IInvIngreso
<1>1. Init => IInvIngreso
  BY InicioIngreso
<1>2. IInvIngreso /\ [Next]_vars => IInvIngreso'
  BY PasoIngreso
<1>3. QED BY <1>1, <1>2, PTL DEF Spec

\* The types, and with them that the UI thread never has more messages to handle
\* than screens were created: every message is of a chain under a loader.
THEOREM IngresoTipo == Spec => []TypeOK
<1>1. IInvIngreso => TypeOK
  BY DEF IInvIngreso
<1>2. QED BY <1>1, InvarianteIngreso, PTL

\* One chain at most while no screen replaced another, and never more than screens.
LEMMA UnaCadenaSeSigue == IInvIngreso => UnaCadena
<1> SUFFICES ASSUME IInvIngreso PROVE UnaCadena
  OBVIOUS
<1>1. Tipos /\ Resto
  BY DEF IInvIngreso, TypeOK, Tipos
<1>2. CASE relevo
  BY <1>1, <1>2, Cuentas DEF UnaCadena, Resto, BajoLoader
<1>3. CASE ~relevo
  <2>1. Sola
    BY <1>1, <1>3 DEF Resto, SinRelevo
  <2>2. CASE Ocupados = {}
    <3>1. Cardinality(Ocupados) = 0
      BY <2>2, FS_EmptySet
    <3>2. QED BY <1>1, <1>3, <2>1, <3>1, Cuentas DEF UnaCadena, Sola
  <2>3. CASE Ocupados # {}
    <3>1. PICK h \in Ocupados : Ocupados = {h}
      BY <2>1, <2>3 DEF Sola
    <3>2. Cardinality(Ocupados) = 1
      BY <3>1, FS_Singleton
    <3>3. Len(cola) = 0
      BY <2>1, <2>3 DEF Sola
    <3>4. QED BY <1>1, <1>3, <3>2, <3>3, Cuentas DEF UnaCadena
  <2>4. QED BY <2>2, <2>3
<1>4. QED BY <1>2, <1>3

\* inicioSesion and its siblings open a modal loader before their thread, and that
\* is enough: one login at a time, and never more chains than screens, whatever
\* handlers the messages of the other screens go to.
THEOREM IngresoUnaCadena == Spec => []UnaCadena
<1>1. QED BY UnaCadenaSeSigue, InvarianteIngreso, PTL

\* A handler finds the token, the state or the loader of its screen null only
\* after a screen replaced the one whose chain was under way.
THEOREM IngresoNulo == Spec => []NuloSoloPorRelevo
<1>1. IInvIngreso => NuloSoloPorRelevo
  BY DEF IInvIngreso, Resto, SinRelevo, NuloSoloPorRelevo
<1>2. QED BY <1>1, InvarianteIngreso, PTL

\* Whoever is in the session is the one whose identifier, key, parameters and bank
\* parameters are in the preferences, unless a login was overtaken by another.
THEOREM IngresoSesion == Spec => []SesionDeUnUsuario
<1>1. IInvIngreso => SesionDeUnUsuario
  BY DEF IInvIngreso, Resto, SinRelevo, SesionDeUnUsuario, ConBanco, ConParametricas,
         ConClave, Claves
<1>2. QED BY <1>1, InvarianteIngreso, PTL

=============================================================================
