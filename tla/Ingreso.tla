------------------------------- MODULE Ingreso -------------------------------
(***************************************************************************)
(* The login and the password screens: LogIn.java,                         *)
(* PantallaCambioContrasena.java, PantallaOlvideMiContrasena.java and the  *)
(* services of Servicios.java they call.  A press opens the loader and     *)
(* starts a chain: a worker asks the server, keeps the answer in a field   *)
(* of its screen or in the preferences, and sends a message to the static  *)
(* handler of its class, which starts the next worker.  The handler is     *)
(* that of the last screen of the class to be created, not of the screen   *)
(* that started the worker.                                                *)
(***************************************************************************)
EXTENDS Naturals, Sequences, FiniteSets

CONSTANTS Usuarios,      \* users of the terminal
          Nadie,         \* an empty preference
          MaxPantallas,  \* screens created in the life of the process
          Completas,     \* whether an answer of the server has all its fields
          Permisos       \* whether the application may read the location

Pantallas == 1..MaxPantallas
Hilos == 1..MaxPantallas

ASSUME UsuariosAssumption == Usuarios # {} /\ Nadie \notin Usuarios
ASSUME MaxPantallasAssumption == MaxPantallas \in Nat \ {0}
ASSUME CompletasAssumption == Completas \subseteq BOOLEAN /\ TRUE \in Completas
ASSUME PermisosAssumption == Permisos \subseteq BOOLEAN /\ Permisos # {}

VARIABLES
    vida,         \* the process runs, or an exception ended it
    frente,       \* screen in front; 0 for a screen of the session
    n,            \* screens created
    campo,        \* per screen: its class and its fields
    hilo,         \* workers
    cola,         \* messages the UI thread has not handled
    temporizador, \* a timer of TimeOutSesion waits
    prefs,        \* SharedPreferences: whose data each key holds
    relevo        \* history: a screen was created while a chain was under way

vars == <<vida, frente, n, campo, hilo, cola, temporizador, prefs, relevo>>

Inicio == 0
Clases == {"login", "cambio", "olvido"}

Tokens == {"token", "vacio"}
Estados == {"1", "0", "cambio", "otro", "enviado", "noEnviado"}

Campo == [clase : Clases, token : {"nulo"} \cup Tokens, estado : {"nulo"} \cup Estados,
          usuario : {Nadie} \cup Usuarios, loader : {"nunca", "abierto", "cerrado"},
          servicio : BOOLEAN,
          aviso : {"ninguno", "servidor", "fallido", "parametricas", "cambio", "correo"}]

Nueva(c) == [clase |-> c, token |-> "nulo", estado |-> "nulo", usuario |-> Nadie,
             loader |-> "nunca", servicio |-> FALSE, aviso |-> "ninguno"]

Hilo == [pc : {"libre", "token", "login", "entra", "clave", "parametricas", "carga",
               "banco", "cargaBanco", "ubica", "cambio", "cambia", "envia", "asigna",
               "avisa"},
         de : 0..MaxPantallas, usuario : {Nadie} \cup Usuarios, que : 0..7,
         val : {"nulo"} \cup Tokens \cup Estados]

Ocioso == [pc |-> "libre", de |-> 0, usuario |-> Nadie, que |-> 0, val |-> "nulo"]

Claves == {"userId", "clave", "parametricas", "banco"}

\* Screens, workers, queue and preferences of LogIn.java and its siblings keep
\* their types, and the queue is never longer than the screens are many.
TypeOK ==
    /\ vida \in {"viva", "campoNulo", "sinUsuario", "sinRespuesta"}
    /\ n \in Pantallas /\ frente \in 0..n
    /\ campo \in [Pantallas -> Campo]
    /\ hilo \in [Hilos -> Hilo]
    /\ cola \in Seq([para : Pantallas, que : 1..7]) /\ Len(cola) <= MaxPantallas
    /\ temporizador \in BOOLEAN /\ relevo \in BOOLEAN
    /\ prefs \in [Claves -> {Nadie} \cup Usuarios]

\* The process starts on a login screen; the preferences are those of before.
Arranque ==
    /\ vida = "viva" /\ frente = 1 /\ n = 1
    /\ campo = [i \in Pantallas |-> Nueva("login")]
    /\ hilo = [h \in Hilos |-> Ocioso] /\ cola = <<>>
    /\ temporizador = FALSE /\ relevo = FALSE

Init == Arranque /\ prefs = [k \in Claves |-> Nadie]

-----------------------------------------------------------------------------
(* Helpers. *)

Viva == vida = "viva"

\* The static field respuesta of a class: the last screen of it created.
Manejador(c) == CHOOSE i \in 1..n :
    campo[i].clase = c /\ \A j \in 1..n : campo[j].clase = c => j <= i

EnFrente(c) == Viva /\ frente # Inicio /\ campo[frente].clase = c

\* The loader covers the screen and takes its touches.
Tocable(c) == EnFrente(c) /\ campo[frente].loader # "abierto"

\* A new thread of screen i.
Lanzar(p, i) ==
    \E h \in Hilos :
        /\ hilo[h].pc = "libre" /\ \A g \in Hilos : g < h => hilo[g].pc # "libre"
        /\ hilo' = [hilo EXCEPT ![h] = [Ocioso EXCEPT !.pc = p, !.de = i]]

AbrirLoader(i) ==
    campo' = [campo EXCEPT ![i].loader = "abierto", ![i].aviso = "ninguno"]

\* A new screen comes to the front and, with it, a new handler of its class.
Abrir(c) ==
    /\ n < MaxPantallas
    /\ n' = n + 1 /\ frente' = n + 1
    /\ campo' = [campo EXCEPT ![n + 1] = Nueva(c)]
    /\ relevo' = (relevo \/ cola' # <<>> \/ \E h \in Hilos : hilo'[h].pc # "libre")

Ir(h, p) == hilo' = [hilo EXCEPT ![h].pc = p]
EnHilo(h, p) == Viva /\ hilo[h].pc = p
Asigna(h, q, v) == hilo' = [hilo EXCEPT ![h].pc = "asigna", ![h].que = q, ![h].val = v]
Avisa(h, q) == hilo' = [hilo EXCEPT ![h].pc = "avisa", ![h].que = q]

pantalla == <<frente, n, campo, relevo>>

-----------------------------------------------------------------------------
(* The user. *)

\* Mutant: the loader does not stop a second press.
inicioSesionDoble(u) ==
    /\ EnFrente("login")
    /\ campo' = [campo EXCEPT ![frente].loader = "abierto", ![frente].aviso = "ninguno",
                              ![frente].usuario = u]
    /\ Lanzar("token", frente)
    /\ UNCHANGED <<vida, frente, n, cola, temporizador, prefs, relevo>>

\* Presses that find no connection or an empty field change nothing.
inicioSesion(u) ==
    /\ Tocable("login")
    /\ campo' = [campo EXCEPT ![frente].loader = "abierto", ![frente].aviso = "ninguno",
                              ![frente].usuario = u]
    /\ Lanzar("token", frente)
    /\ UNCHANGED <<vida, frente, n, cola, temporizador, prefs, relevo>>

\* "Olvidé mi contraseña", for a device somebody has logged in on.
abrirOlvido ==
    /\ Tocable("login") /\ prefs.userId # Nadie
    /\ UNCHANGED <<vida, hilo, cola, temporizador, prefs>>
    /\ Abrir("olvido")

solicitarClaveTemporal ==
    /\ Tocable("olvido") /\ campo[frente].aviso # "correo"
    /\ AbrirLoader(frente)
    /\ Lanzar("token", frente)
    /\ UNCHANGED <<vida, frente, n, cola, temporizador, prefs, relevo>>

cambiarContrasena ==
    /\ Tocable("cambio") /\ campo[frente].aviso # "cambio"
    /\ AbrirLoader(frente)
    /\ Lanzar("cambio", frente)
    /\ UNCHANGED <<vida, frente, n, cola, temporizador, prefs, relevo>>

\* The button of the pop-ups, and the logo of the recovery screen.
irAIngreso ==
    /\ Tocable("olvido") \/ (Tocable("cambio") /\ campo[frente].aviso = "cambio")
    /\ UNCHANGED <<vida, hilo, cola, temporizador, prefs>>
    /\ Abrir("login")

volver ==
    /\ Tocable("olvido") /\ campo[frente].aviso # "correo"
    /\ frente' = Manejador("login")
    /\ UNCHANGED <<vida, n, campo, hilo, cola, temporizador, prefs, relevo>>

\* The server closed the session; its timer is left.
cerrarSesion ==
    /\ Viva /\ frente = Inicio
    /\ UNCHANGED <<vida, hilo, cola, temporizador, prefs>>
    /\ Abrir("login")

\* The timer of a session, closed by hand or not, falls due (see Sesion).
doLogout ==
    /\ Viva /\ temporizador
    /\ temporizador' = FALSE
    /\ UNCHANGED <<vida, hilo, cola, prefs>>
    /\ Abrir("login")

\* The process is killed, or was, and the application starts again.
reiniciar ==
    /\ vida' = "viva" /\ frente' = 1 /\ n' = 1
    /\ campo' = [i \in Pantallas |-> Nueva("login")]
    /\ hilo' = [h \in Hilos |-> Ocioso] /\ cola' = <<>>
    /\ temporizador' = FALSE /\ relevo' = FALSE
    /\ UNCHANGED prefs

-----------------------------------------------------------------------------
(* The workers.  Each answer of the server may be late, missing or partial.  *)

\* Mutant: the message goes out and the token is dropped.
solicitarTokenSinGuardar(h) ==
    /\ EnHilo(h, "token")
    /\ Avisa(h, 1)
    /\ UNCHANGED <<vida, pantalla, cola, temporizador, prefs>>

\* No answer and an answer without a token both give the empty string.
solicitarToken(h) ==
    /\ EnHilo(h, "token")
    /\ \E t \in Tokens : Asigna(h, 1, t)
    /\ UNCHANGED <<vida, pantalla, cola, temporizador, prefs>>

\* A request is built: the login reads its screen, the others the preferences.
Peticiones == [login |-> "entra", parametricas |-> "carga", banco |-> "cargaBanco"]

pedir(h) ==
    /\ Viva /\ hilo[h].pc \in DOMAIN Peticiones
    /\ hilo' = [hilo EXCEPT
          ![h].pc = Peticiones[@],
          ![h].usuario = IF hilo[h].pc = "login" THEN campo[hilo[h].de].usuario
                                                 ELSE prefs.userId]
    /\ UNCHANGED <<vida, pantalla, cola, temporizador, prefs>>

\* State 1 keeps the user and goes on; the others, and no answer, do not.
Login(h) ==
    /\ EnHilo(h, "entra")
    /\ \/ /\ prefs' = [prefs EXCEPT !.userId = hilo[h].usuario]
          /\ Ir(h, "clave")
       \/ \E e \in {"cambio", "otro"} : Asigna(h, 4, e) /\ UNCHANGED prefs
    /\ UNCHANGED <<vida, pantalla, cola, temporizador>>

\* The key is committed; setTerminalCode, which follows, commits nothing.
\* An answer without a key is a failure after the fact.
guardarClave(h) ==
    /\ EnHilo(h, "clave")
    /\ \E completa \in Completas :
          /\ prefs' = [prefs EXCEPT !.clave = IF completa THEN hilo[h].usuario ELSE @]
          /\ Asigna(h, 4, IF completa THEN "1" ELSE "otro")
    /\ UNCHANGED <<vida, pantalla, cola, temporizador>>

\* Mutant: the load that failed lets the login go on.
obtenerParametricasIgual(h) ==
    /\ EnHilo(h, "carga")
    /\ \/ /\ prefs' = [prefs EXCEPT !.parametricas = hilo[h].usuario]
          /\ Avisa(h, 6)
       \/ Avisa(h, 5) /\ UNCHANGED prefs
    /\ UNCHANGED <<vida, pantalla, cola, temporizador>>

\* Mutant: the load that failed tells nobody.
obtenerParametricasCallado(h) ==
    /\ EnHilo(h, "carga")
    /\ \/ /\ prefs' = [prefs EXCEPT !.parametricas = hilo[h].usuario]
          /\ Avisa(h, 6)
       \/ hilo' = [hilo EXCEPT ![h] = Ocioso] /\ UNCHANGED prefs
    /\ UNCHANGED <<vida, pantalla, cola, temporizador>>

\* An answer with a field missing is caught inside and ends the worker.
obtenerParametricas(h) ==
    /\ EnHilo(h, "carga")
    /\ \/ /\ prefs' = [prefs EXCEPT !.parametricas = hilo[h].usuario]
          /\ Avisa(h, 6)
       \/ Avisa(h, 3) /\ UNCHANGED prefs
       \/ FALSE \in Completas /\ hilo' = [hilo EXCEPT ![h] = Ocioso] /\ UNCHANGED prefs
    /\ UNCHANGED <<vida, pantalla, cola, temporizador>>

obtenerParametricasBanco(h) ==
    /\ EnHilo(h, "cargaBanco")
    /\ \/ /\ prefs' = [prefs EXCEPT !.banco = hilo[h].usuario]
          /\ Avisa(h, 5)
       \/ Avisa(h, 3) /\ UNCHANGED prefs
       \/ FALSE \in Completas /\ hilo' = [hilo EXCEPT ![h] = Ocioso] /\ UNCHANGED prefs
    /\ UNCHANGED <<vida, pantalla, cola, temporizador>>

\* The location arrives.
onLocationChanged(h) ==
    /\ EnHilo(h, "ubica")
    /\ Avisa(h, 7)
    /\ UNCHANGED <<vida, pantalla, cola, temporizador, prefs>>

\* The request to change a password carries the user of the preferences, an
\* exception of the worker when there is none.
pedirCambio(h) ==
    /\ EnHilo(h, "cambio")
    /\ \/ /\ prefs.userId = Nadie
          /\ vida' = "sinUsuario" /\ UNCHANGED hilo
       \/ /\ prefs.userId # Nadie
          /\ UNCHANGED vida
          /\ hilo' = [hilo EXCEPT ![h].pc = "cambia", ![h].usuario = prefs.userId]
    /\ UNCHANGED <<pantalla, cola, temporizador, prefs>>

\* Without an answer the object Servicios keeps no response either.
cambiarContrasenaServicio(h) ==
    /\ EnHilo(h, "cambia")
    /\ \/ /\ \E e \in {"1", "0"} : Asigna(h, 1, e)
          /\ campo' = [campo EXCEPT ![hilo[h].de].servicio = TRUE]
       \/ Asigna(h, 1, "0") /\ UNCHANGED campo
    /\ UNCHANGED <<vida, frente, n, relevo, cola, temporizador, prefs>>

\* The strings are compared by reference, so the result is "0" and the message
\* 3 whatever the server did (estado keeps it as history).
obtenerContrasenaTemporal(h) ==
    /\ EnHilo(h, "envia")
    /\ \E e \in {"enviado", "noEnviado"} :
          campo' = [campo EXCEPT ![hilo[h].de].estado = e]
    /\ Avisa(h, 3)
    /\ UNCHANGED <<vida, frente, n, relevo, cola, temporizador, prefs>>

\* What a service returned is stored in the field of the screen.
asignar(h) ==
    /\ EnHilo(h, "asigna")
    /\ campo' = [campo EXCEPT ![hilo[h].de] =
          IF hilo[h].val \in Tokens THEN [@ EXCEPT !.token = hilo[h].val]
                                    ELSE [@ EXCEPT !.estado = hilo[h].val]]
    /\ Ir(h, "avisa")
    /\ UNCHANGED <<vida, frente, n, relevo, cola, temporizador, prefs>>

\* Mutant: the worker sends its message again and again.
sendMessageSinFin(h) ==
    /\ EnHilo(h, "avisa")
    /\ cola' = Append(cola, [para |-> Manejador(campo[hilo[h].de].clase),
                             que |-> hilo[h].que])
    /\ UNCHANGED <<vida, pantalla, hilo, temporizador, prefs>>

\* The message goes to the handler the class has by now.
sendMessage(h) ==
    /\ EnHilo(h, "avisa")
    /\ cola' = Append(cola, [para |-> Manejador(campo[hilo[h].de].clase),
                             que |-> hilo[h].que])
    /\ hilo' = [hilo EXCEPT ![h] = Ocioso]
    /\ UNCHANGED <<vida, pantalla, temporizador, prefs>>

-----------------------------------------------------------------------------
(* The handlers, on the UI thread. *)

Destino == Head(cola).para

Recibe(c, q) ==
    /\ Viva /\ cola # <<>>
    /\ Head(cola).que = q /\ campo[Destino].clase = c
    /\ cola' = Tail(cola)

\* A field that is still null ends the process with an exception.
CampoNulo ==
    /\ vida' = "campoNulo"
    /\ UNCHANGED <<pantalla, hilo, temporizador, prefs>>

\* The loader is dismissed, if there is one, and a pop-up tells the user.
Cerrar(i, a) ==
    \/ campo[i].loader = "nunca" /\ CampoNulo
    \/ /\ campo[i].loader # "nunca"
       /\ campo' = [campo EXCEPT ![i].loader = "cerrado", ![i].aviso = a]
       /\ UNCHANGED <<vida, frente, n, relevo, hilo, temporizador, prefs>>

Sigue(p) == Lanzar(p, Destino) /\ UNCHANGED <<vida, pantalla, temporizador, prefs>>

mensajeToken(c) ==
    /\ Recibe(c, 1)
    /\ \/ campo[Destino].token = "nulo" /\ CampoNulo
       \/ campo[Destino].token = "vacio" /\ Cerrar(Destino, "servidor")
       \/ /\ campo[Destino].token = "token"
          /\ Sigue(IF c = "login" THEN "login" ELSE "envia")

mensajeErrorParametricas == Recibe("login", 3) /\ Cerrar(Destino, "parametricas")

mensajeEstado ==
    /\ Recibe("login", 4)
    /\ \/ campo[Destino].estado = "nulo" /\ CampoNulo
       \/ campo[Destino].estado = "1" /\ Sigue("parametricas")
       \/ campo[Destino].estado = "otro" /\ Cerrar(Destino, "fallido")
       \/ /\ campo[Destino].estado = "cambio"
          /\ temporizador' = TRUE
          /\ UNCHANGED <<vida, hilo, prefs>>
          /\ Abrir("cambio")

mensajeUbicacion ==
    /\ Recibe("login", 5)
    /\ \E permitida \in Permisos :
          \/ permitida /\ Sigue("ubica")
          \/ ~permitida /\ UNCHANGED <<vida, pantalla, hilo, temporizador, prefs>>

mensajeBanco == Recibe("login", 6) /\ Sigue("banco")

\* The first screen of the session, whose timer starts.
mensajeInicio ==
    /\ Recibe("login", 7)
    /\ frente' = Inicio
    /\ temporizador' = TRUE
    /\ UNCHANGED <<vida, n, campo, relevo, hilo, prefs>>

\* A failure is explained with the response of the service, null if none came.
mensajeCambio ==
    /\ Recibe("cambio", 1)
    /\ \/ campo[Destino].estado = "nulo" /\ CampoNulo
       \/ /\ campo[Destino].estado = "1" /\ campo[Destino].loader # "nunca"
          /\ campo' = [campo EXCEPT ![Destino].loader = "cerrado",
                                    ![Destino].aviso = "cambio"]
          /\ temporizador' = FALSE
          /\ UNCHANGED <<vida, frente, n, relevo, hilo, prefs>>
       \/ /\ campo[Destino].estado = "0" /\ campo[Destino].servicio
          /\ Cerrar(Destino, "fallido")
       \/ /\ campo[Destino].estado = "0" /\ ~campo[Destino].servicio
          /\ vida' = "sinRespuesta"
          /\ UNCHANGED <<pantalla, hilo, temporizador, prefs>>

mensajeCorreo == Recibe("olvido", 3) /\ Cerrar(Destino, "correo")

-----------------------------------------------------------------------------
Usuario ==
    \/ \E u \in Usuarios : inicioSesion(u)
    \/ abrirOlvido \/ solicitarClaveTemporal \/ cambiarContrasena
    \/ irAIngreso \/ volver \/ cerrarSesion

Trabaja(h) ==
    \/ solicitarToken(h) \/ pedir(h) \/ Login(h) \/ guardarClave(h)
    \/ obtenerParametricas(h) \/ obtenerParametricasBanco(h) \/ onLocationChanged(h)
    \/ pedirCambio(h) \/ cambiarContrasenaServicio(h) \/ obtenerContrasenaTemporal(h)
    \/ asignar(h) \/ sendMessage(h)

HiloUI ==
    \/ \E c \in {"login", "olvido"} : mensajeToken(c)
    \/ mensajeErrorParametricas \/ mensajeEstado \/ mensajeUbicacion \/ mensajeBanco
    \/ mensajeInicio \/ mensajeCambio \/ mensajeCorreo

Next ==
    \/ Usuario \/ doLogout \/ HiloUI \/ reiniciar
    \/ \E h \in Hilos : Trabaja(h)

Spec == Init /\ [][Next]_vars

\* Workers end (their calls have a time-out of 30 seconds), the location comes
\* and the UI thread serves its queue.
SpecJusta == Spec /\ WF_vars(HiloUI) /\ \A h \in Hilos : WF_vars(Trabaja(h))

-----------------------------------------------------------------------------
(* Properties. *)

EnCurso == Cardinality({h \in Hilos : hilo[h].pc # "libre"}) + Len(cola)

\* One login at a time, and never more chains than screens, although every
\* handler starts workers for messages of any screen (inicioSesion and the
\* modal loader).
UnaCadena == EnCurso <= IF relevo THEN n ELSE 1

\* A handler finds a field of its screen null, and the process ends, only after
\* a screen replaced the one whose chain was under way (LogIn.respuesta).
NuloSoloPorRelevo == vida = "campoNulo" => relevo

\* Whoever is in the session is the one whose identifier, key, parameters and
\* bank parameters are in the preferences, whatever failed, was retried or was
\* cut by the end of the process, unless a login was overtaken by another.
SesionDeUnUsuario ==
    frente = Inicio /\ ~relevo =>
        /\ prefs.userId \in Usuarios
        /\ \A k \in Claves : prefs[k] = prefs.userId

\* A loader in front of the user goes away, as long as the bound leaves a screen
\* to open (dialog of inicioSesion, cambiarContrasena, solicitarClaveTemporal).
Esperando ==
    /\ Viva /\ frente # Inicio /\ campo[frente].loader = "abierto"
    /\ n < MaxPantallas
Responde == Esperando ~> ~Esperando
=============================================================================
