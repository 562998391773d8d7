---------------------------- MODULE Confirmacion ----------------------------
(***************************************************************************)
(* The confirmation screen, pantallaConfirmacion.java: the way a           *)
(* transaction leaves the terminal in this build.  A press of the confirm  *)
(* button opens a loader and starts a worker, which has the native core    *)
(* pack the frame and posts enviarTransaccion to the UI thread; that       *)
(* starts a second worker, Servicios.generarVenta, which sends the frame   *)
(* to the server, posts a message to the screen's handler and only then    *)
(* builds and returns the answer.  The workers and the UI thread share the *)
(* fields respuestaC and resp; the handler is a static field of the class, *)
(* so it belongs to the last screen created.                               *)
(***************************************************************************)
EXTENDS Naturals, Sequences

CONSTANTS MaxPantallas,   \* screens opened in a behaviour
          MaxIntentos,    \* presses of the confirm button in a behaviour
          Ofrecidas       \* classes of the transactions the user may choose

Pantallas == 1..MaxPantallas
Intentos  == 1..MaxIntentos

\* The branches of confirmarValores that differ in what can go wrong.
\*   registrada   the runnable logs the frame before it sends it (deposit)
\*   empaquetada  the frame is kept in respuestaC (remittances, products)
\*   sinTrama     the frame the native core packs is dropped (query of a
\*                remittance to cancel)
\*   conTarjeta   the frame is packed outside any try (card transactions)
\*   consulta     nothing is sent (query of bills)
Clases == {"registrada", "empaquetada", "sinTrama", "conTarjeta", "consulta"}

ASSUME MaxPantallasAssumption == MaxPantallas \in Nat \ {0}
ASSUME MaxIntentosConfirmacionAssumption == MaxIntentos \in Nat \ {0}
ASSUME OfrecidasAssumption == Ofrecidas \subseteq Clases /\ Ofrecidas # {}

SinTrama == 0

VARIABLES
    viva,        \* whether the process of the application is alive
    instancia,   \* the screen the static handler `respuesta' belongs to
    pantalla,    \* what each screen shows
    clase,       \* branch of confirmarValores its transaction takes
    dialogo,     \* its loader
    respuestaC,  \* its frame, named by the attempt that packed it
    resp,        \* its answer
    intento,     \* per press: its screen, place in the code, frame sent
    cola,        \* the queue of the UI thread
    servidor,    \* what the server did with the request of each press
    sinEmpaque,  \* history: presses whose packing threw an exception
    cruzadas     \* history: screens that got the message of another screen

pantallas == <<pantalla, clase, dialogo, respuestaC, resp>>
historia  == <<sinEmpaque, cruzadas>>
vars == <<viva, instancia, pantallas, intento, cola, servidor, historia>>

\* Places of a press in the code.
Enteras  == {"empaqueta", "encolado", "enviada", "respondida", "excepcion"}
Finales  == {"leida", "errada", "consultada", "muerto"}

Respuestas == {"aprobada", "declinada"}

Intento == [de : {0} \cup Pantallas,
            pc : {"libre"} \cup Enteras \cup Finales,
            trama : {SinTrama} \cup Intentos]

\* A post in the queue: its kind, the screen that handles it, the press it
\* comes from.
Aviso == [que : {"enviar", "uno", "dos"}, i : Pantallas, a : Intentos]

TypeOK ==
    /\ viva \in BOOLEAN
    /\ instancia \in 0..MaxPantallas
    /\ pantalla \in [Pantallas -> {"noCreada", "valores", "exito", "fallida",
                                   "cerrada", "fuera"}]
    /\ clase \in [Pantallas -> Clases]
    /\ dialogo \in [Pantallas -> {"nulo", "abierto", "cerrado"}]
    /\ respuestaC \in [Pantallas -> {SinTrama} \cup Intentos]
    /\ resp \in [Pantallas -> {"nulo", "error"} \cup Respuestas]
    /\ intento \in [Intentos -> Intento]
    /\ cola \in Seq(Aviso)
    /\ servidor \in [Intentos -> {"nada", "pendiente"} \cup Respuestas]
    /\ sinEmpaque \subseteq Intentos
    /\ cruzadas \subseteq Pantallas

Init ==
    /\ viva = TRUE
    /\ instancia = 0
    /\ pantalla = [i \in Pantallas |-> "noCreada"]
    /\ clase = [i \in Pantallas |-> "consulta"]
    /\ dialogo = [i \in Pantallas |-> "nulo"]
    /\ respuestaC = [i \in Pantallas |-> SinTrama]
    /\ resp = [i \in Pantallas |-> "nulo"]
    /\ intento = [a \in Intentos |-> [de |-> 0, pc |-> "libre", trama |-> SinTrama]]
    /\ cola = <<>>
    /\ servidor = [a \in Intentos |-> "nada"]
    /\ sinEmpaque = {}
    /\ cruzadas = {}

-----------------------------------------------------------------------------
(* Helpers. *)

Libres == {a \in Intentos : intento[a].pc = "libre"}

Avanzar(a, p) == intento' = [intento EXCEPT ![a].pc = p]

\* A post to the queue of the UI thread.
Encolar(que, i, a) == cola' = Append(cola, [que |-> que, i |-> i, a |-> a])

\* The end of the process: the workers and the screens are gone, what the
\* server was asked stays asked.
Morir ==
    /\ viva' = FALSE
    /\ cola' = <<>>
    /\ intento' = [a \in Intentos |->
          IF intento[a].pc \in Enteras THEN [intento[a] EXCEPT !.pc = "muerto"]
                                   ELSE intento[a]]
    /\ pantalla' = [i \in Pantallas |->
          IF pantalla[i] = "noCreada" THEN "noCreada" ELSE "cerrada"]
    /\ dialogo' = [i \in Pantallas |-> "nulo"]
    /\ respuestaC' = [i \in Pantallas |-> SinTrama]
    /\ resp' = [i \in Pantallas |-> "nulo"]
    /\ UNCHANGED <<instancia, clase, servidor>>

-----------------------------------------------------------------------------
(* The user and the session. *)

\* onCreate: the new screen takes the static handler.
onCreate(c) ==
    /\ viva
    /\ instancia < MaxPantallas
    /\ instancia # 0 => pantalla[instancia] # "valores"
    /\ instancia' = instancia + 1
    /\ pantalla' = [pantalla EXCEPT ![instancia + 1] = "valores"]
    /\ clase' = [clase EXCEPT ![instancia + 1] = c]
    /\ UNCHANGED <<viva, dialogo, respuestaC, resp, intento, cola, servidor,
                   historia>>

\* Mutant: a press is taken under the loader too.
confirmarSinCargador ==
    /\ viva
    /\ instancia # 0
    /\ pantalla[instancia] = "valores"
    /\ \E a \in Libres :
          /\ \A b \in Libres : a <= b
          /\ intento' = [intento EXCEPT ![a] = [de |-> instancia, pc |-> "empaqueta",
                                                trama |-> SinTrama]]
    /\ dialogo' = [dialogo EXCEPT ![instancia] = "abierto"]
    /\ UNCHANGED <<viva, instancia, pantalla, clase, respuestaC, resp, cola,
                   servidor, historia>>

\* The button can be pressed while no loader covers it.
confirmarValores ==
    /\ viva
    /\ instancia # 0
    /\ pantalla[instancia] = "valores"
    /\ dialogo[instancia] # "abierto"
    /\ \E a \in Libres :
          /\ \A b \in Libres : a <= b
          /\ intento' = [intento EXCEPT ![a] = [de |-> instancia, pc |-> "empaqueta",
                                                trama |-> SinTrama]]
    /\ dialogo' = [dialogo EXCEPT ![instancia] = "abierto"]
    /\ UNCHANGED <<viva, instancia, pantalla, clase, respuestaC, resp, cola,
                   servidor, historia>>

cancelarValores ==
    /\ viva
    /\ instancia # 0
    /\ pantalla[instancia] = "valores"
    /\ dialogo[instancia] # "abierto"
    /\ pantalla' = [pantalla EXCEPT ![instancia] = "cerrada"]
    /\ UNCHANGED <<viva, instancia, clase, dialogo, respuestaC, resp, intento,
                   cola, servidor, historia>>

\* The idle timer opens the login screen over this one (module Sesion shows
\* that a timer left behind may do so at any time).  The workers go on.
doLogout ==
    /\ viva
    /\ instancia # 0
    /\ pantalla[instancia] = "valores"
    /\ pantalla' = [pantalla EXCEPT ![instancia] = "fuera"]
    /\ UNCHANGED <<viva, instancia, clase, dialogo, respuestaC, resp, intento,
                   cola, servidor, historia>>

-----------------------------------------------------------------------------
(* The first worker. *)

\* Mutant: a frame already packed for the screen is kept.
tramaGuardada(a) ==
    /\ intento[a].pc = "empaqueta"
    /\ LET i == intento[a].de IN
       /\ respuestaC' = IF /\ clase[i] \in {"registrada", "empaquetada", "conTarjeta"}
                           /\ respuestaC[i] = SinTrama
                        THEN [respuestaC EXCEPT ![i] = a]
                        ELSE respuestaC
       /\ Encolar("enviar", i, a)
    /\ Avanzar(a, "encolado")
    /\ UNCHANGED <<viva, instancia, pantalla, clase, dialogo, resp, servidor,
                   historia>>

\* The frame is packed and enviarTransaccion posted.
transaccionesSinTarjeta(a) ==
    /\ intento[a].pc = "empaqueta"
    /\ LET i == intento[a].de IN
       /\ respuestaC' = IF clase[i] \in {"registrada", "empaquetada", "conTarjeta"}
                        THEN [respuestaC EXCEPT ![i] = a]
                        ELSE respuestaC
       /\ Encolar("enviar", i, a)
    /\ Avanzar(a, "encolado")
    /\ UNCHANGED <<viva, instancia, pantalla, clase, dialogo, resp, servidor,
                   historia>>

\* An exception while packing: swallowed, so that respuestaC keeps what it
\* held, except in the card transactions, where it ends the process.
excepcionEmpaque(a) ==
    /\ intento[a].pc = "empaqueta"
    /\ sinEmpaque' = sinEmpaque \cup {a}
    /\ UNCHANGED cruzadas
    /\ \/ /\ clase[intento[a].de] = "conTarjeta"
          /\ Morir
       \/ /\ clase[intento[a].de] # "conTarjeta"
          /\ Avanzar(a, "encolado")
          /\ Encolar("enviar", intento[a].de, a)
          /\ UNCHANGED <<viva, instancia, pantallas, servidor>>

-----------------------------------------------------------------------------
(* The UI thread, which takes the head of its queue. *)

EnCabeza(que) == viva /\ cola # <<>> /\ Head(cola).que = que

\* The runnable of a query only closes the loader.
cerrarConsulta ==
    /\ EnCabeza("enviar")
    /\ clase[Head(cola).i] = "consulta"
    /\ dialogo' = [dialogo EXCEPT ![Head(cola).i] = "cerrado"]
    /\ Avanzar(Head(cola).a, "consultada")
    /\ cola' = Tail(cola)
    /\ UNCHANGED <<viva, instancia, pantalla, clase, respuestaC, resp, servidor,
                   historia>>

\* enviarTransaccion hands the frame of the moment to the second worker.  The
\* deposit logs it first, and a null frame there ends the process.
enviarTransaccion ==
    /\ EnCabeza("enviar")
    /\ LET i == Head(cola).i
           a == Head(cola).a IN
       /\ clase[i] # "consulta"
       /\ \/ /\ clase[i] = "registrada"
             /\ respuestaC[i] = SinTrama
             /\ Morir
          \/ /\ clase[i] = "registrada" => respuestaC[i] # SinTrama
             /\ intento' = [intento EXCEPT ![a].pc = "enviada",
                                           ![a].trama = respuestaC[i]]
             /\ servidor' = [servidor EXCEPT ![a] = "pendiente"]
             /\ cola' = Tail(cola)
             /\ UNCHANGED <<viva, instancia, pantallas>>
    /\ UNCHANGED historia

\* A message from the worker of another screen.
Cruzada == cruzadas' = IF intento[Head(cola).a].de = Head(cola).i
                       THEN cruzadas ELSE cruzadas \cup {Head(cola).i}

\* handleMessage fails on a loader never opened or an answer not yet there.
Falla(i) == dialogo[i] = "nulo" \/ resp[i] = "nulo"

\* Mutant: a failure closes the loader and leaves the screen open to a retry.
respuestaSinSalir ==
    /\ EnCabeza("uno")
    /\ Cruzada
    /\ LET i == Head(cola).i IN
       \/ Falla(i) /\ Morir
       \/ /\ ~Falla(i)
          /\ dialogo' = [dialogo EXCEPT ![i] = "cerrado"]
          /\ pantalla' = [pantalla EXCEPT
                ![i] = IF resp[i] = "aprobada" THEN "exito" ELSE @]
          /\ cola' = Tail(cola)
          /\ UNCHANGED <<viva, instancia, clase, respuestaC, resp, intento,
                         servidor>>
    /\ UNCHANGED sinEmpaque

\* handleMessage, message 1: the outcome is read in resp.
mensajeRespuesta ==
    /\ EnCabeza("uno")
    /\ Cruzada
    /\ LET i == Head(cola).i IN
       \/ Falla(i) /\ Morir
       \/ /\ ~Falla(i)
          /\ dialogo' = [dialogo EXCEPT ![i] = "cerrado"]
          /\ pantalla' = [pantalla EXCEPT
                ![i] = IF resp[i] = "aprobada" THEN "exito" ELSE "fallida"]
          /\ cola' = Tail(cola)
          /\ UNCHANGED <<viva, instancia, clase, respuestaC, resp, intento,
                         servidor>>
    /\ UNCHANGED sinEmpaque

\* handleMessage, message 2: the loader closes and the screen stays.
mensajeError ==
    /\ EnCabeza("dos")
    /\ Cruzada
    /\ LET i == Head(cola).i IN
       \/ Falla(i) /\ Morir
       \/ /\ ~Falla(i)
          /\ dialogo' = [dialogo EXCEPT ![i] = "cerrado"]
          /\ cola' = Tail(cola)
          /\ UNCHANGED <<viva, instancia, pantalla, clase, respuestaC, resp,
                         intento, servidor>>
    /\ UNCHANGED sinEmpaque

-----------------------------------------------------------------------------
(* The second worker, Servicios.generarVenta. *)

\* An answer in JSON: the message goes out before the answer is built.
generarVenta(a) ==
    /\ intento[a].pc = "enviada"
    /\ servidor[a] \in Respuestas
    /\ Avanzar(a, "respondida")
    /\ Encolar("uno", instancia, a)
    /\ UNCHANGED <<viva, instancia, pantallas, servidor, historia>>

devolverRespuesta(a) ==
    /\ intento[a].pc = "respondida"
    /\ Avanzar(a, "leida")
    /\ resp' = [resp EXCEPT ![intento[a].de] = servidor[a]]
    /\ UNCHANGED <<viva, instancia, pantalla, clase, dialogo, respuestaC, cola,
                   servidor, historia>>

\* Mutant: the error is returned without its message.
excepcionCallada(a) ==
    /\ intento[a].pc \in {"enviada", "respondida"}
    /\ Avanzar(a, "excepcion")
    /\ UNCHANGED <<viva, instancia, pantallas, cola, servidor, historia>>

\* No answer within callTimeout, an answer that is not JSON, or one that lacks
\* a field: in the last case message 1 is already out.
excepcionRespuesta(a) ==
    /\ intento[a].pc \in {"enviada", "respondida"}
    /\ Avanzar(a, "excepcion")
    /\ Encolar("dos", instancia, a)
    /\ UNCHANGED <<viva, instancia, pantallas, servidor, historia>>

\* Mutant: the test answer that generarVenta keeps in a comment is returned.
devolverAprobada(a) ==
    /\ intento[a].pc = "excepcion"
    /\ Avanzar(a, "errada")
    /\ resp' = [resp EXCEPT ![intento[a].de] = "aprobada"]
    /\ UNCHANGED <<viva, instancia, pantalla, clase, dialogo, respuestaC, cola,
                   servidor, historia>>

devolverError(a) ==
    /\ intento[a].pc = "excepcion"
    /\ Avanzar(a, "errada")
    /\ resp' = [resp EXCEPT ![intento[a].de] = "error"]
    /\ UNCHANGED <<viva, instancia, pantalla, clase, dialogo, respuestaC, cola,
                   servidor, historia>>

-----------------------------------------------------------------------------
(* The server and the process. *)

\* The server decides a request, also after the terminal gave up on it; a
\* request without a frame has an empty body and is refused.
decidir(a) ==
    /\ servidor[a] = "pendiente"
    /\ \E r \in Respuestas :
          /\ r = "aprobada" => intento[a].trama # SinTrama
          /\ servidor' = [servidor EXCEPT ![a] = r]
    /\ UNCHANGED <<viva, instancia, pantallas, intento, cola, historia>>

\* The system ends the process, or the terminal loses power.
caida == viva /\ Morir /\ UNCHANGED historia

reiniciar ==
    /\ ~viva
    /\ viva' = TRUE
    /\ UNCHANGED <<instancia, pantallas, intento, cola, servidor, historia>>

-----------------------------------------------------------------------------
Usuario == (\E c \in Ofrecidas : onCreate(c)) \/ confirmarValores \/ cancelarValores

InterfazGrafica ==
    cerrarConsulta \/ enviarTransaccion \/ mensajeRespuesta \/ mensajeError

Hilo(a) ==
    \/ transaccionesSinTarjeta(a) \/ excepcionEmpaque(a)
    \/ generarVenta(a) \/ devolverRespuesta(a)
    \/ excepcionRespuesta(a) \/ devolverError(a)

Next ==
    \/ Usuario
    \/ InterfazGrafica
    \/ \E a \in Intentos : Hilo(a) \/ decidir(a)
    \/ doLogout
    \/ caida
    \/ reiniciar

Spec == Init /\ [][Next]_vars

\* The UI thread serves its queue and every worker goes on; the worker that
\* waits for the server gives up after callTimeout.
SpecJusta ==
    /\ Spec
    /\ WF_vars(InterfazGrafica)
    /\ \A a \in Intentos : WF_vars(Hilo(a))

-----------------------------------------------------------------------------
(* Properties. *)

Aprobada(a) == servidor[a] = "aprobada"

\* The success screen is shown only for a transaction of that screen which the
\* server approved and whose answer was read to the end, whatever messages of
\* abandoned screens the handler got (handleMessage, case 1).
ExitoFiel ==
    \A i \in Pantallas : pantalla[i] = "exito" =>
        \E a \in Intentos : intento[a].de = i /\ intento[a].pc = "leida" /\ Aprobada(a)

\* A screen has one request under way: the loader keeps the button out of
\* reach until the message of that request comes.  The message of an abandoned
\* screen may close it early.
UnIntercambio ==
    \A a, b \in Intentos :
        /\ intento[a].pc \in {"empaqueta", "encolado", "enviada"}
        /\ intento[b].pc \in {"empaqueta", "encolado", "enviada"}
        /\ intento[a].de = intento[b].de
        /\ intento[a].de \notin cruzadas
        => a = b

\* Two transactions of one screen are both approved only if the answer to the
\* first never came, could not be read, or a message of another screen closed
\* the loader.
SinDobleCobro ==
    \A a, b \in Intentos :
        /\ a < b
        /\ Aprobada(a) /\ Aprobada(b)
        /\ intento[a].de = intento[b].de
        /\ intento[a].de \notin cruzadas
        => intento[a].pc \in {"excepcion", "errada", "muerto"}

\* A request carries the frame packed for its own press, unless the packing
\* threw an exception, which respuestaC hides, or the messages of two screens
\* crossed.
TramaPropia ==
    \A a \in Intentos :
        intento[a].trama \notin {SinTrama, a} =>
            a \in sinEmpaque \/ intento[a].de \in cruzadas

\* An answer that was read as approved is never shown as failed
\* (strings.xml:350, the failure screen).
FallidaFiel ==
    \A i \in Pantallas : pantalla[i] = "fallida" =>
        \A a \in Intentos :
            intento[a].de = i /\ intento[a].pc = "leida" => ~Aprobada(a)

\* The loader of the current screen closes, or the screen is left.
CargadorCierra ==
    \A i \in Pantallas :
        (instancia = i /\ dialogo[i] = "abierto") ~>
            (instancia # i \/ dialogo[i] # "abierto")
=============================================================================
