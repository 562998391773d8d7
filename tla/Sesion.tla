------------------------------- MODULE Sesion --------------------------------
(***************************************************************************)
(* The session and its idle timer, TimeOutSesion.java and BaseActivity.    *)
(* Every start of a screen and every touch calls startLogoutTimer on the   *)
(* UI thread: it cancels the timer of the last touch and schedules another *)
(* one.  A timer that falls due runs its task on a thread of its own,      *)
(* which clears the static field longTimer without the lock that           *)
(* startLogoutTimer and stopLogoutTimer take, asks whether the application *)
(* is in the foreground, and opens the login screen.  The same touches     *)
(* refresh the token of the session.                                       *)
(***************************************************************************)
EXTENDS Naturals, FiniteSets

CONSTANTS MaxTimers,      \* timers alive at the same time
          LOGOUT_TIME,    \* delay of a timer, in ticks of the clock
          VentanaDesde,   \* the token is refreshed by a touch that comes
          VentanaHasta,   \*   this many ticks after horainicial
          Internet,       \* answers of getInternetStatus
          Apartable       \* whether the user ever leaves the application

Timers == 1..MaxTimers

ASSUME MaxTimersAssumption == MaxTimers \in Nat \ {0}
ASSUME VentanaAssumption ==
    /\ LOGOUT_TIME \in Nat /\ VentanaDesde \in Nat /\ VentanaHasta \in Nat
    /\ 0 < VentanaDesde /\ VentanaDesde <= VentanaHasta /\ VentanaHasta < LOGOUT_TIME
ASSUME InternetAssumption == Internet \subseteq BOOLEAN /\ Internet # {}
ASSUME ApartableAssumption == Apartable \in BOOLEAN

Nulo == 0

VARIABLES
    pantalla,     \* in front: the login screen or a screen of the session
    primerPlano,  \* whether the application is in the foreground
    ui,           \* place of the UI thread in startLogoutTimer
    longTimer,    \* the static field
    timer,        \* per Timer object: place of its task, age, calls made
    candado,      \* holder of the lock of the class
    contador,     \* whether horainicial has a value
    diferencia,   \* time since horainicial, VentanaHasta + 1 for any other
    inactivo,     \* time since a touch was last served
    antiguedad,   \* time since the token was issued or refreshed
    huerfanos     \* history: timers scheduled that longTimer lost

reloj == <<contador, diferencia, inactivo, antiguedad>>
vars == <<pantalla, primerPlano, ui, longTimer, timer, candado, reloj, huerfanos>>

\* Holders of the lock: nobody, a timer's thread or the UI thread.
UI == MaxTimers + 1

\* Places of the UI thread and of a task; "para", "anula" and "borra" are in
\* stopLogoutTimer, which a task calls twice.
Lugares == {"libre", "espera", "anula", "borra", "crea", "programa"}
Tareas  == {"libre", "creado", "programado", "ejecuta", "consulta",
            "para", "anula", "borra", "abre"}

Timer == [pc : Tareas, edad : 0..LOGOUT_TIME, paradas : 0..2, ocioso : BOOLEAN]
SinUsar == [pc |-> "libre", edad |-> 0, paradas |-> 0, ocioso |-> FALSE]

TypeOK ==
    /\ pantalla \in {"ingreso", "abierta", "muerta"}
    /\ primerPlano \in BOOLEAN
    /\ ui \in Lugares
    /\ longTimer \in {Nulo} \cup Timers
    /\ timer \in [Timers -> Timer]
    /\ candado \in {Nulo, UI} \cup Timers
    /\ contador \in 0..1
    /\ diferencia \in 0..(VentanaHasta + 1)
    /\ inactivo \in 0..LOGOUT_TIME
    /\ antiguedad \in 0..(LOGOUT_TIME + 1)
    /\ huerfanos \subseteq Timers

Init ==
    /\ pantalla = "ingreso" /\ primerPlano = TRUE /\ ui = "libre"
    /\ longTimer = Nulo /\ timer = [t \in Timers |-> SinUsar] /\ candado = Nulo
    /\ contador = 0 /\ diferencia = 0 /\ inactivo = 0 /\ antiguedad = 0
    /\ huerfanos = {}

-----------------------------------------------------------------------------
(* Helpers. *)

Viva == pantalla # "muerta"
Libres == {t \in Timers : timer[t].pc = "libre"}
EnTarea(t, p) == Viva /\ timer[t].pc = p
Ir(t, p) == timer' = [timer EXCEPT ![t].pc = p]

\* Timer.cancel: a task that waits is dropped, one that runs goes on.
Cancelado(t) == IF timer[t].pc = "programado" THEN [timer EXCEPT ![t] = SinUsar]
                                              ELSE timer

\* A NullPointerException on longTimer ends the process.
Morir ==
    /\ pantalla' = "muerta"
    /\ UNCHANGED <<primerPlano, ui, longTimer, timer, candado, reloj, huerfanos>>

Tope(n, max) == IF n < max THEN n + 1 ELSE max

-----------------------------------------------------------------------------
(* The user. *)

\* onUserInteraction, or onStart of another screen of the session.
tocar ==
    /\ pantalla = "abierta" /\ primerPlano /\ ui = "libre" /\ Libres # {}
    /\ ui' = "espera"
    /\ UNCHANGED <<pantalla, primerPlano, longTimer, timer, candado, reloj, huerfanos>>

\* The login ends with a new token and the first screen.
ingresar ==
    /\ pantalla = "ingreso" /\ primerPlano /\ ui = "libre" /\ Libres # {}
    /\ pantalla' = "abierta"
    /\ ui' = "espera"
    /\ antiguedad' = 0
    /\ UNCHANGED <<primerPlano, longTimer, timer, candado, contador, diferencia,
                   inactivo, huerfanos>>

\* The user closes the session; the timer is left.
cerrarSesion ==
    /\ pantalla = "abierta" /\ primerPlano /\ ui = "libre"
    /\ pantalla' = "ingreso"
    /\ UNCHANGED <<primerPlano, ui, longTimer, timer, candado, reloj, huerfanos>>

dejar ==
    /\ Apartable /\ Viva /\ primerPlano /\ ui = "libre"
    /\ primerPlano' = FALSE
    /\ UNCHANGED <<pantalla, ui, longTimer, timer, candado, reloj, huerfanos>>

\* Mutant: the timer is started by touches only.
volverSinTimer ==
    /\ Viva /\ ~primerPlano /\ Libres # {}
    /\ primerPlano' = TRUE
    /\ UNCHANGED <<pantalla, ui, longTimer, timer, candado, reloj, huerfanos>>

\* Back in the foreground, onStart of the screen that was in front.
volver ==
    /\ Viva /\ ~primerPlano /\ Libres # {}
    /\ primerPlano' = TRUE
    /\ ui' = IF pantalla = "abierta" THEN "espera" ELSE ui
    /\ UNCHANGED <<pantalla, longTimer, timer, candado, reloj, huerfanos>>

-----------------------------------------------------------------------------
(* startLogoutTimer, on the UI thread. *)

\* The token: the first call sets horainicial; a later one within the window
\* sets it again and refreshes the token, if there is a connection.
Refrescar ==
    /\ contador' = 1
    /\ IF contador = 0 \/ diferencia \in VentanaDesde..VentanaHasta
       THEN diferencia' = 0
       ELSE UNCHANGED diferencia
    /\ IF contador # 0 /\ diferencia \in VentanaDesde..VentanaHasta
       THEN \E conectado \in Internet :
                antiguedad' = IF conectado THEN 0 ELSE antiguedad
       ELSE UNCHANGED antiguedad
    /\ UNCHANGED inactivo

\* It takes the lock and looks at longTimer.
startLogoutTimer ==
    /\ Viva /\ ui = "espera" /\ candado = Nulo
    /\ candado' = UI
    /\ \/ longTimer # Nulo /\ ui' = "anula" /\ UNCHANGED reloj
       \/ longTimer = Nulo /\ ui' = "crea" /\ Refrescar
    /\ UNCHANGED <<pantalla, primerPlano, longTimer, timer, huerfanos>>

\* Mutant: the old timer is dropped without being cancelled.
olvidarAnterior ==
    /\ Viva /\ ui = "anula"
    /\ \/ longTimer = Nulo /\ Morir
       \/ /\ longTimer # Nulo
          /\ ui' = "borra"
          /\ UNCHANGED <<pantalla, primerPlano, longTimer, timer, candado, reloj,
                         huerfanos>>

\* It reads longTimer again to cancel it.
cancelarAnterior ==
    /\ Viva /\ ui = "anula"
    /\ \/ longTimer = Nulo /\ Morir
       \/ /\ longTimer # Nulo
          /\ timer' = Cancelado(longTimer)
          /\ ui' = "borra"
          /\ UNCHANGED <<pantalla, primerPlano, longTimer, candado, reloj, huerfanos>>

borrarAnterior ==
    /\ Viva /\ ui = "borra"
    /\ longTimer' = Nulo
    /\ ui' = "crea"
    /\ Refrescar
    /\ UNCHANGED <<pantalla, primerPlano, timer, candado, huerfanos>>

crearTimer ==
    /\ Viva /\ ui = "crea"
    /\ \E t \in Libres :
          /\ \A u \in Libres : t <= u
          /\ longTimer' = t
          /\ timer' = [timer EXCEPT ![t].pc = "creado"]
          /\ huerfanos' = huerfanos \ {t}
    /\ ui' = "programa"
    /\ UNCHANGED <<pantalla, primerPlano, candado, reloj>>

\* It reads longTimer once more to schedule the task, and leaves.
programarTimer ==
    /\ Viva /\ ui = "programa"
    /\ \/ longTimer = Nulo /\ Morir
       \/ /\ longTimer # Nulo
          /\ Ir(longTimer, "programado")
          /\ ui' = "libre"
          /\ candado' = Nulo
          /\ inactivo' = 0
          /\ UNCHANGED <<pantalla, primerPlano, longTimer, contador, diferencia,
                         antiguedad, huerfanos>>

-----------------------------------------------------------------------------
(* The task of a timer, on its own thread. *)

\* The delay is over; from here on cancelling has no effect.
vencer(t) ==
    /\ EnTarea(t, "programado")
    /\ timer[t].edad = LOGOUT_TIME
    /\ timer' = [timer EXCEPT ![t] = [@ EXCEPT
          !.pc = "ejecuta",
          !.ocioso = pantalla # "abierta" \/ ~primerPlano \/ inactivo = LOGOUT_TIME]]
    /\ UNCHANGED <<pantalla, primerPlano, ui, longTimer, candado, reloj, huerfanos>>

\* longTimer = null, without the lock: the timer it held may be another one.
olvidar(t) ==
    /\ EnTarea(t, "ejecuta")
    /\ huerfanos' = huerfanos \cup ({longTimer} \ {Nulo, t})
    /\ longTimer' = Nulo
    /\ Ir(t, "consulta")
    /\ UNCHANGED <<pantalla, primerPlano, ui, candado, reloj>>

\* ForegroundCheckTask: true in the foreground and, in the background, for a
\* process that Android keeps as cached.
consultarPrimerPlano(t) ==
    /\ EnTarea(t, "consulta")
    /\ \/ Ir(t, "para")
       \/ ~primerPlano /\ timer' = [timer EXCEPT ![t] = SinUsar]
    /\ UNCHANGED <<pantalla, primerPlano, ui, longTimer, candado, reloj, huerfanos>>

\* stopLogoutTimer, called by run and then by doLogout.
Despues(t) == IF timer[t].paradas = 0 THEN "para" ELSE "abre"

\* Mutant: the test of longTimer is made without the lock.
stopSinCandado(t) ==
    /\ EnTarea(t, "para")
    /\ \/ /\ longTimer # Nulo
          /\ candado' = t
          /\ Ir(t, "anula")
       \/ /\ longTimer = Nulo
          /\ UNCHANGED candado
          /\ timer' = [timer EXCEPT ![t].pc = Despues(t), ![t].paradas = @ + 1]
    /\ UNCHANGED <<pantalla, primerPlano, ui, longTimer, reloj, huerfanos>>

stopLogoutTimer(t) ==
    /\ EnTarea(t, "para") /\ candado = Nulo
    /\ \/ /\ longTimer # Nulo
          /\ candado' = t
          /\ Ir(t, "anula")
       \/ /\ longTimer = Nulo
          /\ UNCHANGED candado
          /\ timer' = [timer EXCEPT ![t].pc = Despues(t), ![t].paradas = @ + 1]
    /\ UNCHANGED <<pantalla, primerPlano, ui, longTimer, reloj, huerfanos>>

cancelarActual(t) ==
    /\ EnTarea(t, "anula")
    /\ \/ longTimer = Nulo /\ Morir
       \/ /\ longTimer # Nulo
          /\ timer' = [Cancelado(longTimer) EXCEPT ![t].pc = "borra"]
          /\ UNCHANGED <<pantalla, primerPlano, ui, longTimer, candado, reloj, huerfanos>>

borrarActual(t) ==
    /\ EnTarea(t, "borra")
    /\ longTimer' = Nulo
    /\ candado' = Nulo
    /\ timer' = [timer EXCEPT ![t].pc = Despues(t), ![t].paradas = @ + 1]
    /\ UNCHANGED <<pantalla, primerPlano, ui, reloj, huerfanos>>

\* Mutant: the task ends without opening the login screen.
logoutCallado(t) ==
    /\ EnTarea(t, "abre")
    /\ timer' = [timer EXCEPT ![t] = SinUsar]
    /\ UNCHANGED <<pantalla, primerPlano, ui, longTimer, candado, reloj, huerfanos>>

\* doLogout opens the login screen.
doLogout(t) ==
    /\ EnTarea(t, "abre")
    /\ pantalla' = "ingreso"
    /\ timer' = [timer EXCEPT ![t] = SinUsar]
    /\ UNCHANGED <<primerPlano, ui, longTimer, candado, reloj, huerfanos>>

-----------------------------------------------------------------------------
(* The clock and the process. *)

\* In the foreground a timer fires on time and its task is shorter than a tick;
\* in the background Android may suspend both.
EnHora(t) ==
    \/ timer[t].pc = "libre"
    \/ timer[t].pc = "programado" /\ timer[t].edad < LOGOUT_TIME

tic ==
    /\ Viva /\ ui = "libre"
    /\ primerPlano => \A t \in Timers : EnHora(t)
    /\ timer' = [t \in Timers |->
          IF timer[t].pc = "programado"
          THEN [timer[t] EXCEPT !.edad = Tope(@, LOGOUT_TIME)] ELSE timer[t]]
    /\ inactivo' = Tope(inactivo, LOGOUT_TIME)
    /\ antiguedad' = Tope(antiguedad, LOGOUT_TIME + 1)
    /\ diferencia' = Tope(diferencia, VentanaHasta + 1)
    /\ UNCHANGED <<pantalla, primerPlano, ui, longTimer, candado, contador, huerfanos>>

\* The time of day is used as if it never went back: at midnight diferencia
\* leaves the window, and a day later it passes through it.
otroDia ==
    /\ Viva /\ ui = "libre" /\ contador = 1
    /\ diferencia' \in {0, VentanaHasta + 1}
    /\ diferencia = VentanaHasta + 1 \/ diferencia' = VentanaHasta + 1
    /\ UNCHANGED <<pantalla, primerPlano, ui, longTimer, timer, candado, contador,
                   inactivo, antiguedad, huerfanos>>

\* The application starts again, with nothing of what the process held.
reiniciar ==
    /\ ~Viva
    /\ pantalla' = "ingreso" /\ primerPlano' = TRUE /\ ui' = "libre"
    /\ longTimer' = Nulo /\ timer' = [t \in Timers |-> SinUsar] /\ candado' = Nulo
    /\ contador' = 0 /\ diferencia' = 0 /\ inactivo' = 0 /\ antiguedad' = 0
    /\ huerfanos' = {}

-----------------------------------------------------------------------------
Usuario == tocar \/ ingresar \/ cerrarSesion \/ dejar \/ volver

HiloUI ==
    \/ startLogoutTimer \/ cancelarAnterior \/ borrarAnterior
    \/ crearTimer \/ programarTimer

Tarea(t) ==
    \/ vencer(t) \/ olvidar(t) \/ consultarPrimerPlano(t)
    \/ stopLogoutTimer(t) \/ cancelarActual(t) \/ borrarActual(t) \/ doLogout(t)

Next ==
    \/ Usuario \/ HiloUI
    \/ \E t \in Timers : Tarea(t)
    \/ tic \/ otroDia \/ reiniciar

Spec == Init /\ [][Next]_vars

\* Time passes, the UI thread goes on and so does the task of a timer.
SpecJusta ==
    /\ Spec
    /\ WF_vars(tic) /\ WF_vars(HiloUI)
    /\ \A t \in Timers : WF_vars(Tarea(t))

-----------------------------------------------------------------------------
(* Properties. *)

EnMarcha == Tareas \ {"libre", "creado"}

\* The session in the foreground is always watched: some timer waits, or its
\* task is on the way to the login screen, whatever timers cancel, orphan or
\* overtake each other (startLogoutTimer, run, stopLogoutTimer).
Vigilada ==
    pantalla = "abierta" /\ primerPlano /\ ui = "libre" =>
        \E t \in Timers : timer[t].pc \in EnMarcha

\* startLogoutTimer finds longTimer null between its test and its use, and the
\* process ends, only if the task of a timer that fell due cleared it outside
\* the lock and is on its way to log the user out.
NuloSoloPorTarea ==
    ui \in {"anula", "programa"} /\ longTimer = Nulo =>
        \E t \in Timers : timer[t].pc \in {"consulta", "para"}

\* A timer that fell due on a user who was not idle had been orphaned by the
\* task of another one.
SoloHuerfanos ==
    \A t \in Timers :
        timer[t].pc \in EnMarcha \ {"programado"} /\ ~timer[t].ocioso => t \in huerfanos

\* A user idle in the foreground is taken to the login screen.
InactivoSale ==
    (pantalla = "abierta" /\ primerPlano /\ inactivo = LOGOUT_TIME) ~>
        (pantalla # "abierta" \/ ~primerPlano \/ inactivo # LOGOUT_TIME)
=============================================================================
