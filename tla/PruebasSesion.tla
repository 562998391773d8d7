---------------------------- MODULE PruebasSesion ----------------------------
(***************************************************************************)
(* Proofs about the session and its timer, for any number of timers, any   *)
(* time-out and any window: the type invariant, that an open session is    *)
(* always watched, that only a task that fell due can clear longTimer      *)
(* under the feet of startLogoutTimer, and that only orphans fall due on a *)
(* user who is not idle.                                                   *)
(***************************************************************************)
EXTENDS Sesion, TLAPS

\* The lock of the class is held where the code holds it, by one thread.
Cerrojo ==
    /\ candado = UI <=> ui \in {"anula", "borra", "crea", "programa"}
    /\ \A t \in Timers : candado = t <=> timer[t].pc \in {"anula", "borra"}

\* A task stops the timer twice at most, and starts with a fresh record.
Fichas ==
    \A t \in Timers :
        /\ timer[t].pc = "libre" => timer[t] = SinUsar
        /\ timer[t].pc \in {"creado", "programado", "ejecuta", "consulta"}
              => timer[t].paradas = 0
        /\ timer[t].pc \in {"para", "anula", "borra"} => timer[t].paradas <= 1
        /\ timer[t].pc = "creado" => timer[t].edad = 0

\* startLogoutTimer runs in the foreground only.
Visible == ui # "libre" => primerPlano

\* What longTimer holds while its methods run.
Campo ==
    /\ ui = "crea" => longTimer = Nulo
    /\ ui = "programa" /\ longTimer # Nulo => timer[longTimer].pc = "creado"
    /\ ui = "borra" \/ (\E t \in Timers : timer[t].pc = "borra") =>
          longTimer = Nulo \/ timer[longTimer].pc # "programado"

\* A timer that waits is in longTimer, no older than the last touch, or it is
\* an orphan.
Esperando ==
    \A t \in Timers : timer[t].pc = "programado" =>
        \/ t \in huerfanos
        \/ t = longTimer /\ timer[t].edad <= inactivo

InvSesion ==
    /\ TypeOK /\ Fichas /\ Cerrojo /\ Visible /\ Campo /\ Esperando
    /\ Vigilada /\ NuloSoloPorTarea /\ SoloHuerfanos

-----------------------------------------------------------------------------
(* Initial states, and steps that leave the timers alone. *)

\* The process starts on the login screen with no timer.
LEMMA InicioSesion == Init => InvSesion
<1>1. SUFFICES ASSUME Init PROVE InvSesion
  OBVIOUS
<1>2. TypeOK
  BY <1>1, MaxTimersAssumption, VentanaAssumption
     DEF Init, TypeOK, Lugares, Tareas, Timer, SinUsar, Timers, UI, Nulo
<1>3. Fichas /\ Cerrojo /\ Visible /\ Campo /\ Esperando
  BY <1>1, MaxTimersAssumption
     DEF Init, Fichas, Cerrojo, Visible, Campo, Esperando, SinUsar, Timers, UI, Nulo
<1>4. Vigilada /\ NuloSoloPorTarea /\ SoloHuerfanos
  BY <1>1 DEF Init, Vigilada, NuloSoloPorTarea, SoloHuerfanos, EnMarcha, SinUsar
<1>5. QED BY <1>2, <1>3, <1>4 DEF InvSesion

\* A new process starts as the first one did.
LEMMA ReinicioSesion == reiniciar => InvSesion'
<1>1. SUFFICES ASSUME reiniciar PROVE InvSesion'
  OBVIOUS
<1>2. TypeOK'
  BY <1>1, MaxTimersAssumption, VentanaAssumption
     DEF reiniciar, TypeOK, Lugares, Tareas, Timer, SinUsar, Timers, UI, Nulo
<1>3. Fichas' /\ Cerrojo' /\ Visible' /\ Campo' /\ Esperando'
  BY <1>1, MaxTimersAssumption
     DEF reiniciar, Fichas, Cerrojo, Visible, Campo, Esperando, SinUsar, Timers, UI, Nulo
<1>4. Vigilada' /\ NuloSoloPorTarea' /\ SoloHuerfanos'
  BY <1>1 DEF reiniciar, Vigilada, NuloSoloPorTarea, SoloHuerfanos, EnMarcha, SinUsar
<1>5. QED BY <1>2, <1>3, <1>4 DEF InvSesion

\* The user opens and closes screens and touches them.
LEMMA PasoUsuario == InvSesion /\ Usuario => InvSesion'
<1>1. SUFFICES ASSUME InvSesion, Usuario PROVE InvSesion'
  OBVIOUS
<1> USE DEF tocar, ingresar, cerrarSesion, dejar, volver, reloj
<1>2. timer' = timer /\ longTimer' = longTimer /\ candado' = candado
      /\ inactivo' = inactivo /\ huerfanos' = huerfanos
  BY <1>1 DEF Usuario
<1>3. TypeOK'
  <2>1. antiguedad' \in 0..(LOGOUT_TIME + 1)
    BY <1>1, VentanaAssumption DEF Usuario, InvSesion, TypeOK
  <2>2. QED BY <1>1, <1>2, <2>1 DEF Usuario, InvSesion, TypeOK, Lugares
<1>4. Fichas' /\ Esperando' /\ SoloHuerfanos'
  BY <1>1, <1>2 DEF InvSesion, Fichas, Esperando, SoloHuerfanos
<1>5. Cerrojo' /\ Visible' /\ Campo' /\ Vigilada' /\ NuloSoloPorTarea'
  BY <1>1, <1>2, MaxTimersAssumption
     DEF Usuario, InvSesion, TypeOK, Cerrojo, Visible, Campo, Vigilada,
         NuloSoloPorTarea, UI, Viva
<1>6. QED BY <1>3, <1>4, <1>5 DEF InvSesion

\* The clock: the timer in longTimer ages with the user.
LEMMA PasoTic == InvSesion /\ tic => InvSesion'
<1>1. SUFFICES ASSUME InvSesion, tic PROVE InvSesion'
  OBVIOUS
<1> USE DEF InvSesion, tic, reloj, Tope
<1>2. \A t \in Timers : /\ timer'[t].pc = timer[t].pc
                        /\ timer'[t].paradas = timer[t].paradas
                        /\ timer'[t].ocioso = timer[t].ocioso
  BY <1>1 DEF TypeOK, Timer
<1>3. \A t \in Timers : timer[t].pc # "programado" => timer'[t] = timer[t]
  BY <1>1
<1>4. TypeOK'
  <2>1. timer' \in [Timers -> Timer]
    BY <1>1, VentanaAssumption DEF TypeOK, Timer
  <2>2. QED BY <1>1, <2>1, VentanaAssumption DEF TypeOK
<1>5. Fichas'
  BY <1>1, <1>2, <1>3 DEF Fichas, SinUsar
<1>6. Esperando'
  BY <1>1, <1>2, VentanaAssumption DEF TypeOK, Timer, Esperando
<1>7. Cerrojo' /\ Visible' /\ Campo'
  BY <1>1, <1>2 DEF TypeOK, Cerrojo, Visible, Campo, Nulo
<1>8. Vigilada' /\ NuloSoloPorTarea' /\ SoloHuerfanos'
  BY <1>1, <1>2 DEF Vigilada, NuloSoloPorTarea, SoloHuerfanos
<1>9. QED BY <1>4, <1>5, <1>6, <1>7, <1>8

\* Another day changes the difference with horainicial only.
LEMMA PasoOtroDia == InvSesion /\ otroDia => InvSesion'
<1>1. SUFFICES ASSUME InvSesion, otroDia PROVE InvSesion'
  OBVIOUS
<1>2. TypeOK'
  BY <1>1, VentanaAssumption DEF otroDia, InvSesion, TypeOK
<1>3. QED
  BY <1>1, <1>2
     DEF otroDia, InvSesion, Fichas, Cerrojo, Visible, Campo, Esperando, Vigilada,
         NuloSoloPorTarea, SoloHuerfanos

\* The end of the process and a step of nobody change nothing of what the
\* invariant relates.
LEMMA PasoMorir == InvSesion /\ Morir => InvSesion'
<1>1. SUFFICES ASSUME InvSesion, Morir PROVE InvSesion'
  OBVIOUS
<1>2. TypeOK'
  BY <1>1 DEF Morir, reloj, InvSesion, TypeOK
<1>3. QED
  BY <1>1, <1>2
     DEF Morir, reloj, InvSesion, Fichas, Cerrojo, Visible, Campo, Esperando, Vigilada,
         NuloSoloPorTarea, SoloHuerfanos

LEMMA PasoNulo == InvSesion /\ UNCHANGED vars => InvSesion'
<1>1. SUFFICES ASSUME InvSesion, UNCHANGED vars PROVE InvSesion'
  OBVIOUS
<1>2. TypeOK'
  BY <1>1 DEF vars, reloj, InvSesion, TypeOK
<1>3. QED
  BY <1>1, <1>2
     DEF vars, reloj, InvSesion, Fichas, Cerrojo, Visible, Campo, Esperando, Vigilada,
         NuloSoloPorTarea, SoloHuerfanos

-----------------------------------------------------------------------------
(* startLogoutTimer. *)

\* The token moves two clocks and keeps their ranges.
LEMMA RangosRefrescar ==
    ASSUME TypeOK, Refrescar
    PROVE  /\ contador' \in 0..1
           /\ diferencia' \in 0..(VentanaHasta + 1)
           /\ antiguedad' \in 0..(LOGOUT_TIME + 1)
           /\ inactivo' = inactivo
<1>1. contador' \in 0..1 /\ inactivo' = inactivo
  BY DEF Refrescar
<1>2. diferencia' \in 0..(VentanaHasta + 1)
  BY VentanaAssumption DEF Refrescar, TypeOK
<1>3. antiguedad' \in 0..(LOGOUT_TIME + 1)
  BY VentanaAssumption DEF Refrescar, TypeOK
<1>4. QED BY <1>1, <1>2, <1>3

\* The UI thread takes the lock when nobody has it.
LEMMA PasoStart == InvSesion /\ startLogoutTimer => InvSesion'
<1>1. SUFFICES ASSUME InvSesion, startLogoutTimer PROVE InvSesion'
  OBVIOUS
<1> USE DEF InvSesion, startLogoutTimer, reloj
<1>2. TypeOK' /\ inactivo' = inactivo
  BY <1>1, RangosRefrescar DEF TypeOK, Lugares
<1>3. Fichas' /\ Esperando' /\ SoloHuerfanos' /\ Visible'
  BY <1>1, <1>2 DEF Fichas, Esperando, SoloHuerfanos, Visible
<1>4. Cerrojo' /\ Campo' /\ Vigilada' /\ NuloSoloPorTarea'
  BY <1>1, MaxTimersAssumption
     DEF TypeOK, Cerrojo, Campo, Vigilada, NuloSoloPorTarea, UI, Nulo, Timers
<1>5. QED BY <1>2, <1>3, <1>4

\* A timer that waits is dropped; the others are as they were.
LEMMA CancelarUno ==
    ASSUME TypeOK, NEW t \in Timers, NEW u \in Timers
    PROVE  /\ Cancelado(t) \in [Timers -> Timer]
           /\ u # t => Cancelado(t)[u] = timer[u]
           /\ timer[u].pc # "programado" => Cancelado(t)[u] = timer[u]
           /\ Cancelado(t)[t].pc # "programado"
           /\ timer[t].pc = "programado" => Cancelado(t)[t] = SinUsar
BY VentanaAssumption DEF TypeOK, Cancelado, Timer, Tareas, SinUsar

\* It cancels the timer of longTimer.
LEMMA PasoCancelarAnterior == InvSesion /\ cancelarAnterior => InvSesion'
<1>1. CASE InvSesion /\ Morir
  BY <1>1, PasoMorir
<1>2. ASSUME InvSesion, cancelarAnterior, longTimer # Nulo PROVE InvSesion'
  <2> USE DEF InvSesion, cancelarAnterior, reloj
  <2>1. longTimer \in Timers /\ timer' = Cancelado(longTimer)
        /\ longTimer' = longTimer /\ inactivo' = inactivo
        /\ ui = "anula" /\ ui' = "borra"
    BY <1>2 DEF TypeOK
  <2>2. \A u \in Timers : \/ timer'[u] = timer[u]
                          \/ timer[u].pc = "programado" /\ timer'[u] = SinUsar
    BY <1>2, <2>1, CancelarUno
  <2>3. TypeOK'
    BY <1>2, <2>1, CancelarUno DEF TypeOK, Lugares
  <2>4. Fichas'
    BY <1>2, <2>2 DEF Fichas, SinUsar
  <2>5. Cerrojo'
    BY <1>2, <2>1, <2>2, MaxTimersAssumption DEF Cerrojo, SinUsar
  <2>6. Visible' /\ Campo' /\ NuloSoloPorTarea' /\ Vigilada'
    BY <1>2, <2>1, CancelarUno DEF Visible, Campo, NuloSoloPorTarea, Vigilada
  <2>7. Esperando' /\ SoloHuerfanos'
    BY <1>2, <2>1, <2>2 DEF Esperando, SoloHuerfanos, SinUsar, EnMarcha
  <2>8. QED BY <2>3, <2>4, <2>5, <2>6, <2>7
<1>3. QED BY <1>1, <1>2 DEF cancelarAnterior

\* What it clears does not wait any more.
LEMMA PasoBorrarAnterior == InvSesion /\ borrarAnterior => InvSesion'
<1>1. SUFFICES ASSUME InvSesion, borrarAnterior PROVE InvSesion'
  OBVIOUS
<1> USE DEF InvSesion, borrarAnterior, reloj
<1>2. TypeOK' /\ inactivo' = inactivo
  BY <1>1, RangosRefrescar DEF TypeOK, Lugares
<1>3. Fichas' /\ SoloHuerfanos' /\ Visible' /\ Vigilada' /\ NuloSoloPorTarea'
  BY <1>1 DEF Fichas, SoloHuerfanos, Visible, Vigilada, NuloSoloPorTarea
<1>4. Cerrojo' /\ Campo'
  BY <1>1 DEF Cerrojo, Campo
<1>5. Esperando'
  BY <1>1, <1>2 DEF Campo, Esperando
<1>6. QED BY <1>2, <1>3, <1>4, <1>5

\* The new timer was in no field and in no hands.
LEMMA PasoCrear == InvSesion /\ crearTimer => InvSesion'
<1>1. SUFFICES ASSUME InvSesion, crearTimer PROVE InvSesion'
  OBVIOUS
<1> USE DEF InvSesion, crearTimer, reloj
<1>2. PICK t \in Timers : /\ timer[t].pc = "libre"
                          /\ longTimer' = t
                          /\ timer' = [timer EXCEPT ![t].pc = "creado"]
                          /\ huerfanos' = huerfanos \ {t}
  BY <1>1 DEF Libres
<1>3. /\ timer'[t].pc = "creado" /\ timer'[t].paradas = timer[t].paradas
      /\ timer'[t].edad = timer[t].edad
      /\ \A u \in Timers : u # t => timer'[u] = timer[u]
  BY <1>1, <1>2 DEF TypeOK, Timer
<1>4. TypeOK'
  BY <1>1, <1>2 DEF TypeOK, Timer, Tareas, Lugares
<1>5. Fichas'
  BY <1>1, <1>2, <1>3 DEF Fichas, SinUsar
<1>6. Cerrojo' /\ Visible' /\ Campo'
  BY <1>1, <1>2, <1>3, MaxTimersAssumption DEF Cerrojo, Visible, Campo, Nulo, Timers
<1>7. Esperando' /\ SoloHuerfanos'
  BY <1>1, <1>2, <1>3 DEF Esperando, SoloHuerfanos, Campo, EnMarcha, Nulo, Timers
<1>8. Vigilada' /\ NuloSoloPorTarea'
  BY <1>1, <1>2, <1>3, MaxTimersAssumption DEF Vigilada, NuloSoloPorTarea, Nulo, Timers
<1>9. QED BY <1>4, <1>5, <1>6, <1>7, <1>8

\* The timer is scheduled at age zero and the user was just served.
LEMMA PasoProgramar == InvSesion /\ programarTimer => InvSesion'
<1>1. CASE InvSesion /\ Morir
  BY <1>1, PasoMorir
<1>2. ASSUME InvSesion, programarTimer, longTimer # Nulo PROVE InvSesion'
  <2> USE DEF InvSesion, programarTimer, reloj, Ir
  <2>1. /\ longTimer \in Timers /\ longTimer' = longTimer
        /\ timer[longTimer].pc = "creado"
        /\ timer' = [timer EXCEPT ![longTimer].pc = "programado"]
        /\ ui = "programa" /\ ui' = "libre" /\ candado' = Nulo /\ inactivo' = 0
    BY <1>2 DEF TypeOK, Campo
  <2>2. /\ timer'[longTimer].pc = "programado"
        /\ timer'[longTimer].paradas = timer[longTimer].paradas
        /\ timer'[longTimer].edad = timer[longTimer].edad
        /\ \A u \in Timers : u # longTimer => timer'[u] = timer[u]
    BY <1>2, <2>1 DEF TypeOK, Timer
  <2>3. TypeOK'
    <3>1. inactivo' \in 0..LOGOUT_TIME
      BY <2>1, VentanaAssumption
    <3>2. QED BY <1>2, <2>1, <3>1 DEF TypeOK, Timer, Tareas, Lugares
  <2>4. Fichas'
    BY <1>2, <2>1, <2>2 DEF Fichas
  <2>5. Cerrojo'
    BY <1>2, <2>1, <2>2, MaxTimersAssumption DEF Cerrojo, UI, Nulo, Timers
  <2>6. Campo'
    BY <1>2, <2>1, <2>2, MaxTimersAssumption DEF Campo, Cerrojo, UI, Timers
  <2>7. Visible' /\ NuloSoloPorTarea' /\ Vigilada'
    BY <1>2, <2>1, <2>2 DEF Visible, NuloSoloPorTarea, Vigilada, EnMarcha, Tareas
  <2>8. Esperando' /\ SoloHuerfanos'
    BY <1>2, <2>1, <2>2 DEF Esperando, SoloHuerfanos, Fichas, EnMarcha
  <2>9. QED BY <2>3, <2>4, <2>5, <2>6, <2>7, <2>8
<1>3. QED BY <1>1, <1>2 DEF programarTimer

-----------------------------------------------------------------------------
(* The task of a timer. *)

\* Only an orphan falls due on a user who was served since.
LEMMA PasoVencer ==
    ASSUME NEW t \in Timers
    PROVE  InvSesion /\ vencer(t) => InvSesion'
<1>1. SUFFICES ASSUME InvSesion, vencer(t) PROVE InvSesion'
  OBVIOUS
<1> USE DEF InvSesion, vencer, EnTarea, reloj
<1>2. /\ timer[t].pc = "programado" /\ timer'[t].pc = "ejecuta"
      /\ timer'[t].paradas = timer[t].paradas
      /\ timer'[t].ocioso =
            (pantalla # "abierta" \/ ~primerPlano \/ inactivo = LOGOUT_TIME)
      /\ \A u \in Timers : u # t => timer'[u] = timer[u]
  BY <1>1 DEF TypeOK, Timer
<1>3. TypeOK'
  <2>1. (pantalla # "abierta" \/ ~primerPlano \/ inactivo = LOGOUT_TIME) \in BOOLEAN
    OBVIOUS
  <2>2. PICK o \in BOOLEAN :
           timer' = [timer EXCEPT ![t] = [@ EXCEPT !.pc = "ejecuta", !.ocioso = o]]
    BY <1>1, <2>1, Zenon
  <2>3. ASSUME NEW r \in Timer
        PROVE  [r EXCEPT !.pc = "ejecuta", !.ocioso = o] \in Timer
    BY Zenon DEF Timer, Tareas
  <2>4. timer' \in [Timers -> Timer]
    <3> DEFINE r == [timer[t] EXCEPT !.pc = "ejecuta", !.ocioso = o]
    <3>1. timer \in [Timers -> Timer] /\ timer[t] \in Timer
      BY <1>1 DEF TypeOK
    <3>2. r \in Timer
      BY <2>3, <3>1, Zenon
    <3>3. timer' = [timer EXCEPT ![t] = r]
      BY <2>2, Zenon
    <3> HIDE DEF r
    <3>4. QED BY <3>1, <3>2, <3>3
  <2>5. QED BY <1>1, <2>4 DEF TypeOK
<1>4. Fichas' /\ Cerrojo' /\ Visible' /\ Campo' /\ Esperando'
  BY <1>1, <1>2 DEF Fichas, Cerrojo, Visible, Campo, Esperando
<1>5. Vigilada' /\ NuloSoloPorTarea'
  BY <1>1, <1>2 DEF Vigilada, NuloSoloPorTarea, EnMarcha, Tareas
<1>6. SoloHuerfanos'
  <2>1. t \in huerfanos \/ inactivo = LOGOUT_TIME
    BY <1>1, <1>2, VentanaAssumption DEF Esperando, TypeOK
  <2>2. QED BY <1>1, <1>2, <2>1 DEF SoloHuerfanos
<1>7. QED BY <1>3, <1>4, <1>5, <1>6

\* Whatever longTimer held besides the timer of the task becomes an orphan.
LEMMA PasoOlvidar ==
    ASSUME NEW t \in Timers
    PROVE  InvSesion /\ olvidar(t) => InvSesion'
<1>1. SUFFICES ASSUME InvSesion, olvidar(t) PROVE InvSesion'
  OBVIOUS
<1> USE DEF InvSesion, olvidar, EnTarea, Ir, reloj
<1>2. /\ timer[t].pc = "ejecuta" /\ timer'[t].pc = "consulta"
      /\ timer'[t].paradas = timer[t].paradas
      /\ timer'[t].ocioso = timer[t].ocioso
      /\ \A u \in Timers : u # t => timer'[u] = timer[u]
  BY <1>1 DEF TypeOK, Timer
<1>3. TypeOK'
  BY <1>1 DEF TypeOK, Timer, Tareas
<1>4. Fichas' /\ Cerrojo' /\ Visible' /\ Campo' /\ Esperando'
  BY <1>1, <1>2 DEF Fichas, Cerrojo, Visible, Campo, Esperando
<1>5. Vigilada' /\ NuloSoloPorTarea' /\ SoloHuerfanos'
  BY <1>1, <1>2 DEF Vigilada, NuloSoloPorTarea, SoloHuerfanos, EnMarcha, Tareas
<1>6. QED BY <1>3, <1>4, <1>5

\* In the foreground the task always goes on.
LEMMA PasoConsultar ==
    ASSUME NEW t \in Timers
    PROVE  InvSesion /\ consultarPrimerPlano(t) => InvSesion'
<1>1. SUFFICES ASSUME InvSesion, consultarPrimerPlano(t) PROVE InvSesion'
  OBVIOUS
<1> USE DEF InvSesion, consultarPrimerPlano, EnTarea, Ir, reloj
<1>2. /\ timer[t].pc = "consulta"
      /\ \/ /\ timer'[t].pc = "para"
            /\ timer'[t].paradas = timer[t].paradas
            /\ timer'[t].ocioso = timer[t].ocioso
         \/ ~primerPlano /\ timer'[t] = SinUsar
      /\ \A u \in Timers : u # t => timer'[u] = timer[u]
  BY <1>1 DEF TypeOK, Timer
<1>3. TypeOK'
  <2>1. SinUsar \in Timer
    BY VentanaAssumption DEF SinUsar, Timer, Tareas
  <2>2. timer' \in [Timers -> Timer]
    BY <1>1, <2>1 DEF TypeOK, Timer, Tareas
  <2>3. QED BY <1>1, <2>2 DEF TypeOK
<1>4. Fichas' /\ Visible' /\ Esperando'
  BY <1>1, <1>2 DEF Fichas, Visible, Esperando, SinUsar
<1>5. Cerrojo'
  BY <1>1, <1>2 DEF Cerrojo, SinUsar
<1>6. Campo'
  BY <1>1, <1>2 DEF Campo, TypeOK, SinUsar
<1>7. Vigilada' /\ NuloSoloPorTarea' /\ SoloHuerfanos'
  BY <1>1, <1>2
     DEF Vigilada, NuloSoloPorTarea, SoloHuerfanos, Visible, EnMarcha, Tareas, SinUsar
<1>8. QED BY <1>3, <1>4, <1>5, <1>6, <1>7

\* The UI thread holds the lock while it uses longTimer, so no task passes here.
LEMMA PasoStop ==
    ASSUME NEW t \in Timers
    PROVE  InvSesion /\ stopLogoutTimer(t) => InvSesion'
<1>1. SUFFICES ASSUME InvSesion, stopLogoutTimer(t) PROVE InvSesion'
  OBVIOUS
<1> USE DEF InvSesion, stopLogoutTimer, EnTarea, Ir, Despues, reloj
<1>2. /\ timer[t].pc = "para" /\ candado = Nulo
      /\ timer'[t].ocioso = timer[t].ocioso
      /\ \/ /\ candado' = t /\ timer'[t].pc = "anula"
            /\ timer'[t].paradas = timer[t].paradas
         \/ /\ candado' = Nulo /\ timer'[t].pc \in {"para", "abre"}
            /\ timer'[t].pc = "para" => timer'[t].paradas = 1
      /\ \A u \in Timers : u # t => timer'[u] = timer[u]
  BY <1>1 DEF TypeOK, Timer
<1>3. TypeOK'
  BY <1>1 DEF TypeOK, Fichas, Timer, Tareas
<1>4. Fichas' /\ Visible' /\ Campo' /\ Esperando'
  <2>1. Fichas'
    BY <1>1, <1>2 DEF Fichas, SinUsar
  <2>2. Visible' /\ Esperando'
    BY <1>1, <1>2 DEF Visible, Esperando, Campo
  <2>3. Campo'
    BY <1>1, <1>2 DEF Campo, TypeOK
  <2>4. QED BY <2>1, <2>2, <2>3
<1>5. Cerrojo'
  BY <1>1, <1>2, MaxTimersAssumption DEF Cerrojo, UI, Nulo, Timers
<1>6. Vigilada' /\ SoloHuerfanos'
  BY <1>1, <1>2 DEF Vigilada, SoloHuerfanos, EnMarcha, Tareas
<1>7. NuloSoloPorTarea'
  BY <1>1, <1>2, MaxTimersAssumption DEF NuloSoloPorTarea, Cerrojo, UI, Nulo
<1>8. QED BY <1>3, <1>4, <1>5, <1>6, <1>7

\* The task cancels what it finds in longTimer.
LEMMA PasoCancelarActual ==
    ASSUME NEW t \in Timers
    PROVE  InvSesion /\ cancelarActual(t) => InvSesion'
<1>1. CASE InvSesion /\ Morir
  BY <1>1, PasoMorir
<1>2. ASSUME InvSesion, cancelarActual(t), longTimer # Nulo PROVE InvSesion'
  <2> USE DEF InvSesion, cancelarActual, EnTarea, reloj
  <2>1. /\ longTimer \in Timers /\ longTimer' = longTimer /\ timer[t].pc = "anula"
        /\ timer' = [Cancelado(longTimer) EXCEPT ![t].pc = "borra"]
    BY <1>2 DEF TypeOK
  <2>2. Cancelado(longTimer) \in [Timers -> Timer] /\ Cancelado(longTimer)[t] = timer[t]
    BY <1>2, <2>1, CancelarUno
  <2>3. /\ timer'[t].pc = "borra" /\ timer'[t].paradas = timer[t].paradas
        /\ timer'[t].ocioso = timer[t].ocioso
        /\ \A u \in Timers : u # t => timer'[u] = Cancelado(longTimer)[u]
    BY <2>1, <2>2 DEF Timer
  <2>4. /\ timer'[longTimer].pc # "programado"
        /\ \A u \in Timers : u # t =>
              \/ timer'[u] = timer[u]
              \/ timer[u].pc = "programado" /\ timer'[u] = SinUsar
    BY <1>2, <2>1, <2>3, CancelarUno
  <2>5. TypeOK'
    BY <1>2, <2>1, <2>2 DEF TypeOK, Timer, Tareas
  <2>6. Fichas'
    BY <1>2, <2>1, <2>3, <2>4 DEF Fichas, SinUsar
  <2>7. Cerrojo' /\ Visible' /\ Campo'
    BY <1>2, <2>1, <2>3, <2>4 DEF Cerrojo, Visible, Campo, SinUsar
  <2>8. Esperando' /\ SoloHuerfanos'
    BY <1>2, <2>1, <2>3, <2>4 DEF Esperando, SoloHuerfanos, SinUsar, EnMarcha, Tareas
  <2>9. Vigilada' /\ NuloSoloPorTarea'
    BY <1>2, <2>1, <2>3, <2>4 DEF Vigilada, NuloSoloPorTarea, SinUsar, EnMarcha, Tareas
  <2>10. QED BY <2>5, <2>6, <2>7, <2>8, <2>9
<1>3. QED BY <1>1, <1>2 DEF cancelarActual

\* The task clears the field under the lock.
LEMMA PasoBorrarActual ==
    ASSUME NEW t \in Timers
    PROVE  InvSesion /\ borrarActual(t) => InvSesion'
<1>1. SUFFICES ASSUME InvSesion, borrarActual(t) PROVE InvSesion'
  OBVIOUS
<1> USE DEF InvSesion, borrarActual, EnTarea, Despues, reloj
<1>2. /\ timer[t].pc = "borra" /\ candado = t
      /\ timer'[t].ocioso = timer[t].ocioso
      /\ timer'[t].pc \in {"para", "abre"}
      /\ timer'[t].pc = "para" => timer'[t].paradas = 1
      /\ \A u \in Timers : u # t => timer'[u] = timer[u]
  BY <1>1 DEF TypeOK, Cerrojo, Timer
<1>3. TypeOK'
  BY <1>1 DEF TypeOK, Fichas, Timer, Tareas
<1>4. Fichas' /\ Visible' /\ Campo' /\ Esperando'
  <2>1. Fichas'
    <3>1. SUFFICES ASSUME NEW u \in Timers
                   PROVE  Fichas!(u)'
      BY DEF Fichas
    <3>2. CASE u = t
      BY <1>2, <3>2
    <3>3. CASE u # t
      BY <1>1, <1>2, <3>3 DEF Fichas
    <3>4. QED BY <3>2, <3>3
  <2>2. Visible' /\ Esperando'
    BY <1>1, <1>2 DEF Visible, Esperando, Campo
  <2>3. Campo'
    BY <1>1, <1>2 DEF Campo, TypeOK
  <2>4. QED BY <2>1, <2>2, <2>3
<1>5. Cerrojo'
  <2>1. candado' # UI /\ ui \notin {"anula", "borra", "crea", "programa"}
    BY <1>1, <1>2, MaxTimersAssumption DEF Cerrojo, UI, Nulo, Timers
  <2>2. \A u \in Timers : timer'[u].pc \notin {"anula", "borra"}
    BY <1>1, <1>2 DEF Cerrojo
  <2>3. \A u \in Timers : candado' # u
    BY <1>1, MaxTimersAssumption DEF Nulo, Timers
  <2>4. QED BY <1>1, <2>1, <2>2, <2>3 DEF Cerrojo
<1>6. Vigilada' /\ SoloHuerfanos'
  BY <1>1, <1>2 DEF Vigilada, SoloHuerfanos, EnMarcha, Tareas
<1>7. NuloSoloPorTarea'
  BY <1>1, <1>2, MaxTimersAssumption DEF NuloSoloPorTarea, Cerrojo, UI, Timers
<1>8. QED BY <1>3, <1>4, <1>5, <1>6, <1>7

\* The task ends at the login screen.
LEMMA PasoDoLogout ==
    ASSUME NEW t \in Timers
    PROVE  InvSesion /\ doLogout(t) => InvSesion'
<1>1. SUFFICES ASSUME InvSesion, doLogout(t) PROVE InvSesion'
  OBVIOUS
<1> USE DEF InvSesion, doLogout, EnTarea, reloj
<1>2. /\ timer[t].pc = "abre" /\ timer'[t] = SinUsar
      /\ \A u \in Timers : u # t => timer'[u] = timer[u]
  BY <1>1 DEF TypeOK
<1>3. TypeOK'
  BY <1>1, VentanaAssumption DEF TypeOK, Timer, Tareas, SinUsar
<1>4. Fichas' /\ Cerrojo' /\ Visible' /\ Campo' /\ Esperando'
  BY <1>1, <1>2 DEF Fichas, Cerrojo, Visible, Campo, Esperando, SinUsar
<1>5. Vigilada' /\ NuloSoloPorTarea' /\ SoloHuerfanos'
  BY <1>1, <1>2 DEF Vigilada, NuloSoloPorTarea, SoloHuerfanos, EnMarcha, SinUsar
<1>6. QED BY <1>3, <1>4, <1>5

-----------------------------------------------------------------------------
(* Every step, and the theorems. *)

LEMMA PasoSesion == InvSesion /\ [Next]_vars => InvSesion'
<1>1. SUFFICES ASSUME InvSesion, [Next]_vars PROVE InvSesion'
  OBVIOUS
<1>2. CASE UNCHANGED vars
  BY <1>1, <1>2, PasoNulo
<1>3. CASE Usuario \/ tic \/ otroDia \/ reiniciar
  BY <1>1, <1>3, PasoUsuario, PasoTic, PasoOtroDia, ReinicioSesion
<1>4. CASE HiloUI
  BY <1>1, <1>4, PasoStart, PasoCancelarAnterior, PasoBorrarAnterior, PasoCrear,
     PasoProgramar DEF HiloUI
<1>5. CASE \E t \in Timers : Tarea(t)
  BY <1>1, <1>5, PasoVencer, PasoOlvidar, PasoConsultar, PasoStop, PasoCancelarActual,
     PasoBorrarActual, PasoDoLogout DEF Tarea
<1>6. QED BY <1>1, <1>2, <1>3, <1>4, <1>5 DEF Next

\* For any number of timers, any time-out and any window, every variable of the
\* session keeps its type; a task stops the timer twice at most.
THEOREM TipoSesionCorrecto == Spec => []TypeOK
<1>1. InvSesion => TypeOK
  BY DEF InvSesion
<1>2. QED BY InicioSesion, PasoSesion, <1>1, PTL DEF Spec

\* The open session in the foreground always has a timer that waits or a task
\* on the way to the login screen (startLogoutTimer, run, stopLogoutTimer).
THEOREM SesionVigilada == Spec => []Vigilada
<1>1. InvSesion => Vigilada
  BY DEF InvSesion
<1>2. QED BY InicioSesion, PasoSesion, <1>1, PTL DEF Spec

\* The field read twice by startLogoutTimer is null at the second reading only
\* if the task of a timer that fell due cleared it without the lock (run).
THEOREM NuloPorTarea == Spec => []NuloSoloPorTarea
<1>1. InvSesion => NuloSoloPorTarea
  BY DEF InvSesion
<1>2. QED BY InicioSesion, PasoSesion, <1>1, PTL DEF Spec

\* A timer that falls due on a user who is not idle is one that longTimer lost
\* to the task of another (run).
THEOREM HuerfanosExpulsan == Spec => []SoloHuerfanos
<1>1. InvSesion => SoloHuerfanos
  BY DEF InvSesion
<1>2. QED BY InicioSesion, PasoSesion, <1>1, PTL DEF Spec
=============================================================================
