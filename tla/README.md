# Corresponsal: a TLA+ development

Corresponsal is an Android terminal for a banking correspondent: Java screens
(`app/src/main/java`) over a native core (`app/src/main/cpp`, reached by JNI
through `Base/native-lib.cpp`) that assembles ISO-8583 messages, exchanges them
with the acquirer, keeps a reversal file against lost answers and a journal of
what was approved.  In this build the Bancolombia transactions are only packed by
the native core; the confirmation screen sends the frame to a server over HTTPS.
This directory models the parts where money can be lost: the native dialogue
between files, network and the books of the acquirer's host; the journal of what
was approved and its settlement; the second reversal file, of the loyalty points;
the tables the terminal works with and their download; whose data goes into the
frames of the correspondent operations; the confirmation screen with its worker
threads; the session timer that may interrupt it; and the login, which decides
whose data the session works with.

Paths below are relative to `src/app/src/main/`.

## 1. Inventory

### 1.1 Native core

| component | state | operations | correct when |
|---|---|---|---|
| Communications, `cpp/Base/comunicaciones.cpp` | socket, `conectado`; `REVERSO.TXT`, `TEMPORAL`; parameter `TIPO_TRANSACCION` | `realizarTransaccion` over TLS or TCP, `generarReverso`, `verificarReversoExistente` | a request that may reach the host has its reversal on file first; a pending reversal goes before any new request; the file holds one frame |
| EMV sale, `cpp/Venta/emv_venta.cpp`, `core_venta.cpp` | `RESPALDO`, retry counter, `JOURNAL` | `realizarVentaEMV`, `verificacionLlegadaTrama` | what the host approved is recorded or will be reversed; never charged twice |
| Void, `cpp/Venta/anulacion_venta.cpp` | the record of the sale in `JOURNAL` | `anularTransaccion`, `cambiarEstadoTransaccion` | a sale is voided once; the record agrees with the host |
| Balance query, `cpp/Venta/saldo_venta.cpp` | `TIPO_TRANSACCION` | `consultarSaldo` | does not disturb the reversal discipline |
| Reversal menu, `cpp/Base/menu.cpp` | `REVERSO.TXT` | `mostrarReverso`, `mostrarDetalleReverso`, `capturarEliminarReverso` | the user can settle a pending reversal |
| JNI entry points, `cpp/Base/native-lib.cpp` | globals shared by all entry points | one function per screen action; `guardarTransaccion`, directory | one operation at a time on one socket |
| ISO messages, `cpp/Base/Mensajeria.cpp`, `cpp/Caja/Mensajeria_caja.cpp` | field slots, token slots, pack buffer, all global | `setField`, `getField`, `packISO`, `unpackISO` | what is unpacked is what was packed; no slot survives from the previous message |
| Puntos Colombia, `cpp/Venta/puntosColombia.cpp`, `cpp/Caja/CajaIP.cpp` | `REVPC`, `REVAUXPC`; journal | accumulation, consultation, their reversal | its reversal does not hide `REVERSO.TXT`; an accumulation is recorded or reversed, never both |
| Journal and directory, `cpp/Base/Archivos.cpp`, `native-lib.cpp`, `cpp/Venta/duplicado_venta.cpp` | `JOURNAL`, `DIRECTORIO_JOURNALS`, parameter `INVOICE` | append, the two searches by receipt, write of a field | a receipt number finds its own record |
| Settlement, `cpp/Venta/cierre_venta.cpp` | totals; the journal | totals 0500, upload 0320, last totals, erasure | totals are those of the host's batch; nothing erased before it is delivered, nothing delivered twice |
| Bancolombia operations, `cpp/Bancolombia/*.cpp` | `datosVentaBancolombia`, `globalpinblock`, `globalCampo55`, file `TARJETA_CNB`, all shared | deposit, withdrawals, transfer, payment, collection, remittances, balance | a frame carries the data of its own operation |
| Electronic money, QR, DCC, loyalty, taxes | the dialogue's state, own counters | one module each in `cpp/Venta`, `cpp/LifeMiles` | as the sale |
| Cash register link, `cpp/Caja` | its own frames and socket | sale on request of a register | not reachable from JNI in this build |
| Initialization, `cpp/Base/Inicializacion.cpp`, `configuracion.cpp` | tables and their backup, `TERMINAL_INICIALIZADA`, number, settings, addresses, `CONSECUTIVO` | table download, restoration, change of number | a broken download leaves the old tables; tables, number, settings and addresses are of one download |
| Configuration, `cpp/Base/configuracion.cpp` | none of its own | `setearTransaccion`, names of types | - |
| Duplicates and reports | none | read the journal, print | - |

### 1.2 Java

| component | state | operations | correct when |
|---|---|---|---|
| Confirmation screen and workers, `pantallas/comunes/pantallaConfirmacion`, `funciones/Hilos.java`, `Servicios.generarVenta` | fields `dialog`, `respuestaC`, `resp`, shared by the UI thread and two workers; the static handler | confirm, pack, send, show the outcome | what is shown is what the server answered to this screen; one request at a time; the request carries its own frame |
| Session time-out, `funciones/{TimeOutSesion,BaseActivity}.java` | static `longTimer`, `contador`, `horainicial`; the Timer objects | start and stop the timer, log out, refresh the token | an idle user is logged out and an active one is not; the token of a session in use is refreshed |
| Login and users, `pantallas/comunes/logIn`, the other calls of `Servicios` | token, state and loader of each screen, preferences; a chain of messages to a static handler | token, login, parameters, location, change and recovery of a password | one chain per screen; every failure closes the loader and is told apart; the preferences of a session are of one user |
| EMV kernel, pinpad, `core/comunicacion`, `emv` | vendor callbacks | card reading, PIN | - |
| Other screens | none | layout, navigation | - |

### 1.3 How they interact

A screen calls one JNI function.  A financial one opens the connection
(`conectarTls`/`connect`), assembles a frame under a new STAN and calls
`realizarTransaccion`.  That first calls `verificarReversoExistente`, which
sends the content of `REVERSO.TXT` as a 0400 if there is one
(`generarReverso`), then appends the new frame to `REVERSO.TXT`, writes it to
the socket and waits 30 s.  On a reply the operation checks the code and, if
approved, that the fields of the reply are those of the frame; if they are not,
it reverses and retries up to `MAX_INTENTOS_VENTA` times.  An accepted approval
is recorded in `JOURNAL` and its reversal deleted, in an order that differs
from one operation to another.  Every function closes the connection before it
returns.  Nothing else acknowledges an approval, so the files are all that
ties the terminal to the host's books.

On the Java side the confirm button opens a loader that cannot be cancelled and
starts a worker.  That has `Hilos` pack the frame through JNI, stores it in
`respuestaC` and posts `enviarTransaccion` to the UI thread, which starts a second
worker: `Servicios.generarVenta` posts the frame, waits, sends message 1 (answer)
or 2 (failure) to the static handler of the class, and returns the answer, which
the worker stores in `resp`.  The handler reads `resp` and opens the success or
the failure screen.  Meanwhile every touch of any screen restarts the idle timer,
whose task may put the login screen on top at any moment.

The login is a chain of workers: each asks the server, keeps what it got in a field
or in the preferences and sends a message to `LogIn.respuesta`, whose handler
starts the next one (1 token, 4 state, 6 bank parameters, 5 location, 7 session; 3 is
a failed load).  The two password screens work alike with one or two workers.

### 1.4 What is hard here

* The host may have approved when the terminal sees a time-out, a broken socket
  or a power cut.  Two writes (journal, reversal file) are never one.
* `REVERSO.TXT` is opened for append and read as a single message.
* `TIPO_TRANSACCION` is a parameter that outlives the operation and is read
  before it is set.
* The retry loops reuse the STAN; the reversal inside them replaces the message
  under way in the global slots.
* The void trusts a receipt consulted earlier.
* The user can delete a pending reversal; the host can refuse it.
* `generarVenta` sends its message before its caller stores the answer, and the
  handler belongs to the last screen created, not to the one that asked.
* An exception while packing is swallowed, and the request is sent all the same.
* A lost answer lets the user confirm again; nothing ties the two requests.
* The handler of the login is that of the last login screen, so a timer left by
  the session before can divert the messages of the login under way.
* The preferences of a user are committed in four steps by three workers.
* `longTimer` is cleared by the task of a timer without the lock that the other
  accesses take.
* Journal and directory are two files, a void is five writes over a record, and
  receipts start again at 1 after 999998.
* The totals are counted before a pending reversal goes out; an upload may be cut
  after any record.
* Two reversal files stand behind one gate, which keeps the result of the second.
* A download renames, deletes and writes some forty files, with one parameter to
  say how far it went.
* The correspondent operations pack from one record that each clears in part.

`PROJECT.json` lists each hazard with its line and the properties that catch it.

## 2. The modules

| module | stands for |
|---|---|
| `Comunicaciones` | the state of the whole dialogue and the terminal's protocol steps (`comunicaciones.cpp`) |
| `TransaccionesVenta` | extends it with the operations that use it (sale, void, balance query, reversal menu), the host, the network, power cuts, `Spec`, the properties, the refinement mapping, fairness |
| `CobroAbstracto` | what the terminal promises about one STAN, without files, messages or steps |
| `InvariantesVenta` | the inductive invariant `IInv` of the native dialogue |
| `MCTransaccionesVenta` | the instance that TLC checks |
| `PruebasVenta` | that `IInv` is inductive, its theorems, the refinement |
| `Confirmacion` | the confirmation screen, its two workers, the UI thread's queue, the server |
| `PruebasConfirmacion` | its inductive invariant and proofs |
| `Sesion` | the idle timer, its task's thread, the decision to refresh the token |
| `PruebasSesion` | its inductive invariant and proofs |
| `Ingreso` | the login and password screens, their workers, the services they call, the preferences |
| `MCIngreso` | the symmetry of its users |
| `PruebasIngreso` | its inductive invariant and proofs |
| `Diario` | the journal, its directory, the receipt counter, and what is done to them |
| `Cierre` | extends it with sales, voids, the consultation before a void, the settlement, the host's batch |
| `PruebasCierre` | the inductive invariants and proofs of both |
| `PuntosColombia` | accumulation and consultation of points, `REVPC` and `REVAUXPC`, the gate, the points server |
| `PruebasPuntos` | its inductive invariant and proofs |
| `Inicializacion` | download, backup and restoration of the tables, change of the terminal number |
| `MCInicializacion` | its symmetry set |
| `PruebasInicializacion` | its inductive invariant and proofs |
| `Tramas` | whose data goes into the frames of the ten correspondent operations |
| `PruebasTramas` | its inductive invariant and proofs |

`Confirmacion` and `Ingreso` take the logout of `Sesion` as an action that may happen
at any time (in `Ingreso` while a timer waits).  `Cierre` and `PuntosColombia` take an
exchange of `TransaccionesVenta` as one step, and its gaps as a history variable
`huecos`.  `Tramas` packs the frames that `Confirmacion` sends.  Screens, the session
and the native dialogue share no other state.

### 2.1 State of the native dialogue

| variable | code |
|---|---|
| `archivoReverso` | `REVERSO.TXT`, as the sequence of the STANs of the frames appended to it |
| `respaldo` | the file `RESPALDO` with the sale's frame |
| `journal` | `JOURNAL`; a void is recorded by overwriting the sale's record, here its own STAN |
| `tipo`, `consecutivo` | parameters `TIPO_TRANSACCION`, `CONSECUTIVO` |
| `objetivo` | which sale the frame of a STAN voids (the receipt number in the frame) |
| `op`, `pc`, `trama`, `intentos`, `generaReverso`, `origen` | the call stack: operation, place in it, the frame, the loop counter, the `generaReverso` argument of `realizarTransaccion`, the caller of `generarReverso` |
| `conectado` | the global of the same name |
| `peticion`, `respuesta` | the connection, one message each way |
| `vigente` | the host's books |
| `eliminadas`, `negadas`, `cortadas`, `sinReverso` | history: the four gaps of section 4 |

### 2.2 Actions of the native dialogue

Every action is one stretch of code between two effects another party can see
(a file write, a message sent, a message read).  `verificarReversoExistente`,
`enviarReverso`, `reversoRespondido`, `reversoPendiente`, `escribirReverso`,
`enviarTrama`, `conexionFallida`, `tiempoAgotado` are `realizarTransaccion` and
the functions it calls; `iniciarVenta`, `respuestaAprobada`,
`respuestaDesajustada`, `respuestaDeclinada`, `borrarReversoVenta`,
`guardarTransaccion` are `realizarVentaEMV`; the void differs in
`iniciarAnulacion`, `cambiarEstadoTransaccion`, `borrarReversoAnulacion`, the
balance query in `iniciarSaldo`, `respuestaSaldo`.  `mostrarReverso` and
`capturarEliminarReverso` are the menu.  `hostFinanciera`, `hostReverso`,
`hostSaldo`, `perder` and `caida` are the environment: the host may approve,
decline, answer with fields of another frame, refuse a reversal or answer it
with the wrong message; either message may be lost; the power may go at any
step, which leaves the files as they are.

### 2.3 The confirmation screen

| variable | code |
|---|---|
| `instancia`, `pantalla`, `clase` | the screens created so far, what each shows, the branch of `confirmarValores` its transaction takes |
| `dialogo`, `respuestaC`, `resp` | the fields `dialog`, `respuestaC`, `resp` of each screen; a frame is the number of the press that packed it |
| `intento` | one record per press of the button: its screen, the place of its worker, the frame sent |
| `cola` | the queue of the UI thread: posts of `enviarTransaccion` and messages 1 and 2, each with the screen whose field or handler it uses |
| `servidor` | what the server did with each request |
| `viva` | whether the process runs: an uncaught exception ends it |
| `sinEmpaque`, `cruzadas` | history: swallowed exceptions; screens that got a message of another one's worker |

`confirmarValores`, `cancelarValores`, `onCreate`, `doLogout` are the user and the
session; `transaccionesSinTarjeta`, `excepcionEmpaque` the first worker;
`generarVenta`, `devolverRespuesta`, `excepcionRespuesta`, `devolverError` the
second one, split where it sends its message and where its caller assigns `resp`;
`cerrarConsulta`, `enviarTransaccion`, `mensajeRespuesta`, `mensajeError` the UI
thread, one post at a time.  `decidir`, `caida`, `reiniciar` are the environment.

The five classes stand for the branches of `confirmarValores`: the deposit logs
the frame (and a null frame ends the process, `pantallaConfirmacion.java:452`);
remittances, withdrawals without card and payments keep the frame; the query of
a remittance to cancel drops it (`:558`); card transactions pack outside any `try`;
the query of bills sends nothing.  The branches for the manual payment of a bill
and the cancellation of a remittance cannot be reached: the code that opens the
screens before them is in comments (`Hilos.java:181-187`, `:199-270`).

### 2.4 The session

| variable | code |
|---|---|
| `longTimer`, `contador` | the static fields |
| `timer` | the Timer objects: where the task is, age, calls of `stopLogoutTimer` made; `ocioso` remembers whether the user was idle when it fell due |
| `ui` | the place of the UI thread in `startLogoutTimer` |
| `candado` | the lock of the class |
| `diferencia` | `segundahora - horainicial`; one value stands for all outside 0..VentanaHasta |
| `inactivo`, `antiguedad` | time since a touch was served; time since the token was issued |
| `huerfanos` | history: timers that were scheduled when a task cleared `longTimer` |

One action per read or write of `longTimer`: `startLogoutTimer`, `cancelarAnterior`,
`borrarAnterior`, `crearTimer`, `programarTimer` are the method of that name;
`vencer`, `olvidar`, `consultarPrimerPlano` and `doLogout` are `run`;
`stopLogoutTimer`, `cancelarActual`, `borrarActual` the other method, called twice by
a task.  A Timer object is used again when it is over (`MaxTimers` at once).

### 2.5 The login

| variable | code |
|---|---|
| `n`, `frente` | the screens created so far, the one in front (0 for any of the session) |
| `campo` | the fields of a screen: `token`, `estadoConexion` or `respuestaServidor` (`estado`), user, `dialog`, the pop-up shown; `servicio` tells whether its `Servicios` got a response |
| `hilo` | the workers (`solicitudToken`, `solicitudInicioSesion`, ...) and the location listener |
| `cola` | the messages for the static handlers |
| `temporizador` | whether `TimeOutSesion.longTimer` waits |
| `prefs` | per key, the user whose data it holds |
| `vida` | the process, and what ended it |
| `relevo` | history: a screen was created while a chain was under way |

`inicioSesion`, `solicitarClaveTemporal`, `cambiarContrasena` are the presses;
`solicitarToken`, `pedir`, `Login`, `guardarClave`, `obtenerParametricas`,
`obtenerParametricasBanco`, `onLocationChanged`, `pedirCambio`,
`cambiarContrasenaServicio` (`cambiarContraseña`), `obtenerContrasenaTemporal` are the
workers, split at each commit of the preferences, at the assignment of what a service
returned (`asignar`) and at the message (`sendMessage`); `mensaje...` are the cases of
the handlers.  The terminal code is not a key here: `setTerminalCode` never commits it
(`PreferencesUsuario.java:170`).

### 2.6 The journal and the settlement

| variable | code |
|---|---|
| `journal`, `directorio` | `JOURNAL`, `DIRECTORIO_JOURNALS`: a record is its sale, its receipt and the fields a void has written over it |
| `invoice` | parameter `INVOICE` |
| `reverso`, `vigente` | `REVERSO.TXT` and whether the host approved the frame in it |
| `consultada` | `globalTramaVenta`, what the consultation read |
| `op`, `pc`, `venta`, `recibo`, `indice` | the operation, the place in it, its sale and receipt, the counter of its loop |
| `cobradas`, `entregadas` | the host: the open batch; what it settled or got by upload |
| `huecos`, `inconclusa` | history: sales in a gap; a settlement that ended before its last answer |

`iniciarVenta`, `realizarConsultaReciboAnulacion`, `iniciarAnulacion`, `iniciarCierre`,
`eliminarReverso` are what the user starts; `verificarReversoExistente`, `aprobada`,
`declinada`, `sinRespuesta`, `sinReverso` the exchange; `borrarReverso`,
`guardarTransaccion`, `guardarDirectorio`, `cambiarEstadoTransaccion` the writes, one
at a time in the order of the code, which differs between sale and void;
`enviarTotales`, `subirVenta`, `enviarTotalesFinales`, `borrarJournal` are
`_cierreVenta_`.  A total is a count, with the digits the code keeps of it, and the set
of the sales added up.

### 2.7 The points

`reverso`, `revpc`, `revaux`, `registradas` are the files `REVERSO.TXT`, `REVPC`,
`REVAUXPC` and the journal; `acumuladas` the books of the points server.
`acumularPuntosColombia`, `redimirPuntosColombiaConsulta` and `iniciarVenta` start an
operation; `generarReverso`, `anulacionAprobada`, `anulacionRechazada`,
`anulacionPendiente`, `sinPendiente` are the gate; `aprobada`, `declinada`, `rechazada`,
`sinRespuesta`, `sinConexion`, `borrarAuxiliar`, `guardarTransaccion` the rest of
`solicitudPuntosColombia` and its caller; `eliminarReversoExistente`, `enviarReverso`
the menu.  A redemption has no caller from the screens.

### 2.8 The initialization

`tabla` and `respaldo` hold, per table, the download it came from; `estado`, `numero`,
`auxiliar`, `cambio`, `ajustes`, `conexion` are the parameters; `contenido` and
`destino` what each download has and the number it is for.  Five tables stand for all:
1, whose backup the restoration trusts; 4, the addresses; a numbered one that not every
download has; TABPAR, the settings, which ends the download; and one with a name of its own
(PUNTOS, BONOS, EMISOR, BIEMIS, EXCEPC, MULTIP, MULTICO, TABLDCC), which TABPAR may ask for.
The two kinds of optional table differ: `borrarTablas(1)` deletes the backup of the first
and misses that of the second, and the restoration deletes the second whether or not it
has a backup (`Numeradas`).

`respaldoTablas`, `marcarEnCurso`, `primeraRespuesta`, `recibirTabla`, `falloDescarga`,
`marcarInicializada`, `configurarDatosComunicacion`, `borrarTablas` and `notificarSerial` are
`invocarInicializacionGeneral`, one rename, deletion or mark a step;
`desempaquetarTablaParametros` is `borrarConvenios`, `leerParametros`, `recibirNombradas` and
one step for each group of settings, in the order of the code; `quitarCambio` and
`devolverNumero` are the two writes that take the number back, at each of the places that do
it (`Vuelta`; lines 359-363 and 374-378 write as 250-254 do and go the same way);
`mirarRespaldo`, `restaurarTabla`, `marcarRestaurada`, `habilitarMultiplesCorresponsales` are
`_restaurarInicializacion_`, called after a failure, by `arrancar` and by the start screen;
`verificarCambioTerminal`, `anotarAuxiliar`, `anotarCambio` and `conectar` are the three
writes of a change of number and its connection, `borrarParametros` and `borrarMarca` the two
of its deletion.  `finProceso` may come at any place.

`vigente` is the last download for which mark 1 was written; `faltas` collects what the
download under way will leave wrong, and becomes `huecos` with that mark.  A process that ends
before it leaves the gaps `HuecosDe` names.

### 2.9 The frames of the correspondent operations

A datum is the operation it was captured for.  `venta` is `datosVentaBancolombia` (the
amounts, the track, the account type, the entry mode), `globalpinblock` and
`globalCampo55` the globals, `tarjetaCNB` the file.  `abrir` is the form,
`cargarInformacionPanVirtual` what `Hilos.java` does at each press; then one action per
native operation (`enviarConTarjeta` is the transfer and the withdrawal with card,
which have the same control), ending in `generarStringRespuesta`.  `morir` is the end
of the process.

### 2.10 Assumptions

* One JNI function runs at a time; in `TransaccionesVenta` the void is called right
  after the receipt was consulted (in `Cierre` anything may come in between).
* The host handles the requests of the terminal in the order they were sent, or
  never: `peticion` holds the newest.  It may handle one after the terminal
  gave up waiting.
* A reply reaches the terminal only while it waits for it: the operation closes
  its connection before it returns.
* A STAN identifies a frame; the wrap at 999999 is out of the model's bound.
* In `TransaccionesVenta` a receipt number identifies a sale as its STAN does, and the
  record, the directory entry and the fields of a void are one write; `Cierre` splits
  them, and there receipts start again.
* In `Cierre` and `PuntosColombia` an exchange with a server is one step, and the host
  approves the void of a sale only while its batch is open.
* Every download carries tables 1 and 4 and TABPAR (`Contenidos`).
* A write is whole or absent.  The writes of one group of settings (MODO_QR, MODO_CONSULTA,
  FLUJO_UNIFICADO and BIG_BANCOLOMBIA, say) are one step, and so are the two calls for one
  table (delete the new, rename the old): an end of the process in the middle of a group comes
  under the gap `ajustes`, as one after it does, and in the middle of a table it leaves the
  backup where the restoration finds it again.
* A nested download never comes back with a failure.  The loop of `transaccionInicializacion`
  (`Inicializacion.cpp:2081-2128`) ends only with an answer, so that the result of PUNTOS,
  BONOS, EMISOR, BIEMIS and EXCEPC is positive and lines 1091-1184 are always reached.  The
  failure of `inicializarMulticorresponsal`, `inicializarDCC`, `inicializarQRCODE` and
  `inicializarMultiPos` is ignored, and leaves the table absent or in part: `incompleta`.  The
  named tables of the agreements come in one step with the others, before the settings.
* MODO_PAYPASS, HABILITACION_MODO_CNB and, with a CNB terminal, HABILITACION_MODO_CNB_BCL and
  HABILITACION_MODO_CNB_CORRESPONSAL are left as they were by a TABPAR without their bit (lines
  1105, 1124, 1186), and `habilitarMultiplesCorresponsales` writes parameters of the CNB from
  MULTICO: none of these is among the settings of the model (`Grupos`).
* In `TransaccionesVenta` the balance query ends when its exchange fails.  In the code, after a
  code 55, a failed exchange leaves the PIN attempt at 1 and the loop sends the query again
  (`saldo_venta.cpp:253-289`): one more query, which moves no money and leaves no reversal.
* In `Confirmacion` a frame that cannot be packed is an exception.  A native function that
  returned null without one would leave the frame of the earlier press as `sinEmpaque` does.
* In `Tramas` CAJA_REGISTRADORA has its first value, 0 (`configuracion.cpp:133`): no screen of this
  build writes another, so the branch of `retiro_bancolombia.cpp:129-173` that packs nothing is
  not taken.
* The frame of a balance query carries STAN 0 here: no property needs it.
* `TEMPORAL` is written and never read; the branches for `BIG_BANCOLOMBIA` and
  `SODEXO` have the same control.  `enviarTransaccion` in `core_venta.cpp` has no caller.
* The correspondent operations draw receipts from the same counter; that skips numbers,
  as a sale that is not approved does in `Cierre`.
* The first `TIPO_TRANSACCION` is that of a sale.
* In `TransaccionesVenta` no reversal of points is pending; `PuntosColombia` has that
  branch of `verificarReversoExistente`.

For the login: the state the server answers is a number; the token is in the
preferences before anyone reads it (`Sesion` follows it); the checks of the text fields,
and presses without connection, change nothing; the user of the recovery is not told
apart; building a request and handling its answer are two steps.

For the screen and the session:

* The button is pressed on the screen in front only, and never under its loader.
* The branch that opens another screen (`transaccion == 0`) and the pop-ups shown
  without connection or location change nothing modelled here.
* The server decides each request on its own, also after the terminal gave up on
  it, and refuses one without a frame.
* Fields are read and written in program order, also across threads.
* In the foreground a timer fires on time and its task takes less than a tick; in
  the background Android may suspend both.  In the background
  `ForegroundCheckTask` may answer either way, since it counts a cached process.

## 3. The runs

| run | question | bound |
|---|---|---|
| `venta_tls` | safety and refinement over TLS | 3 STANs, 2 attempts |
| `venta_tcp` | the whole of `IInv` (which contains or implies those of `venta_tls` but the last three) and liveness, when CANAL_DEMANDA closes the TCP socket between frames and connecting again may fail | 3 STANs, 2 attempts |
| `confirmacion` | that the success screen tells the truth, and that the loader closes, with every class | 2 screens, 2 presses |
| `confirmacion_cruce` | one request at a time, no double charge, own frame | 2 screens, 4 presses, one class |
| `confirmacion_fallida` | finds an approved transaction shown as failed | 1 screen, 2 presses, one class |
| `sesion` | the watched session, orphans, the null timer; an idle user is logged out | 3 timers, time-out 2, window 1 |
| `ingreso` | types, one chain per screen, null fields, the preferences of one user | 3 screens, 2 users |
| `ingreso_vivacidad` | the loader goes away | 3 screens, 1 user, whole answers, location allowed |
| `cierre` | totals, erasure and upload of the journal; records and directory coherent | 3 sales, receipts 1..3 starting at 2, counts below 3 |
| `puntos` | the two reversal files, the accumulations, liveness of the gate | 3 accumulations |
| `inicializacion` | types; tables, number, settings and addresses of one download | 3 downloads with or without the optional tables, 1 end of the process half way, 2 numbers |
| `tramas` | whose data a frame carries | 3 operations, 2 presses each |

In `confirmacion_cruce` four presses are needed for a message of the first screen
to reach the second one between two of its own presses; `empaquetada` is the class
in which most happens and nothing ends the process early.  In `sesion` three timers
are one that fell due, the one it orphaned and the current one; the order window <
time-out is all the actions compare.

In `ingreso` three screens are the one with a chain, the one that replaces it, and a third
that meets messages of both; with fewer a change of password cannot come back to the login.
Ends of the process start the count again, with the preferences as they were, so two
users log in one after the other as often as they like.  `Responde` speaks of states
where the bound still allows a screen to be opened: the handler may need one.

In `cierre` three sales are one settled, one in the batch and one after; receipts run
3, 1, 2, across the end of the counter, and a sale that is not approved spends one as well.
None is handed out twice: what then holds is in the theorems of `PruebasCierre`, for any
`MaxRecibo`, and what does not is the gap `SinVueltaAun`.  `LimiteConteo` is the 1000 of the code: with 3, the third sale of a
batch is the one whose count loses a digit (`empaquetarCierreVentas`), so the host finds the
totals wrong and the upload begins.  Power cuts, losses, settlements and consultations are
unbounded (3.1 million states).  In `puntos` three accumulations are one recorded, one
pending and one behind it.  In `inicializacion` three downloads are the one in use, one
that fails, and one that takes the rest of it for a backup, or that a backup of the first is
put back over; each has both optional tables or neither (`Contenidos`).  Ends of the process
between operations are free, one half way is enough to reach each gap (14 million states).  The
two numbers are a symmetry set: the actions only compare them, and the run checks invariants.  In
`tramas` three operations are one that leaves something, one between, and one that
meets it; deadlock is not checked, since the bound ends every behaviour.

TLC checks the type invariants of the native dialogue (in `IInv`), of the login and of the
initialization; those of the other modules are proved (section 5) and in no run.

In the two runs of the sale, `MAX_INTENTOS_VENTA = 2` is the value of
`Definiciones.h:665`.  Three STANs are a sale, its void, and one more frame that meets what the first two left behind (or
two voids of one sale); only one frame can be on file and one operation under
way, so further STANs repeat these roles.  Nothing else is bounded: power cuts, losses,
menu visits and balance queries come as often as they like, and TLC explores
every reachable state (about 230 000 each).

Safety properties:

* `UnSoloReverso`: the reversal file never holds a second frame.
* `Cubierta`: what the host has approved is recorded, pending, or in a gap.
* `JournalVigente`: what is recorded stands at the host.
* `ReversoAntesDeEnviar`: while a request may be in the host's hands its
  reversal is on file.
* `NoDobleCargo`: no frame is sent (first time or retry) over a standing approval.
* `UnaSolaAnulacion`: a recorded sale is not voided twice.
* `ImplementaCobro`: every step is a step of `CobroAbstracto`, under the mapping
  `EstadoDe`, or a stutter.

Liveness: `OperacionTermina` and `PendienteSeResuelve`.

Of the confirmation screen: `ExitoFiel`, `UnIntercambio`, `SinDobleCobro` (a screen is
charged twice only if the first answer was lost, or could not be read, or a
message crossed), `TramaPropia`; liveness `CargadorCierra`.  Of the session:
`Vigilada`, `NuloSoloPorTarea`, `SoloHuerfanos`; liveness `InactivoSale`.  Of the login:
`UnaCadena`, `NuloSoloPorRelevo`, `SesionDeUnUsuario`; liveness `Responde`.

Of the journal and the settlement: `CierreCuadra` (the totals sent are those of the host's
batch: nothing unreversed, nothing unrecorded), `BorradoTrasEntrega` (the journal is erased
only when the host has all that is active in it), `SinDobleEntrega` (nothing is uploaded that
the host already settled or got, unless a settlement lost its last answer),
`RegistroCoherente` (no record half sale, half void), `DirectorioPropio` (journal and
directory find the same record under a receipt).  Of the points: `UnSoloPendiente`,
`PuntosCubiertos`, `RegistroVigente`; liveness `PuntosSeResuelven`.  Of the initialization:
`TablasVigentes`, `NumeroDeLasTablas`, `AjustesDeLasTablas`, `NadaSePierde`.  Of the frames:
`DatosPropios` and `ImporteConfirmado`.

**Fairness.**  `SpecTerminal` is weak fairness of the terminal's own steps: it is
one thread and each wait ends after 30 s.  `SpecInsistente` adds strong fairness of
opening the reversal menu, sending, the host answering with a 0410 and the
terminal reading it: the user keeps coming back and the acquirer is not out of
reach every single time.  Without it a reversal can stay pending for ever, which
is what the code does when the host never answers.

The UI thread of the screen serves its queue and each worker goes on (`WF`): the
worker that waits for the server gives up after its call time-out.  The user, the
server, logouts and crashes are under no fairness.  In `Sesion` time passes, the UI
thread goes on, and the thread of a timer runs its task.  In `Ingreso` the UI thread and
each worker go on (each call of the server has a time-out of 30 s), and a location
arrives once it was asked for.  In `PuntosColombia` the terminal goes on (`WF`), the user
sells from time to time and the points server answers a reversal that is sent for ever
(`SF`): nothing else sends it.

## 4. What the code guarantees, and its gaps

Of the native dialogue, the safety properties hold but for four gaps, each kept as a history variable so
that a property names it rather than hides it:

* `eliminadas`: the user deleted the pending reversal from the menu
  (`menu.cpp:366`).
* `negadas`: the host answered the reversal with a 0410 and a code other than
  00; the file is deleted all the same (`comunicaciones.cpp:405-413`).
* `cortadas`: the power went between the two writes.  The sale deletes its
  reversal and then writes the journal (`emv_venta.cpp:230`), so it is left
  approved and unrecorded; the void writes the journal first
  (`anulacion_venta.cpp:544`), so it is left recorded and pending, and its
  reversal then undoes at the host what the journal says.
* `sinReverso`: `realizarVentaEMV` reads `TIPO_TRANSACCION` before
  `verificarReversoExistente` sets it, so the sale after a balance query goes out
  without a reversal and its reply is not verified (`emv_venta.cpp:104`).

One run shows the code at odds with what it tells the user: in `confirmacion_fallida`
message 1 is sent before the answer is stored (`Servicios.java:598`), so the handler may
read the error of the attempt before and show "Transacción Fallida" for an approved
transaction.  If `resp` is null instead, the handler ends the process.

The gaps below were met while modelling.  Those a property exempts are history variables
or conditions in it; the others have no run.

**Settlement and journal.**

* `huecos`: a sale in one of the four gaps above, or cut between the journal and the
  directory, or between two fields of its void.
* `SinVueltaAun`: once a receipt is handed out again, the searches find the first record with the
  receipt: a void may then annul another sale of the same number.
* `inconclusa`: the last answer was lost, and the next settlement starts over.  "CIERRE
  DESCUADRADO FINALIZADO" is shown also when the upload was cut
  (`cierre_venta.cpp:184-186`), and the answers to the 0320 and to the last totals are
  never looked at.
* A count of more than three digits loses the last one, so the totals of a batch of 1000
  sales never agree.
* The consultation before a void does not compare the receipt of the record it reads with
  the one asked for (`anulacion_venta.cpp:1312`), as the duplicate does
  (`duplicado_venta.cpp:377`).

**Points.**  A code from 01 to 15 deletes `REVPC`, also as an answer to the reversal, which
then reversed nothing (`CajaIP.cpp:3210-3214`); the menu deletes both files though it shows
one (`menu.cpp:366`); a consultation that connects reads `REVAUXPC` when there is none,
which ends the process (`comunicaciones.cpp:704`, `Archivos.cpp:261`).

**Initialization.**

* `respaldo`: the process ends while the tables are renamed, before mark 2: it starts as
  initialised with tables missing.
* `parcial`: it ends while the old tables are put back, or a first download fails: there is
  no T-001 in the backup, and the terminal is left not initialised with what tables it has.
* `sobras`: what a first download left becomes the backup of the next one; a numbered table
  that the failed download had and the old one had not stays.
* `viejas`: `borrarTablas(1)` builds `PUNTOS.TXTR` for a backup called `PUNTOS.RES`
  (`Inicializacion.cpp:792-834`), so that the backup of a named table outlives its download, and
  the next failure puts it over the tables in use (`:697-728`).
* `incompleta`: a nested request that is lost is repeated with the code of the second message,
  so the table lacks its first one, and one that is sent once may leave no table; a TABPAR that
  cannot be read asks for none.
* `ajustes`: the settings of TABPAR are not part of the backup, so an end of the process
  between them and mark 1 leaves new ones over the old tables, and a TABPAR that cannot be read
  leaves the old ones under the new tables.
* `cola`: mark 1 is written before the addresses are unpacked and before the auxiliary number.
* `numero`: a change of number whose TLS connection fails returns success, with the new
  number over the old tables; an error in the settings takes the number back and goes on
  to mark 1; and an end of the process between the new number and mark 2, between the two
  writes that take it back (251-254, 360-363, 375-378, 393-396, 752-754) or between the mark 1 of
  a restoration and these.  `borrado`: `borrarParametros` keeps the tables.
* Also: `INICIALIZACION_CAMBIO_TERMINAL` is not reset after a success, so the next download sets
  the tables aside before it asks for anything; a nested request whose answer never comes is
  repeated for ever (`Inicializacion.cpp:2081`), and only the end of the process leaves the loop;
  the start of the application ends the process again when a restoration was cut before
  TABPAR came back (`leerArchivo` in `habilitarMultiplesCorresponsales`).

**Frames.**  The balance query clears neither the PIN block and field 55 nor the record, so an
operation with card that reads none of its own sends those of the query
(`saldo_bancolombia.cpp:71`); a remittance pressed again sends its amounts times a hundred
(`giros_bancolombia.cpp:752`).  `Hilos.java:136` passes amount and track of a company card in
swapped order, but no request leaves with them: only the payments that return a frame do.

**Session and login.**  A touch at the moment its timer falls due leaves a timer that nothing
can cancel, which closes the session of a user at work with "Sesión cerrada por inactividad."
(`TimeOutSesion.java:97`; the orphans of `SoloHuerfanos`).  Touches before and after the window
of 230-295 s leave the token of a session in use without a refresh (`TimeOutSesion.java:61`).  The
recovery says that the password was sent, whatever happened: the service compares strings by
reference (`Servicios.java:458`) and the screen has its branches swapped
(`PantallaOlvideMiContrasena.java:99-109`).  `solicitarToken` returns the
empty string for an answer without a token, shown as a server that does not answer
(`Servicios.java:124`, `LogIn.java:187`); an answer to a load of parameters without one
of its fields, or a missing location permission, leaves the loader with no message
(`Servicios.java:390`, `:676`, `DeviceInformation.java:70`), which is why `Responde` is
checked without them; the terminal code is never kept.

The properties of the login exempt `relevo`: after a screen replaced the one whose
chain was under way, a message finds fields that are null (the process ends) or of
another press.

Two exemptions appear in the properties of the screen: `sinEmpaque`, an exception
swallowed while packing, after which the frame of an earlier press is sent; and
`cruzadas`, a message of an abandoned screen's worker, which closes the loader of
the current one.

## 5. The proofs

Every safety property that a passing run checks is a theorem for every value of the
constants; so is the refinement.  Each module has one inductive invariant (two or three,
one on top of the other, where the later properties need more), a lemma per operation or
per kind of step, and theorems of one line that draw the properties from it.  The only
assumptions are the named ones of the modules about their constants.  What follows says
why each invariant has the parts it has.

**The native dialogue** (`PruebasVenta`; any number of STANs and attempts, both channels).
`TipoCorrecto`, `Invariante` (`Spec => []IInv`), its consequences `UnicoReverso`,
`ReversoPrevio`, `AprobadaCubierta`, `RegistradaVigente`, `AnulacionUnica`, the action
property `SinDobleCargo`, and the refinement `CobroImplementado`.

* `TypeOK` and `Control` are kept together: `TypeOK` alone is not inductive, since `Head`
  of the file has a type only where the file is not empty, which `Control` says.
* `Cubierta` is disturbed when the file is deleted: at that point the frame in it must be
  recorded, not approved, or in a gap.  That the file holds exactly that frame is `Archivo`;
  that a decline or a 0410 with "00" means nothing is approved, also later, needs that no
  other copy of the request is still on the network, which is `Red`; that the reply belongs
  to the frame under way is `EnCurso`.
* `JournalVigente` is disturbed when the host reverses: the 0400 on the network must not be
  for a recorded frame (`Red`), so a frame with its reversal on file is not recorded
  (`PendienteSinRegistrar`), but for a void between its two writes.
* `Nuevas` says that a STAN handed out for the first time has no past.
* `AnulacionUnica` needs that the journal never holds a void of a sale while another void of
  it is on file or asked for (`Anulaciones`), and, for the moment the host reverses one,
  that a 0400 on the network names a frame on file or one the user deleted since
  (`ReversoEnviado`).
* `CobroImplementado` (`Spec => ImplementaCobro`): under `EstadoDe` an STAN is in one of five
  states (`CasosDeEstado`); each handler moves one STAN at most (`UnaSolaCambia`), and
  `PasoDeCobro` names the step of `CobroAbstracto` it is, or shows that it is none.  `IInv`
  gives the guards of the abstract step.

**The confirmation screen** (`PruebasConfirmacion`; any number of screens and presses, any
choice of classes).

* `TipoConfirmacionCorrecto` and `ExitoVerdadero`.  `ExitoFiel` needs that an "aprobada" in
  `resp` was read from the server (`RespuestaLeida`) and that what was read stays read: no step
  may move a press that is over.  The UI thread moves presses it finds in its queue, so
  `ColaEnviar` says that a queued press waits there and is queued once; `Origen` and
  `Contestada` give the types of what workers post and store.
* `UnSoloIntercambio`, `TramaDelIntento` and `DobleCobroSoloTrasFallo`, from `IInvCruce`, all of
  them about a screen that no message of another one reached.  Nothing in the code counts requests: there is one
  because the button is out of reach while a press is under way *and* while one of its
  messages is still queued (`Tapadas`).  A press whose answer cannot be read queues two
  messages, 1 and 2; that only the last of them opens the button again, and that they belong to the press
  under way, is `Ordenados`.  `TramaPropia` then follows from `Tramas` (the field holds the
  frame of the press that waits, or nothing), and `SinDobleCobro` from `Sucesivos`: what was
  pressed before is over and failed, or was a query, because an answered press keeps its message in the queue
  until it takes the screen away (`Contestadas`).

**The session** (`PruebasSesion`; any number of timers, any time-out, any window within it).
`TipoSesionCorrecto`, `SesionVigilada`, `NuloPorTarea`, `HuerfanosExpulsan`.  The range of
`paradas` rests on `Fichas` (where in `run` a task has stopped the timer how often).  That
nobody but `olvidar` clears the field while `startLogoutTimer` uses it is mutual exclusion
(`Cerrojo`) and the fact that the UI thread runs in the foreground (`Visible`), where the task
does not give up.  `SoloHuerfanos` needs that a timer that waits is in `longTimer` and no older
than the last touch unless it is an orphan (`Esperando`), which the assignments of `longTimer`
keep because what they overwrite has been cancelled (`Campo`).

**The login** (`PruebasIngreso`; any number of screens and users, complete answers or not).
`IngresoTipo`, `IngresoUnaCadena`, `IngresoNulo`, `IngresoSesion`.

* A step of a worker either goes on, ends, or ends with a message; a message either ends or
  starts the next worker: `SigueHilo`, `AcabaHilo`, `SigueMensaje` and `AcabaMensaje` prove
  each of these once for all operations, `Pulsada` and `Abierta` the two steps of the user.
* That the queue is bounded, which is in `TypeOK`, is not a fact about types: there are never
  more workers and messages than screens whose loader is open (`BajoLoader`), for a press
  opens one and every loader that is closed ends a chain.  So the proofs carry `Tipos`,
  without the bound, and `TiposYCota` gives `TypeOK`.
* Every worker and message does what the class of its screen knows (`Propios`): a message
  reaches the last screen of its class (`Ultimas`), which need not be the one that asked.
* While nothing was replaced the one chain is of the screen in front (`Sola`), and each worker
  and message of it finds what the one before left (`Etapas`, `Preparado`): the token, the
  state, and the preferences committed so far, all of one user (`ConClave`,
  `ConParametricas`, `ConBanco`).  `IngresoNulo` and `IngresoSesion` read it off.

**The points** (`PruebasPuntos`; any number of accumulations).  `PuntosTypeOK`,
`PuntosUnSoloPendiente`, `PuntosSiempreCubiertos`, `PuntosRegistroVigente`.  That both files are
never there together is not what the gate tests: it holds because no operation reaches the
second file while the first is there (`Lugares`, the operation and the files at each place);
that a recorded accumulation is never reversed needs that what is pending is not recorded and
what `REVAUXPC` holds was never sent (`Nuevas`), and that both files hold the accumulation
under way (`EnCurso`).

**Journal and settlement** (`PruebasCierre`; any number of sales and receipts, any limit of the
counts).

* `CierreTypeOK` and `CierreBorradoTrasEntrega` rest on `Lugares` and on what the upload knows at
  each turn: the active records it has passed were delivered (`Pasadas`), all of them before
  the erasure (`Entregado`).
* `CierreSinDobleEntrega` needs the other half, that what is active in the journal and not passed
  yet was not delivered (`SinEntregar`), and for it that sales are numbered in order
  (`Numeradas`) and have one record each (`Unicas`).
* `CierreRegistroCoherente`, `CierreDirectorioPropio` and `CierreConCuadre`, from `IInvLote`.  While
  no receipt was handed out twice every record has the receipt of its sale (`Recibidas`), so
  both searches are functions (`BuscarUnico`, `BuscarPrimera`).  Then a void writes its fields
  into the record it started with and leaves it whole (`Enteros`), the directory leads to each
  record (`Dirigidos`), and host and journal differ in a sale exactly when its reversal is
  pending with the approval standing, or its approval is about to be written down
  (`Cuadradas`).  The totals go out with nothing pending (`Pendiente`), so they agree.

**The initialization** (`PruebasInicializacion`; any number of downloads and ends of the process,
any numbers but 0, any `Contenidos` that satisfy `ContenidosAssumption`).  `InicializacionTipo`,
`InicializacionTablas`, `InicializacionNumero`, `InicializacionAjustes`,
`InicializacionNadaSePierde` follow from `InvarianteInicializacion`.  `Salvadas` says for every
place of the protocol, and for the mark on disk after an end of the process, where the tables of
the last download that was marked are: in use or set aside while they are renamed, all of them
aside while the next one comes, put back up to where the restoration is.  A restoration that was
cut leaves table 1 no more aside, which is all `mirarRespaldo` looks at; the others are then in
use or aside (`PorMirar`), and that is why nothing is lost.  `Propias` says that a table is of a
download that has it, which is how a backup left by an older download is told from one of the
last; `Traidas` what a download under way has brought, `Ajenas` that no table of another download
is in use, `Puestas` that mark 1 means in use, `Primera` that before the first mark there is
nothing to put back.  `Numeros` follows the number through its separate writes: it is that of the
last mark, or `auxiliar` holds that one while the change is pending or being taken back
(`Guardado`).  `Desempaquetados` says up to which group the settings are those of the download
under way.  Each part names the gaps of `huecos` it does not survive, and the theorems say no more
than the properties of the run.  The steps that leave the files alone share one lemma
(`LosQuietos`), so that a parameter's write is proved for the parameter only.

**The frames** (`PruebasTramas`; any number of operations and presses).  `TramasTypeOK`,
`TramasDatos`, `TramasImporte`.  `GlobalesDeConsulta` says that the globals hold what a balance
query left or nothing, `TarjetaPuesta` that the file holds the card of the press when an
operation is called, `GiroEnCurso` what `verificarComision` left in the record of a remittance.

**Only model-checked.**  The liveness properties `OperacionTermina`, `PendienteSeResuelve`,
`CargadorCierra`, `InactivoSale`, `Responde` and `PuntosSeResuelven`: a proof of liveness from
fairness needs `ENABLED` of the actions, which is beyond the prover.  `FallidaFiel` is false.

## 6. Not modelled, and the plan

* Printing, layout of screens, encodings of fields and tokens: abstracted for good, since no
  property is about them.  `packISO` and `unpackISO` as conversions are not modelled.
* The cash register link (`cpp/Caja`): nothing of it can be reached from JNI in this build, but
  `solicitudPuntosColombia`, which `PuntosColombia` models.
* `dcc_proceso.cpp` and `consultas_informacion_costos.cpp`: most functions have no caller.  QR,
  electronic money, loyalty: clients of the dialogue of `TransaccionesVenta`, each with fields
  of its own.
* `cierre_bancolombia.cpp`, `anulacion_bancolombia.cpp`, and of the correspondent operations
  the manual payment of a bill, the collection queries and the cancellation of a remittance,
  which no screen reaches.  The functions that exchanged these frames natively are in comments
  (`deposito.cpp:164-190`).
* Of the initialization, states 3 and 4 of `TERMINAL_INICIALIZADA` (the scheduled telecarga) and
  what the tables say.  Of the frames, a PIN block whose first byte is 0, which `strlen` drops.
* A process that Android restores with the screen in front.
* The EMV kernel, the pinpad and the NDK are vendor code: `include/NDK.h`, `include/openssl`,
  `libs/openssl-1.0.2` are headers of libraries, most of what the repository holds.

Plan, in order:

1. (done) the reversal protocol with sale, void, balance query and menu.
2. (done) the confirmation screen; the session timer.
3. (done) the login, and the recovery and change of password.
4. (done) Puntos Colombia; (done) journal, directory, counters, settlement, the void's
   field-by-field write; (done) the initialization; (done) the frames of the correspondent operations.
5. ISO messages: packing and unpacking as operators, checked against a reference over
   bounded inputs.
6. The scheduled telecarga; QR and electronic money.

Every safety property of the runs is proved; theorems to come are those of the modules of
points 5 and 6.
