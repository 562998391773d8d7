------------------------ MODULE PruebasConfirmacion -------------------------
(***************************************************************************)
(* Proofs about the confirmation screen, for any number of screens and of  *)
(* presses: the type invariant; that the success screen tells the truth;   *)
(* and, as long as no message of another screen reached it, that a screen  *)
(* has one request under way, that the request carries its own frame, and  *)
(* that a second approval of one screen comes after a failed answer.       *)
(***************************************************************************)
EXTENDS Confirmacion, TLAPS

\* A transaction of screen i was approved and its answer read to the end.
Leida(i) ==
    \E a \in Intentos : intento[a].de = i /\ intento[a].pc = "leida" /\ Aprobada(a)

\* A press waits in the queue of the UI thread once, and is sent from there.
ColaEnviar ==
    /\ \A k \in 1..Len(cola) :
          cola[k].que = "enviar" => intento[cola[k].a].pc = "encolado"
    /\ \A k, l \in 1..Len(cola) :
          cola[k].que = "enviar" /\ cola[l].que = "enviar" /\ cola[k].a = cola[l].a
             => k = l

\* A press that is under way belongs to a screen, and there is one then.
Origen ==
    \A a \in Intentos : intento[a].pc \in Enteras =>
        intento[a].de \in Pantallas /\ instancia \in Pantallas

\* A worker that has an answer has it from the server.
Contestada ==
    \A a \in Intentos : intento[a].pc = "respondida" => servidor[a] \in Respuestas

\* What resp holds was read.
RespuestaLeida == \A i \in Pantallas : resp[i] = "aprobada" => Leida(i)

InvConfirmacion ==
    TypeOK /\ Origen /\ Contestada /\ ColaEnviar /\ RespuestaLeida /\ ExitoFiel

-----------------------------------------------------------------------------
(* Initial states. *)

\* The screen starts with nothing shown, asked or queued.
LEMMA InicioConfirmacion == Init => InvConfirmacion
<1>1. SUFFICES ASSUME Init PROVE InvConfirmacion
  OBVIOUS
<1>2. TypeOK
  BY <1>1, MaxPantallasAssumption
     DEF Init, TypeOK, Clases, Intentos, Pantallas, SinTrama, Enteras, Finales, Intento
<1>3. Origen /\ Contestada /\ ColaEnviar /\ RespuestaLeida /\ ExitoFiel
  BY <1>1 DEF Init, Origen, Contestada, ColaEnviar, RespuestaLeida, ExitoFiel, Enteras
<1>4. QED BY <1>2, <1>3 DEF InvConfirmacion

-----------------------------------------------------------------------------
(* Type correctness. *)

\* What is left of the queue when the UI thread takes its head.
LEMMA ColaTail ==
    ASSUME NEW S, NEW c \in Seq(S), c # <<>>
    PROVE  /\ Tail(c) \in Seq(S)
           /\ Head(c) \in S
           /\ c[1] = Head(c)
           /\ 1 \in 1..Len(c)
           /\ Len(Tail(c)) = Len(c) - 1
           /\ \A k \in 1..Len(Tail(c)) : Tail(c)[k] = c[k + 1] /\ k + 1 \in 1..Len(c)
  OBVIOUS

\* What a post adds to the queue.
LEMMA ColaAppend ==
    ASSUME NEW S, NEW c \in Seq(S), NEW x \in S
    PROVE  /\ Append(c, x) \in Seq(S)
           /\ Len(Append(c, x)) = Len(c) + 1
           /\ \A k \in 1..Len(c) : Append(c, x)[k] = c[k]
           /\ Append(c, x)[Len(c) + 1] = x
  OBVIOUS

\* A place in the code changes the press it is about and no other.
LEMMA EfectoAvanzar ==
    ASSUME intento \in [Intentos -> Intento], NEW a \in Intentos,
           NEW p \in {"libre"} \cup Enteras \cup Finales, Avanzar(a, p)
    PROVE  /\ intento' \in [Intentos -> Intento]
           /\ intento'[a].pc = p
           /\ \A b \in Intentos : intento'[b].de = intento[b].de
           /\ \A b \in Intentos : intento'[b].trama = intento[b].trama
           /\ \A b \in Intentos \ {a} : intento'[b] = intento[b]
<1>1. [intento[a] EXCEPT !.pc = p] \in Intento
  BY DEF Intento
<1>2. intento' = [intento EXCEPT ![a] = [intento[a] EXCEPT !.pc = p]]
  BY DEF Avanzar
<1>3. intento' \in [Intentos -> Intento] /\ intento'[a] = [intento[a] EXCEPT !.pc = p]
  BY <1>1, <1>2
<1>4. \A b \in Intentos \ {a} : intento'[b] = intento[b]
  BY <1>2
<1>5. intento'[a].pc = p /\ intento'[a].de = intento[a].de
      /\ intento'[a].trama = intento[a].trama
  BY <1>3 DEF Intento
<1>6. QED BY <1>3, <1>4, <1>5

\* A post keeps the type of the queue.
LEMMA TipoEncolar ==
    ASSUME cola \in Seq(Aviso), NEW q \in {"enviar", "uno", "dos"},
           NEW i \in Pantallas, NEW a \in Intentos, Encolar(q, i, a)
    PROVE  cola' \in Seq(Aviso)
<1>1. [que |-> q, i |-> i, a |-> a] \in Aviso
  BY DEF Aviso
<1>2. QED BY <1>1, ColaAppend DEF Encolar

\* The end of the process keeps the types and leaves no press under way.
LEMMA EfectoMorir ==
    ASSUME intento \in [Intentos -> Intento], Morir
    PROVE  /\ intento' \in [Intentos -> Intento]
           /\ \A a \in Intentos : intento'[a].pc \notin Enteras
           /\ \A a \in Intentos : intento[a].pc \notin Enteras => intento'[a] = intento[a]
           /\ \A a \in Intentos : intento'[a].de = intento[a].de
<1>1. ASSUME NEW a \in Intentos
      PROVE  /\ intento'[a] \in Intento
             /\ intento'[a].pc \notin Enteras
             /\ intento[a].pc \notin Enteras => intento'[a] = intento[a]
             /\ intento'[a].de = intento[a].de
  <2>1. intento'[a] = IF intento[a].pc \in Enteras
                      THEN [intento[a] EXCEPT !.pc = "muerto"] ELSE intento[a]
    BY DEF Morir
  <2>2. CASE intento[a].pc \in Enteras
    <3>1. intento'[a] = [intento[a] EXCEPT !.pc = "muerto"]
      BY <2>1, <2>2
    <3>2. intento[a] \in Intento
      OBVIOUS
    <3>3. QED BY <2>2, <3>1, <3>2 DEF Intento, Enteras, Finales
  <2>3. CASE intento[a].pc \notin Enteras
    BY <2>1, <2>3
  <2>4. QED BY <2>2, <2>3
<1>2. intento' = [a \in Intentos |-> intento'[a]]
  BY DEF Morir
<1>3. QED BY <1>1, <1>2

\* The head of the queue of the UI thread.
LEMMA Cabeza ==
    ASSUME TypeOK, NEW q \in {"enviar", "uno", "dos"}, EnCabeza(q)
    PROVE  /\ Tail(cola) \in Seq(Aviso)
           /\ Head(cola).i \in Pantallas
           /\ Head(cola).a \in Intentos
           /\ Head(cola).que = q
<1>1. cola \in Seq(Aviso) /\ cola # <<>> /\ Head(cola).que = q
  BY DEF TypeOK, EnCabeza
<1>2. Head(cola) \in Aviso /\ Tail(cola) \in Seq(Aviso)
  BY <1>1, ColaTail
<1>3. QED BY <1>1, <1>2 DEF Aviso

\* A press of the button takes a press not yet used, for the current screen.
LEMMA EfectoConfirmar ==
    ASSUME TypeOK, confirmarValores
    PROVE  /\ instancia \in Pantallas
           /\ intento' \in [Intentos -> Intento]
           /\ \E a \in Intentos :
                /\ intento[a].pc = "libre"
                /\ intento'[a] = [de |-> instancia, pc |-> "empaqueta", trama |-> SinTrama]
                /\ \A b \in Intentos \ {a} : intento'[b] = intento[b]
<1>1. instancia \in Pantallas
  BY MaxPantallasAssumption DEF TypeOK, confirmarValores, Pantallas
<1>2. [de |-> instancia, pc |-> "empaqueta", trama |-> SinTrama] \in Intento
  BY <1>1 DEF Intento, Enteras
<1>3. PICK a \in Libres : intento' = [intento EXCEPT
          ![a] = [de |-> instancia, pc |-> "empaqueta", trama |-> SinTrama]]
  BY DEF confirmarValores
<1>4. a \in Intentos /\ intento[a].pc = "libre"
  BY <1>3 DEF Libres
<1>5. intento \in [Intentos -> Intento]
  BY DEF TypeOK
<1>6. QED BY <1>1, <1>2, <1>3, <1>4, <1>5

\* The branch of enviarTransaccion that sends.
Envia(i, a) ==
    /\ intento' = [intento EXCEPT ![a].pc = "enviada", ![a].trama = respuestaC[i]]
    /\ servidor' = [servidor EXCEPT ![a] = "pendiente"]
    /\ cola' = Tail(cola)
    /\ UNCHANGED <<viva, instancia, pantallas>>

\* The request of a press, named by the frame it carries.
LEMMA EfectoEnvia ==
    ASSUME TypeOK, NEW i \in Pantallas, NEW a \in Intentos, Envia(i, a)
    PROVE  /\ intento' \in [Intentos -> Intento]
           /\ intento'[a].pc = "enviada"
           /\ \A b \in Intentos : intento'[b].de = intento[b].de
           /\ \A b \in Intentos \ {a} : intento'[b] = intento[b]
           /\ \A b \in Intentos \ {a} : servidor'[b] = servidor[b]
<1> DEFINE nuevo == [intento[a] EXCEPT !.pc = "enviada", !.trama = respuestaC[i]]
<1>1. intento[a] \in Intento /\ respuestaC[i] \in {SinTrama} \cup Intentos
  BY DEF TypeOK
<1>2. nuevo \in Intento /\ nuevo.pc = "enviada" /\ nuevo.de = intento[a].de
  BY <1>1 DEF Intento, Enteras
<1>3. intento' = [intento EXCEPT ![a] = nuevo]
  BY DEF Envia, TypeOK
<1> HIDE DEF nuevo
<1>4. intento \in [Intentos -> Intento]
  BY DEF TypeOK
<1>5. \A b \in Intentos \ {a} : servidor'[b] = servidor[b]
  BY DEF Envia, TypeOK
<1>6. QED BY <1>2, <1>3, <1>4, <1>5

LEMMA TipoMorir ==
    ASSUME TypeOK, Morir, sinEmpaque' \subseteq Intentos, cruzadas' \subseteq Pantallas
    PROVE  TypeOK'
<1>1. intento' \in [Intentos -> Intento]
  BY EfectoMorir DEF TypeOK
<1>2. cola' \in Seq(Aviso)
  BY DEF Morir
<1>3. QED BY <1>1, <1>2 DEF TypeOK, Morir, SinTrama

\* Every step keeps the types of all the variables.
LEMMA TipoConfirmacion ==
    ASSUME TypeOK, Origen, Contestada, [Next]_vars
    PROVE  TypeOK'
<1>1. ASSUME NEW c \in Ofrecidas, onCreate(c) PROVE TypeOK'
  <2>1. c \in Clases BY OfrecidasAssumption
  <2>2. instancia + 1 \in Pantallas /\ instancia + 1 \in 0..MaxPantallas
    BY <1>1, MaxPantallasAssumption DEF onCreate, Pantallas, TypeOK
  <2>3. QED BY <1>1, <2>1, <2>2 DEF onCreate, historia, TypeOK
<1>2. CASE confirmarValores
  BY <1>2, EfectoConfirmar DEF TypeOK, confirmarValores, historia
<1>3. CASE cancelarValores
  BY <1>3 DEF cancelarValores, historia, TypeOK
<1>4. CASE doLogout
  BY <1>4 DEF doLogout, historia, TypeOK
<1>5. ASSUME NEW a \in Intentos, transaccionesSinTarjeta(a) PROVE TypeOK'
  <2>1. intento[a].de \in Pantallas
    BY <1>5 DEF transaccionesSinTarjeta, Origen, Enteras
  <2>2. intento' \in [Intentos -> Intento]
    BY <1>5, EfectoAvanzar DEF transaccionesSinTarjeta, TypeOK, Enteras
  <2>3. cola' \in Seq(Aviso)
    BY <1>5, <2>1, TipoEncolar DEF transaccionesSinTarjeta, TypeOK
  <2>4. respuestaC' \in [Pantallas -> {SinTrama} \cup Intentos]
    BY <1>5 DEF transaccionesSinTarjeta, TypeOK
  <2>5. QED BY <1>5, <2>2, <2>3, <2>4 DEF transaccionesSinTarjeta, historia, TypeOK
<1>6. ASSUME NEW a \in Intentos, excepcionEmpaque(a) PROVE TypeOK'
  <2>1. sinEmpaque' \subseteq Intentos /\ cruzadas' \subseteq Pantallas
    BY <1>6 DEF excepcionEmpaque, TypeOK
  <2>2. CASE Morir
    BY <2>1, <2>2, TipoMorir
  <2>3. CASE /\ Avanzar(a, "encolado")
             /\ Encolar("enviar", intento[a].de, a)
             /\ UNCHANGED <<viva, instancia, pantallas, servidor>>
    <3>1. intento[a].de \in Pantallas
      BY <1>6 DEF excepcionEmpaque, Origen, Enteras
    <3>2. intento' \in [Intentos -> Intento]
      BY <2>3, EfectoAvanzar DEF TypeOK, Enteras
    <3>3. cola' \in Seq(Aviso)
      BY <2>3, <3>1, TipoEncolar DEF TypeOK
    <3>4. QED BY <2>1, <2>3, <3>2, <3>3 DEF pantallas, TypeOK
  <2>4. QED BY <1>6, <2>2, <2>3 DEF excepcionEmpaque
<1>7. CASE cerrarConsulta
  <2>1. Tail(cola) \in Seq(Aviso) /\ Head(cola).i \in Pantallas /\ Head(cola).a \in Intentos
    BY <1>7, Cabeza DEF cerrarConsulta
  <2>2. intento' \in [Intentos -> Intento]
    BY <1>7, <2>1, EfectoAvanzar DEF cerrarConsulta, TypeOK, Finales
  <2>3. QED BY <1>7, <2>1, <2>2 DEF cerrarConsulta, historia, TypeOK
<1>8. CASE enviarTransaccion
  <2>1. Tail(cola) \in Seq(Aviso) /\ Head(cola).i \in Pantallas /\ Head(cola).a \in Intentos
    BY <1>8, Cabeza DEF enviarTransaccion
  <2>2. UNCHANGED historia
    BY <1>8 DEF enviarTransaccion
  <2>3. CASE Morir
    BY <2>2, <2>3, TipoMorir DEF historia, TypeOK
  <2>4. CASE Envia(Head(cola).i, Head(cola).a)
    <3>1. intento' \in [Intentos -> Intento]
      BY <2>1, <2>4, EfectoEnvia
    <3>2. QED BY <2>1, <2>2, <2>4, <3>1 DEF Envia, pantallas, historia, TypeOK
  <2>5. QED BY <1>8, <2>3, <2>4 DEF enviarTransaccion, Envia
<1>9. CASE mensajeRespuesta \/ mensajeError
  <2>1. Tail(cola) \in Seq(Aviso) /\ Head(cola).i \in Pantallas
    BY <1>9, Cabeza DEF mensajeRespuesta, mensajeError
  <2>2. cruzadas' \subseteq Pantallas /\ sinEmpaque' \subseteq Intentos
    BY <1>9, <2>1 DEF mensajeRespuesta, mensajeError, Cruzada, TypeOK
  <2>3. CASE Morir
    BY <2>2, <2>3, TipoMorir
  <2>4. CASE mensajeRespuesta /\ ~Morir
    BY <2>1, <2>2, <2>4 DEF mensajeRespuesta, TypeOK
  <2>5. CASE mensajeError /\ ~Morir
    BY <2>1, <2>2, <2>5 DEF mensajeError, TypeOK
  <2>6. QED BY <1>9, <2>3, <2>4, <2>5
<1>10. ASSUME NEW a \in Intentos, generarVenta(a) \/ excepcionRespuesta(a) PROVE TypeOK'
  <2>1. instancia \in Pantallas
    BY <1>10 DEF generarVenta, excepcionRespuesta, Origen, Enteras
  <2>2. intento' \in [Intentos -> Intento]
    BY <1>10, EfectoAvanzar DEF generarVenta, excepcionRespuesta, TypeOK, Enteras
  <2>3. cola' \in Seq(Aviso)
    BY <1>10, <2>1, TipoEncolar DEF generarVenta, excepcionRespuesta, TypeOK
  <2>4. QED
    BY <1>10, <2>2, <2>3 DEF generarVenta, excepcionRespuesta, pantallas, historia, TypeOK
<1>11. ASSUME NEW a \in Intentos, devolverRespuesta(a) PROVE TypeOK'
  <2>1. servidor[a] \in Respuestas
    BY <1>11 DEF devolverRespuesta, Contestada
  <2>2. intento' \in [Intentos -> Intento]
    BY <1>11, EfectoAvanzar DEF devolverRespuesta, TypeOK, Finales
  <2>3. QED BY <1>11, <2>1, <2>2 DEF devolverRespuesta, historia, TypeOK
<1>12. ASSUME NEW a \in Intentos, devolverError(a) PROVE TypeOK'
  <2>1. intento' \in [Intentos -> Intento]
    BY <1>12, EfectoAvanzar DEF devolverError, TypeOK, Finales
  <2>2. QED BY <1>12, <2>1 DEF devolverError, historia, TypeOK
<1>13. ASSUME NEW a \in Intentos, decidir(a) PROVE TypeOK'
  BY <1>13 DEF decidir, pantallas, historia, TypeOK
<1>14. CASE caida
  BY <1>14, TipoMorir DEF caida, historia, TypeOK
<1>15. CASE reiniciar
  BY <1>15 DEF reiniciar, pantallas, historia, TypeOK
<1>16. CASE UNCHANGED vars
  BY <1>16 DEF vars, pantallas, historia, TypeOK
<1>17. QED
  BY <1>1, <1>2, <1>3, <1>4, <1>5, <1>6, <1>7, <1>8, <1>9, <1>10, <1>11, <1>12,
     <1>13, <1>14, <1>15, <1>16 DEF Next, Usuario, InterfazGrafica, Hilo

-----------------------------------------------------------------------------
(* The queue of the UI thread. *)

\* Every post of the queue comes from a press.
LEMMA Puestos ==
    ASSUME cola \in Seq(Aviso)
    PROVE  Len(cola) \in Nat /\ \A k \in 1..Len(cola) : cola[k].a \in Intentos
<1>1. ASSUME NEW k \in 1..Len(cola) PROVE cola[k].a \in Intentos
  <2>1. cola[k] \in Aviso
    OBVIOUS
  <2>2. QED BY <2>1 DEF Aviso
<1>2. QED BY <1>1

\* The presses queued to be sent stay so when neither they nor the queue move.
LEMMA ColaQuieta ==
    ASSUME TypeOK, ColaEnviar, cola' = cola,
           \A b \in Intentos : intento[b].pc = "encolado" => intento'[b].pc = "encolado"
    PROVE  ColaEnviar'
<1>1. \A k \in 1..Len(cola) : cola[k].a \in Intentos
  BY Puestos DEF TypeOK
<1>2. QED BY <1>1 DEF ColaEnviar

\* ... when the UI thread takes the head and changes no other press ...
LEMMA ColaAvanza ==
    ASSUME TypeOK, ColaEnviar, cola # <<>>, cola' = Tail(cola),
           \A b \in Intentos : b # Head(cola).a \/ Head(cola).que # "enviar"
                                  => intento'[b] = intento[b]
    PROVE  ColaEnviar'
<1>1. cola \in Seq(Aviso)
  BY DEF TypeOK
<1>2. /\ Head(cola) = cola[1] /\ 1 \in 1..Len(cola)
      /\ Len(cola') = Len(cola) - 1
      /\ \A k \in 1..Len(cola') : cola'[k] = cola[k + 1] /\ k + 1 \in 1..Len(cola)
  BY <1>1, ColaTail
<1>3. \A k \in 1..Len(cola) : cola[k].a \in Intentos
  BY <1>1, Puestos
<1>4. \A k \in 1..Len(cola') : k \in Nat
  OBVIOUS
<1>5. ASSUME NEW k \in 1..Len(cola'), cola'[k].que = "enviar"
      PROVE  intento'[cola'[k].a].pc = "encolado"
  <2>1. cola'[k] = cola[k + 1] /\ k + 1 \in 1..Len(cola) /\ k + 1 # 1
    BY <1>2, <1>4
  <2>2. cola[k + 1].a # Head(cola).a \/ Head(cola).que # "enviar"
    BY <1>2, <1>5, <2>1 DEF ColaEnviar
  <2>3. intento'[cola[k + 1].a] = intento[cola[k + 1].a]
    BY <1>3, <2>1, <2>2
  <2>4. QED BY <1>5, <2>1, <2>3 DEF ColaEnviar
<1>6. ASSUME NEW k \in 1..Len(cola'), NEW l \in 1..Len(cola'),
             cola'[k].que = "enviar", cola'[l].que = "enviar", cola'[k].a = cola'[l].a
      PROVE  k = l
  <2>1. k + 1 = l + 1
    BY <1>2, <1>6 DEF ColaEnviar
  <2>2. QED BY <2>1, <1>4
<1>7. QED BY <1>5, <1>6 DEF ColaEnviar

\* ... and when a press that was not queued posts.
LEMMA ColaPosta ==
    ASSUME TypeOK, ColaEnviar, NEW a \in Intentos, NEW i \in Pantallas,
           NEW q \in {"enviar", "uno", "dos"}, Encolar(q, i, a),
           intento[a].pc # "encolado",
           \A b \in Intentos \ {a} : intento'[b] = intento[b],
           q = "enviar" => intento'[a].pc = "encolado"
    PROVE  ColaEnviar'
<1> DEFINE x == [que |-> q, i |-> i, a |-> a]
<1>1. cola \in Seq(Aviso) /\ x \in Aviso /\ x.que = q /\ x.a = a /\ cola' = Append(cola, x)
  BY DEF TypeOK, Aviso, Encolar
<1> HIDE DEF x
<1>2. /\ Len(cola') = Len(cola) + 1
      /\ \A k \in 1..Len(cola) : cola'[k] = cola[k]
      /\ cola'[Len(cola) + 1] = x
  BY <1>1, ColaAppend
<1>3. Len(cola) \in Nat /\ \A k \in 1..Len(cola) : cola[k].a \in Intentos
  BY <1>1, Puestos
<1>4. \A k \in 1..Len(cola') : k \in 1..Len(cola) \/ k = Len(cola) + 1
  BY <1>2, <1>3
<1>5. \A k \in 1..Len(cola) : cola[k].que = "enviar" =>
          cola[k].a # a /\ intento'[cola[k].a].pc = "encolado"
  BY <1>3 DEF ColaEnviar
<1>6. \A k \in 1..Len(cola') :
          cola'[k].que = "enviar" => intento'[cola'[k].a].pc = "encolado"
  BY <1>1, <1>2, <1>4, <1>5
<1>7. ASSUME NEW k \in 1..Len(cola'), NEW l \in 1..Len(cola'),
             cola'[k].que = "enviar", cola'[l].que = "enviar", cola'[k].a = cola'[l].a
      PROVE  k = l
  <2>1. CASE k \in 1..Len(cola) /\ l \in 1..Len(cola)
    BY <1>2, <1>7, <2>1 DEF ColaEnviar
  <2>2. CASE k = Len(cola) + 1 /\ l = Len(cola) + 1
    BY <2>2
  <2>3. CASE k = Len(cola) + 1 /\ l \in 1..Len(cola)
    BY <1>1, <1>2, <1>5, <1>7, <2>3
  <2>4. CASE k \in 1..Len(cola) /\ l = Len(cola) + 1
    BY <1>1, <1>2, <1>5, <1>7, <2>4
  <2>5. QED BY <1>4, <2>1, <2>2, <2>3, <2>4
<1>8. QED BY <1>6, <1>7 DEF ColaEnviar

-----------------------------------------------------------------------------
(* The inductive step. *)

\* What the other parts of the invariant need of a step: the presses and the
\* answers that were read stay so.
Quedan ==
    \A b \in Intentos :
        intento[b].pc = "leida" /\ Aprobada(b) =>
            intento'[b].pc = "leida" /\ intento'[b].de = intento[b].de /\ Aprobada(b)'

\* An answer once read stays read.
LEMMA LeidaQueda ==
    ASSUME Quedan, NEW i \in Pantallas, Leida(i)
    PROVE  Leida(i)'
<1>1. PICK b \in Intentos : intento[b].de = i /\ intento[b].pc = "leida" /\ Aprobada(b)
  BY DEF Leida
<1>2. QED BY <1>1 DEF Quedan, Leida

\* A step that changes neither what the screens show nor their answers.
LEMMA PantallasQuietas ==
    ASSUME Quedan, RespuestaLeida, ExitoFiel,
           \A i \in Pantallas : resp'[i] = "aprobada" => resp[i] = "aprobada",
           \A i \in Pantallas : pantalla'[i] = "exito" => pantalla[i] = "exito"
    PROVE  RespuestaLeida' /\ ExitoFiel'
<1>1. ASSUME NEW i \in Pantallas, resp'[i] = "aprobada" PROVE Leida(i)'
  BY <1>1, LeidaQueda DEF RespuestaLeida
<1>2. ASSUME NEW i \in Pantallas, pantalla'[i] = "exito" PROVE Leida(i)'
  BY <1>2, LeidaQueda DEF ExitoFiel, Leida
<1>3. QED BY <1>1, <1>2 DEF RespuestaLeida, ExitoFiel, Leida

Resto == Origen /\ Contestada /\ ColaEnviar /\ RespuestaLeida /\ ExitoFiel

\* The end of the process.
LEMMA RestoMorir ==
    ASSUME TypeOK, Resto, Morir
    PROVE  Resto'
<1>1. /\ \A a \in Intentos : intento'[a].pc \notin Enteras
      /\ \A a \in Intentos : intento[a].pc \notin Enteras => intento'[a] = intento[a]
  BY EfectoMorir DEF TypeOK
<1>2. Origen' /\ Contestada'
  BY <1>1 DEF Origen, Contestada, Enteras
<1>3. ColaEnviar'
  BY DEF Morir, ColaEnviar
<1>4. Quedan
  BY <1>1 DEF Quedan, Aprobada, Morir, Enteras
<1>5. RespuestaLeida' /\ ExitoFiel'
  BY <1>4, PantallasQuietas DEF Resto, Morir
<1>6. QED BY <1>2, <1>3, <1>5 DEF Resto

\* Steps of the user: no press moves but the one that begins.
LEMMA RestoUsuario ==
    ASSUME TypeOK, Resto, Usuario \/ doLogout \/ reiniciar \/ UNCHANGED vars
    PROVE  Resto'
<1> USE DEF Resto
<1>1. ASSUME NEW c \in Ofrecidas, onCreate(c) PROVE Resto'
  <2>1. instancia + 1 \in Pantallas /\ instancia' = instancia + 1
        /\ intento' = intento /\ servidor' = servidor /\ cola' = cola /\ resp' = resp
        /\ \A i \in Pantallas : pantalla'[i] = "exito" => pantalla[i] = "exito"
    BY <1>1, MaxPantallasAssumption DEF onCreate, Pantallas, TypeOK
  <2>2. Origen' /\ Contestada' /\ ColaEnviar'
    BY <2>1 DEF Origen, Contestada, ColaEnviar
  <2>3. Quedan
    BY <2>1 DEF Quedan, Aprobada
  <2>4. QED BY <2>1, <2>2, <2>3, PantallasQuietas
<1>2. CASE confirmarValores
  <2>1. PICK a \in Intentos :
                /\ intento[a].pc = "libre"
                /\ intento'[a] = [de |-> instancia, pc |-> "empaqueta", trama |-> SinTrama]
                /\ \A b \in Intentos \ {a} : intento'[b] = intento[b]
    BY <1>2, EfectoConfirmar
  <2>2. instancia \in Pantallas /\ instancia' = instancia /\ servidor' = servidor
        /\ cola' = cola /\ resp' = resp /\ pantalla' = pantalla
    BY <1>2, EfectoConfirmar DEF confirmarValores
  <2>3. Origen' /\ Contestada'
    BY <2>1, <2>2 DEF Origen, Contestada
  <2>4. ColaEnviar'
    BY <2>1, <2>2, ColaQuieta
  <2>5. Quedan
    BY <2>1, <2>2 DEF Quedan, Aprobada
  <2>6. QED BY <2>2, <2>3, <2>4, <2>5, PantallasQuietas
<1>3. CASE cancelarValores \/ doLogout \/ reiniciar \/ UNCHANGED vars
  <2>1. instancia' = instancia /\ intento' = intento /\ servidor' = servidor
        /\ cola' = cola /\ resp' = resp
        /\ \A i \in Pantallas : pantalla'[i] = "exito" => pantalla[i] = "exito"
    BY <1>3 DEF cancelarValores, doLogout, reiniciar, vars, pantallas, TypeOK
  <2>2. Origen' /\ Contestada' /\ ColaEnviar'
    BY <2>1 DEF Origen, Contestada, ColaEnviar
  <2>3. Quedan
    BY <2>1 DEF Quedan, Aprobada
  <2>4. QED BY <2>1, <2>2, <2>3, PantallasQuietas
<1>4. QED BY <1>1, <1>2, <1>3 DEF Usuario

\* A worker, or the UI thread for it, that goes on to another place.
LEMMA RestoAvanza ==
    ASSUME TypeOK, Resto, NEW a \in Intentos,
           NEW p \in {"libre"} \cup Enteras \cup Finales, Avanzar(a, p),
           intento[a].pc \in Enteras, instancia' = instancia, servidor' = servidor,
           p = "respondida" => servidor[a] \in Respuestas
    PROVE  Origen' /\ Contestada' /\ Quedan
<1>1. /\ intento'[a].pc = p
      /\ \A b \in Intentos : intento'[b].de = intento[b].de
      /\ \A b \in Intentos \ {a} : intento'[b] = intento[b]
  BY EfectoAvanzar DEF TypeOK
<1>2. Origen'
  BY <1>1 DEF Resto, Origen
<1>3. Contestada'
  BY <1>1 DEF Resto, Contestada
<1>4. Quedan
  BY <1>1 DEF Quedan, Aprobada, Enteras
<1>5. QED BY <1>2, <1>3, <1>4

\* The workers.
LEMMA RestoHilo ==
    ASSUME TypeOK, Resto, NEW a \in Intentos, Hilo(a)
    PROVE  Resto'
<1> USE DEF Resto
<1>1. CASE transaccionesSinTarjeta(a)
  <2>1. intento[a].pc = "empaqueta" /\ intento[a].de \in Pantallas
        /\ Avanzar(a, "encolado") /\ Encolar("enviar", intento[a].de, a)
        /\ UNCHANGED <<instancia, servidor, resp, pantalla>>
    BY <1>1 DEF transaccionesSinTarjeta, Origen, Enteras
  <2>2. Origen' /\ Contestada' /\ Quedan
    BY <2>1, RestoAvanza DEF Enteras
  <2>3. ColaEnviar'
    BY <2>1, ColaPosta, EfectoAvanzar DEF TypeOK, Enteras
  <2>4. QED BY <2>1, <2>2, <2>3, PantallasQuietas
<1>2. CASE excepcionEmpaque(a)
  <2>1. CASE Morir
    BY <2>1, RestoMorir
  <2>2. CASE ~Morir
    <3>1. intento[a].pc = "empaqueta" /\ intento[a].de \in Pantallas
          /\ Avanzar(a, "encolado") /\ Encolar("enviar", intento[a].de, a)
          /\ UNCHANGED <<instancia, servidor, resp, pantalla>>
      BY <1>2, <2>2 DEF excepcionEmpaque, Origen, Enteras, pantallas
    <3>2. Origen' /\ Contestada' /\ Quedan
      BY <3>1, RestoAvanza DEF Enteras
    <3>3. ColaEnviar'
      BY <3>1, ColaPosta, EfectoAvanzar DEF TypeOK, Enteras
    <3>4. QED BY <3>1, <3>2, <3>3, PantallasQuietas
  <2>3. QED BY <2>1, <2>2
<1>3. CASE generarVenta(a)
  <2>1. intento[a].pc = "enviada" /\ servidor[a] \in Respuestas /\ instancia \in Pantallas
        /\ Avanzar(a, "respondida") /\ Encolar("uno", instancia, a)
        /\ UNCHANGED <<instancia, servidor, resp, pantalla>>
    BY <1>3 DEF generarVenta, Origen, Enteras, pantallas
  <2>2. Origen' /\ Contestada' /\ Quedan
    BY <2>1, RestoAvanza DEF Enteras
  <2>3. ColaEnviar'
    BY <2>1, ColaPosta, EfectoAvanzar DEF TypeOK, Enteras
  <2>4. QED BY <2>1, <2>2, <2>3, PantallasQuietas
<1>4. CASE excepcionRespuesta(a)
  <2>1. intento[a].pc \in {"enviada", "respondida"} /\ instancia \in Pantallas
        /\ Avanzar(a, "excepcion") /\ Encolar("dos", instancia, a)
        /\ UNCHANGED <<instancia, servidor, resp, pantalla>>
    BY <1>4 DEF excepcionRespuesta, Origen, Enteras, pantallas
  <2>2. Origen' /\ Contestada' /\ Quedan
    BY <2>1, RestoAvanza DEF Enteras
  <2>3. ColaEnviar'
    BY <2>1, ColaPosta, EfectoAvanzar DEF TypeOK, Enteras
  <2>4. QED BY <2>1, <2>2, <2>3, PantallasQuietas
<1>5. CASE devolverRespuesta(a)
  <2>1. intento[a].pc = "respondida" /\ servidor[a] \in Respuestas
        /\ Avanzar(a, "leida") /\ resp' = [resp EXCEPT ![intento[a].de] = servidor[a]]
        /\ UNCHANGED <<instancia, servidor, pantalla, cola>>
    BY <1>5 DEF devolverRespuesta, Contestada
  <2>2. Origen' /\ Contestada' /\ Quedan
    BY <2>1, RestoAvanza DEF Enteras, Finales
  <2>3. intento'[a].pc = "leida" /\ intento'[a].de = intento[a].de
        /\ \A b \in Intentos \ {a} : intento'[b] = intento[b]
    BY <2>1, EfectoAvanzar DEF TypeOK, Finales
  <2>4. ColaEnviar'
    BY <2>1, <2>3, ColaQuieta
  <2>5. ASSUME NEW i \in Pantallas, resp'[i] = "aprobada" PROVE Leida(i)'
    <3>1. CASE i = intento[a].de
      <4>1. servidor[a] = "aprobada"
        BY <2>1, <2>5, <3>1 DEF TypeOK
      <4>2. QED BY <2>1, <2>3, <3>1, <4>1 DEF Leida, Aprobada
    <3>2. CASE i # intento[a].de
      BY <2>1, <2>2, <2>5, <3>2, LeidaQueda DEF RespuestaLeida, TypeOK
    <3>3. QED BY <3>1, <3>2
  <2>6. ASSUME NEW i \in Pantallas, pantalla'[i] = "exito" PROVE Leida(i)'
    BY <2>1, <2>2, <2>6, LeidaQueda DEF ExitoFiel, Leida
  <2>7. QED BY <2>2, <2>4, <2>5, <2>6 DEF RespuestaLeida, ExitoFiel, Leida
<1>6. CASE devolverError(a)
  <2>1. intento[a].pc = "excepcion" /\ Avanzar(a, "errada")
        /\ (\A i \in Pantallas : resp'[i] = "aprobada" => resp[i] = "aprobada")
        /\ UNCHANGED <<instancia, servidor, pantalla, cola>>
    BY <1>6 DEF devolverError, TypeOK
  <2>2. Origen' /\ Contestada' /\ Quedan
    BY <2>1, RestoAvanza DEF Enteras, Finales
  <2>3. intento'[a].pc = "errada" /\ \A b \in Intentos \ {a} : intento'[b] = intento[b]
    BY <2>1, EfectoAvanzar DEF TypeOK, Finales
  <2>4. ColaEnviar'
    BY <2>1, <2>3, ColaQuieta
  <2>5. QED BY <2>1, <2>2, <2>4, PantallasQuietas
<1>7. QED BY <1>1, <1>2, <1>3, <1>4, <1>5, <1>6 DEF Hilo

\* The UI thread.
LEMMA RestoInterfaz ==
    ASSUME TypeOK, Resto, InterfazGrafica
    PROVE  Resto'
<1> USE DEF Resto
<1> DEFINE i == Head(cola).i
           a == Head(cola).a
<1>1. CASE cerrarConsulta
  <2>1. i \in Pantallas /\ a \in Intentos /\ Head(cola).que = "enviar" /\ cola # <<>>
    BY <1>1, Cabeza DEF cerrarConsulta, EnCabeza
  <2>2. intento[a].pc = "encolado"
    BY <2>1, ColaTail DEF ColaEnviar, TypeOK
  <2>3. Avanzar(a, "consultada") /\ cola' = Tail(cola)
        /\ UNCHANGED <<instancia, servidor, resp, pantalla>>
    BY <1>1 DEF cerrarConsulta
  <2>4. Origen' /\ Contestada' /\ Quedan
    BY <2>1, <2>2, <2>3, RestoAvanza DEF Enteras, Finales
  <2>5. \A b \in Intentos \ {a} : intento'[b] = intento[b]
    BY <2>1, <2>3, EfectoAvanzar DEF TypeOK, Finales
  <2>6. ColaEnviar'
    BY <2>1, <2>3, <2>5, ColaAvanza
  <2>7. QED BY <2>3, <2>4, <2>6, PantallasQuietas
<1>2. CASE enviarTransaccion
  <2>1. i \in Pantallas /\ a \in Intentos /\ Head(cola).que = "enviar" /\ cola # <<>>
    BY <1>2, Cabeza DEF enviarTransaccion, EnCabeza
  <2>2. intento[a].pc = "encolado"
    BY <2>1, ColaTail DEF ColaEnviar, TypeOK
  <2>3. CASE Morir
    BY <2>3, RestoMorir
  <2>4. CASE Envia(i, a)
    <3>1. /\ intento'[a].pc = "enviada"
          /\ \A b \in Intentos : intento'[b].de = intento[b].de
          /\ \A b \in Intentos \ {a} : intento'[b] = intento[b]
          /\ \A b \in Intentos \ {a} : servidor'[b] = servidor[b]
      BY <2>1, <2>4, EfectoEnvia
    <3>2. cola' = Tail(cola) /\ UNCHANGED <<instancia, resp, pantalla>>
      BY <2>4 DEF Envia, pantallas
    <3>3. Origen' /\ Contestada'
      BY <2>2, <3>1, <3>2 DEF Origen, Contestada, Enteras
    <3>4. Quedan
      BY <2>2, <3>1 DEF Quedan, Aprobada
    <3>5. ColaEnviar'
      BY <2>1, <3>1, <3>2, ColaAvanza
    <3>6. QED BY <3>2, <3>3, <3>4, <3>5, PantallasQuietas
  <2>5. QED BY <1>2, <2>3, <2>4 DEF enviarTransaccion, Envia
<1>3. CASE mensajeRespuesta \/ mensajeError
  <2>1. cola # <<>> /\ Head(cola).i \in Pantallas
    BY <1>3, Cabeza DEF mensajeRespuesta, mensajeError, EnCabeza
  <2>2. CASE Morir
    BY <2>2, RestoMorir
  <2>3. CASE ~Morir
    <3>1. cola' = Tail(cola) /\ UNCHANGED <<instancia, resp, intento, servidor>>
      BY <1>3, <2>3 DEF mensajeRespuesta, mensajeError
    <3>2. Origen' /\ Contestada'
      BY <3>1 DEF Origen, Contestada
    <3>3. Quedan
      BY <3>1 DEF Quedan, Aprobada
    <3>4. ColaEnviar'
      BY <2>1, <3>1, ColaAvanza
    <3>5. \A k \in Pantallas : pantalla'[k] = "exito" =>
              pantalla[k] = "exito" \/ resp[k] = "aprobada"
      BY <1>3, <2>3 DEF mensajeRespuesta, mensajeError, TypeOK
    <3>6. ASSUME NEW k \in Pantallas, resp'[k] = "aprobada" PROVE Leida(k)'
      BY <3>1, <3>3, <3>6, LeidaQueda DEF RespuestaLeida
    <3>7. ASSUME NEW k \in Pantallas, pantalla'[k] = "exito" PROVE Leida(k)'
      <4>1. Leida(k)
        BY <3>5, <3>7 DEF RespuestaLeida, ExitoFiel, Leida
      <4>2. QED BY <3>3, <4>1, LeidaQueda
    <3>8. QED BY <3>2, <3>4, <3>6, <3>7 DEF RespuestaLeida, ExitoFiel, Leida
  <2>4. QED BY <2>2, <2>3
<1>4. QED BY <1>1, <1>2, <1>3 DEF InterfazGrafica

\* The server.
LEMMA RestoDecidir ==
    ASSUME TypeOK, Resto, NEW a \in Intentos, decidir(a)
    PROVE  Resto'
<1> USE DEF Resto
<1>1. /\ servidor[a] = "pendiente" /\ servidor'[a] \in Respuestas
      /\ \A b \in Intentos \ {a} : servidor'[b] = servidor[b]
      /\ UNCHANGED <<instancia, intento, cola, resp, pantalla>>
  BY DEF decidir, TypeOK, pantallas
<1>2. Origen' /\ Contestada' /\ ColaEnviar'
  BY <1>1 DEF Origen, Contestada, ColaEnviar
<1>3. Quedan
  BY <1>1 DEF Quedan, Aprobada
<1>4. QED BY <1>1, <1>2, <1>3, PantallasQuietas

\* The invariant is inductive.
LEMMA PasoConfirmacion == InvConfirmacion /\ [Next]_vars => InvConfirmacion'
<1>1. SUFFICES ASSUME InvConfirmacion, [Next]_vars PROVE InvConfirmacion'
  OBVIOUS
<1>2. TypeOK /\ Resto
  BY <1>1 DEF InvConfirmacion, Resto
<1>3. TypeOK'
  BY <1>1, <1>2, TipoConfirmacion DEF Resto
<1>4. Resto'
  BY <1>1, <1>2, RestoUsuario, RestoHilo, RestoInterfaz, RestoDecidir, RestoMorir
     DEF Next, caida
<1>5. QED BY <1>3, <1>4 DEF InvConfirmacion, Resto

\* The screens, their frames and answers, the presses and the queue of the UI
\* thread keep their types in every behaviour.
THEOREM TipoConfirmacionCorrecto == Spec => []TypeOK
<1>1. InvConfirmacion => TypeOK
  BY DEF InvConfirmacion
<1>2. QED BY InicioConfirmacion, PasoConfirmacion, <1>1, PTL DEF Spec

\* For any number of screens and presses: the success screen is shown only for
\* a transaction of that screen that the server approved and whose answer was
\* read (handleMessage, case 1).
THEOREM ExitoVerdadero == Spec => []ExitoFiel
<1>1. InvConfirmacion => ExitoFiel
  BY DEF InvConfirmacion
<1>2. QED BY InicioConfirmacion, PasoConfirmacion, <1>1, PTL DEF Spec

-----------------------------------------------------------------------------
(* One request under way in each screen, and its own frame in it.            *)

EnCurso == {"empaqueta", "encolado", "enviada", "respondida"}

\* No message of another screen reached this one.
Sola(i) == i \notin cruzadas

\* A message of the second worker that goes to the screen of its press.
Propio(k) == cola[k].que \in {"uno", "dos"} /\ intento[cola[k].a].de = cola[k].i

\* The button of the screen is out of reach.
Tapada(i) == dialogo[i] = "abierto" \/ pantalla[i] # "valores"

\* Screens and presses are numbered as they come; the last screen has the button.
Numeradas ==
    /\ \A a \in Intentos : intento[a].de <= instancia
    /\ \A a \in Intentos : intento[a].pc = "libre" <=> intento[a].de = 0
    /\ \A a, b \in Intentos : intento[a].pc = "libre" /\ a < b => intento[b].pc = "libre"
    /\ \A i \in Pantallas : pantalla[i] = "valores" => i = instancia
    /\ \A i \in Pantallas : i > instancia => respuestaC[i] = SinTrama

\* What the class of a transaction rules out.
Clasificadas ==
    /\ \A i \in Pantallas : clase[i] \notin {"registrada", "empaquetada", "conTarjeta"} =>
           respuestaC[i] = SinTrama
    /\ \A a \in Intentos : intento[a].pc # "libre" /\ clase[intento[a].de] = "consulta" =>
           intento[a].pc \in {"empaqueta", "encolado", "consultada", "muerto"}

\* Where the press of a post is, and what the server has of it.
Avisos ==
    /\ \A k \in 1..Len(cola) :
          /\ cola[k].que = "enviar" => cola[k].i = intento[cola[k].a].de
          /\ cola[k].que = "uno" =>
                intento[cola[k].a].pc \in {"respondida", "leida", "excepcion", "errada"}
          /\ cola[k].que = "dos" => intento[cola[k].a].pc \in {"excepcion", "errada"}
    /\ \A a \in Intentos :
          intento[a].pc \in {"libre", "empaqueta", "encolado", "consultada"} =>
              servidor[a] = "nada"

\* A screen has one press under way ...
Unico ==
    \A a, b \in Intentos :
        /\ intento[a].pc \in EnCurso /\ intento[b].pc \in EnCurso
        /\ intento[a].de = intento[b].de /\ Sola(intento[a].de)
        => a = b

\* ... because its button is out of reach until its messages were handled.
Tapadas ==
    /\ \A a \in Intentos :
          intento[a].pc \in EnCurso /\ Sola(intento[a].de) => Tapada(intento[a].de)
    /\ \A k \in 1..Len(cola) : Propio(k) /\ Sola(cola[k].i) => Tapada(cola[k].i)

\* The messages of a screen are of the press under way, if there is one, and
\* only the last of them opens the button again.
Ordenados ==
    /\ \A k \in 1..Len(cola), a \in Intentos :
          /\ Propio(k) /\ Sola(cola[k].i)
          /\ intento[a].pc \in EnCurso /\ intento[a].de = cola[k].i
          => a = cola[k].a
    /\ \A k, l \in 1..Len(cola) :
          k < l /\ Propio(k) /\ Propio(l) /\ Sola(cola[k].i) /\ cola[k].i = cola[l].i
          => cola[k].que = "uno"

\* An answered press has its message in the queue until it takes the screen away.
Contestadas ==
    /\ \A a \in Intentos :
          intento[a].pc \in {"respondida", "leida"} /\ Sola(intento[a].de) =>
              \/ pantalla[intento[a].de] # "valores"
              \/ \E k \in 1..Len(cola) :
                    cola[k].que = "uno" /\ cola[k].a = a /\ cola[k].i = intento[a].de
    /\ \A a \in Intentos : intento[a].pc = "muerto" => pantalla[intento[a].de] # "valores"

\* A screen is pressed again only after a press that failed, or a query.
Sucesivos ==
    \A a, b \in Intentos :
        a < b /\ intento[b].pc # "libre" /\ intento[a].de = intento[b].de
              /\ Sola(intento[a].de)
        => intento[a].pc \in {"excepcion", "errada", "muerto", "consultada"}

\* The frame of a screen is that of its press, once packed.
Tramas ==
    \A a \in Intentos :
        intento[a].pc = "encolado" /\ Sola(intento[a].de) /\ a \notin sinEmpaque
        => respuestaC[intento[a].de] \in {SinTrama, a}

Cruce ==
    /\ Numeradas /\ Clasificadas /\ Avisos
    /\ Unico /\ Tapadas /\ Ordenados /\ Contestadas /\ Sucesivos
    /\ Tramas /\ TramaPropia

IInvCruce == InvConfirmacion /\ Cruce

LEMMA InicioCruce == Init => IInvCruce
<1>1. SUFFICES ASSUME Init PROVE IInvCruce
  OBVIOUS
<1>2. /\ \A a \in Intentos : /\ intento[a].pc = "libre" /\ intento[a].de = 0
                             /\ intento[a].trama = SinTrama /\ servidor[a] = "nada"
      /\ \A i \in Pantallas : /\ pantalla[i] = "noCreada" /\ respuestaC[i] = SinTrama
      /\ instancia = 0 /\ Len(cola) = 0
  BY <1>1 DEF Init
<1>3. \A k \in 1..Len(cola) : FALSE
  BY <1>2
<1>4. Numeradas /\ Clasificadas /\ Avisos
  BY <1>2, <1>3 DEF Numeradas, Clasificadas, Avisos
<1>5. Unico /\ Tapadas /\ Ordenados /\ Contestadas
  BY <1>2, <1>3 DEF Unico, Tapadas, Ordenados, Contestadas, EnCurso
<1>6. Sucesivos /\ Tramas /\ TramaPropia
  BY <1>2 DEF Sucesivos, Tramas, TramaPropia
<1>7. QED BY <1>1, <1>4, <1>5, <1>6, InicioConfirmacion DEF IInvCruce, Cruce

\* The queue after the UI thread takes its head.
LEMMA TrasCabeza ==
    ASSUME TypeOK, cola # <<>>, cola' = Tail(cola)
    PROVE  /\ Head(cola) = cola[1] /\ 1 \in 1..Len(cola)
           /\ \A k \in 1..Len(cola') : /\ k + 1 \in 1..Len(cola) /\ cola'[k] = cola[k + 1]
                                       /\ k \in Nat
           /\ \A k \in 1..Len(cola) :
                 k = 1 \/ (k - 1 \in 1..Len(cola') /\ cola'[k - 1] = cola[k])
<1>1. cola \in Seq(Aviso)
  BY DEF TypeOK
<1>2. QED BY <1>1

\* The queue after a post.
LEMMA TrasPosta ==
    ASSUME TypeOK, NEW q \in {"enviar", "uno", "dos"}, NEW i \in Pantallas,
           NEW a \in Intentos, Encolar(q, i, a)
    PROVE  /\ \A k \in 1..Len(cola) : /\ k \in 1..Len(cola') /\ cola'[k] = cola[k]
                                      /\ k < Len(cola) + 1 /\ k \in Nat
           /\ \A k \in 1..Len(cola') : k \in 1..Len(cola) \/ k = Len(cola) + 1
           /\ Len(cola) + 1 \in 1..Len(cola') /\ Len(cola) \in Nat
           /\ cola'[Len(cola) + 1].que = q /\ cola'[Len(cola) + 1].i = i
           /\ cola'[Len(cola) + 1].a = a
<1> DEFINE x == [que |-> q, i |-> i, a |-> a]
<1>1. cola \in Seq(Aviso) /\ x \in Aviso /\ cola' = Append(cola, x)
      /\ x.que = q /\ x.i = i /\ x.a = a
  BY DEF TypeOK, Aviso, Encolar
<1> HIDE DEF x
<1>2. /\ Len(cola') = Len(cola) + 1
      /\ \A k \in 1..Len(cola) : cola'[k] = cola[k]
      /\ cola'[Len(cola) + 1] = x /\ Len(cola) \in Nat
  BY <1>1, ColaAppend
<1>3. QED BY <1>1, <1>2

LEMMA TiposAviso ==
    ASSUME TypeOK
    PROVE  \A k \in 1..Len(cola) : /\ cola[k].a \in Intentos /\ cola[k].i \in Pantallas
                                   /\ cola[k].que \in {"enviar", "uno", "dos"}
<1>1. \A k \in 1..Len(cola) : cola[k] \in Aviso
  BY DEF TypeOK
<1>2. QED BY <1>1 DEF Aviso

\* A press that is not free has a screen.
LEMMA TiposIntento ==
    ASSUME TypeOK, Numeradas
    PROVE  \A a \in Intentos : /\ intento[a].de \in Nat
                               /\ intento[a].pc # "libre" => intento[a].de \in Pantallas
                               /\ a \in Nat
<1>1. \A a \in Intentos : intento[a] \in Intento /\ a \in Nat
  BY DEF TypeOK, Intentos
<1>2. QED BY <1>1 DEF Intento, Pantallas, Numeradas

\* Steps that leave the presses and the queue alone: a cancellation, a time-out,
\* a decision of the server, a restart.
LEMMA CruceQuieto ==
    ASSUME TypeOK, Cruce,
           UNCHANGED <<instancia, clase, dialogo, respuestaC, intento, cola, historia>>,
           \A i \in Pantallas : pantalla[i] # "valores" => pantalla'[i] # "valores",
           \A a \in Intentos : servidor[a] = "nada" => servidor'[a] = "nada"
    PROVE  Cruce'
<1> USE DEF Cruce, historia
<1>1. /\ \A a \in Intentos : intento[a].pc # "libre" => intento[a].de \in Pantallas
      /\ \A k \in 1..Len(cola) : cola[k].a \in Intentos /\ cola[k].i \in Pantallas
  BY TiposIntento, TiposAviso
<1>2. \A i \in Pantallas : (Sola(i) <=> Sola(i)') /\ (Tapada(i) => Tapada(i)')
  BY DEF Sola, Tapada
<1>3. Numeradas' /\ Clasificadas'
  BY DEF Numeradas, Clasificadas
<1>4. Avisos'
  BY DEF Avisos
<1>5. Unico' /\ Ordenados' /\ Sucesivos' /\ Tramas' /\ TramaPropia'
  BY DEF Unico, Ordenados, Propio, Sucesivos, Tramas, TramaPropia, Sola
<1>6. Tapadas'
  BY <1>1, <1>2 DEF Tapadas, Propio, EnCurso
<1>7. Contestadas'
  BY <1>1 DEF Contestadas, Sola
<1>8. QED BY <1>3, <1>4, <1>5, <1>6, <1>7

\* The end of the process: no press and no message is left.
LEMMA CruceMorir ==
    ASSUME TypeOK, Cruce, Morir,
           cruzadas \subseteq cruzadas', sinEmpaque \subseteq sinEmpaque'
    PROVE  Cruce'
<1> USE DEF Cruce
<1>1. /\ \A a \in Intentos : intento'[a].de = intento[a].de
      /\ \A a \in Intentos : intento'[a].pc \notin Enteras
      /\ \A a \in Intentos : intento[a].pc \notin Enteras => intento'[a] = intento[a]
  BY EfectoMorir DEF TypeOK
<1>2. \A a \in Intentos : intento'[a] =
          IF intento[a].pc \in Enteras THEN [intento[a] EXCEPT !.pc = "muerto"]
                                       ELSE intento[a]
  BY DEF Morir
<1>3. \A a \in Intentos : /\ intento[a].pc \in Enteras => intento'[a].pc = "muerto"
                          /\ intento'[a].trama = intento[a].trama
  <2>1. \A a \in Intentos : intento[a] \in Intento
    BY DEF TypeOK
  <2>2. QED BY <1>2, <2>1 DEF Intento
<1>4. Len(cola') = 0 /\ (\A k \in 1..Len(cola') : FALSE)
      /\ UNCHANGED <<instancia, clase, servidor>>
      /\ (\A i \in Pantallas : pantalla'[i] # "valores" /\ respuestaC'[i] = SinTrama)
  BY DEF Morir
<1>5. \A a \in Intentos : intento'[a].pc \notin EnCurso
  BY <1>1 DEF EnCurso, Enteras
<1>6. \A a \in Intentos : /\ intento[a].pc # "libre" => intento[a].de \in Pantallas
                          /\ intento'[a].pc = "libre" <=> intento[a].pc = "libre"
  BY <1>1, <1>3, TiposIntento DEF Enteras
<1>7. Numeradas'
  BY <1>1, <1>4, <1>6 DEF Numeradas
<1>8. Clasificadas'
  BY <1>1, <1>3, <1>4, <1>6 DEF Clasificadas, Enteras
<1>9. Avisos'
  BY <1>1, <1>3, <1>4, <1>6 DEF Avisos, Enteras
<1>10. Unico' /\ Tapadas' /\ Ordenados'
  BY <1>4, <1>5 DEF Unico, Tapadas, Ordenados, Propio
<1>11. Contestadas'
  BY <1>1, <1>4, <1>6 DEF Contestadas, Enteras
<1>12. Sucesivos'
  BY <1>1, <1>3, <1>6 DEF Sucesivos, Sola, Enteras
<1>13. Tramas'
  BY <1>1 DEF Tramas, Enteras
<1>14. TramaPropia'
  BY <1>1, <1>3 DEF TramaPropia
<1>15. QED BY <1>7, <1>8, <1>9, <1>10, <1>11, <1>12, <1>13, <1>14

\* A new screen: the last one was left, so its button is gone already.
LEMMA CruceAbrir ==
    ASSUME TypeOK, Cruce, NEW c \in Clases, onCreate(c)
    PROVE  Cruce'
<1> USE DEF Cruce
<1> DEFINE n == instancia + 1
<1>0. n \in Pantallas /\ n = instancia + 1 /\ instancia \in Nat /\ instancia < n
      /\ \A i \in Pantallas : i \in Nat /\ (i > n => i > instancia)
  BY MaxPantallasAssumption DEF onCreate, TypeOK, Pantallas
<1>1. /\ n \in Pantallas /\ instancia' = n /\ instancia \in Nat
      /\ pantalla' = [pantalla EXCEPT ![n] = "valores"]
      /\ clase' = [clase EXCEPT ![n] = c]
      /\ UNCHANGED <<dialogo, respuestaC, intento, cola, servidor, cruzadas, sinEmpaque>>
      /\ (instancia # 0 => pantalla[instancia] # "valores")
  BY <1>0 DEF onCreate, historia
<1>2. \A a \in Intentos : /\ intento[a].de \in Nat /\ intento[a].de < n
                          /\ intento[a].pc # "libre" => intento[a].de \in Pantallas
  BY <1>0, TiposIntento DEF Numeradas
<1>3. \A k \in 1..Len(cola) : cola[k].a \in Intentos /\ cola[k].i \in Pantallas
  BY TiposAviso
<1>4. \A i \in Pantallas : i \in Nat /\ (i # n => pantalla'[i] = pantalla[i] /\ clase'[i] = clase[i])
  BY <1>1 DEF TypeOK, Pantallas
<1>5. \A i \in Pantallas : (Sola(i) <=> Sola(i)') /\ (i # n /\ Tapada(i) => Tapada(i)')
  BY <1>1, <1>4 DEF Sola, Tapada
<1> HIDE DEF n
<1>6. \A i \in Pantallas : pantalla[i] # "valores"
  <2>1. ASSUME NEW i \in Pantallas, pantalla[i] = "valores" PROVE FALSE
    <3>1. i = instancia /\ instancia # 0
      BY <2>1 DEF Numeradas, Pantallas
    <3>2. QED BY <1>1, <2>1, <3>1
  <2>2. QED BY <2>1
<1>7. Numeradas'
  <2>1. \A i \in Pantallas : pantalla'[i] = "valores" => i = n
    BY <1>4, <1>6
  <2>2. \A i \in Pantallas : i > n => respuestaC[i] = SinTrama
    BY <1>0, <1>1 DEF Numeradas
  <2>3. \A a \in Intentos : intento[a].de <= n
    BY <1>0, <1>2
  <2>4. QED BY <1>1, <2>1, <2>2, <2>3 DEF Numeradas
<1>8. Clasificadas'
  <2>1. respuestaC[n] = SinTrama
    BY <1>0, <1>1 DEF Numeradas
  <2>2. QED BY <1>1, <1>2, <1>4, <2>1 DEF Clasificadas
<1>9. Avisos' /\ Unico' /\ Ordenados' /\ Sucesivos' /\ Tramas' /\ TramaPropia'
  BY <1>1 DEF Avisos, Unico, Ordenados, Propio, Sucesivos, Tramas, TramaPropia, Sola
<1>10. \A k \in 1..Len(cola) : Propio(k) => cola[k].i # n
  BY <1>2, <1>3 DEF Propio
<1>11. Tapadas'
  BY <1>1, <1>2, <1>3, <1>5, <1>10 DEF Tapadas, Propio, EnCurso
<1>12. Contestadas'
  BY <1>1, <1>2, <1>4 DEF Contestadas, Sola
<1>13. QED BY <1>7, <1>8, <1>9, <1>11, <1>12

\* A press: the button is within reach, so nothing is under way in its screen
\* and the presses before failed.
LEMMA CrucePulsar ==
    ASSUME TypeOK, ColaEnviar, Cruce, confirmarValores
    PROVE  Cruce'
<1> USE DEF Cruce
<1>0. PICK i : i = instancia
  OBVIOUS
<1>1. PICK a \in Intentos :
          /\ intento[a].pc = "libre"
          /\ \A b \in Intentos : intento[b].pc = "libre" => a <= b
          /\ intento' = [intento EXCEPT ![a] = [de |-> i, pc |-> "empaqueta",
                                                trama |-> SinTrama]]
  BY <1>0 DEF confirmarValores, Libres
<1>2. /\ i \in Pantallas /\ i # 0
      /\ intento'[a].de = i /\ intento'[a].pc = "empaqueta" /\ intento'[a].trama = SinTrama
      /\ \A b \in Intentos \ {a} : intento'[b] = intento[b]
      /\ dialogo' = [dialogo EXCEPT ![i] = "abierto"]
      /\ UNCHANGED <<instancia, pantalla, clase, respuestaC, cola, servidor,
                     cruzadas, sinEmpaque>>
  BY <1>0, <1>1, MaxPantallasAssumption DEF confirmarValores, TypeOK, Pantallas, historia
<1>3. pantalla[i] = "valores" /\ ~Tapada(i) /\ dialogo'[i] = "abierto"
      /\ (\A j \in Pantallas : Tapada(j) => Tapada(j)')
      /\ \A j \in Pantallas : Sola(j)' <=> Sola(j)
  BY <1>0, <1>2 DEF confirmarValores, Tapada, TypeOK, Sola
<1>4. \A b \in Intentos : /\ intento[b] \in Intento /\ b \in Nat
                          /\ intento[b].pc # "libre" => intento[b].de \in Pantallas
                          /\ intento[b].pc = "libre" <=> intento[b].de = 0
  BY TiposIntento DEF TypeOK, Numeradas
<1>5. \A k \in 1..Len(cola) : /\ cola[k].a \in Intentos \ {a} /\ cola[k].i \in Pantallas
                              /\ intento'[cola[k].a] = intento[cola[k].a]
                              /\ Propio(k)' <=> Propio(k)
  <2>1. \A k \in 1..Len(cola) : intento[cola[k].a].pc # "libre"
    BY TiposAviso DEF Avisos, ColaEnviar
  <2>2. \A k \in 1..Len(cola) : cola[k].a \in Intentos \ {a} /\ cola[k].i \in Pantallas
    BY <1>1, <2>1, TiposAviso
  <2>3. QED BY <1>2, <2>2 DEF Propio
<1>6. ASSUME Sola(i)
      PROVE  /\ \A b \in Intentos : intento[b].de = i => intento[b].pc \notin EnCurso
             /\ \A k \in 1..Len(cola) : Propio(k) => cola[k].i # i
             /\ \A b \in Intentos : intento[b].de = i => intento[b].pc # "leida"
  <2>1. \A b \in Intentos : intento[b].de = i => intento[b].pc \notin EnCurso
    BY <1>3, <1>6 DEF Tapadas
  <2>2. \A k \in 1..Len(cola) : Propio(k) => cola[k].i # i
    BY <1>3, <1>6 DEF Tapadas
  <2>3. ASSUME NEW b \in Intentos, intento[b].de = i, intento[b].pc = "leida" PROVE FALSE
    <3>1. PICK k \in 1..Len(cola) : cola[k].que = "uno" /\ cola[k].a = b /\ cola[k].i = i
      BY <1>3, <1>6, <2>3 DEF Contestadas
    <3>2. QED BY <2>2, <2>3, <3>1 DEF Propio
  <2>4. QED BY <2>1, <2>2, <2>3
<1>7. Numeradas'
  <2>1. instancia' = i /\ i \in Nat
    BY <1>0, <1>2 DEF Pantallas
  <2>2. \A b \in Intentos : intento'[b].de <= instancia'
    BY <1>0, <1>2, <2>1 DEF Numeradas
  <2>3. \A b \in Intentos : intento'[b].pc = "libre" <=> intento'[b].de = 0
    BY <1>2, <1>4
  <2>4. \A b, d \in Intentos : intento'[b].pc = "libre" /\ b < d => intento'[d].pc = "libre"
    BY <1>1, <1>2, <1>4 DEF Numeradas
  <2>5. QED BY <1>2, <2>2, <2>3, <2>4 DEF Numeradas
<1>8. Clasificadas'
  BY <1>2 DEF Clasificadas
<1>9. Avisos'
  BY <1>1, <1>2, <1>5 DEF Avisos
<1>10. Unico'
  BY <1>2, <1>3, <1>4, <1>6 DEF Unico, Sola
<1>11. Tapadas'
  <2>1. ASSUME NEW b \in Intentos, (intento[b].pc \in EnCurso /\ Sola(intento[b].de))'
        PROVE  Tapada(intento[b].de)'
    <3>1. CASE b = a
      BY <1>2, <1>3, <3>1 DEF Tapada
    <3>2. CASE b # a
      <4>1. PICK j : j = intento[b].de
        OBVIOUS
      <4>2. intento'[b] = intento[b] /\ intento[b].pc \in EnCurso /\ j \in Pantallas
        BY <1>2, <1>4, <2>1, <3>2, <4>1 DEF EnCurso
      <4>3. Tapada(j)
        BY <1>2, <2>1, <4>1, <4>2 DEF Tapadas, Sola
      <4>4. QED BY <1>3, <4>1, <4>2, <4>3 DEF Tapada
    <3>3. QED BY <3>1, <3>2
  <2>2. ASSUME NEW k \in 1..Len(cola), Propio(k), Sola(cola[k].i)
        PROVE  Tapada(cola[k].i)'
    <3>1. PICK j : j = cola[k].i
      OBVIOUS
    <3>2. j \in Pantallas /\ Tapada(j)
      BY <1>5, <2>2, <3>1 DEF Tapadas
    <3>3. QED BY <1>2, <1>3, <3>1, <3>2 DEF Tapada
  <2>3. QED BY <1>2, <1>5, <2>1, <2>2 DEF Tapadas, Sola
<1>12. Ordenados'
  BY <1>2, <1>5, <1>6 DEF Ordenados, Sola
<1>13. Contestadas'
  BY <1>2 DEF Contestadas, Sola
<1>14. Sucesivos'
  <2>1. SUFFICES ASSUME NEW x \in Intentos, NEW y \in Intentos, x < y,
                        intento'[y].pc # "libre", intento'[x].de = intento'[y].de,
                        intento'[x].de \notin cruzadas'
                 PROVE  intento'[x].pc \in {"excepcion", "errada", "muerto", "consultada"}
    BY DEF Sucesivos, Sola
  <2>2. CASE x = a
    BY <1>1, <1>2, <1>4, <2>1, <2>2 DEF Numeradas
  <2>3. CASE x # a /\ y = a
    <3>1. intento[x].de = i /\ Sola(i) /\ intento'[x] = intento[x]
      BY <1>2, <2>1, <2>3 DEF Sola
    <3>2. intento[x].pc \notin EnCurso /\ intento[x].pc # "leida" /\ intento[x].pc # "libre"
      BY <1>2, <1>4, <1>6, <3>1
    <3>3. QED BY <1>4, <3>1, <3>2 DEF Intento, Enteras, Finales, EnCurso
  <2>4. CASE x # a /\ y # a
    BY <1>2, <2>1, <2>4 DEF Sucesivos, Sola
  <2>5. QED BY <2>2, <2>3, <2>4
<1>15. Tramas' /\ TramaPropia'
  BY <1>2 DEF Tramas, TramaPropia, Sola
<1>16. QED BY <1>7, <1>8, <1>9, <1>10, <1>11, <1>12, <1>13, <1>14, <1>15

\* What a step of a worker keeps: it goes on along the code, in its screen.
LEMMA CruceAvance ==
    ASSUME TypeOK, Cruce, NEW a \in Intentos,
           NEW p \in {"encolado", "consultada", "respondida", "leida", "excepcion", "errada"},
           Avanzar(a, p), intento[a].pc \in Enteras,
           p \in {"encolado", "respondida"} => intento[a].pc \in EnCurso,
           intento[a].pc = "excepcion" => p = "errada",
           p \notin {"encolado", "consultada"} => intento[a].pc \notin {"empaqueta", "encolado"},
           UNCHANGED <<instancia, pantalla, clase, cruzadas>>,
           sinEmpaque \subseteq sinEmpaque',
           \A i \in Pantallas :
              \/ respuestaC'[i] = respuestaC[i]
              \/ /\ i = intento[a].de
                 /\ clase[i] \in {"registrada", "empaquetada", "conTarjeta"}
    PROVE  /\ Numeradas' /\ Clasificadas' /\ Unico' /\ Sucesivos' /\ TramaPropia'
           /\ intento'[a].pc = p
           /\ \A b \in Intentos : intento'[b].de = intento[b].de
           /\ \A b \in Intentos \ {a} : intento'[b] = intento[b]
           /\ \A b \in Intentos : intento'[b].pc \in EnCurso => intento[b].pc \in EnCurso
           /\ \A b \in Intentos : intento'[b].pc \in EnCurso /\ Sola(intento[b].de) =>
                 Tapada(intento[b].de)
           /\ intento[a].de \in Pantallas
<1> USE DEF Cruce
<1>1. /\ intento'[a].pc = p
      /\ \A b \in Intentos : intento'[b].de = intento[b].de
      /\ \A b \in Intentos : intento'[b].trama = intento[b].trama
      /\ \A b \in Intentos \ {a} : intento'[b] = intento[b]
  BY EfectoAvanzar DEF TypeOK, Enteras, Finales
<1>2. /\ \A b \in Intentos : intento'[b].pc \in EnCurso => intento[b].pc \in EnCurso
      /\ \A b \in Intentos : intento'[b].pc = "libre" <=> intento[b].pc = "libre"
  BY <1>1 DEF EnCurso, Enteras
<1>3. \A b \in Intentos : /\ intento[b].pc # "libre" => intento[b].de \in Pantallas
                          /\ intento[b].de \in Nat
  BY TiposIntento
<1>4. intento[a].de \in Pantallas
  BY <1>3 DEF Enteras
<1>5. Numeradas'
  <2>1. \A i \in Pantallas : i > instancia => respuestaC'[i] = SinTrama
    <3>1. instancia \in Nat /\ (\A i \in Pantallas : i \in Nat) /\ intento[a].de <= instancia
      BY DEF TypeOK, Pantallas, Numeradas
    <3>2. QED BY <1>4, <3>1 DEF Numeradas
  <2>2. QED BY <1>1, <1>2, <2>1 DEF Numeradas
<1>6. Clasificadas'
  BY <1>1, <1>2 DEF Clasificadas, Enteras
<1>7. Unico'
  BY <1>1, <1>2 DEF Unico, Sola
<1>8. Sucesivos'
  <2>1. ASSUME NEW x \in Intentos, NEW y \in Intentos, x < y, intento'[y].pc # "libre",
               intento'[x].de = intento'[y].de, intento'[x].de \notin cruzadas'
        PROVE  intento'[x].pc \in {"excepcion", "errada", "muerto", "consultada"}
    <3>1. intento[x].pc \in {"excepcion", "errada", "muerto", "consultada"}
      BY <1>1, <1>2, <2>1 DEF Sucesivos, Sola
    <3>2. x = a => intento[x].pc = "excepcion"
      BY <3>1 DEF Enteras
    <3>3. QED BY <1>1, <3>1, <3>2
  <2>2. QED BY <2>1 DEF Sucesivos, Sola
<1>9. TramaPropia'
  BY <1>1 DEF TramaPropia
<1>10. \A b \in Intentos : intento'[b].pc \in EnCurso /\ Sola(intento[b].de) =>
            Tapada(intento[b].de)
  BY <1>2 DEF Tapadas
<1>11. QED BY <1>1, <1>2, <1>4, <1>5, <1>6, <1>7, <1>8, <1>9, <1>10

\* The frame is packed and the press queued.
LEMMA CruceEmpaque ==
    ASSUME TypeOK, ColaEnviar, Cruce, NEW a \in Intentos, intento[a].pc = "empaqueta",
           Avanzar(a, "encolado"), Encolar("enviar", intento[a].de, a),
           UNCHANGED <<instancia, pantalla, clase, dialogo, servidor, cruzadas>>,
           sinEmpaque \subseteq sinEmpaque',
           \/ respuestaC' = respuestaC /\ a \in sinEmpaque'
           \/ respuestaC' = IF clase[intento[a].de] \in {"registrada", "empaquetada", "conTarjeta"}
                            THEN [respuestaC EXCEPT ![intento[a].de] = a] ELSE respuestaC
    PROVE  Cruce'
<1> USE DEF Cruce
<1>1. PICK i : i = intento[a].de
  OBVIOUS
<1>2. i \in Pantallas /\ intento[a].pc \in Enteras /\ intento[a].pc \in EnCurso
  BY <1>1, TiposIntento DEF Enteras, EnCurso
<1>3. \A j \in Pantallas : \/ respuestaC'[j] = respuestaC[j]
                           \/ /\ j = intento[a].de
                              /\ clase[j] \in {"registrada", "empaquetada", "conTarjeta"}
  BY <1>1, <1>2 DEF TypeOK
<1>4. /\ Numeradas' /\ Clasificadas' /\ Unico' /\ Sucesivos' /\ TramaPropia'
      /\ intento'[a].pc = "encolado"
      /\ \A b \in Intentos : intento'[b].de = intento[b].de
      /\ \A b \in Intentos \ {a} : intento'[b] = intento[b]
      /\ \A b \in Intentos : intento'[b].pc \in EnCurso => intento[b].pc \in EnCurso
      /\ \A b \in Intentos : intento'[b].pc \in EnCurso /\ Sola(intento[b].de) =>
            Tapada(intento[b].de)
  BY <1>2, <1>3, CruceAvance
<1>5. PICK n : n = Len(cola) + 1
  OBVIOUS
<1>6. /\ \A k \in 1..Len(cola) : k \in 1..Len(cola') /\ cola'[k] = cola[k] /\ k < n
      /\ \A k \in 1..Len(cola') : k \in 1..Len(cola) \/ k = n
      /\ cola'[n].que = "enviar" /\ cola'[n].i = i /\ cola'[n].a = a
  BY <1>1, <1>2, <1>5, TrasPosta
<1>7. \A k \in 1..Len(cola) : /\ cola[k].a \in Intentos
                              /\ Propio(k)' <=> Propio(k)
  BY <1>4, <1>6, TiposAviso DEF Propio
<1>8. ~Propio(n)'
  BY <1>6 DEF Propio
<1>9. Avisos'
  BY <1>1, <1>4, <1>6, <1>7 DEF Avisos
<1>10. Tapadas'
  <2>1. \A k \in 1..Len(cola') : (Propio(k) /\ Sola(cola[k].i) => Tapada(cola[k].i))'
    BY <1>6, <1>7, <1>8 DEF Tapadas, Sola, Tapada
  <2>2. \A b \in Intentos :
            (intento[b].pc \in EnCurso /\ Sola(intento[b].de) => Tapada(intento[b].de))'
    BY <1>4 DEF Sola, Tapada
  <2>3. QED BY <2>1, <2>2 DEF Tapadas, EnCurso
<1>11. Ordenados'
  BY <1>4, <1>6, <1>7, <1>8 DEF Ordenados, Sola
<1>12. Contestadas'
  BY <1>4, <1>6 DEF Contestadas, Sola
<1>13. Tramas'
  <2>1. ASSUME NEW b \in Intentos, intento'[b].pc = "encolado",
               intento'[b].de \notin cruzadas', b \notin sinEmpaque'
        PROVE  respuestaC'[intento'[b].de] \in {SinTrama, b}
    <3>1. CASE b = a
      BY <1>1, <1>2, <1>4, <2>1, <3>1 DEF Clasificadas, TypeOK
    <3>2. CASE b # a
      <4>1. intento[b].pc = "encolado" /\ intento[b].de = intento'[b].de /\ Sola(intento[b].de)
        BY <1>4, <2>1, <3>2 DEF Sola
      <4>2. intento[b].de # i
        BY <1>1, <1>2, <3>2, <4>1 DEF Unico, EnCurso
      <4>3. respuestaC'[intento[b].de] = respuestaC[intento[b].de]
        BY <1>1, <4>2, <4>1, TiposIntento DEF TypeOK
      <4>4. QED BY <2>1, <4>1, <4>3 DEF Tramas
    <3>3. QED BY <3>1, <3>2
  <2>2. QED BY <2>1 DEF Tramas, Sola
<1>14. QED BY <1>4, <1>9, <1>10, <1>11, <1>12, <1>13

\* A message of the second worker, to the screen of the moment.
LEMMA CrucePosta ==
    ASSUME TypeOK, ColaEnviar, Cruce, NEW a \in Intentos, instancia \in Pantallas,
           NEW q \in {"uno", "dos"}, NEW p \in {"respondida", "excepcion"},
           \/ q = "uno" /\ p = "respondida" /\ intento[a].pc = "enviada"
           \/ q = "dos" /\ p = "excepcion" /\ intento[a].pc \in {"enviada", "respondida"},
           Avanzar(a, p), Encolar(q, instancia, a),
           UNCHANGED <<instancia, pantallas, servidor, historia>>
    PROVE  Cruce'
<1> USE DEF Cruce, pantallas, historia
<1>1. PICK i : i = instancia
  OBVIOUS
<1>2. i \in Pantallas /\ intento[a].pc \in Enteras /\ intento[a].pc \in EnCurso
  BY <1>1 DEF Enteras, EnCurso
<1>3. \A j \in Pantallas : respuestaC'[j] = respuestaC[j]
  OBVIOUS
<1>4. /\ Numeradas' /\ Clasificadas' /\ Unico' /\ Sucesivos' /\ TramaPropia'
      /\ intento'[a].pc = p
      /\ \A b \in Intentos : intento'[b].de = intento[b].de
      /\ \A b \in Intentos \ {a} : intento'[b] = intento[b]
      /\ \A b \in Intentos : intento'[b].pc \in EnCurso => intento[b].pc \in EnCurso
      /\ \A b \in Intentos : intento'[b].pc \in EnCurso /\ Sola(intento[b].de) =>
            Tapada(intento[b].de)
  BY <1>2, <1>3, CruceAvance
<1>5. PICK n : n = Len(cola) + 1
  OBVIOUS
<1>6. /\ \A k \in 1..Len(cola) : k \in 1..Len(cola') /\ cola'[k] = cola[k] /\ k < n /\ ~(n < k)
      /\ \A k \in 1..Len(cola') : k \in 1..Len(cola) \/ k = n
      /\ n \in 1..Len(cola') /\ ~(n < n)
      /\ cola'[n].que = q /\ cola'[n].i = i /\ cola'[n].a = a
  BY <1>1, <1>2, <1>5, TrasPosta
<1>7. \A k \in 1..Len(cola) : /\ cola[k].a \in Intentos
                              /\ Propio(k)' <=> Propio(k)
                              /\ Propio(k) => cola[k].que \in {"uno", "dos"}
  BY <1>4, <1>6, TiposAviso DEF Propio
<1>8. Propio(n)' <=> intento[a].de = i
  BY <1>4, <1>6 DEF Propio
<1>9. \A k \in 1..Len(cola) : cola[k].a = a =>
          cola[k].que = "uno" /\ intento[a].pc = "respondida" /\ q = "dos"
  BY TiposAviso DEF Avisos, ColaEnviar
<1>10. \A k \in 1..Len(cola) : Propio(k) /\ cola[k].i = i /\ intento[a].de = i /\ Sola(i) =>
           cola[k].a = a
  BY <1>2 DEF Ordenados
<1>11. Avisos'
  <2>1. ASSUME NEW k \in 1..Len(cola)
        PROVE  /\ cola'[k].que = "enviar" => cola'[k].i = intento'[cola'[k].a].de
               /\ cola'[k].que = "uno" =>
                     intento'[cola'[k].a].pc \in {"respondida", "leida", "excepcion", "errada"}
               /\ cola'[k].que = "dos" => intento'[cola'[k].a].pc \in {"excepcion", "errada"}
    BY <1>4, <1>6, <1>7, <1>9 DEF Avisos
  <2>2. \A b \in Intentos :
            intento'[b].pc \in {"libre", "empaqueta", "encolado", "consultada"} =>
                servidor'[b] = "nada"
    BY <1>4 DEF Avisos
  <2>3. QED BY <1>4, <1>6, <2>1, <2>2 DEF Avisos
<1>12. Tapadas'
  <2>1. Sola(i) /\ intento[a].de = i => Tapada(i)
    BY <1>2 DEF Tapadas
  <2>2. \A k \in 1..Len(cola') : (Propio(k) /\ Sola(cola[k].i) => Tapada(cola[k].i))'
    BY <1>6, <1>7, <1>8, <2>1 DEF Tapadas, Sola, Tapada
  <2>3. \A b \in Intentos :
            (intento[b].pc \in EnCurso /\ Sola(intento[b].de) => Tapada(intento[b].de))'
    BY <1>4 DEF Sola, Tapada
  <2>4. QED BY <2>2, <2>3 DEF Tapadas, EnCurso
<1>13. Ordenados'
  <2>1. ASSUME NEW k \in 1..Len(cola'), NEW b \in Intentos, Propio(k)',
               cola'[k].i \notin cruzadas', intento'[b].pc \in EnCurso,
               intento'[b].de = cola'[k].i
        PROVE  b = cola'[k].a
    <3>1. CASE k = n
      BY <1>1, <1>2, <1>4, <1>6, <1>8, <2>1, <3>1 DEF Unico, Sola
    <3>2. CASE k \in 1..Len(cola)
      BY <1>4, <1>6, <1>7, <2>1, <3>2 DEF Ordenados, Sola
    <3>3. QED BY <1>6, <3>1, <3>2
  <2>2. ASSUME NEW k \in 1..Len(cola'), NEW l \in 1..Len(cola'), k < l, Propio(k)',
               Propio(l)', cola'[k].i \notin cruzadas', cola'[k].i = cola'[l].i
        PROVE  cola'[k].que = "uno"
    <3>1. CASE l \in 1..Len(cola)
      BY <1>6, <1>7, <2>2, <3>1 DEF Ordenados, Sola
    <3>2. CASE l = n
      BY <1>6, <1>7, <1>8, <1>9, <1>10, <2>2, <3>2 DEF Sola
    <3>3. QED BY <1>6, <3>1, <3>2
  <2>3. QED BY <2>1, <2>2 DEF Ordenados, Sola, EnCurso
<1>14. Contestadas'
  <2>1. ASSUME NEW b \in Intentos, intento'[b].pc \in {"respondida", "leida"},
               intento'[b].de \notin cruzadas'
        PROVE  \/ pantalla'[intento'[b].de] # "valores"
               \/ \E k \in 1..Len(cola') :
                     cola'[k].que = "uno" /\ cola'[k].a = b /\ cola'[k].i = intento'[b].de
    <3>1. CASE b = a
      <4>1. q = "uno"
        BY <1>4, <2>1, <3>1
      <4>2. CASE intento[a].de = i
        BY <1>4, <1>6, <3>1, <4>1, <4>2
      <4>3. CASE intento[a].de # i
        <5>1. intento[a].de \in Pantallas
          BY <1>2, TiposIntento DEF Enteras
        <5>2. QED BY <1>1, <1>4, <3>1, <4>3, <5>1 DEF Numeradas
      <4>4. QED BY <4>2, <4>3
    <3>2. CASE b # a
      BY <1>4, <1>6, <2>1, <3>2 DEF Contestadas, Sola
    <3>3. QED BY <3>1, <3>2
  <2>2. \A b \in Intentos : intento'[b].pc = "muerto" => pantalla'[intento'[b].de] # "valores"
    BY <1>4 DEF Contestadas
  <2>3. QED BY <2>1, <2>2 DEF Contestadas, Sola
<1>15. Tramas'
  BY <1>4 DEF Tramas, Sola
<1>16. QED BY <1>4, <1>11, <1>12, <1>13, <1>14, <1>15

\* The second worker returns: an answered press was answered in the queue already.
LEMMA CruceLectura ==
    ASSUME TypeOK, ColaEnviar, Cruce, NEW a \in Intentos, NEW p \in {"leida", "errada"},
           \/ p = "leida" /\ intento[a].pc = "respondida"
           \/ p = "errada" /\ intento[a].pc = "excepcion",
           Avanzar(a, p),
           UNCHANGED <<instancia, pantalla, clase, dialogo, respuestaC, cola, servidor, historia>>
    PROVE  Cruce'
<1> USE DEF Cruce, historia
<1>1. /\ Numeradas' /\ Clasificadas' /\ Unico' /\ Sucesivos' /\ TramaPropia'
      /\ intento'[a].pc = p
      /\ \A b \in Intentos : intento'[b].de = intento[b].de
      /\ \A b \in Intentos \ {a} : intento'[b] = intento[b]
      /\ \A b \in Intentos : intento'[b].pc \in EnCurso => intento[b].pc \in EnCurso
  BY CruceAvance DEF Enteras
<1>2. \A k \in 1..Len(cola) : cola[k].a \in Intentos /\ (Propio(k)' <=> Propio(k))
  BY <1>1, TiposAviso DEF Propio
<1>3. \A k \in 1..Len(cola) : cola[k].a = a =>
          cola[k].que = "uno" \/ (cola[k].que = "dos" /\ p = "errada")
  BY TiposAviso DEF Avisos, ColaEnviar
<1>4. Avisos'
  BY <1>1, <1>2, <1>3 DEF Avisos
<1>5. Tapadas'
  BY <1>1, <1>2 DEF Tapadas, Sola, Tapada
<1>6. Ordenados'
  BY <1>1, <1>2 DEF Ordenados, Sola
<1>7. Contestadas'
  BY <1>1 DEF Contestadas, Sola
<1>8. Tramas'
  BY <1>1 DEF Tramas, Sola
<1>9. QED BY <1>1, <1>4, <1>5, <1>6, <1>7, <1>8

\* The runnable of a query: its screen has no other press and gets no message.
LEMMA CruceConsulta ==
    ASSUME TypeOK, ColaEnviar, Cruce, cerrarConsulta
    PROVE  Cruce'
<1> USE DEF Cruce
<1>1. PICK i, a : i = Head(cola).i /\ a = Head(cola).a
  OBVIOUS
<1>2. /\ i \in Pantallas /\ a \in Intentos /\ cola # <<>> /\ Head(cola).que = "enviar"
      /\ clase[i] = "consulta" /\ Avanzar(a, "consultada") /\ cola' = Tail(cola)
      /\ dialogo' = [dialogo EXCEPT ![i] = "cerrado"]
      /\ UNCHANGED <<instancia, pantalla, clase, respuestaC, servidor, cruzadas, sinEmpaque>>
  BY <1>1, Cabeza DEF cerrarConsulta, EnCabeza, historia
<1>3. /\ Head(cola) = cola[1] /\ 1 \in 1..Len(cola)
      /\ \A k \in 1..Len(cola') : /\ k + 1 \in 1..Len(cola) /\ cola'[k] = cola[k + 1]
                                  /\ k \in Nat
      /\ \A k \in 1..Len(cola) :
            k = 1 \/ (k - 1 \in 1..Len(cola') /\ cola'[k - 1] = cola[k])
  BY <1>2, TrasCabeza
<1>4. intento[a].pc = "encolado" /\ intento[a].de = i
  BY <1>1, <1>2, <1>3 DEF ColaEnviar, Avisos
<1>5. /\ Numeradas' /\ Clasificadas' /\ Unico' /\ Sucesivos' /\ TramaPropia'
      /\ intento'[a].pc = "consultada"
      /\ \A b \in Intentos : intento'[b].de = intento[b].de
      /\ \A b \in Intentos \ {a} : intento'[b] = intento[b]
      /\ \A b \in Intentos : intento'[b].pc \in EnCurso => intento[b].pc \in EnCurso
      /\ \A b \in Intentos : intento'[b].pc \in EnCurso /\ Sola(intento[b].de) =>
            Tapada(intento[b].de)
  BY <1>2, <1>4, CruceAvance DEF Enteras
<1>6. \A k \in 1..Len(cola) : /\ cola[k].a \in Intentos /\ cola[k].i \in Pantallas
                              /\ Propio(k) <=> /\ cola[k].que \in {"uno", "dos"}
                                               /\ intento'[cola[k].a].de = cola[k].i
  BY <1>5, TiposAviso DEF Propio
<1>7. \A k \in 1..Len(cola') : Propio(k)' <=> Propio(k + 1)
  BY <1>3, <1>6 DEF Propio
<1>8. \A k \in 1..Len(cola) : cola[k].a = a => k = 1
  BY <1>1, <1>2, <1>3, <1>4, TiposAviso DEF Avisos, ColaEnviar
<1>9. \A k \in 1..Len(cola) : Propio(k) => cola[k].i # i
  BY <1>2, <1>6, TiposAviso DEF Propio, Avisos, Clasificadas
<1>10. \A b \in Intentos : intento'[b].pc \in EnCurso /\ Sola(i) => intento[b].de # i
  BY <1>2, <1>4, <1>5 DEF Unico, EnCurso
<1>11. \A j \in Pantallas : j # i /\ Tapada(j) => Tapada(j)'
  BY <1>2 DEF Tapada, TypeOK
<1>12. Avisos'
  <2>1. ASSUME NEW k \in 1..Len(cola')
        PROVE  /\ cola'[k].que = "enviar" => cola'[k].i = intento'[cola'[k].a].de
               /\ cola'[k].que = "uno" =>
                     intento'[cola'[k].a].pc \in {"respondida", "leida", "excepcion", "errada"}
               /\ cola'[k].que = "dos" => intento'[cola'[k].a].pc \in {"excepcion", "errada"}
    BY <1>3, <1>5, <1>6, <1>8 DEF Avisos
  <2>2. \A b \in Intentos :
            intento'[b].pc \in {"libre", "empaqueta", "encolado", "consultada"} =>
                servidor'[b] = "nada"
    BY <1>2, <1>4, <1>5 DEF Avisos
  <2>3. QED BY <2>1, <2>2 DEF Avisos
<1>13. Tapadas'
  <2>1. ASSUME NEW k \in 1..Len(cola'), Propio(k)', cola'[k].i \notin cruzadas'
        PROVE  Tapada(cola[k].i)'
    <3>1. PICK j : j = cola[k + 1].i
      OBVIOUS
    <3>2. k + 1 \in 1..Len(cola) /\ cola'[k] = cola[k + 1] /\ Propio(k + 1)
      BY <1>3, <1>7, <2>1
    <3>3. j \in Pantallas /\ Tapada(j) /\ j # i
      BY <1>2, <1>6, <1>9, <2>1, <3>1, <3>2 DEF Tapadas, Sola
    <3>4. Tapada(j)'
      BY <1>11, <3>3
    <3>5. QED BY <3>1, <3>2, <3>4 DEF Tapada
  <2>2. ASSUME NEW b \in Intentos, intento'[b].pc \in EnCurso, intento'[b].de \notin cruzadas'
        PROVE  Tapada(intento[b].de)'
    <3>1. PICK j : j = intento[b].de
      OBVIOUS
    <3>2. j \in Pantallas /\ Tapada(j) /\ j # i
      BY <1>2, <1>5, <1>10, <2>2, <3>1, TiposIntento DEF Sola, EnCurso
    <3>3. Tapada(j)'
      BY <1>11, <3>2
    <3>4. QED BY <1>5, <3>1, <3>3 DEF Tapada
  <2>3. QED BY <2>1, <2>2 DEF Tapadas, Sola, EnCurso
<1>14. Ordenados'
  BY <1>2, <1>3, <1>5, <1>6, <1>7 DEF Ordenados, Sola
<1>15. Contestadas'
  <2>1. ASSUME NEW b \in Intentos, intento'[b].pc \in {"respondida", "leida"},
               intento'[b].de \notin cruzadas', pantalla'[intento'[b].de] = "valores"
        PROVE  \E k \in 1..Len(cola') :
                  cola'[k].que = "uno" /\ cola'[k].a = b /\ cola'[k].i = intento'[b].de
    <3>1. b # a /\ intento'[b] = intento[b]
      BY <1>5, <2>1
    <3>2. PICK k \in 1..Len(cola) :
              cola[k].que = "uno" /\ cola[k].a = b /\ cola[k].i = intento[b].de
      BY <1>2, <2>1, <3>1 DEF Contestadas, Sola
    <3>3. k # 1
      BY <1>1, <1>3, <3>1, <3>2
    <3>4. QED BY <1>3, <3>1, <3>2, <3>3
  <2>2. \A b \in Intentos : intento'[b].pc = "muerto" => pantalla'[intento'[b].de] # "valores"
    BY <1>2, <1>5 DEF Contestadas
  <2>3. QED BY <2>1, <2>2 DEF Contestadas, Sola
<1>16. Tramas'
  BY <1>2, <1>5 DEF Tramas, Sola
<1>17. QED BY <1>5, <1>12, <1>13, <1>14, <1>15, <1>16

\* The request leaves with the frame of its screen, which is its own.
LEMMA CruceEnvia ==
    ASSUME TypeOK, ColaEnviar, Cruce, EnCabeza("enviar"), clase[Head(cola).i] # "consulta",
           Envia(Head(cola).i, Head(cola).a), UNCHANGED historia
    PROVE  Cruce'
<1> USE DEF Cruce
<1>1. PICK i, a : i = Head(cola).i /\ a = Head(cola).a
  OBVIOUS
<1>2. /\ i \in Pantallas /\ a \in Intentos /\ cola # <<>> /\ Head(cola).que = "enviar"
      /\ clase[i] # "consulta" /\ cola' = Tail(cola)
      /\ UNCHANGED <<instancia, pantalla, clase, dialogo, respuestaC, cruzadas, sinEmpaque>>
  BY <1>1, Cabeza DEF EnCabeza, Envia, pantallas, historia
<1>3. /\ Head(cola) = cola[1] /\ 1 \in 1..Len(cola)
      /\ \A k \in 1..Len(cola') : /\ k + 1 \in 1..Len(cola) /\ cola'[k] = cola[k + 1]
                                  /\ k \in Nat
      /\ \A k \in 1..Len(cola) :
            k = 1 \/ (k - 1 \in 1..Len(cola') /\ cola'[k - 1] = cola[k])
  BY <1>2, TrasCabeza
<1>4. intento[a].pc = "encolado" /\ intento[a].de = i /\ intento[a] \in Intento
  BY <1>1, <1>2, <1>3 DEF ColaEnviar, Avisos, TypeOK
<1>5. /\ intento'[a].pc = "enviada" /\ intento'[a].trama = respuestaC[i]
      /\ \A b \in Intentos : intento'[b].de = intento[b].de
      /\ \A b \in Intentos \ {a} : intento'[b] = intento[b] /\ servidor'[b] = servidor[b]
  <2>1. intento'[a].trama = respuestaC[i]
    BY <1>1, <1>2, <1>4 DEF Intento, Envia, TypeOK
  <2>2. QED BY <1>1, <1>2, <2>1, EfectoEnvia
<1>6. /\ \A b \in Intentos : intento'[b].pc \in EnCurso => intento[b].pc \in EnCurso
      /\ \A b \in Intentos : intento'[b].pc = "libre" <=> intento[b].pc = "libre"
  BY <1>4, <1>5 DEF EnCurso
<1>7. \A k \in 1..Len(cola) : /\ cola[k].a \in Intentos /\ cola[k].i \in Pantallas
                              /\ Propio(k) <=> /\ cola[k].que \in {"uno", "dos"}
                                               /\ intento'[cola[k].a].de = cola[k].i
  BY <1>5, TiposAviso DEF Propio
<1>8. \A k \in 1..Len(cola') : Propio(k)' <=> Propio(k + 1)
  BY <1>3, <1>7 DEF Propio
<1>9. \A k \in 1..Len(cola) : cola[k].a = a => k = 1
  BY <1>1, <1>2, <1>3, <1>4, TiposAviso DEF Avisos, ColaEnviar
<1>10. Numeradas'
  BY <1>2, <1>5, <1>6 DEF Numeradas
<1>11. Clasificadas'
  BY <1>2, <1>4, <1>5 DEF Clasificadas
<1>12. Avisos'
  <2>1. ASSUME NEW k \in 1..Len(cola')
        PROVE  /\ cola'[k].que = "enviar" => cola'[k].i = intento'[cola'[k].a].de
               /\ cola'[k].que = "uno" =>
                     intento'[cola'[k].a].pc \in {"respondida", "leida", "excepcion", "errada"}
               /\ cola'[k].que = "dos" => intento'[cola'[k].a].pc \in {"excepcion", "errada"}
    BY <1>3, <1>5, <1>7, <1>9 DEF Avisos
  <2>2. \A b \in Intentos :
            intento'[b].pc \in {"libre", "empaqueta", "encolado", "consultada"} =>
                servidor'[b] = "nada"
    BY <1>5 DEF Avisos
  <2>3. QED BY <2>1, <2>2 DEF Avisos
<1>13. Unico'
  BY <1>2, <1>5, <1>6 DEF Unico, Sola
<1>14. Tapadas'
  BY <1>2, <1>3, <1>5, <1>6, <1>7, <1>8 DEF Tapadas, Sola, Tapada
<1>15. Ordenados'
  BY <1>2, <1>3, <1>5, <1>6, <1>7, <1>8 DEF Ordenados, Sola
<1>16. Contestadas'
  <2>1. ASSUME NEW b \in Intentos, intento'[b].pc \in {"respondida", "leida"},
               intento'[b].de \notin cruzadas', pantalla'[intento'[b].de] = "valores"
        PROVE  \E k \in 1..Len(cola') :
                  cola'[k].que = "uno" /\ cola'[k].a = b /\ cola'[k].i = intento'[b].de
    <3>1. b # a /\ intento'[b] = intento[b]
      BY <1>5, <2>1
    <3>2. PICK k \in 1..Len(cola) :
              cola[k].que = "uno" /\ cola[k].a = b /\ cola[k].i = intento[b].de
      BY <1>2, <2>1, <3>1 DEF Contestadas, Sola
    <3>3. k # 1
      BY <1>1, <1>3, <3>1, <3>2
    <3>4. QED BY <1>3, <3>1, <3>2, <3>3
  <2>2. \A b \in Intentos : intento'[b].pc = "muerto" => pantalla'[intento'[b].de] # "valores"
    BY <1>2, <1>5 DEF Contestadas
  <2>3. QED BY <2>1, <2>2 DEF Contestadas, Sola
<1>17. Sucesivos'
  BY <1>2, <1>4, <1>5, <1>6 DEF Sucesivos, Sola
<1>18. Tramas'
  BY <1>2, <1>5 DEF Tramas, Sola
<1>19. TramaPropia'
  BY <1>2, <1>4, <1>5 DEF TramaPropia, Tramas, Sola
<1>20. QED
  BY <1>10, <1>11, <1>12, <1>13, <1>14, <1>15, <1>16, <1>17, <1>18, <1>19

\* A message is handled: the last one of a screen opens its button, and with
\* message 1 the screen is left; one of another press marks the screen.
LEMMA CruceMensaje ==
    ASSUME TypeOK, ColaEnviar, Cruce,
           NEW q \in {"uno", "dos"}, EnCabeza(q), Cruzada, cola' = Tail(cola),
           dialogo' = [dialogo EXCEPT ![Head(cola).i] = "cerrado"],
           \A j \in Pantallas : pantalla[j] # "valores" => pantalla'[j] # "valores",
           q = "uno" => pantalla'[Head(cola).i] # "valores",
           UNCHANGED <<instancia, clase, respuestaC, intento, servidor, sinEmpaque>>
    PROVE  Cruce'
<1> USE DEF Cruce
<1>1. PICK i, a : i = Head(cola).i /\ a = Head(cola).a
  OBVIOUS
<1>2. /\ i \in Pantallas /\ a \in Intentos /\ cola # <<>> /\ Head(cola).que = q
      /\ cruzadas' = (IF intento[a].de = i THEN cruzadas ELSE cruzadas \cup {i})
  BY <1>1, Cabeza DEF EnCabeza, Cruzada
<1>3. /\ Head(cola) = cola[1] /\ 1 \in 1..Len(cola)
      /\ \A k \in 1..Len(cola') : /\ k + 1 \in 1..Len(cola) /\ cola'[k] = cola[k + 1]
                                  /\ k \in Nat /\ 1 < k + 1
      /\ \A k \in 1..Len(cola) :
            k = 1 \/ (k - 1 \in 1..Len(cola') /\ cola'[k - 1] = cola[k])
  BY <1>2, TrasCabeza
<1>4. \A j : j \notin cruzadas' => Sola(j) /\ (j = i => Propio(1))
  BY <1>1, <1>2, <1>3 DEF Sola, Propio
<1>5. \A k \in 1..Len(cola) : /\ cola[k].a \in Intentos /\ cola[k].i \in Pantallas
                              /\ Propio(k) <=> /\ cola[k].que \in {"uno", "dos"}
                                               /\ intento'[cola[k].a].de = cola[k].i
  BY TiposAviso DEF Propio
<1>6. \A k \in 1..Len(cola') : Propio(k)' <=> Propio(k + 1)
  BY <1>3, <1>5 DEF Propio
<1>7. \A b \in Intentos : intento[b].pc # "libre" => intento[b].de \in Pantallas
  BY TiposIntento
<1>8. Numeradas' /\ Clasificadas'
  BY DEF Numeradas, Clasificadas
<1>9. Avisos'
  BY <1>3 DEF Avisos
<1>10. Unico' /\ Sucesivos' /\ Tramas' /\ TramaPropia'
  BY <1>4 DEF Unico, Sucesivos, Tramas, TramaPropia, Sola
<1>11. Ordenados'
  BY <1>3, <1>4, <1>5, <1>6 DEF Ordenados, Sola
<1>12. ASSUME NEW j \in Pantallas, j \notin cruzadas', Tapada(j),
              j = i /\ q = "dos" => FALSE
       PROVE  Tapada(j)'
  <2>1. CASE j = i
    BY <1>1, <1>2, <1>12, <2>1 DEF Tapada
  <2>2. CASE j # i
    BY <1>1, <1>2, <1>12, <2>2 DEF Tapada, TypeOK
  <2>3. QED BY <2>1, <2>2
<1>13. Tapadas'
  <2>1. ASSUME NEW k \in 1..Len(cola'), Propio(k)', cola'[k].i \notin cruzadas'
        PROVE  Tapada(cola[k].i)'
    <3>1. PICK j : j = cola[k + 1].i
      OBVIOUS
    <3>2. k + 1 \in 1..Len(cola) /\ cola'[k] = cola[k + 1] /\ Propio(k + 1) /\ 1 < k + 1
      BY <1>3, <1>6, <2>1
    <3>3. j \in Pantallas /\ j \notin cruzadas' /\ Sola(j)
      BY <1>4, <1>5, <2>1, <3>1, <3>2
    <3>4. Tapada(j)
      BY <3>1, <3>2, <3>3 DEF Tapadas
    <3>5. j = i => q = "uno"
      BY <1>1, <1>2, <1>3, <1>4, <3>1, <3>2, <3>3 DEF Ordenados
    <3>6. Tapada(j)'
      BY <1>12, <3>3, <3>4, <3>5
    <3>7. QED BY <3>1, <3>2, <3>6 DEF Tapada
  <2>2. ASSUME NEW b \in Intentos, intento'[b].pc \in EnCurso, intento'[b].de \notin cruzadas'
        PROVE  Tapada(intento[b].de)'
    <3>1. PICK j : j = intento[b].de
      OBVIOUS
    <3>2. j \in Pantallas /\ j \notin cruzadas' /\ Sola(j) /\ intento[b].pc \in EnCurso
      BY <1>4, <1>7, <2>2, <3>1 DEF EnCurso
    <3>3. Tapada(j)
      BY <3>1, <3>2 DEF Tapadas
    <3>4. ASSUME j = i, q = "dos" PROVE FALSE
      <4>1. b = a
        BY <1>1, <1>2, <1>3, <1>4, <3>1, <3>2, <3>4 DEF Ordenados
      <4>2. intento[a].pc \in {"excepcion", "errada"}
        BY <1>1, <1>2, <1>3, <3>4 DEF Avisos
      <4>3. QED BY <3>2, <4>1, <4>2 DEF EnCurso
    <3>5. Tapada(j)'
      BY <1>12, <3>2, <3>3, <3>4
    <3>6. QED BY <3>1, <3>5 DEF Tapada
  <2>3. QED BY <2>1, <2>2 DEF Tapadas, Sola, EnCurso
<1>14. Contestadas'
  <2>1. ASSUME NEW b \in Intentos, intento'[b].pc \in {"respondida", "leida"},
               intento'[b].de \notin cruzadas', pantalla'[intento'[b].de] = "valores"
        PROVE  \E k \in 1..Len(cola') :
                  cola'[k].que = "uno" /\ cola'[k].a = b /\ cola'[k].i = intento'[b].de
    <3>1. PICK k \in 1..Len(cola) :
              cola[k].que = "uno" /\ cola[k].a = b /\ cola[k].i = intento[b].de
      BY <1>4, <1>7, <2>1 DEF Contestadas
    <3>2. k # 1
      BY <1>1, <1>2, <1>3, <2>1, <3>1
    <3>3. QED BY <1>3, <3>1, <3>2
  <2>2. \A b \in Intentos : intento'[b].pc = "muerto" => pantalla'[intento'[b].de] # "valores"
    BY <1>7 DEF Contestadas
  <2>3. QED BY <2>1, <2>2 DEF Contestadas, Sola
<1>15. QED BY <1>8, <1>9, <1>10, <1>11, <1>13, <1>14

\* The invariant is inductive.
LEMMA PasoCruce == IInvCruce /\ [Next]_vars => IInvCruce'
<1>1. SUFFICES ASSUME IInvCruce, [Next]_vars PROVE Cruce'
  BY PasoConfirmacion DEF IInvCruce
<1>2. TypeOK /\ Origen /\ ColaEnviar /\ Cruce /\ cola \in Seq(Aviso)
  BY <1>1 DEF IInvCruce, InvConfirmacion, TypeOK
<1>3. ASSUME NEW c \in Ofrecidas, onCreate(c) PROVE Cruce'
  BY <1>2, <1>3, CruceAbrir, OfrecidasAssumption
<1>4. CASE confirmarValores
  BY <1>2, <1>4, CrucePulsar
<1>5. CASE cancelarValores \/ doLogout
  <2>1. /\ UNCHANGED <<instancia, clase, dialogo, respuestaC, intento, cola, servidor, historia>>
        /\ \A i \in Pantallas : pantalla[i] # "valores" => pantalla'[i] # "valores"
    BY <1>2, <1>5 DEF cancelarValores, doLogout, TypeOK
  <2>2. QED BY <1>2, <2>1, CruceQuieto
<1>6. ASSUME NEW a \in Intentos, transaccionesSinTarjeta(a) PROVE Cruce'
  <2>1. /\ intento[a].pc = "empaqueta" /\ Avanzar(a, "encolado")
        /\ Encolar("enviar", intento[a].de, a)
        /\ UNCHANGED <<instancia, pantalla, clase, dialogo, servidor, cruzadas, sinEmpaque>>
        /\ respuestaC' = IF clase[intento[a].de] \in {"registrada", "empaquetada", "conTarjeta"}
                         THEN [respuestaC EXCEPT ![intento[a].de] = a] ELSE respuestaC
    BY <1>6 DEF transaccionesSinTarjeta, historia
  <2>2. QED BY <1>2, <2>1, CruceEmpaque
<1>7. ASSUME NEW a \in Intentos, excepcionEmpaque(a) PROVE Cruce'
  <2>1. intento[a].pc = "empaqueta" /\ a \in sinEmpaque' /\ sinEmpaque \subseteq sinEmpaque'
        /\ cruzadas' = cruzadas
    BY <1>7 DEF excepcionEmpaque
  <2>2. CASE Morir
    BY <1>2, <2>1, <2>2, CruceMorir
  <2>3. CASE /\ Avanzar(a, "encolado")
             /\ Encolar("enviar", intento[a].de, a)
             /\ UNCHANGED <<viva, instancia, pantallas, servidor>>
    BY <1>2, <2>1, <2>3, CruceEmpaque DEF pantallas
  <2>4. QED BY <1>7, <2>2, <2>3 DEF excepcionEmpaque
<1>8. CASE cerrarConsulta
  BY <1>2, <1>8, CruceConsulta
<1>9. CASE enviarTransaccion
  <2>1. /\ EnCabeza("enviar") /\ clase[Head(cola).i] # "consulta" /\ UNCHANGED historia
        /\ Morir \/ Envia(Head(cola).i, Head(cola).a)
    BY <1>9 DEF enviarTransaccion, Envia
  <2>2. CASE Morir
    BY <1>2, <2>1, <2>2, CruceMorir DEF historia
  <2>3. CASE Envia(Head(cola).i, Head(cola).a)
    BY <1>2, <2>1, <2>3, CruceEnvia
  <2>4. QED BY <2>1, <2>2, <2>3
<1>10. CASE mensajeRespuesta \/ mensajeError
  <2>1. Cruzada /\ sinEmpaque' = sinEmpaque /\ cruzadas \subseteq cruzadas'
    BY <1>10 DEF mensajeRespuesta, mensajeError, Cruzada
  <2>2. CASE Morir
    BY <1>2, <2>1, <2>2, CruceMorir
  <2>3. CASE mensajeRespuesta /\ ~Morir
    <3>1. /\ EnCabeza("uno") /\ cola' = Tail(cola)
          /\ dialogo' = [dialogo EXCEPT ![Head(cola).i] = "cerrado"]
          /\ pantalla' = [pantalla EXCEPT
                ![Head(cola).i] = IF resp[Head(cola).i] = "aprobada" THEN "exito" ELSE "fallida"]
          /\ UNCHANGED <<instancia, clase, respuestaC, intento, servidor>>
      BY <2>3 DEF mensajeRespuesta
    <3>2. Head(cola).i \in Pantallas
      BY <1>2, <3>1, Cabeza
    <3>3. /\ pantalla'[Head(cola).i] # "valores"
          /\ \A j \in Pantallas : pantalla[j] # "valores" => pantalla'[j] # "valores"
      BY <1>2, <3>1, <3>2 DEF TypeOK
    <3>4. QED BY <1>2, <2>1, <3>1, <3>3, CruceMensaje
  <2>4. CASE mensajeError /\ ~Morir
    <3>1. /\ EnCabeza("dos") /\ cola' = Tail(cola)
          /\ dialogo' = [dialogo EXCEPT ![Head(cola).i] = "cerrado"]
          /\ UNCHANGED <<pantalla, instancia, clase, respuestaC, intento, servidor>>
      BY <2>4 DEF mensajeError
    <3>2. QED BY <1>2, <2>1, <3>1, CruceMensaje
  <2>5. QED BY <1>10, <2>2, <2>3, <2>4
<1>11. ASSUME NEW a \in Intentos, generarVenta(a) PROVE Cruce'
  <2>1. /\ intento[a].pc = "enviada" /\ instancia \in Pantallas
        /\ Avanzar(a, "respondida") /\ Encolar("uno", instancia, a)
        /\ UNCHANGED <<instancia, pantallas, servidor, historia>>
    BY <1>2, <1>11 DEF generarVenta, Origen, Enteras
  <2>2. QED BY <1>2, <2>1, CrucePosta
<1>12. ASSUME NEW a \in Intentos, excepcionRespuesta(a) PROVE Cruce'
  <2>1. /\ intento[a].pc \in {"enviada", "respondida"} /\ instancia \in Pantallas
        /\ Avanzar(a, "excepcion") /\ Encolar("dos", instancia, a)
        /\ UNCHANGED <<instancia, pantallas, servidor, historia>>
    BY <1>2, <1>12 DEF excepcionRespuesta, Origen, Enteras
  <2>2. QED BY <1>2, <2>1, CrucePosta
<1>13. ASSUME NEW a \in Intentos, devolverRespuesta(a) \/ devolverError(a) PROVE Cruce'
  <2>1. /\ \/ intento[a].pc = "respondida" /\ Avanzar(a, "leida")
           \/ intento[a].pc = "excepcion" /\ Avanzar(a, "errada")
        /\ UNCHANGED <<instancia, pantalla, clase, dialogo, respuestaC, cola, servidor,
                       historia>>
    BY <1>13 DEF devolverRespuesta, devolverError
  <2>2. QED BY <1>2, <2>1, CruceLectura
<1>14. ASSUME NEW a \in Intentos, decidir(a) PROVE Cruce'
  <2>1. /\ UNCHANGED <<instancia, clase, dialogo, respuestaC, intento, cola, pantalla, historia>>
        /\ \A b \in Intentos : servidor[b] = "nada" => servidor'[b] = "nada"
    BY <1>2, <1>14 DEF decidir, pantallas, TypeOK
  <2>2. QED BY <1>2, <2>1, CruceQuieto
<1>15. CASE caida
  BY <1>2, <1>15, CruceMorir DEF caida, historia
<1>16. CASE reiniciar \/ UNCHANGED vars
  BY <1>2, <1>16, CruceQuieto DEF reiniciar, pantallas, vars
<1>17. QED
  BY <1>1, <1>3, <1>4, <1>5, <1>6, <1>7, <1>8, <1>9, <1>10, <1>11, <1>12, <1>13, <1>14,
     <1>15, <1>16 DEF Next, Usuario, InterfazGrafica, Hilo

\* For any number of screens and presses: a request carries the frame packed for
\* its own press, unless the packing threw or the messages of two screens crossed
\* (enviarTransaccion).
THEOREM TramaDelIntento == Spec => []TramaPropia
<1>1. IInvCruce => TramaPropia
  BY DEF IInvCruce, Cruce
<1>2. QED BY InicioCruce, PasoCruce, <1>1, PTL DEF Spec

\* For any number of screens and presses: the loader keeps each screen to one
\* request under way, as long as only its own messages close it.
THEOREM UnSoloIntercambio == Spec => []UnIntercambio
<1>1. IInvCruce => UnIntercambio
  BY DEF IInvCruce, Cruce, Unico, UnIntercambio, EnCurso, Sola
<1>2. QED BY InicioCruce, PasoCruce, <1>1, PTL DEF Spec

\* For any number of screens and presses: of two transactions of one screen that
\* the server approved, the answer to the first never came or could not be read,
\* or a message of another screen closed the loader.
THEOREM DobleCobroSoloTrasFallo == Spec => []SinDobleCobro
<1>1. ASSUME IInvCruce PROVE SinDobleCobro
  <2>1. TypeOK /\ Avisos /\ Sucesivos
    BY <1>1 DEF IInvCruce, InvConfirmacion, Cruce
  <2>2. \A a \in Intentos : Aprobada(a) => intento[a].pc \notin {"libre", "consultada"}
    BY <2>1 DEF Aprobada, Avisos
  <2>3. QED BY <2>1, <2>2 DEF SinDobleCobro, Sucesivos, Sola
<1>2. QED BY InicioCruce, PasoCruce, <1>1, PTL DEF Spec

=============================================================================
