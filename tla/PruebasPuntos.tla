---------------------------- MODULE PruebasPuntos ----------------------------
(***************************************************************************)
(* Proofs about the reversals of loyalty points (PuntosColombia).          *)
(*                                                                         *)
(* The invariants of the runs speak of the files and the books; to be      *)
(* inductive they need where the operation stands: which reversal is out   *)
(* of the way past each step of the gate, and that the record left in      *)
(* REVAUXPC by an operation that did not go out never reached the server.  *)
(***************************************************************************)
EXTENDS PuntosColombia, SequenceTheorems, TLAPS

\* What each place in the code knows of the two reversal files.
Lugares ==
    /\ pc = "libre" <=> op = "ninguna"
    /\ pc \in {"reversoPuntos", "enviar", "borrarAuxiliar", "guardar"} => ~reverso
    /\ pc \in {"reversoTarjeta", "enviar", "guardar"} => revpc = <<>>
    /\ pc = "esperar" /\ op = "venta" => revpc = <<>>
    /\ pc = "esperar" /\ op # "venta" => ~reverso /\ revaux = 0
    /\ pc = "borrarAuxiliar" => op # "venta" /\ revaux # 0 /\ revpc = <<revaux>>

\* Nothing is known of an accumulation before it starts, and one that is in
\* REVAUXPC has not been sent.
Nuevas ==
    /\ revaux \in 0 .. iniciadas /\ actual \in 0 .. iniciadas
    /\ Pendientes \subseteq 1 .. iniciadas
    /\ acumuladas \subseteq 1 .. iniciadas /\ registradas \subseteq 1 .. iniciadas
    /\ revaux \notin acumuladas /\ revaux \notin registradas
    /\ Pendientes \cap registradas = {}

\* The accumulation under way.
EnCurso ==
    /\ op = "acumular" => actual # 0
    /\ op = "acumular" /\ pc \in {"reversoTarjeta", "reversoPuntos", "enviar",
                                  "borrarAuxiliar"} => revaux = actual
    /\ op = "acumular" /\ pc = "esperar" => revpc = <<actual>>
    /\ op # "venta" /\ pc = "esperar" => Pendientes \cap acumuladas = {}
    /\ pc = "guardar" => /\ op = "acumular" /\ revaux = 0
                         /\ actual \in acumuladas

IInv ==
    /\ TypeOK /\ UnSoloPendiente /\ PuntosCubiertos /\ RegistroVigente
    /\ Lugares /\ Nuevas /\ EnCurso

LEMMA ConstanteBien == MaxAcumulaciones \in Nat /\ MaxAcumulaciones > 0
BY MaxAcumulacionesAssumption

\* The pending accumulations of the two shapes that REVPC takes.
LEMMA PendientesDe ==
    /\ revpc = <<>> => Pendientes = {}
    /\ \A a : revpc = <<a>> => Pendientes = {a}
    /\ revpc' = <<>> => Pendientes' = {}
    /\ \A a : revpc' = <<a>> => Pendientes' = {a}
<1>1. ASSUME NEW a PROVE DOMAIN <<a>> = {1} /\ <<a>>[1] = a
  OBVIOUS
<1>2. \A a : revpc = <<a>> => Pendientes = {a}
  BY <1>1 DEF Pendientes
<1>3. \A a : revpc' = <<a>> => Pendientes' = {a}
  BY <1>1 DEF Pendientes
<1>4. DOMAIN <<>> = {}
  OBVIOUS
<1>5. QED
  BY <1>2, <1>3, <1>4 DEF Pendientes

\* REVPC is absent or has one record, and then REVERSO.TXT is absent.
LEMMA UnRegistro ==
    ASSUME IInv
    PROVE  /\ revpc = <<>> \/ (revpc = <<Head(revpc)>> /\ ~reverso)
           /\ revpc # <<>> => Head(revpc) \in Acumulaciones
<1>1. revpc \in Seq(Acumulaciones) /\ Len(revpc) \in Nat
  BY DEF IInv, TypeOK
<1>2. Len(revpc) <= 1 /\ (Len(revpc) = 1 => ~reverso)
  BY <1>1 DEF IInv, UnSoloPendiente, TypeOK
<1>3. revpc = <<>> \/ revpc = <<Head(revpc)>>
  <2>1. revpc # <<>> => Len(revpc) \in Nat \ {0}
    BY <1>1, EmptySeq
  <2>2. revpc # <<>> => Len(revpc) = 1
    <3>1. \A n \in Nat : n <= 1 /\ n # 0 => n = 1
      OBVIOUS
    <3>2. QED
      BY <1>1, <1>2, <2>1, <3>1
  <2>3. Len(revpc) = 1 => revpc = <<revpc[1]>> /\ revpc[1] = Head(revpc)
    BY <1>1
  <2>4. QED
    BY <2>2, <2>3
<1>4. QED
  BY <1>1, <1>2, <1>3

\* The two shapes, seen from the invariant that bounds them.
LEMMA SoloUno ==
    ASSUME reverso' \in BOOLEAN,
           \/ revpc' = <<>>
           \/ ~reverso' /\ \E a : revpc' = <<a>>
    PROVE  UnSoloPendiente'
<1>1. CASE revpc' = <<>>
  <2>1. Len(revpc') = 0
    BY <1>1
  <2>2. QED
    BY <2>1 DEF UnSoloPendiente
<1>2. CASE ~reverso' /\ \E a : revpc' = <<a>>
  <2>1. PICK a : revpc' = <<a>>
    BY <1>2
  <2>2. Len(revpc') = 1
    BY <2>1
  <2>3. QED
    BY <1>2, <2>2 DEF UnSoloPendiente
<1>3. QED
  BY <1>1, <1>2

LEMMA InitIInv == Init => IInv
<1> SUFFICES ASSUME Init PROVE IInv
  OBVIOUS
<1>1. revpc = <<>> /\ Pendientes = {}
  BY PendientesDe DEF Init
<1>2. TypeOK /\ UnSoloPendiente
  <2>1. revpc \in Seq(Acumulaciones) /\ Len(revpc) = 0
    BY <1>1
  <2>2. 0 \in 0 .. MaxAcumulaciones
    BY ConstanteBien
  <2>3. TypeOK
    BY <2>1, <2>2 DEF Init, TypeOK
  <2>4. (IF reverso THEN 1 ELSE 0) = 0
    BY DEF Init
  <2>5. UnSoloPendiente
    BY <2>1, <2>4 DEF UnSoloPendiente
  <2>6. QED
    BY <2>3, <2>5
<1>3. QED
  BY <1>1, <1>2 DEF Init, IInv, PuntosCubiertos, RegistroVigente, Lugares, Nuevas, EnCurso

\* A step that leaves the accumulations as they are and moves the operation
\* only: what has to be seen is what the new place knows.
LEMMA PasoDeLugar ==
    ASSUME IInv, UNCHANGED <<archivos, acumuladas, historia>>,
           pc # "guardar",
           op' \in {"ninguna", "acumular", "consultar", "venta"},
           pc' \in {"libre", "reversoTarjeta", "reversoPuntos", "enviar"},
           actual' \in 0 .. iniciadas,
           Lugares', EnCurso'
    PROVE  IInv'
<1>1. TypeOK'
  BY ConstanteBien DEF IInv, TypeOK, archivos, historia
<1>2. Pendientes' = Pendientes
  BY DEF Pendientes, archivos
<1>3. UnSoloPendiente' /\ PuntosCubiertos' /\ RegistroVigente' /\ Nuevas'
  BY <1>2 DEF IInv, UnSoloPendiente, PuntosCubiertos, RegistroVigente, Nuevas,
     archivos, historia
<1>4. QED
  BY <1>1, <1>3 DEF IInv

LEMMA PasoTerminar ==
    ASSUME IInv, UNCHANGED <<archivos, acumuladas, historia>>,
           pc # "guardar", Terminar
    PROVE  IInv'
<1>1. op' = "ninguna" /\ pc' = "libre" /\ actual' = 0
  BY DEF Terminar
<1>2. Lugares' /\ EnCurso' /\ 0 \in 0 .. iniciadas
  BY <1>1 DEF Lugares, EnCurso, IInv, TypeOK
<1>3. QED
  BY <1>1, <1>2, PasoDeLugar

LEMMA PasoEmpezar ==
    ASSUME IInv, pc = "libre", NEW o \in {"consultar", "venta"}, Empezar(o),
           UNCHANGED <<actual, archivos, acumuladas, historia>>
    PROVE  IInv'
<1>1. op' = o /\ pc' = IF reverso THEN "reversoTarjeta" ELSE "reversoPuntos"
  BY DEF Empezar
<1>2. reverso => revpc = <<>>
  BY UnRegistro
<1>3. Lugares' /\ EnCurso' /\ actual' \in 0 .. iniciadas
  BY <1>1, <1>2 DEF IInv, Lugares, EnCurso, Nuevas, TypeOK, archivos
<1>4. QED
  BY <1>1, <1>3, PasoDeLugar

\* What every other step needs: REVPC stays or takes one of the two shapes.
LEMMA Formas ==
    ASSUME IInv, reverso' \in BOOLEAN,
           \/ revpc' = revpc /\ (reverso' => reverso \/ revpc = <<>>)
           \/ revpc' = <<>>
           \/ ~reverso' /\ revpc' = <<revaux>> /\ revaux \in Acumulaciones
    PROVE  /\ UnSoloPendiente' /\ revpc' \in Seq(Acumulaciones)
           /\ revpc' = revpc => Pendientes' = Pendientes
           /\ revpc' = <<>> => Pendientes' = {}
           /\ revpc' = <<revaux>> => Pendientes' = {revaux}
           /\ revpc = <<>> => Pendientes = {}
           /\ revpc # <<>> => Pendientes = {Head(revpc)}
<1>1. revpc = <<>> \/ (revpc = <<Head(revpc)>> /\ ~reverso)
  BY UnRegistro
<1>2. UnSoloPendiente'
  BY <1>1, SoloUno
<1>3. revpc' = revpc => Pendientes' = Pendientes
  BY DEF Pendientes
<1>4. revpc' \in Seq(Acumulaciones)
  <2>1. revpc \in Seq(Acumulaciones)
    BY DEF IInv, TypeOK
  <2>2. <<>> \in Seq(Acumulaciones)
    OBVIOUS
  <2>3. revaux \in Acumulaciones => <<revaux>> \in Seq(Acumulaciones)
    OBVIOUS
  <2>4. QED
    BY <2>1, <2>2, <2>3
<1>5. QED
  BY <1>1, <1>2, <1>3, <1>4, PendientesDe

LEMMA Pasoacumular ==
    ASSUME IInv, acumularPuntosColombia PROVE IInv'
<1>1. /\ UNCHANGED <<reverso, revpc, registradas, acumuladas, huecos>>
      /\ iniciadas' = iniciadas + 1 /\ revaux' = iniciadas + 1
      /\ actual' = iniciadas + 1 /\ op' = "acumular"
      /\ iniciadas \in Nat /\ iniciadas < MaxAcumulaciones
      /\ pc' = IF reverso THEN "reversoTarjeta" ELSE "reversoPuntos"
  BY ConstanteBien DEF acumularPuntosColombia, Empezar, IInv, TypeOK
<1>2. Pendientes' = Pendientes /\ UnSoloPendiente'
  BY <1>1, Formas DEF IInv, TypeOK
<1>3. TypeOK'
  BY <1>1, ConstanteBien DEF IInv, TypeOK, Acumulaciones
<1>4. PuntosCubiertos' /\ RegistroVigente'
  BY <1>1, <1>2 DEF IInv, PuntosCubiertos, RegistroVigente, acumularPuntosColombia
<1>5. Nuevas'
  BY <1>1, <1>2 DEF IInv, Nuevas
<1>6. reverso => revpc = <<>>
  BY UnRegistro
<1>7. Lugares' /\ EnCurso'
  BY <1>1, <1>6 DEF IInv, Lugares, EnCurso
<1>8. QED
  BY <1>2, <1>3, <1>4, <1>5, <1>7 DEF IInv

LEMMA Pasoeliminar ==
    ASSUME IInv, eliminarReversoExistente PROVE IInv'
<1>1. CASE ~reverso
  BY <1>1, PasoTerminar DEF eliminarReversoExistente, archivos, historia, IInv, TypeOK
<1>2. CASE reverso
  <2>1. revpc = <<>> /\ Pendientes = {}
    BY <1>2, UnRegistro, PendientesDe
  <2>2. /\ reverso' = FALSE /\ revpc' = <<>> /\ huecos' = huecos
        /\ UNCHANGED <<revaux, registradas, acumuladas, iniciadas, op, pc, actual>>
        /\ pc = "libre" /\ op = "ninguna"
    BY <1>2, <2>1 DEF eliminarReversoExistente, lugar, IInv, Lugares
  <2>3. Pendientes' = {} /\ UnSoloPendiente' /\ revpc' \in Seq(Acumulaciones)
    BY <2>2, Formas
  <2>4. TypeOK'
    BY <2>2, <2>3 DEF IInv, TypeOK, Acumulaciones
  <2>5. PuntosCubiertos' /\ RegistroVigente' /\ Nuevas'
    BY <2>1, <2>2, <2>3 DEF IInv, PuntosCubiertos, RegistroVigente, Nuevas
  <2>6. Lugares' /\ EnCurso'
    BY <2>2 DEF IInv, Lugares, EnCurso
  <2>7. QED
    BY <2>3, <2>4, <2>5, <2>6 DEF IInv
<1>3. QED
  BY <1>1, <1>2 DEF IInv, TypeOK

LEMMA Pasoreversos ==
    ASSUME IInv,
           \/ enviarReverso \/ generarReverso \/ enviarVenta \/ respuestaVenta
    PROVE  IInv'
<1>1. /\ UNCHANGED <<revpc, revaux, registradas, acumuladas, huecos, iniciadas>>
      /\ reverso' \in BOOLEAN /\ revpc = <<>>
      /\ op' \in {"ninguna", "acumular", "consultar", "venta"}
      /\ actual' \in {0, actual}
  <2>1. enviarReverso \/ generarReverso \/ enviarVenta \/ respuestaVenta
        => revpc = <<>>
    BY UnRegistro DEF enviarReverso, generarReverso, enviarVenta, respuestaVenta,
       IInv, Lugares
  <2>2. QED
    BY <2>1 DEF enviarReverso, generarReverso, enviarVenta, respuestaVenta,
       Terminar, Ir, historia, lugar, IInv, TypeOK
<1>2. Pendientes' = {} /\ Pendientes = {} /\ UnSoloPendiente'
  BY <1>1, Formas
<1>3. pc # "guardar"
  BY DEF enviarReverso, generarReverso, enviarVenta, respuestaVenta, IInv, EnCurso
<1>4. Lugares' /\ EnCurso' /\ pc' \in {"libre", "reversoPuntos", "enviar", "esperar"}
  <2>1. CASE enviarReverso
    BY <1>1, <2>1 DEF enviarReverso, lugar, IInv, Lugares, EnCurso
  <2>2. CASE generarReverso
    BY <1>1, <2>2 DEF generarReverso, Terminar, Ir, IInv, Lugares, EnCurso
  <2>3. CASE enviarVenta
    BY <1>1, <2>3 DEF enviarVenta, Ir, IInv, Lugares, EnCurso
  <2>4. CASE respuestaVenta
    BY <1>1, <2>4 DEF respuestaVenta, Terminar, IInv, Lugares, EnCurso
  <2>5. QED
    BY <2>1, <2>2, <2>3, <2>4
<1>5. TypeOK'
  BY <1>1, <1>4, ConstanteBien DEF IInv, TypeOK, Acumulaciones
<1>6. PuntosCubiertos' /\ RegistroVigente'
  BY <1>1, <1>2, <1>3 DEF IInv, PuntosCubiertos, RegistroVigente
<1>7. Nuevas'
  BY <1>1, <1>2 DEF IInv, Nuevas, TypeOK
<1>8. QED
  BY <1>2, <1>4, <1>5, <1>6, <1>7 DEF IInv

LEMMA PasoanulacionAprobada ==
    ASSUME IInv, anulacionAprobada PROVE IInv'
<1>1. /\ UNCHANGED <<reverso, revaux, registradas, iniciadas, huecos, op, actual>>
      /\ revpc # <<>> /\ revpc' = <<>> /\ pc = "reversoPuntos" /\ pc' = "enviar"
      /\ acumuladas' = acumuladas \ {Head(revpc)} /\ ~reverso
  BY DEF anulacionAprobada, Anulacion, Ir, historia, IInv, Lugares
<1>2. Pendientes' = {} /\ Pendientes = {Head(revpc)} /\ UnSoloPendiente'
      /\ revpc' \in Seq(Acumulaciones)
  BY <1>1, Formas DEF IInv, TypeOK
<1>3. TypeOK'
  BY <1>1, <1>2 DEF IInv, TypeOK, Acumulaciones
<1>4. PuntosCubiertos' /\ RegistroVigente'
  BY <1>1, <1>2 DEF IInv, PuntosCubiertos, RegistroVigente, Nuevas
<1>5. Nuevas'
  BY <1>1, <1>2 DEF IInv, Nuevas
<1>6. Lugares' /\ EnCurso'
  BY <1>1 DEF IInv, Lugares, EnCurso
<1>7. QED
  BY <1>2, <1>3, <1>4, <1>5, <1>6 DEF IInv

LEMMA PasoanulacionFallida ==
    ASSUME IInv, anulacionRechazada \/ anulacionPendiente PROVE IInv'
<1>1. /\ UNCHANGED <<reverso, revaux, registradas, iniciadas>>
      /\ revpc # <<>> /\ pc = "reversoPuntos" /\ ~reverso
      /\ op' = "ninguna" /\ pc' = "libre" /\ actual' = 0
      /\ acumuladas' \in {acumuladas, acumuladas \ {Head(revpc)}}
      /\ \/ revpc' = <<>> /\ huecos' = huecos \cup Pendientes
         \/ revpc' = revpc /\ huecos' = huecos
  BY DEF anulacionRechazada, anulacionPendiente, Anulacion, Terminar, QuizaAnulada,
     historia, archivos, IInv, Lugares
<1>2. Pendientes = {Head(revpc)} /\ UnSoloPendiente' /\ revpc' \in Seq(Acumulaciones)
      /\ Head(revpc) \in Acumulaciones
  BY <1>1, Formas, UnRegistro DEF IInv, TypeOK
<1>3. \/ Pendientes' = {} /\ huecos' = huecos \cup Pendientes
      \/ Pendientes' = Pendientes /\ huecos' = huecos
  BY <1>1, Formas DEF IInv, TypeOK
<1>4. TypeOK'
  <2>1. huecos' \subseteq Acumulaciones /\ acumuladas' \subseteq Acumulaciones
    BY <1>1, <1>2 DEF IInv, TypeOK
  <2>2. QED
    BY <1>1, <1>2, <2>1, ConstanteBien DEF IInv, TypeOK
<1>5. PuntosCubiertos' /\ RegistroVigente'
  BY <1>1, <1>2, <1>3 DEF IInv, PuntosCubiertos, RegistroVigente, Nuevas
<1>6. Nuevas'
  BY <1>1, <1>2, <1>3 DEF IInv, Nuevas, TypeOK
<1>7. Lugares' /\ EnCurso'
  BY <1>1 DEF IInv, Lugares, EnCurso
<1>8. QED
  BY <1>2, <1>4, <1>5, <1>6, <1>7 DEF IInv

LEMMA PasoescribirReversoPuntos ==
    ASSUME IInv, escribirReversoPuntos PROVE IInv'
<1>1. CASE revaux = 0
  BY <1>1, PasoTerminar DEF escribirReversoPuntos, LeerAusente, archivos, historia
<1>2. CASE revaux # 0
  <2>1. /\ revpc = <<>> /\ ~reverso /\ revpc' = Append(revpc, revaux)
        /\ UNCHANGED <<reverso, revaux, registradas, acumuladas, iniciadas, huecos,
                       op, actual>>
        /\ pc = "enviar" /\ pc' = "borrarAuxiliar" /\ op \in {"acumular", "consultar"}
        /\ revaux \in Acumulaciones
    BY <1>2, ConstanteBien DEF escribirReversoPuntos, Puntos, Ir, historia, IInv,
       Lugares, TypeOK, Acumulaciones
  <2>2. revpc' = <<revaux>>
    BY <2>1
  <2>3. Pendientes' = {revaux} /\ Pendientes = {} /\ UnSoloPendiente'
        /\ revpc' \in Seq(Acumulaciones)
    BY <2>1, <2>2, Formas DEF IInv, TypeOK
  <2>4. TypeOK'
    BY <2>1, <2>3 DEF IInv, TypeOK, Acumulaciones
  <2>5. PuntosCubiertos' /\ RegistroVigente'
    BY <2>1, <2>3 DEF IInv, PuntosCubiertos, RegistroVigente
  <2>6. Nuevas'
    BY <2>1, <2>3, ConstanteBien DEF IInv, Nuevas, TypeOK, Acumulaciones
  <2>7. Lugares' /\ EnCurso'
    BY <2>1, <2>2, <1>2 DEF IInv, Lugares, EnCurso
  <2>8. QED
    BY <2>3, <2>4, <2>5, <2>6, <2>7 DEF IInv
<1>3. QED
  BY <1>1, <1>2

LEMMA PasoborrarAuxiliar ==
    ASSUME IInv, borrarAuxiliar PROVE IInv'
<1>1. /\ UNCHANGED <<reverso, revpc, registradas, acumuladas, iniciadas, huecos,
                     op, actual>>
      /\ pc = "borrarAuxiliar" /\ pc' = "esperar" /\ revaux' = 0
      /\ revpc = <<revaux>> /\ op # "venta" /\ ~reverso /\ op # "ninguna"
  BY DEF borrarAuxiliar, Ir, historia, IInv, Lugares
<1>2. Pendientes' = Pendientes /\ UnSoloPendiente' /\ Pendientes = {revaux}
  BY <1>1, Formas, PendientesDe DEF IInv, TypeOK
<1>3. TypeOK'
  BY <1>1, ConstanteBien DEF IInv, TypeOK, Acumulaciones
<1>4. PuntosCubiertos' /\ RegistroVigente'
  BY <1>1, <1>2 DEF IInv, PuntosCubiertos, RegistroVigente
<1>5. Nuevas'
  BY <1>1, <1>2 DEF IInv, Nuevas, TypeOK
<1>6. Lugares' /\ EnCurso'
  BY <1>1, <1>2 DEF IInv, Lugares, EnCurso, Nuevas
<1>7. QED
  BY <1>2, <1>3, <1>4, <1>5, <1>6 DEF IInv

\* The answers to a request of points, which leave the operation for the
\* journal or end it.
LEMMA Pasorespuesta ==
    ASSUME IInv, aprobada \/ declinada \/ rechazada \/ sinRespuesta
    PROVE  IInv'
<1>1. /\ UNCHANGED <<reverso, revaux, registradas, iniciadas>>
      /\ op \in {"acumular", "consultar"} /\ pc = "esperar" /\ ~reverso /\ revaux = 0
      /\ Pendientes \cap acumuladas = {} /\ actual \in 0 .. MaxAcumulaciones
      /\ op = "acumular" => actual # 0 /\ revpc = <<actual>>
      /\ revpc' \in {revpc, <<>>}
  BY DEF aprobada, declinada, rechazada, sinRespuesta, Respuesta, Puntos, historia,
     archivos, IInv, Lugares, EnCurso, TypeOK
<1>2. /\ UnSoloPendiente' /\ revpc' \in Seq(Acumulaciones)
      /\ revpc' = revpc => Pendientes' = Pendientes
      /\ revpc' = <<>> => Pendientes' = {}
      /\ op = "acumular" => Pendientes = {actual}
  BY <1>1, Formas, PendientesDe DEF IInv, TypeOK
<1>3. CASE aprobada /\ op = "acumular"
  <2>1. /\ UNCHANGED <<huecos, op, actual>> /\ revpc' = <<>> /\ pc' = "guardar"
        /\ acumuladas' = acumuladas \cup {actual}
    BY <1>3 DEF aprobada, Ir, historia
  <2>2. TypeOK'
    BY <1>1, <1>2, <1>3, <2>1, ConstanteBien DEF IInv, TypeOK, Acumulaciones
  <2>3. PuntosCubiertos' /\ RegistroVigente'
    BY <1>1, <1>2, <1>3, <2>1 DEF IInv, PuntosCubiertos, RegistroVigente
  <2>4. Nuevas'
    BY <1>1, <1>2, <1>3, <2>1 DEF IInv, Nuevas, TypeOK
  <2>5. Lugares' /\ EnCurso'
    BY <1>1, <1>3, <2>1 DEF IInv, Lugares, EnCurso
  <2>6. QED
    BY <1>2, <2>2, <2>3, <2>4, <2>5 DEF IInv
<1>4. CASE ~(aprobada /\ op = "acumular")
  <2>1. /\ op' = "ninguna" /\ pc' = "libre" /\ actual' = 0
        /\ \/ UNCHANGED <<acumuladas, huecos>>
           \/ /\ op = "acumular"
              /\ acumuladas' \in {acumuladas, acumuladas \cup {actual}}
              /\ \/ huecos' = huecos \cup {actual}
                 \/ huecos' = huecos /\ revpc' = revpc
    BY <1>1, <1>4 DEF aprobada, declinada, rechazada, sinRespuesta, Terminar,
       QuizaAcumulada, historia, archivos
  <2>2. TypeOK'
    <3>1. op = "acumular" => actual \in Acumulaciones
      BY <1>1, ConstanteBien DEF Acumulaciones
    <3>2. huecos' \subseteq Acumulaciones /\ acumuladas' \subseteq Acumulaciones
      BY <2>1, <3>1 DEF IInv, TypeOK
    <3>3. QED
      BY <1>1, <1>2, <2>1, <3>2, ConstanteBien DEF IInv, TypeOK
  <2>3. PuntosCubiertos' /\ RegistroVigente'
    BY <1>1, <1>2, <2>1 DEF IInv, PuntosCubiertos, RegistroVigente
  <2>4. Nuevas'
    BY <1>1, <1>2, <2>1 DEF IInv, Nuevas, TypeOK
  <2>5. Lugares' /\ EnCurso'
    BY <1>1, <2>1 DEF IInv, Lugares, EnCurso
  <2>6. QED
    BY <1>2, <2>2, <2>3, <2>4, <2>5 DEF IInv
<1>5. QED
  BY <1>3, <1>4

\* The journal, or the end of the process before it.
LEMMA Pasoguardar ==
    ASSUME IInv, pc = "guardar", guardarTransaccion \/ caida PROVE IInv'
<1>1. /\ UNCHANGED <<reverso, revpc, revaux, acumuladas, iniciadas>>
      /\ op' = "ninguna" /\ pc' = "libre" /\ actual' = 0
      /\ \/ registradas' = registradas \cup {actual} /\ huecos' = huecos
         \/ registradas' = registradas /\ huecos' = huecos \cup {actual}
  BY DEF guardarTransaccion, caida, Terminar, historia, archivos
<1>2. /\ revpc = <<>> /\ op = "acumular" /\ actual \in acumuladas /\ revaux = 0
      /\ ~reverso
  BY DEF IInv, Lugares, EnCurso
<1>3. Pendientes' = {} /\ Pendientes = {} /\ UnSoloPendiente'
  BY <1>1, <1>2, Formas DEF IInv, TypeOK
<1>4. TypeOK'
  BY <1>1, <1>2, ConstanteBien DEF IInv, TypeOK, Acumulaciones
<1>5. PuntosCubiertos' /\ RegistroVigente'
  BY <1>1, <1>2, <1>3 DEF IInv, PuntosCubiertos, RegistroVigente
<1>6. Nuevas'
  BY <1>1, <1>2, <1>3 DEF IInv, Nuevas, TypeOK
<1>7. Lugares' /\ EnCurso'
  BY <1>1, <1>2 DEF IInv, Lugares, EnCurso
<1>8. QED
  BY <1>3, <1>4, <1>5, <1>6, <1>7 DEF IInv

\* One case per action.
LEMMA Paso == IInv /\ [Next]_vars => IInv'
<1> SUFFICES ASSUME IInv, [Next]_vars PROVE IInv'
  OBVIOUS
<1>1. CASE acumularPuntosColombia
  BY <1>1, Pasoacumular
<1>2. CASE redimirPuntosColombiaConsulta
  BY <1>2, PasoEmpezar DEF redimirPuntosColombiaConsulta
<1>3. CASE iniciarVenta
  BY <1>3, PasoEmpezar DEF iniciarVenta
<1>4. CASE eliminarReversoExistente
  BY <1>4, Pasoeliminar
<1>5. CASE enviarReverso \/ generarReverso \/ enviarVenta \/ respuestaVenta
  BY <1>5, Pasoreversos
<1>6. CASE sinPendiente
  <2>1. Lugares' /\ EnCurso' /\ pc' = "enviar" /\ op' = op /\ actual' = actual
    BY <1>6 DEF sinPendiente, Ir, archivos, IInv, Lugares, EnCurso
  <2>2. op \in {"ninguna", "acumular", "consultar", "venta"} /\ actual \in 0 .. iniciadas
    BY DEF IInv, TypeOK, Nuevas
  <2>3. op' \in {"ninguna", "acumular", "consultar", "venta"} /\ actual' \in 0 .. iniciadas
    BY <2>1, <2>2
  <2>4. QED
    BY <1>6, <2>1, <2>3, PasoDeLugar DEF sinPendiente
<1>7. CASE anulacionAprobada
  BY <1>7, PasoanulacionAprobada
<1>8. CASE anulacionRechazada \/ anulacionPendiente
  BY <1>8, PasoanulacionFallida
<1>9. CASE sinConexion
  BY <1>9, PasoTerminar DEF sinConexion
<1>10. CASE escribirReversoPuntos
  BY <1>10, PasoescribirReversoPuntos
<1>11. CASE borrarAuxiliar
  BY <1>11, PasoborrarAuxiliar
<1>12. CASE aprobada \/ declinada \/ rechazada \/ sinRespuesta
  BY <1>12, Pasorespuesta
<1>13. CASE guardarTransaccion
  BY <1>13, Pasoguardar DEF guardarTransaccion
<1>14. CASE caida
  <2>1. CASE pc = "guardar"
    BY <1>14, <2>1, Pasoguardar
  <2>2. CASE pc # "guardar"
    BY <1>14, <2>2, PasoTerminar DEF caida, historia
  <2>3. QED
    BY <2>1, <2>2
<1>15. CASE UNCHANGED vars
  <2>1. Pendientes' = Pendientes
    BY <1>15 DEF Pendientes, vars, archivos
  <2>2. TypeOK' /\ UnSoloPendiente' /\ PuntosCubiertos' /\ RegistroVigente'
    BY <1>15, <2>1 DEF IInv, TypeOK, UnSoloPendiente, PuntosCubiertos,
       RegistroVigente, vars, archivos, lugar, historia
  <2>3. Lugares' /\ Nuevas' /\ EnCurso'
    BY <1>15, <2>1 DEF IInv, Lugares, Nuevas, EnCurso, vars, archivos, lugar, historia
  <2>4. QED
    BY <2>2, <2>3 DEF IInv
<1>16. QED
  BY <1>1, <1>2, <1>3, <1>4, <1>5, <1>6, <1>7, <1>8, <1>9, <1>10, <1>11, <1>12,
     <1>13, <1>14, <1>15 DEF Next, PasoTerminal, PasoCliente, PasoGate

LEMMA SiempreIInv == Spec => []IInv
BY InitIInv, Paso, PTL DEF Spec

\* Files, locals and books keep their types.
THEOREM PuntosTypeOK == Spec => []TypeOK
<1>1. IInv => TypeOK
  BY DEF IInv
<1>2. QED
  BY <1>1, SiempreIInv, PTL

\* REVERSO.TXT and REVPC are never pending together, so the gate loses no
\* result when the second reversal overwrites that of the first, and REVPC
\* never holds more than the record that is read from it.
THEOREM PuntosUnSoloPendiente == Spec => []UnSoloPendiente
<1>1. IInv => UnSoloPendiente
  BY DEF IInv
<1>2. QED
  BY <1>1, SiempreIInv, PTL

\* Outside the gaps, an accumulation that stands is in the journal, on its way
\* to it, or pending in REVPC, whatever ends the process and whenever.
THEOREM PuntosSiempreCubiertos == Spec => []PuntosCubiertos
<1>1. IInv => PuntosCubiertos
  BY DEF IInv
<1>2. QED
  BY <1>1, SiempreIInv, PTL

\* An accumulation in the journal stands at the server for good.
THEOREM PuntosRegistroVigente == Spec => []RegistroVigente
<1>1. IInv => RegistroVigente
  BY DEF IInv
<1>2. QED
  BY <1>1, SiempreIInv, PTL
=============================================================================
