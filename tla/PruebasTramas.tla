---------------------------- MODULE PruebasTramas ----------------------------
(***************************************************************************)
(* Proofs about the frames of the correspondent operations (Tramas).       *)
(*                                                                         *)
(* The four properties speak of the frame just returned.  What makes them  *)
(* inductive is what the globals hold between two presses: whose data the  *)
(* PIN block and field 55 may be, which card is in the file when the       *)
(* operation starts, and how often a remittance has appended "00".         *)
(***************************************************************************)
EXTENDS Tramas, TLAPS

Constantes == /\ MaxOperaciones \in Nat \ {0}
              /\ MaxPulsaciones \in Nat \ {0}

\* Only a balance query leaves data of a card behind.
GlobalesDeConsulta ==
    {globalpinblock, globalCampo55} \subseteq {Nadie} \cup consultadas

\* A screen confirms a real operation, and the file has its card when the
\* operation starts.
TarjetaPuesta ==
    /\ pc # "libre" => operacion.n \in Operaciones
    /\ pc = "enviar" => tarjetaCNB = <<operacion.n>> /\ respuesta = <<>> /\ pulsaciones > 0
    /\ respuesta # <<>> => pc = "pantalla" /\ pulsaciones > 0

\* The record of a remittance keeps the amounts of its screen, with a "00"
\* for each frame packed.
GiroEnCurso ==
    pc # "libre" /\ operacion.tipo = "envioGiro" =>
        LET empaquetadas == IF pc = "enviar" THEN pulsaciones - 1 ELSE pulsaciones
        IN  /\ venta.totalVenta = [de |-> operacion.n, ceros |-> empaquetadas]
            /\ venta.compraNeta = [de |-> operacion.n, ceros |-> empaquetadas]
            /\ venta.posEntrymode = Nadie

IInv ==
    /\ TypeOK
    /\ GlobalesDeConsulta
    /\ TarjetaPuesta
    /\ GiroEnCurso
    /\ DatosDeTarjetaPropios
    /\ ImporteConfirmado
    /\ TarjetaSembradaPropia
    /\ RegistroPropio

LEMMA ConstantesBien == Constantes
BY MaxOperacionesAssumption, MaxPulsacionesAssumption DEF Constantes

\* A record of good fields is a record, the empty one among them.
LEMMA RegistroTipo ==
    ASSUME NEW total \in Importe, NEW neto \in Importe,
           NEW pista \in SUBSET Operaciones, NEW cuenta \in Duenos,
           NEW modo \in Duenos
    PROVE  Registro(total, neto, pista, cuenta, modo) \in Venta
BY DEF Registro, Venta

LEMMA VentaLimpiaTipo == VentaLimpia \in Venta /\ SinImporte \in Importe
<1>1. SinImporte \in Importe /\ Nadie \in Duenos
  BY ConstantesBien DEF Constantes, SinImporte, Importe, Duenos
<1>2. QED
  BY <1>1, RegistroTipo DEF VentaLimpia

LEMMA InitIInv == Init => IInv
BY VentaLimpiaTipo, ConstantesBien
   DEF Constantes, Init, IInv, TypeOK, GlobalesDeConsulta, TarjetaPuesta, GiroEnCurso,
       DatosDeTarjetaPropios, ImporteConfirmado, TarjetaSembradaPropia,
       RegistroPropio, Operacion, Duenos, Nadie, ConTarjeta, SinTarjeta

\* The head of the file is the card of the operation.
LEMMA SembradaPropia ==
    ASSUME IInv, pc = "enviar"
    PROVE  Sembrada = operacion.n /\ operacion.n \in Operaciones /\ operacion.n # Nadie
BY ConstantesBien DEF Constantes, IInv, TarjetaPuesta, Sembrada, Operaciones, Nadie

\* What the properties ask of a frame that packs `datos', for an operation
\* that sends an amount.
EmpaquetadaBien(datos, pin, campo55) ==
    /\ datos \in Venta
    /\ datos.totalVenta.de = operacion.n
    /\ operacion.tipo = "envioGiro" => datos.compraNeta.de = operacion.n
    /\ \/ datos.totalVenta.ceros = 1 /\ datos.compraNeta.ceros <= 1
       \/ operacion.tipo = "envioGiro" /\ pulsaciones > 1
    /\ datos.track2 = {operacion.n}
    /\ datos.tipoCuenta = operacion.n
    /\ datos.posEntrymode \in {Nadie, operacion.n}
    /\ pin \in Duenos /\ campo55 \in Duenos
    /\ \A dato \in {pin, campo55} \ {Nadie, operacion.n} :
          dato \in consultadas /\ operacion.tipo \in ConTarjeta

\* A frame like that, returned, establishes the four properties.
LEMMA RespuestaBien ==
    ASSUME IInv, pc = "enviar", NEW datos, NEW pin, NEW campo55,
           EmpaquetadaBien(datos, pin, campo55),
           consultadas' = consultadas,
           generarStringRespuesta(Empaquetada(datos, pin, campo55))
    PROVE  /\ respuesta' \in Seq(Trama)
           /\ DatosDeTarjetaPropios' /\ ImporteConfirmado'
           /\ TarjetaSembradaPropia' /\ RegistroPropio'
           /\ TarjetaPuesta'
<1> DEFINE f == [venta |-> datos, pin |-> pin, campo55 |-> campo55,
                 sembrada |-> Sembrada]
<1>1. /\ respuesta' = <<f>> /\ tarjetaCNB' = <<>> /\ pc' = "pantalla"
      /\ UNCHANGED <<operacion, pulsaciones, abiertas, consultadas>>
  BY DEF generarStringRespuesta, Empaquetada
<1>2. f \in Trama
  BY SembradaPropia DEF EmpaquetadaBien, Trama
<1>3. respuesta' \in Seq(Trama) /\ respuesta' # <<>> /\ Frame' = f
  BY <1>1, <1>2 DEF Frame
<1>4. DatosDeTarjetaPropios' /\ ImporteConfirmado' /\ RegistroPropio'
  BY <1>1, <1>3 DEF EmpaquetadaBien, DatosDeTarjetaPropios, ImporteConfirmado,
                    RegistroPropio
<1>5. TarjetaSembradaPropia'
  BY <1>1, <1>3, SembradaPropia DEF TarjetaSembradaPropia
<1>6. TarjetaPuesta'
  BY <1>1, <1>3 DEF IInv, TarjetaPuesta
<1>7. QED
  BY <1>3, <1>4, <1>5, <1>6

\* An operation that returns no frame establishes them too.
LEMMA SinRespuesta ==
    ASSUME respuesta' = <<>>
    PROVE  /\ respuesta' \in Seq(Trama)
           /\ DatosDeTarjetaPropios' /\ ImporteConfirmado'
           /\ TarjetaSembradaPropia' /\ RegistroPropio'
BY DEF DatosDeTarjetaPropios, ImporteConfirmado, TarjetaSembradaPropia, RegistroPropio

\* The record of an operation that cleared it.
LEMMA EncabezadoBien ==
    ASSUME IInv, pc = "enviar", operacion.tipo # "envioGiro",
           NEW modo \in {Nadie, operacion.n}, NEW pista \in {{}, {operacion.n}}
    PROVE  /\ Encabezado(pista, modo) \in Venta
           /\ \A pin \in {Nadie, operacion.n} : \A campo55 \in {Nadie, operacion.n} :
                 EmpaquetadaBien(Encabezado(pista, modo), pin, campo55)
<1> DEFINE total == [de |-> operacion.n, ceros |-> 1]
           v == Encabezado(pista, modo)
<1>1. v = Registro(total, SinImporte, {operacion.n}, operacion.n, modo)
  <2>1. (IF pista = {} THEN {Sembrada} ELSE pista) = {operacion.n}
    BY SembradaPropia
  <2>2. QED
    BY <2>1 DEF Encabezado
<1>2. total \in Importe /\ operacion.n \in Duenos /\ Nadie \in Duenos
  BY SembradaPropia, ConstantesBien DEF Constantes, Importe, Duenos
<1>3. v \in Venta
  BY <1>1, <1>2, RegistroTipo, VentaLimpiaTipo, SembradaPropia
<1>4. /\ v.totalVenta = total /\ v.compraNeta = SinImporte
      /\ v.track2 = {operacion.n} /\ v.tipoCuenta = operacion.n
      /\ v.posEntrymode = modo
  BY <1>1 DEF Registro
<1>5. QED
  <2>1. SinImporte.ceros = 0 /\ total.de = operacion.n /\ total.ceros = 1
    BY DEF SinImporte
  <2>2. QED
    BY <1>2, <1>3, <1>4, <2>1 DEF EmpaquetadaBien

\* A frame of a record with an empty PIN block and field 55, or with those of
\* its operation.
LEMMA PasoEncabezado ==
    ASSUME IInv, pc = "enviar", operacion.tipo # "envioGiro",
           NEW modo \in {Nadie, operacion.n}, NEW pista \in {{}, {operacion.n}},
           NEW pin, NEW campo55,
           venta' = Encabezado(pista, modo),
           \/ pin \in {Nadie, operacion.n} /\ campo55 \in {Nadie, operacion.n}
           \/ /\ operacion.tipo \in ConTarjeta
              /\ {pin, campo55} \subseteq {Nadie, operacion.n} \cup consultadas,
           {globalpinblock', globalCampo55'} \subseteq {Nadie} \cup consultadas,
           UNCHANGED consultadas,
           generarStringRespuesta(Empaquetada(venta', pin, campo55))
    PROVE  IInv'
<1>1. venta' \in Venta /\ EmpaquetadaBien(venta', pin, campo55)
  <2>1. venta' \in Venta /\ EmpaquetadaBien(venta', Nadie, Nadie)
    BY EncabezadoBien
  <2>2. pin \in Duenos /\ campo55 \in Duenos
    BY SembradaPropia DEF IInv, TypeOK, Duenos
  <2>3. \A dato \in {pin, campo55} \ {Nadie, operacion.n} :
           dato \in consultadas /\ operacion.tipo \in ConTarjeta
    OBVIOUS
  <2>4. QED
    BY <2>1, <2>2, <2>3 DEF EmpaquetadaBien
<1>2. /\ respuesta' \in Seq(Trama)
      /\ DatosDeTarjetaPropios' /\ ImporteConfirmado'
      /\ TarjetaSembradaPropia' /\ RegistroPropio'
      /\ TarjetaPuesta'
  BY <1>1, RespuestaBien
<1>3. /\ tarjetaCNB' = <<>> /\ pc' = "pantalla"
      /\ UNCHANGED <<operacion, pulsaciones, abiertas, consultadas>>
  BY DEF generarStringRespuesta
<1>4. TypeOK'
  <2>1. globalpinblock' \in Duenos /\ globalCampo55' \in Duenos
    BY DEF IInv, TypeOK, Duenos
  <2>2. QED
    BY <1>1, <1>2, <1>3, <2>1 DEF IInv, TypeOK
<1>5. GlobalesDeConsulta' /\ GiroEnCurso'
  BY <1>3 DEF GlobalesDeConsulta, GiroEnCurso
<1>6. QED
  BY <1>2, <1>4, <1>5 DEF IInv

LEMMA PasoAbrir ==
    ASSUME IInv, NEW t \in ConTarjeta \cup SinTarjeta, NEW c \in BOOLEAN,
           NEW p \in BOOLEAN, abrir(t, c, p)
    PROVE  IInv'
<1> DEFINE n == abiertas'
<1>1. n \in Operaciones /\ n \in 0 .. MaxOperaciones /\ n \in Duenos
  BY ConstantesBien DEF Constantes, IInv, TypeOK, abrir, Operaciones, Duenos
<1>2. operacion' \in Operacion /\ operacion'.n = n /\ operacion'.tipo = t
  BY <1>1 DEF abrir, Operacion
<1>3. [de |-> n, ceros |-> 0] \in Importe
  BY <1>1, ConstantesBien DEF Constantes, Importe
<1>4. venta' \in Venta
  <2>1. CASE t = "envioGiro"
    BY <2>1, <1>3, RegistroTipo DEF abrir, Duenos
  <2>2. CASE t # "envioGiro"
    BY <2>2 DEF abrir, IInv, TypeOK
  <2>3. QED
    BY <2>1, <2>2
<1>5. respuesta' = <<>> /\ pc' = "pantalla" /\ pulsaciones' = 0
  BY DEF abrir
<1>6. TypeOK'
  BY <1>1, <1>2, <1>4, <1>5, ConstantesBien
     DEF Constantes, IInv, TypeOK, abrir
<1>7. GiroEnCurso'
  BY <1>2, <1>5 DEF GiroEnCurso, abrir, Registro
<1>8. TarjetaPuesta' /\ GlobalesDeConsulta'
  BY <1>1, <1>2, <1>5 DEF IInv, TarjetaPuesta, GlobalesDeConsulta, abrir
<1>9. QED
  BY <1>5, <1>6, <1>7, <1>8, SinRespuesta DEF IInv

LEMMA PasoCargar ==
    ASSUME IInv, cargarInformacionPanVirtual
    PROVE  IInv'
<1>1. operacion.n \in Operaciones
  BY DEF IInv, TarjetaPuesta, cargarInformacionPanVirtual
<1>2. pulsaciones' \in 0 .. MaxPulsaciones /\ pulsaciones' > 0
      /\ pulsaciones' - 1 = pulsaciones
  BY ConstantesBien DEF Constantes, IInv, TypeOK, cargarInformacionPanVirtual
<1>3. TypeOK'
  <2>1. tarjetaCNB' \in Seq(Operaciones) /\ tarjetaCNB' # <<>>
    BY <1>1 DEF cargarInformacionPanVirtual
  <2>2. respuesta' \in Seq(Trama)
    BY DEF cargarInformacionPanVirtual
  <2>3. QED
    BY <1>2, <2>1, <2>2 DEF IInv, TypeOK, cargarInformacionPanVirtual, historia
<1>4. TarjetaPuesta' /\ GlobalesDeConsulta'
  BY <1>1, <1>2 DEF IInv, TarjetaPuesta, GlobalesDeConsulta,
                    cargarInformacionPanVirtual, historia
<1>5. GiroEnCurso'
  BY <1>2 DEF IInv, GiroEnCurso, cargarInformacionPanVirtual
<1>6. respuesta' = <<>>
  BY DEF cargarInformacionPanVirtual
<1>7. QED
  BY <1>3, <1>4, <1>5, <1>6, SinRespuesta DEF IInv

LEMMA PasoMorir ==
    ASSUME IInv, morir
    PROVE  IInv'
<1>1. respuesta' = <<>> /\ pc' = "libre" /\ venta' \in Venta
  BY VentaLimpiaTipo DEF morir
<1>2. TypeOK'
  <2>1. Nadie \in Duenos /\ respuesta' \in Seq(Trama)
    BY <1>1 DEF Duenos
  <2>2. QED
    BY <1>1, <2>1 DEF IInv, TypeOK, morir, historia
<1>3. TarjetaPuesta' /\ GlobalesDeConsulta' /\ GiroEnCurso'
  BY <1>1 DEF TarjetaPuesta, GlobalesDeConsulta, GiroEnCurso, morir
<1>4. QED
  BY <1>1, <1>2, <1>3, SinRespuesta DEF IInv

\* What the card leaves in the globals is of this operation or of a query.
LEMMA Leidos ==
    ASSUME IInv
    PROVE  {PinLeido, Campo55Leido} \subseteq {Nadie, operacion.n} \cup consultadas
BY DEF IInv, GlobalesDeConsulta, PinLeido, Campo55Leido

LEMMA PasoDeposito ==
    ASSUME IInv, enviarDeposito
    PROVE  IInv'
<1>1. /\ pc = "enviar" /\ operacion.tipo # "envioGiro"
      /\ venta' = Encabezado({}, operacion.n)
      /\ {globalpinblock', globalCampo55'} \subseteq {Nadie} \cup consultadas
      /\ UNCHANGED consultadas
      /\ generarStringRespuesta(Empaquetada(venta', Nadie, Nadie))
  BY DEF enviarDeposito, Enviar, IInv, GlobalesDeConsulta
<1>2. QED
  BY <1>1, PasoEncabezado

LEMMA PasoPago ==
    ASSUME IInv, enviarTransPago
    PROVE  IInv'
<1>1. /\ pc = "enviar" /\ operacion.tipo # "envioGiro"
      /\ venta' = Encabezado({}, operacion.n)
      /\ globalCampo55' = Nadie
      /\ {globalpinblock', globalCampo55'} \subseteq {Nadie} \cup consultadas
      /\ UNCHANGED consultadas
      /\ generarStringRespuesta(Empaquetada(venta', Nadie, globalCampo55'))
  BY DEF enviarTransPago, Enviar, LimpiarGlobales
<1>2. QED
  BY <1>1, PasoEncabezado

LEMMA PasoRetiroEfectivo ==
    ASSUME IInv, retiroEfectivo
    PROVE  IInv'
<1>1. /\ pc = "enviar" /\ operacion.tipo # "envioGiro"
      /\ venta' = Encabezado({operacion.n}, operacion.n)
      /\ {globalpinblock', globalCampo55'} \subseteq {Nadie} \cup consultadas
      /\ UNCHANGED consultadas
      /\ generarStringRespuesta(Empaquetada(venta', operacion.n, Nadie))
  BY DEF retiroEfectivo, Enviar, LimpiarGlobales
<1>2. QED
  BY <1>1, PasoEncabezado

LEMMA PasoConTarjeta ==
    ASSUME IInv, enviarConTarjeta
    PROVE  IInv'
<1>1. /\ pc = "enviar" /\ operacion.tipo # "envioGiro"
      /\ operacion.tipo \in ConTarjeta
      /\ venta' = Encabezado({operacion.n}, Modo)
      /\ Modo \in {Nadie, operacion.n}
      /\ {globalpinblock', globalCampo55'} \subseteq {Nadie} \cup consultadas
      /\ UNCHANGED consultadas
      /\ generarStringRespuesta(Empaquetada(venta', PinLeido, Campo55Leido))
  BY DEF enviarConTarjeta, Enviar, LimpiarGlobales, ConTarjeta, Modo
<1>2. QED
  BY <1>1, Leidos, PasoEncabezado

\* Appending "00" to an amount keeps it an amount while the presses allow it.
LEMMA GiroSobreBien ==
    ASSUME IInv, pc = "enviar", NEW v \in Venta, NEW k \in 0 .. pulsaciones - 1,
           v.totalVenta.ceros = k, v.compraNeta.ceros = k
    PROVE  /\ GiroSobre(v) \in Venta
           /\ GiroSobre(v).totalVenta = [de |-> operacion.n, ceros |-> k + 1]
           /\ GiroSobre(v).compraNeta = [de |-> v.compraNeta.de, ceros |-> k + 1]
           /\ GiroSobre(v).track2 = {operacion.n}
           /\ GiroSobre(v).tipoCuenta = operacion.n
           /\ GiroSobre(v).posEntrymode = v.posEntrymode
<1> DEFINE total == [de |-> operacion.n, ceros |-> k + 1]
           neto  == [de |-> v.compraNeta.de, ceros |-> k + 1]
<1>1. GiroSobre(v) = Registro(total, neto, {operacion.n}, operacion.n, v.posEntrymode)
  BY SembradaPropia DEF GiroSobre, ConCeros
<1>2. /\ v.compraNeta.de \in Duenos /\ v.posEntrymode \in Duenos
      /\ operacion.n \in Duenos
  BY SembradaPropia DEF Venta, Importe, Duenos
<1>3. k + 1 \in 0 .. MaxPulsaciones
  BY ConstantesBien DEF Constantes, IInv, TypeOK
<1>4. total \in Importe /\ neto \in Importe
  BY <1>2, <1>3 DEF Importe
<1>5. GiroSobre(v) \in Venta
  BY <1>1, <1>2, <1>4, RegistroTipo, SembradaPropia
<1>6. QED
  BY <1>1, <1>5 DEF Registro

LEMMA PasoEnvioGiro ==
    ASSUME IInv, realizarEnvioGiro
    PROVE  IInv'
<1> DEFINE k == pulsaciones - 1
<1>1. /\ pc = "enviar" /\ operacion.tipo = "envioGiro"
      /\ venta' = GiroSobre(venta)
      /\ UNCHANGED <<globalpinblock, globalCampo55, consultadas>>
      /\ generarStringRespuesta(Empaquetada(venta', Nadie, Nadie))
  BY DEF realizarEnvioGiro, Enviar
<1>2. /\ pulsaciones \in Nat /\ pulsaciones > 0 /\ venta \in Venta
      /\ venta.totalVenta = [de |-> operacion.n, ceros |-> k]
      /\ venta.compraNeta = [de |-> operacion.n, ceros |-> k]
      /\ venta.posEntrymode = Nadie
  BY <1>1, ConstantesBien DEF Constantes, IInv, TypeOK, TarjetaPuesta, GiroEnCurso
<1>3. /\ venta' \in Venta
      /\ venta'.totalVenta = [de |-> operacion.n, ceros |-> pulsaciones]
      /\ venta'.compraNeta = [de |-> operacion.n, ceros |-> pulsaciones]
      /\ venta'.track2 = {operacion.n} /\ venta'.tipoCuenta = operacion.n
      /\ venta'.posEntrymode = Nadie
  <2>1. k \in 0 .. pulsaciones - 1 /\ k + 1 = pulsaciones
    BY <1>2
  <2>2. venta.totalVenta.ceros = k /\ venta.compraNeta.ceros = k
        /\ venta.compraNeta.de = operacion.n
    BY <1>2
  <2>3. QED
    BY <1>1, <1>2, <2>1, <2>2, GiroSobreBien
<1>4. EmpaquetadaBien(venta', Nadie, Nadie)
  BY <1>1, <1>2, <1>3 DEF EmpaquetadaBien, Duenos
<1>5. /\ respuesta' \in Seq(Trama)
      /\ DatosDeTarjetaPropios' /\ ImporteConfirmado'
      /\ TarjetaSembradaPropia' /\ RegistroPropio'
      /\ TarjetaPuesta'
  BY <1>1, <1>4, RespuestaBien
<1>6. /\ tarjetaCNB' = <<>> /\ pc' = "pantalla"
      /\ UNCHANGED <<operacion, pulsaciones, abiertas>>
  BY <1>1 DEF generarStringRespuesta
<1>7. TypeOK'
  BY <1>1, <1>3, <1>5, <1>6 DEF IInv, TypeOK
<1>8. GlobalesDeConsulta' /\ GiroEnCurso'
  BY <1>1, <1>3, <1>6 DEF IInv, GlobalesDeConsulta, GiroEnCurso
<1>9. QED
  BY <1>5, <1>7, <1>8 DEF IInv

LEMMA PasoReclamacion ==
    ASSUME IInv, reclamacionGiro
    PROVE  IInv'
<1>1. /\ pc = "enviar" /\ operacion.tipo # "envioGiro"
      /\ venta' = GiroSobre(VentaLimpia)
      /\ UNCHANGED <<globalpinblock, globalCampo55, consultadas>>
      /\ generarStringRespuesta(Empaquetada(venta', Nadie, Nadie))
  BY DEF reclamacionGiro, Enviar
<1>2. /\ VentaLimpia \in Venta /\ VentaLimpia.posEntrymode = Nadie
      /\ VentaLimpia.totalVenta.ceros = 0 /\ VentaLimpia.compraNeta.ceros = 0
  BY VentaLimpiaTipo DEF VentaLimpia, Registro, SinImporte
<1>3. 0 \in 0 .. pulsaciones - 1
  BY <1>1, ConstantesBien DEF Constantes, IInv, TypeOK, TarjetaPuesta
<1>4. /\ venta' \in Venta
      /\ venta'.totalVenta = [de |-> operacion.n, ceros |-> 1]
      /\ venta'.compraNeta.ceros = 1
      /\ venta'.track2 = {operacion.n} /\ venta'.tipoCuenta = operacion.n
      /\ venta'.posEntrymode = Nadie
  <2> DEFINE v == VentaLimpia
             k == 0
  <2>1. /\ v \in Venta /\ k \in 0 .. pulsaciones - 1
        /\ v.totalVenta.ceros = k /\ v.compraNeta.ceros = k
    BY <1>2, <1>3
  <2> HIDE DEF v, k
  <2>2. /\ GiroSobre(v) \in Venta
        /\ GiroSobre(v).totalVenta = [de |-> operacion.n, ceros |-> k + 1]
        /\ GiroSobre(v).compraNeta = [de |-> v.compraNeta.de, ceros |-> k + 1]
        /\ GiroSobre(v).track2 = {operacion.n}
        /\ GiroSobre(v).tipoCuenta = operacion.n
        /\ GiroSobre(v).posEntrymode = v.posEntrymode
    BY <1>1, <2>1, GiroSobreBien
  <2>3. GiroSobre(v) = venta' /\ k + 1 = 1 /\ v.posEntrymode = Nadie
    BY <1>1, <1>2 DEF v, k
  <2>4. QED
    BY <2>2, <2>3
<1>5. EmpaquetadaBien(venta', Nadie, Nadie)
  BY <1>1, <1>4 DEF EmpaquetadaBien, Duenos
<1>6. /\ respuesta' \in Seq(Trama)
      /\ DatosDeTarjetaPropios' /\ ImporteConfirmado'
      /\ TarjetaSembradaPropia' /\ RegistroPropio'
      /\ TarjetaPuesta'
  BY <1>1, <1>5, RespuestaBien
<1>7. /\ tarjetaCNB' = <<>> /\ pc' = "pantalla"
      /\ UNCHANGED <<operacion, pulsaciones, abiertas>>
  BY <1>1 DEF generarStringRespuesta
<1>8. TypeOK' /\ GlobalesDeConsulta' /\ GiroEnCurso'
  BY <1>1, <1>4, <1>6, <1>7 DEF IInv, TypeOK, GlobalesDeConsulta, GiroEnCurso
<1>9. QED
  BY <1>6, <1>8 DEF IInv

LEMMA PasoCancelacion ==
    ASSUME IInv, enviarConsultaCancelacionGiro
    PROVE  IInv'
<1>1. /\ pc = "enviar" /\ operacion.tipo = "cancelacionGiro"
      /\ UNCHANGED <<globalpinblock, globalCampo55, consultadas>>
      /\ respuesta' = <<>> /\ tarjetaCNB' = <<>> /\ pc' = "pantalla"
      /\ UNCHANGED <<operacion, pulsaciones, abiertas>>
  BY DEF enviarConsultaCancelacionGiro, Enviar, generarStringRespuesta
<1>2. venta' \in Venta
  <2>1. ConCeros(SinImporte) \in Importe
    BY ConstantesBien DEF Constantes, ConCeros, SinImporte, Importe, Duenos
  <2>2. {Sembrada} \in SUBSET Operaciones /\ Nadie \in Duenos
    BY <1>1, SembradaPropia DEF Duenos
  <2>3. QED
    BY <2>1, <2>2, VentaLimpiaTipo, RegistroTipo DEF enviarConsultaCancelacionGiro
<1>3. TypeOK'
  BY <1>1, <1>2, SinRespuesta DEF IInv, TypeOK
<1>4. TarjetaPuesta' /\ GlobalesDeConsulta' /\ GiroEnCurso'
  BY <1>1 DEF IInv, TarjetaPuesta, GlobalesDeConsulta, GiroEnCurso
<1>5. QED
  BY <1>1, <1>3, <1>4, SinRespuesta DEF IInv

LEMMA PasoRecaudo ==
    ASSUME IInv, enviarRecaudoTarjetaEmpresarial
    PROVE  IInv'
<1>1. /\ pc = "enviar" /\ operacion.tipo = "recaudo"
      /\ respuesta' = <<>> /\ pc' = "pantalla"
      /\ globalpinblock' \in {Nadie, globalpinblock}
      /\ UNCHANGED <<globalCampo55, tarjetaCNB, operacion, pulsaciones, historia>>
  BY DEF enviarRecaudoTarjetaEmpresarial, Enviar
<1>2. venta' \in Venta
  BY <1>1, EncabezadoBien, VentaLimpiaTipo DEF enviarRecaudoTarjetaEmpresarial
<1>3. TypeOK'
  BY <1>1, <1>2, SinRespuesta DEF IInv, TypeOK, historia, Duenos
<1>4. TarjetaPuesta' /\ GlobalesDeConsulta' /\ GiroEnCurso'
  BY <1>1 DEF IInv, TarjetaPuesta, GlobalesDeConsulta, GiroEnCurso, historia
<1>5. QED
  BY <1>1, <1>3, <1>4, SinRespuesta DEF IInv

LEMMA PasoSaldo ==
    ASSUME IInv, enviarTransaccionSaldoBCL
    PROVE  IInv'
<1> DEFINE f == [venta |-> venta', pin |-> PinLeido, campo55 |-> Campo55Leido,
                 sembrada |-> Sembrada]
<1>1. /\ pc = "enviar" /\ operacion.tipo = "saldo" /\ operacion.tipo \in ConTarjeta
      /\ globalpinblock' = PinLeido /\ globalCampo55' = Campo55Leido
      /\ consultadas' = consultadas \cup {operacion.n}
      /\ respuesta' = <<f>> /\ tarjetaCNB' = <<>> /\ pc' = "pantalla"
      /\ UNCHANGED <<operacion, pulsaciones, abiertas>>
  BY DEF enviarTransaccionSaldoBCL, Enviar, generarStringRespuesta, Empaquetada, ConTarjeta
<1>2. operacion.n \in Operaciones /\ operacion.n \in Duenos
  BY <1>1, SembradaPropia DEF Duenos
<1>3. venta' \in Venta
  <2>1. PICK resto \in {{}, venta.track2} :
           venta' = Registro(venta.totalVenta, venta.compraNeta,
                        {operacion.n} \cup resto,
                        IF operacion.chip THEN operacion.n ELSE venta.tipoCuenta,
                        IF operacion.chip THEN operacion.n ELSE venta.posEntrymode)
    BY DEF enviarTransaccionSaldoBCL
  <2>2. /\ venta.totalVenta \in Importe /\ venta.compraNeta \in Importe
        /\ venta.track2 \in SUBSET Operaciones
        /\ venta.tipoCuenta \in Duenos /\ venta.posEntrymode \in Duenos
    BY DEF IInv, TypeOK, Venta
  <2>3. {operacion.n} \cup resto \in SUBSET Operaciones
    BY <1>2, <2>2
  <2>4. QED
    BY <1>2, <2>1, <2>2, <2>3, RegistroTipo
<1>4. PinLeido \in Duenos /\ Campo55Leido \in Duenos
  BY <1>2 DEF IInv, TypeOK, PinLeido, Campo55Leido
<1>5. f \in Trama /\ respuesta' \in Seq(Trama)
  <2>1. f \in Trama
    BY <1>1, <1>3, <1>4, SembradaPropia DEF Trama
  <2>2. QED
    BY <1>1, <2>1
<1>6. TypeOK'
  BY <1>1, <1>2, <1>3, <1>4, <1>5 DEF IInv, TypeOK
<1>7. Frame' = f
  BY <1>1 DEF Frame
<1>8. DatosDeTarjetaPropios'
  BY <1>1, <1>7, Leidos DEF DatosDeTarjetaPropios
<1>9. ImporteConfirmado' /\ RegistroPropio'
  BY <1>1 DEF ImporteConfirmado, RegistroPropio
<1>10. TarjetaSembradaPropia'
  BY <1>1, <1>7, SembradaPropia DEF TarjetaSembradaPropia
<1>11. TarjetaPuesta' /\ GlobalesDeConsulta' /\ GiroEnCurso'
  BY <1>1, Leidos DEF IInv, TarjetaPuesta, GlobalesDeConsulta, GiroEnCurso
<1>12. QED
  BY <1>6, <1>8, <1>9, <1>10, <1>11 DEF IInv

LEMMA Paso == IInv /\ [Next]_vars => IInv'
<1> SUFFICES ASSUME IInv, [Next]_vars PROVE IInv'
  OBVIOUS
<1>1. CASE Next
  BY <1>1, PasoAbrir, PasoCargar, PasoDeposito, PasoPago, PasoRetiroEfectivo,
     PasoConTarjeta, PasoSaldo, PasoRecaudo, PasoEnvioGiro, PasoReclamacion,
     PasoCancelacion, PasoMorir
     DEF Next
<1>2. CASE UNCHANGED vars
  BY <1>2 DEF vars, nucleo, pantalla, historia, IInv, TypeOK, GlobalesDeConsulta,
     TarjetaPuesta, GiroEnCurso, DatosDeTarjetaPropios, ImporteConfirmado,
     TarjetaSembradaPropia, RegistroPropio, Frame
<1>3. QED
  BY <1>1, <1>2

LEMMA IInvSiempre == Spec => []IInv
BY InitIInv, Paso, PTL DEF Spec

\* The state has its type for every number of operations and presses.
THEOREM TramasTypeOK == Spec => []TypeOK
<1>1. IInv => TypeOK
  BY DEF IInv
<1>2. QED
  BY <1>1, IInvSiempre, PTL

\* Every datum of a frame is of the operation it is sent for: PIN block and
\* field 55 come from another one only when that was a balance query and this
\* one has a card, the virtual card is the one written for its press, and the
\* record has nothing of an earlier operation, balance queries apart.
THEOREM TramasDatos == Spec => []DatosPropios
<1>1. IInv => DatosPropios
  BY DEF IInv, DatosPropios
<1>2. QED
  BY <1>1, IInvSiempre, PTL

\* A frame carries the amounts confirmed, except a remittance pressed again.
THEOREM TramasImporte == Spec => []ImporteConfirmado
<1>1. IInv => ImporteConfirmado
  BY DEF IInv
<1>2. QED
  BY <1>1, IInvSiempre, PTL
=============================================================================
