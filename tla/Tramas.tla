------------------------------- MODULE Tramas -------------------------------
(***************************************************************************)
(* The frames of the correspondent operations of Bancolombia, which the    *)
(* native core packs for the confirmation screen to send (Bancolombia/     *)
(* *.cpp, called by Hilos.java through native-lib.cpp).  The operations    *)
(* share what they pack from: the record datosVentaBancolombia, the PIN    *)
(* block, EMV field 55, and the file TARJETA_CNB with the virtual card of  *)
(* the correspondent.  Each operation clears part of it, at its start, at  *)
(* its end, or never.                                                      *)
(*                                                                         *)
(* A datum is the operation it was captured for: what the properties ask   *)
(* of a frame is whose data it carries.  The screen waits for each press   *)
(* under a loader, so a press is not interrupted by another, but the user  *)
(* may press again after an answer that failed.                            *)
(***************************************************************************)
EXTENDS Naturals, Sequences

CONSTANTS MaxOperaciones,   \* bound: operations confirmed in a behaviour
          MaxPulsaciones    \* bound: presses of the button for each one

ASSUME MaxOperacionesAssumption == MaxOperaciones \in Nat \ {0}
ASSUME MaxPulsacionesAssumption == MaxPulsaciones \in Nat \ {0}

Operaciones == 1 .. MaxOperaciones
Nadie == 0                      \* an empty field
Duenos == {Nadie} \cup Operaciones

ConTarjeta == {"saldo", "retiroTarjeta", "transferencia"}
SinTarjeta == {"deposito", "pago", "retiroEfectivo", "recaudo", "envioGiro",
               "reclamacionGiro", "cancelacionGiro"}

VARIABLES
    \* the native core
    venta,        \* datosVentaBancolombia
    globalpinblock, globalCampo55,  \* whose PIN block and field 55 they hold
    tarjetaCNB,   \* file TARJETA_CNB: whose virtual cards, in order
    \* the screen
    pc,           \* "libre", "pantalla" or "enviar"
    operacion,    \* the operation it confirms
    pulsaciones,  \* presses of its button
    respuesta,    \* the frames the JNI function returned, none or one
    \* history
    abiertas,     \* operations opened so far
    consultadas   \* balance queries that packed a frame

nucleo   == <<venta, globalpinblock, globalCampo55, tarjetaCNB>>
pantalla == <<pc, operacion, pulsaciones, respuesta>>
historia == <<abiertas, consultadas>>
vars == <<nucleo, pantalla, historia>>

\* An amount: whose it is, and how many times "00" was appended to it.
Importe == [de : Duenos, ceros : 0 .. MaxPulsaciones]

\* The fields of the record that more than one operation reads.  The track
\* may hold characters of several operations.
Venta == [totalVenta : Importe, compraNeta : Importe,
          track2 : SUBSET Operaciones, tipoCuenta : Duenos, posEntrymode : Duenos]

Operacion == [n : Duenos, tipo : ConTarjeta \cup SinTarjeta,
              chip : BOOLEAN, pin : BOOLEAN]

Trama == [venta : Venta, pin : Duenos, campo55 : Duenos, sembrada : Operaciones]

TypeOK ==
    /\ venta \in Venta
    /\ globalpinblock \in Duenos /\ globalCampo55 \in Duenos
    /\ tarjetaCNB \in Seq(Operaciones)
    /\ pc \in {"libre", "pantalla", "enviar"}
    /\ pc = "enviar" => tarjetaCNB # <<>>
    /\ operacion \in Operacion
    /\ pulsaciones \in 0 .. MaxPulsaciones
    /\ respuesta \in Seq(Trama)
    /\ abiertas \in 0 .. MaxOperaciones
    /\ consultadas \subseteq Operaciones

\* memset(&datosVentaBancolombia, 0x00, sizeof(datosVentaBancolombia))
SinImporte == [de |-> Nadie, ceros |-> 0]

Registro(total, neto, pista, cuenta, modo) ==
    [totalVenta |-> total, compraNeta |-> neto, track2 |-> pista,
     tipoCuenta |-> cuenta, posEntrymode |-> modo]

VentaLimpia == Registro(SinImporte, SinImporte, {}, Nadie, Nadie)

Init ==
    /\ venta = VentaLimpia
    /\ globalpinblock = Nadie /\ globalCampo55 = Nadie
    /\ tarjetaCNB = <<>>
    /\ pc = "libre" /\ pulsaciones = 0 /\ respuesta = <<>>
    /\ operacion = [n |-> Nadie, tipo |-> "deposito", chip |-> FALSE, pin |-> FALSE]
    /\ abiertas = 0 /\ consultadas = {}

-----------------------------------------------------------------------------
(* The screen.                                                               *)

\* The user fills the form of an operation and reaches the button; a
\* remittance has asked for its commission by then, and verificarComision
\* has left the amounts in the record.
abrir(tipo, chip, pin) ==
    /\ pc \in {"libre", "pantalla"}
    /\ abiertas < MaxOperaciones
    /\ abiertas' = abiertas + 1
    /\ operacion' = [n |-> abiertas', tipo |-> tipo, chip |-> chip, pin |-> pin]
    /\ pulsaciones' = 0 /\ respuesta' = <<>> /\ pc' = "pantalla"
    /\ venta' = IF tipo = "envioGiro"
                THEN Registro([de |-> abiertas', ceros |-> 0],
                              [de |-> abiertas', ceros |-> 0], {}, Nadie, Nadie)
                ELSE venta
    /\ UNCHANGED <<globalpinblock, globalCampo55, tarjetaCNB, consultadas>>

\* Faulty variant: the file of the card is not deleted before it is written.
cargarSinBorrar ==
    /\ pc = "pantalla"
    /\ pulsaciones < MaxPulsaciones
    /\ pulsaciones' = pulsaciones + 1
    /\ tarjetaCNB' = Append(tarjetaCNB, operacion.n)
    /\ pc' = "enviar" /\ respuesta' = <<>>
    /\ UNCHANGED <<venta, globalpinblock, globalCampo55, operacion, historia>>

\* A press: Hilos writes the virtual card of the correspondent, then calls
\* the operation.
cargarInformacionPanVirtual ==
    /\ pc = "pantalla"
    /\ pulsaciones < MaxPulsaciones
    /\ pulsaciones' = pulsaciones + 1
    /\ tarjetaCNB' = <<operacion.n>>
    /\ pc' = "enviar" /\ respuesta' = <<>>
    /\ UNCHANGED <<venta, globalpinblock, globalCampo55, operacion, historia>>

\* The end of the process, at any point: the card stays in its file.
morir ==
    /\ pc # "libre"
    /\ venta' = VentaLimpia /\ globalpinblock' = Nadie /\ globalCampo55' = Nadie
    /\ pc' = "libre" /\ respuesta' = <<>>
    /\ UNCHANGED <<tarjetaCNB, operacion, pulsaciones, historia>>

-----------------------------------------------------------------------------
(* What the operations have in common.                                       *)

Enviar(tipo) == pc = "enviar" /\ operacion.tipo = tipo

\* cargarTarjetaSembrada reads the first record of the file.
Sembrada == Head(tarjetaCNB)

\* strcat(totalVenta, "00")
ConCeros(importe) == [de |-> importe.de, ceros |-> importe.ceros + 1]

\* The JNI function returns through generarStringRespuesta, which deletes
\* the card.
generarStringRespuesta(tramas) ==
    /\ respuesta' = tramas
    /\ tarjetaCNB' = <<>> /\ pc' = "pantalla"
    /\ UNCHANGED <<operacion, pulsaciones, abiertas>>

\* packISOMessage: `datos' is the record; the PIN block and field 55 go in
\* the frames that take them.
Empaquetada(datos, pin, campo55) ==
    <<[venta |-> datos, pin |-> pin, campo55 |-> campo55, sembrada |-> Sembrada]>>

\* The record of an operation that cleared it and wrote its amount: "00" is
\* appended, and when no card was read (`pista' is empty) the track is made
\* out of the virtual one.
Encabezado(pista, modo) ==
    Registro([de |-> operacion.n, ceros |-> 1], SinImporte,
             IF pista = {} THEN {Sembrada} ELSE pista, operacion.n, modo)

\* What the card of the operation leaves in the two globals.
PinLeido     == IF operacion.pin THEN operacion.n ELSE globalpinblock
Campo55Leido == IF operacion.chip THEN operacion.n ELSE globalCampo55

Modo == IF operacion.chip THEN operacion.n ELSE Nadie

LimpiarGlobales == globalpinblock' = Nadie /\ globalCampo55' = Nadie

-----------------------------------------------------------------------------
(* The operations.                                                           *)

\* A deposit packs neither the PIN block nor field 55, and does not clear
\* them.
enviarDeposito ==
    /\ Enviar("deposito")
    /\ venta' = Encabezado({}, operacion.n)
    /\ generarStringRespuesta(Empaquetada(venta', Nadie, Nadie))
    /\ UNCHANGED <<globalpinblock, globalCampo55, consultadas>>

\* Faulty variant: the globals are not cleared at the start.
pagoSinLimpiar ==
    /\ Enviar("pago")
    /\ UNCHANGED <<globalpinblock, globalCampo55, consultadas>>
    /\ venta' = Encabezado({}, operacion.n)
    /\ generarStringRespuesta(Empaquetada(venta', Nadie, globalCampo55))

\* The payment of a product clears the globals at its start.
enviarTransPago ==
    /\ Enviar("pago")
    /\ LimpiarGlobales
    /\ venta' = Encabezado({}, operacion.n)
    /\ generarStringRespuesta(Empaquetada(venta', Nadie, globalCampo55'))
    /\ UNCHANGED consultadas

\* A withdrawal without card clears them at its start and at its end.
retiroEfectivo ==
    /\ Enviar("retiroEfectivo")
    /\ LimpiarGlobales
    /\ venta' = Encabezado({operacion.n}, operacion.n)
    /\ generarStringRespuesta(Empaquetada(venta', operacion.n, Nadie))
    /\ UNCHANGED consultadas

\* Faulty variant: the JNI function does not clear the record.
conTarjetaSinLimpiar ==
    /\ Enviar("retiroTarjeta") \/ Enviar("transferencia")
    /\ venta' = Encabezado({operacion.n}, IF operacion.chip THEN operacion.n
                                          ELSE venta.posEntrymode)
    /\ LimpiarGlobales
    /\ generarStringRespuesta(Empaquetada(venta', PinLeido, Campo55Leido))
    /\ UNCHANGED consultadas

\* Faulty variant: the globals are not cleared at the end.
conTarjetaDejaGlobales ==
    /\ Enviar("retiroTarjeta") \/ Enviar("transferencia")
    /\ venta' = Encabezado({operacion.n}, Modo)
    /\ globalpinblock' = PinLeido /\ globalCampo55' = Campo55Leido
    /\ generarStringRespuesta(Empaquetada(venta', PinLeido, Campo55Leido))
    /\ UNCHANGED consultadas

\* A withdrawal and a transfer with card add what the card gave to what the
\* globals held, and clear them at their end only.  A magnetic stripe sets no
\* entry mode.
enviarConTarjeta ==
    /\ Enviar("retiroTarjeta") \/ Enviar("transferencia")
    /\ venta' = Encabezado({operacion.n}, Modo)
    /\ LimpiarGlobales
    /\ generarStringRespuesta(Empaquetada(venta', PinLeido, Campo55Leido))
    /\ UNCHANGED consultadas

\* A balance query clears nothing: neither the record before, so the end of
\* a longer track stays behind a shorter one and a magnetic stripe leaves
\* the account type and the entry mode of an earlier operation, nor the
\* globals after.
enviarTransaccionSaldoBCL ==
    /\ Enviar("saldo")
    /\ \E resto \in {{}, venta.track2} :
          venta' = Registro(venta.totalVenta, venta.compraNeta,
                            {operacion.n} \cup resto,
                            IF operacion.chip THEN operacion.n ELSE venta.tipoCuenta,
                            IF operacion.chip THEN operacion.n ELSE venta.posEntrymode)
    /\ globalpinblock' = PinLeido /\ globalCampo55' = Campo55Leido
    /\ consultadas' = consultadas \cup {operacion.n}
    /\ generarStringRespuesta(Empaquetada(venta', PinLeido, Campo55Leido))

\* The bill paid with a company card is the one operation that connects to
\* the host before it packs.  It returns its own text and leaves the card in
\* its file.  (Hilos gives it the amount and the track in each other's place:
\* the frame is not the one that leaves the terminal.)
enviarRecaudoTarjetaEmpresarial ==
    /\ Enviar("recaudo")
    /\ \/ /\ venta' = Encabezado({}, operacion.n)
          /\ globalpinblock' = Nadie
       \/ venta' = VentaLimpia /\ UNCHANGED globalpinblock     \* no connection
    /\ respuesta' = <<>> /\ pc' = "pantalla"
    /\ UNCHANGED <<globalCampo55, tarjetaCNB, operacion, pulsaciones, historia>>

\* armarTramaGiro, on top of what the record holds.
GiroSobre(v) ==
    Registro([de |-> operacion.n, ceros |-> v.totalVenta.ceros + 1],
             ConCeros(v.compraNeta), {Sembrada}, operacion.n, v.posEntrymode)

\* A remittance does not clear the record, where verificarComision left its
\* amounts: the digits of the total are written again over the old ones, and
\* each press appends "00" to both amounts.
realizarEnvioGiro ==
    /\ Enviar("envioGiro")
    /\ venta' = GiroSobre(venta)
    /\ generarStringRespuesta(Empaquetada(venta', Nadie, Nadie))
    /\ UNCHANGED <<globalpinblock, globalCampo55, consultadas>>

\* Faulty variant: the JNI function does not clear the record.
reclamacionSinLimpiar ==
    /\ Enviar("reclamacionGiro")
    /\ venta' = GiroSobre(venta)
    /\ generarStringRespuesta(Empaquetada(venta', Nadie, Nadie))
    /\ UNCHANGED <<globalpinblock, globalCampo55, consultadas>>

\* The claim of a remittance packs the same frame from a cleared record.
reclamacionGiro ==
    /\ Enviar("reclamacionGiro")
    /\ venta' = GiroSobre(VentaLimpia)
    /\ generarStringRespuesta(Empaquetada(venta', Nadie, Nadie))
    /\ UNCHANGED <<globalpinblock, globalCampo55, consultadas>>

\* The query of a remittance to cancel packs a frame without an amount, and
\* returns an empty text because the amount is not positive.
enviarConsultaCancelacionGiro ==
    /\ Enviar("cancelacionGiro")
    /\ venta' = Registro(ConCeros(SinImporte), SinImporte, {Sembrada}, Nadie, Nadie)
    /\ generarStringRespuesta(<<>>)
    /\ UNCHANGED <<globalpinblock, globalCampo55, consultadas>>

Next ==
    \/ \E t \in ConTarjeta, c \in BOOLEAN, p \in BOOLEAN : abrir(t, c, p)
    \/ \E t \in SinTarjeta : abrir(t, FALSE, FALSE)
    \/ cargarInformacionPanVirtual
    \/ enviarDeposito \/ enviarTransPago \/ retiroEfectivo \/ enviarConTarjeta
    \/ enviarTransaccionSaldoBCL \/ enviarRecaudoTarjetaEmpresarial
    \/ realizarEnvioGiro \/ reclamacionGiro \/ enviarConsultaCancelacionGiro
    \/ morir

Spec == Init /\ [][Next]_vars

-----------------------------------------------------------------------------
(* Properties of the frame that the screen sends.                            *)

Frame == respuesta[1]

\* The PIN block and field 55 of a frame were captured for its own operation.
\* The gap is the balance query, which leaves them in the globals
\* (saldo_bancolombia.cpp:74): what another operation's frame may carry comes
\* from one, and only in the frame of an operation with card; the payment of a
\* product and the withdrawal without card clear the globals before they pack.
DatosDeTarjetaPropios ==
    respuesta # <<>> =>
        \A dato \in {Frame.pin, Frame.campo55} \ {Nadie, operacion.n} :
            dato \in consultadas /\ operacion.tipo \in ConTarjeta

\* The amounts of a frame are the ones confirmed on its screen, with the two
\* decimals once.  The gap is the remittance pressed again
\* (giros_bancolombia.cpp:752): its amounts are multiplied by a hundred at each
\* press.  A balance query sends no amount.
ImporteConfirmado ==
    respuesta # <<>> /\ operacion.tipo # "saldo" =>
        /\ Frame.venta.totalVenta.de = operacion.n
        /\ operacion.tipo = "envioGiro" => Frame.venta.compraNeta.de = operacion.n
        /\ \/ Frame.venta.totalVenta.ceros = 1 /\ Frame.venta.compraNeta.ceros <= 1
           \/ operacion.tipo = "envioGiro" /\ pulsaciones > 1

\* The virtual card of a frame is the one written for its own press, although
\* a process that ends, or the bill of a company card, leaves one in the file.
TarjetaSembradaPropia ==
    respuesta # <<>> => Frame.sembrada = operacion.n

\* The record a frame is packed from has nothing of an earlier operation: the
\* track, the account type and the entry mode are its own, except in a balance
\* query, which starts from the record as it is.
RegistroPropio ==
    respuesta # <<>> /\ operacion.tipo # "saldo" =>
        /\ Frame.venta.track2 = {operacion.n}
        /\ Frame.venta.tipoCuenta = operacion.n
        /\ Frame.venta.posEntrymode \in {Nadie, operacion.n}

\* Every datum of a frame was captured for the operation it is sent for, but
\* for what a balance query leaves.
DatosPropios == DatosDeTarjetaPropios /\ TarjetaSembradaPropia /\ RegistroPropio
=============================================================================
