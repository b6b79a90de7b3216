---------------------------- MODULE Subscriptions ----------------------------
(***************************************************************************)
(* What the platform sells to a company: a plan (POS), Asistencias, both   *)
(* in one checkout, and the overage of a finished month.  Every sale keeps *)
(* what the company had before, and annulling it puts that back.  Around a *)
(* sale there are its receipt, the commission of the affiliate whose code  *)
(* brought the company, and the monthly settlement of the affiliate.       *)
(*                                                                         *)
(* Every operation is one transaction that locks the company or the row it *)
(* is about: an operation is one action.  A request id that was seen       *)
(* before is answered with what it made; that changes nothing, and is left *)
(* out.  Time is counted in months.  Prices, discounts and taxes are left  *)
(* out; a commission counts the parts of the sale it is for.               *)
(***************************************************************************)
EXTENDS Integers, FiniteSets, Sequences, SequencesExt

CONSTANTS
  Planes,      \* plans that are sold
  Limites,     \* capacities of Asistencias that are sold
  Empleados,   \* workers the company has
  Tipos,       \* of receipt in this instance: nota_venta, boleta
  MaxMes,      \* bound: months that pass
  MaxVentas,   \* bound: sales, checkouts and closed overages
  MaxAjustes   \* bound: changes an administrator makes by hand

ASSUME SubscriptionsAssumption ==
  /\ Planes # {} /\ "prueba" \notin Planes
  /\ Limites \subseteq Nat
  /\ Empleados \in Nat
  /\ Tipos \subseteq {"nota_venta", "boleta"}
  /\ MaxMes \in Nat
  /\ MaxVentas \in Nat
  /\ MaxAjustes \in Nat

Meses   == 0..(MaxMes + MaxVentas + 1)
Indices == 0..MaxVentas          \* 0: none
Plan    == [codigo : Planes \cup {"prueba"}, inicio : Meses, fin : Meses]
Asistencia == [activa : BOOLEAN, limite : Limites \cup {0}, fin : Meses]
Pagos       == [anterior : Plan, resultante : Plan,
                estado : {"pagado", "anulado"}]
Asistencias == [anterior : Asistencia, resultante : Asistencia,
                estado : {"activa", "cancelada"}]
Comisiones  == [tipo : {"venta", "ajuste_anulacion"}, monto : -2..2,
                pago : Indices, asistencia : Indices, periodo : 0..MaxMes,
                estado : {"pendiente", "liquidada", "anulada"}, liquidacion : Nat]
Liquidaciones == [total : Int, estado : {"pendiente", "pagada"}]
Comprobantes  == [tipo : Tipos, pago : Indices, asistencia : Indices,
                  excedente : BOOLEAN,
                  cobro : {"no", "pagado", "anulado"},   \* cobro_adicional_plataforma
                  baja : BOOLEAN, nota : BOOLEAN,   \* were asked for
                  reabierto : BOOLEAN,              \* left anulado (history)
                  estado : {"pendiente", "aceptado", "rechazado", "error",
                            "anulacion_pendiente", "anulado"}]

VARIABLES
  mes,           \* the current month
  empresa,       \* plan and Asistencias the company has now
  pagos,         \* pago_suscripcion, in the order of their creation
  asistencias,   \* suscripcion_asistencia, likewise
  afiliacion,    \* empresa_afiliacion: its state and its first payment
  comisiones,    \* comision_afiliado
  liquidaciones, \* liquidacion_afiliado
  excedente,     \* liquidacion_excedente of the first month
  comprobantes,  \* comprobante_plataforma
  ventas,        \* sales and closed overages so far
  ajustes        \* changes by hand so far

affiliateVars == <<afiliacion, comisiones, liquidaciones>>
vars == <<mes, empresa, pagos, asistencias, affiliateVars, excedente,
          comprobantes, ventas, ajustes>>

TypeOK ==
  /\ mes \in 0..MaxMes
  /\ empresa \in [plan : Plan, asistencia : Asistencia]
  /\ pagos \in Seq(Pagos) /\ asistencias \in Seq(Asistencias)
  /\ afiliacion \in [estado : {"ninguna", "activa", "interrumpida",
                               "cancelada"}, primerPago : Indices]
  /\ comisiones \in Seq(Comisiones) /\ liquidaciones \in Seq(Liquidaciones)
  /\ excedente \in {"abierto", "pendiente", "pagado", "anulado"}
  /\ comprobantes \in Seq(Comprobantes)
  /\ ventas \in 0..MaxVentas /\ ajustes \in 0..MaxAjustes

SinAsistencia == [activa |-> FALSE, limite |-> 0, fin |-> 0]
Prueba        == [codigo |-> "prueba", inicio |-> 0, fin |-> 1]

Init ==
  /\ mes = 0
  /\ empresa = [plan |-> Prueba, asistencia |-> SinAsistencia]
  /\ pagos = <<>> /\ asistencias = <<>>
  /\ afiliacion = [estado |-> "ninguna", primerPago |-> 0]
  /\ comisiones = <<>> /\ liquidaciones = <<>>
  /\ excedente = "abierto"
  /\ comprobantes = <<>>
  /\ ventas = 0 /\ ajustes = 0

Vigentes(s, estado) == {i \in DOMAIN s : s[i].estado = estado}
Pagados == Vigentes(pagos, "pagado")
Activas == Vigentes(asistencias, "activa")
Ultimo(S, i) == i \in S /\ \A k \in S : k <= i

----------------------------------------
(* The affiliate of a company.                                             *)

\* resolveSaleContext: an affiliation ends when the plan ran out unrenewed.
Vencida == /\ empresa.plan.fin <= mes
           /\ empresa.asistencia.fin <= mes
Afiliada == afiliacion.estado = "activa" /\ ~Vencida
Elegible == /\ afiliacion.estado \notin {"activa", "interrumpida"}
            /\ Pagados = {} /\ Activas = {}

\* A code is refused unless it brings the company or is the one it has.
CodigoValido == Afiliada \/ Elegible

\* recordSale: one commission for the whole checkout, and the affiliation
\* of a company that comes with its first purchase.
RecordSale(codigo, pago, asistencia, monto) ==
  /\ afiliacion' =
       IF codigo /\ ~Afiliada
         THEN [estado |-> "activa", primerPago |-> pago]
       ELSE IF afiliacion.estado = "activa" /\ Vencida
         THEN [afiliacion EXCEPT !.estado = "interrumpida"]
         ELSE afiliacion
  /\ comisiones' =
       IF codigo \/ Afiliada
         THEN Append(comisiones,
                [tipo |-> "venta", monto |-> monto, pago |-> pago,
                 asistencia |-> asistencia, periodo |-> mes,
                 estado |-> "pendiente", liquidacion |-> 0])
         ELSE comisiones
  /\ UNCHANGED liquidaciones

\* What an annulment does to a commission, over the state (cs, ls) of the
\* commissions and the settlements.  ajuste: the sale the charge-back names.
AnularIf(cs, ls, c, ajuste, descuento, cargo) ==
  IF cs[c].estado = "pendiente"
    THEN <<[cs EXCEPT ![c].estado = "anulada"], ls>>
  ELSE IF cs[c].liquidacion = 0
    THEN <<cs, ls>>
  ELSE IF ls[cs[c].liquidacion].estado = "pendiente"
    THEN <<[cs EXCEPT ![c].estado = "anulada"],
           [ls EXCEPT ![cs[c].liquidacion].total = @ - descuento]>>
  ELSE <<IF cargo THEN Append(cs, [ajuste EXCEPT !.monto = -cs[c].monto])
                  ELSE cs, ls>>
AnularSinCargo(cs, ls, c, ajuste) ==       \* mutant: what was paid is kept
  AnularIf(cs, ls, c, ajuste, cs[c].monto, FALSE)
Anular(cs, ls, c, ajuste) ==
  AnularIf(cs, ls, c, ajuste, cs[c].monto, TRUE)
Ajuste(pago, asistencia) ==
  [tipo |-> "ajuste_anulacion", monto |-> 0, pago |-> pago,
   asistencia |-> asistencia, periodo |-> mes, estado |-> "pendiente",
   liquidacion |-> 0]

ComisionDe(pago, asistencia) ==
  {c \in DOMAIN comisiones :
     /\ comisiones[c].tipo = "venta"
     /\ \/ pago # 0 /\ comisiones[c].pago = pago
        \/ asistencia # 0 /\ comisiones[c].asistencia = asistencia}

SetComisiones(r) == comisiones' = r[1] /\ liquidaciones' = r[2]
CancelCommission(pago, asistencia) ==
  IF ComisionDe(pago, asistencia) = {}
    THEN UNCHANGED <<comisiones, liquidaciones>>
    ELSE \E c \in ComisionDe(pago, asistencia) :
           SetComisiones(Anular(comisiones, liquidaciones, c,
                                Ajuste(pago, asistencia)))

\* The end of the first month's commissions: closed, then paid.
CloseSettlement(periodo) ==
  LET movements == {c \in DOMAIN comisiones :
                      /\ comisiones[c].estado = "pendiente"
                      /\ comisiones[c].periodo <= periodo}
  IN  /\ periodo < mes
      /\ movements # {}
      /\ liquidaciones' = Append(liquidaciones,
           [total |-> FoldLeft(LAMBDA a, c : a + c.monto, 0,
                        SelectSeq(comisiones, LAMBDA c :
                          c.estado = "pendiente" /\ c.periodo <= periodo)),
            estado |-> "pendiente"])
      /\ comisiones' = [c \in DOMAIN comisiones |->
           IF c \in movements
             THEN [comisiones[c] EXCEPT
                     !.estado = "liquidada",
                     !.liquidacion = Len(liquidaciones) + 1]
             ELSE comisiones[c]]
      /\ UNCHANGED <<mes, empresa, pagos, asistencias, afiliacion, excedente,
                     comprobantes, ventas, ajustes>>

PaySettlement(l) ==
  /\ liquidaciones[l].estado = "pendiente"
  /\ liquidaciones[l].total > 0
  /\ liquidaciones' = [liquidaciones EXCEPT ![l].estado = "pagada"]
  /\ UNCHANGED <<mes, empresa, pagos, asistencias, afiliacion, comisiones,
                 excedente, comprobantes, ventas, ajustes>>

----------------------------------------
(* Selling.                                                                *)

\* The plan that is bought extends the current one, or replaces it now.
PlanResultante(codigo) ==
  LET extiende == empresa.plan.codigo = codigo /\ empresa.plan.fin > mes
  IN  [codigo |-> codigo,
       inicio |-> IF extiende THEN empresa.plan.inicio ELSE mes,
       fin    |-> (IF extiende THEN empresa.plan.fin ELSE mes) + 1]

\* createReceipt: a nota de venta needs nobody; a boleta is queued.
Comprobante(tipo, pago, asistencia, esExcedente) ==
  [tipo |-> tipo, pago |-> pago, asistencia |-> asistencia,
   excedente |-> esExcedente, cobro |-> "no", baja |-> FALSE, nota |-> FALSE,
   reabierto |-> FALSE,
   estado |-> IF tipo = "nota_venta" THEN "aceptado" ELSE "pendiente"]

SellPlan(codigo) ==
  pagos' = Append(pagos, [anterior |-> empresa.plan,
                          resultante |-> PlanResultante(codigo),
                          estado |-> "pagado"])
SellAttendance(limite) ==
  asistencias' = Append(asistencias,
    [anterior |-> empresa.asistencia,
     resultante |-> [activa |-> TRUE, limite |-> limite, fin |-> mes + 1],
     estado |-> "activa"])

\* One of a set, or nothing.
SmallSets(S) == {{}} \cup {{x} : x \in S}

Part(bought, new) == IF bought THEN Len(new) ELSE 0

\* A plan, Asistencias, or both.
CreateCheckout(pos, asiste, conCodigo, tipo) ==
  /\ ventas < MaxVentas
  /\ pos # {} \/ asiste # {}
  /\ \A limite \in asiste : limite >= Empleados
  /\ conCodigo => CodigoValido
  /\ ventas' = ventas + 1
  /\ IF pos = {} THEN UNCHANGED pagos ELSE \E codigo \in pos : SellPlan(codigo)
  /\ IF asiste = {} THEN UNCHANGED asistencias
                    ELSE \E limite \in asiste : SellAttendance(limite)
  /\ empresa' = [plan |-> IF pos = {} THEN empresa.plan
                                      ELSE Last(pagos').resultante,
                 asistencia |-> IF asiste = {} THEN empresa.asistencia
                                  ELSE Last(asistencias').resultante]
  /\ LET pago == Part(pos # {}, pagos')
         asistencia == Part(asiste # {}, asistencias')
     IN  /\ RecordSale(conCodigo, pago, asistencia,
                       Cardinality(pos) + Cardinality(asiste))
         /\ comprobantes' = Append(comprobantes,
                               Comprobante(tipo, pago, asistencia, FALSE))
  /\ UNCHANGED <<mes, excedente, ajustes>>

\* createSale: only a plan.
CreateSale(codigo, conCodigo, tipo) ==
  CreateCheckout({codigo}, {}, conCodigo, tipo)

\* createAttendanceSubscription: no affiliate and no receipt.
CreateAttendanceSubscription(limite) ==
  /\ ventas < MaxVentas
  /\ limite >= Empleados
  /\ ventas' = ventas + 1
  /\ SellAttendance(limite)
  /\ empresa' = [empresa EXCEPT !.asistencia = Last(asistencias').resultante]
  /\ UNCHANGED <<mes, pagos, affiliateVars, excedente, comprobantes, ajustes>>

\* Anything else the platform charges for.
CreateExtraCharge(tipo) ==
  /\ ventas < MaxVentas
  /\ ventas' = ventas + 1
  /\ comprobantes' = Append(comprobantes,
       [Comprobante(tipo, 0, 0, FALSE) EXCEPT !.cobro = "pagado"])
  /\ UNCHANGED <<mes, empresa, pagos, asistencias, affiliateVars, excedente,
                 ajustes>>

----------------------------------------
(* Annulling from the list of sales.                                       *)

PlanRestored(i)  == empresa' = [empresa EXCEPT !.plan = pagos[i].anterior]
AnnulPayment(i)  == pagos' = [pagos EXCEPT ![i].estado = "anulado"]

\* The affiliation that came with the annulled payment ends, if no other
\* payment remains.
EndAffiliation(i) ==
  afiliacion' = IF afiliacion.primerPago = i /\ Pagados = {i}
                  THEN [afiliacion EXCEPT !.estado = "cancelada"]
                  ELSE afiliacion

ReceiptOf(i) == {c \in DOMAIN comprobantes : comprobantes[c].pago = i}

CancelSaleIf(i, current) ==
  /\ pagos[i].estado = "pagado"
  /\ current
  /\ \A c \in ReceiptOf(i) : comprobantes[c].tipo = "nota_venta"
  /\ PlanRestored(i)
  /\ AnnulPayment(i)
  /\ CancelCommission(i, 0)
  /\ EndAffiliation(i)
  /\ comprobantes' = [c \in DOMAIN comprobantes |->
       IF c \in ReceiptOf(i) THEN [comprobantes[c] EXCEPT !.estado = "anulado"]
                             ELSE comprobantes[c]]
  /\ UNCHANGED <<mes, asistencias, excedente, ventas, ajustes>>
CancelSaleAny(i) == CancelSaleIf(i, TRUE)   \* mutant: a later sale is ignored
CancelSale(i) ==
  CancelSaleIf(i, Ultimo(Pagados, i) /\ empresa.plan = pagos[i].resultante)

AttendanceRestored(i) ==
  empresa' = [empresa EXCEPT !.asistencia = asistencias[i].anterior]
CancelAttendance(i) ==
  asistencias' = [asistencias EXCEPT ![i].estado = "cancelada"]

\* Whatever the company has by now, what it had before the subscription is
\* put back; the receipt is left as it is.
CancelAttendanceSubscription(i) ==
  /\ Ultimo(Activas, i)
  /\ AttendanceRestored(i)
  /\ CancelAttendance(i)
  /\ CancelCommission(0, i)
  /\ UNCHANGED <<mes, pagos, afiliacion, excedente, comprobantes, ventas,
                 ajustes>>

----------------------------------------
(* Annulling through the receipt.                                          *)

\* reverseSource refuses when a part of the sale was annulled already, or
\* another sale of its kind came later.  A checkout's commission that was
\* paid is charged back once for each part: the second charge-back breaks
\* the unique key, and the whole transaction fails.
Reversible(c) ==
  LET r == comprobantes[c]
  IN  /\ r.pago # 0 => Ultimo(Pagados, r.pago)
      /\ r.asistencia # 0 => Ultimo(Activas, r.asistencia)
      /\ r.pago # 0 /\ r.asistencia # 0 =>
           \A m \in ComisionDe(r.pago, r.asistencia) :
             comisiones[m].liquidacion # 0 =>
               liquidaciones[comisiones[m].liquidacion].estado = "pendiente"

\* The commission of the receipt is annulled once for each of its parts.
ReverseCommission(r) ==
  IF ComisionDe(r.pago, r.asistencia) = {}
    THEN UNCHANGED <<comisiones, liquidaciones>>
    ELSE \E m \in ComisionDe(r.pago, r.asistencia) :
           LET once == Anular(comisiones, liquidaciones, m,
                              Ajuste(r.pago, r.asistencia))
           IN  SetComisiones(IF r.pago # 0 /\ r.asistencia # 0
                               THEN Anular(once[1], once[2], m,
                                           Ajuste(r.pago, r.asistencia))
                               ELSE once)

ReverseSource(c) ==
  LET r == comprobantes[c]
  IN  /\ Reversible(c)
      /\ IF r.pago # 0 THEN AnnulPayment(r.pago) ELSE UNCHANGED pagos
      /\ IF r.asistencia # 0 THEN CancelAttendance(r.asistencia)
                             ELSE UNCHANGED asistencias
      /\ empresa' = [plan |-> IF r.pago # 0 THEN pagos[r.pago].anterior
                                            ELSE empresa.plan,
                     asistencia |-> IF r.asistencia # 0
                                      THEN asistencias[r.asistencia].anterior
                                      ELSE empresa.asistencia]
      /\ ReverseCommission(r)
      /\ excedente' = IF r.excedente THEN "anulado" ELSE excedente
      /\ comprobantes' = [comprobantes EXCEPT
           ![c].estado = "anulado",
           ![c].cobro  = IF @ = "no" THEN @ ELSE "anulado"]
      /\ UNCHANGED <<mes, afiliacion, ventas, ajustes>>

\* requestCancellation: a nota de venta is annulled at once, a boleta waits
\* for SUNAT.
RequestCancellation(c) ==
  \/ /\ comprobantes[c].tipo = "nota_venta"
     /\ comprobantes[c].estado # "anulado"
     /\ ReverseSource(c)
  \/ /\ comprobantes[c].tipo = "boleta"
     /\ comprobantes[c].estado = "aceptado"
     /\ comprobantes' = [comprobantes EXCEPT
                           ![c].estado = "anulacion_pendiente",
                           ![c].baja   = TRUE]
     /\ UNCHANGED <<mes, empresa, pagos, asistencias, affiliateVars,
                    excedente, ventas, ajustes>>

CreateCreditNote(c) ==
  /\ comprobantes[c].tipo = "boleta"
  /\ comprobantes[c].estado = "aceptado"
  /\ ~comprobantes[c].nota
  /\ comprobantes' = [comprobantes EXCEPT ![c].nota = TRUE]
  /\ UNCHANGED <<mes, empresa, pagos, asistencias, affiliateVars, excedente,
                 ventas, ajustes>>

\* finalizeAcceptedCancellation and finalizeAcceptedCreditNote.
FinalizeAccepted(c) ==
  /\ comprobantes[c].estado # "anulado"
  /\ comprobantes[c].nota \/ comprobantes[c].baja
  /\ ReverseSource(c)

\* What becomes of a boleta on its way to SUNAT and back: any state but
\* anulado, whoever writes it, and more than once.  PlatformReceipts has the
\* steps.
Processed(c, estado) ==
  /\ comprobantes[c].tipo = "boleta"
  /\ estado \notin {"anulado", comprobantes[c].estado}
  /\ estado = "anulacion_pendiente" => comprobantes[c].baja
  /\ comprobantes' = [comprobantes EXCEPT
       ![c].estado    = estado,
       ![c].reabierto = @ \/ comprobantes[c].estado = "anulado"]
  /\ UNCHANGED <<mes, empresa, pagos, asistencias, affiliateVars, excedente,
                 ventas, ajustes>>

----------------------------------------
(* The overage of the first month, and changes by hand.                    *)

CloseOverage ==
  /\ mes > 0
  /\ ventas < MaxVentas
  /\ excedente = "abierto"
  /\ excedente' = "pendiente"
  /\ ventas' = ventas + 1
  /\ UNCHANGED <<mes, empresa, pagos, asistencias, affiliateVars,
                 comprobantes, ajustes>>

\* An annulled liquidation may be asked to be paid again: its receipt then
\* breaks the unique key, and the transaction fails.
PayOverageIf(tipo, unpaid) ==
  /\ unpaid
  /\ excedente' = "pagado"
  /\ comprobantes' = Append(comprobantes, Comprobante(tipo, 0, 0, TRUE))
  /\ UNCHANGED <<mes, empresa, pagos, asistencias, affiliateVars, ventas,
                 ajustes>>
SinComprobante == \A c \in DOMAIN comprobantes : ~comprobantes[c].excedente
PayOverageAgain(tipo) ==   \* mutant: the receipt is not unique
  PayOverageIf(tipo, excedente \in {"pendiente", "anulado"})
PayOverage(tipo) ==
  PayOverageIf(tipo, excedente \in {"pendiente", "anulado"} /\ SinComprobante)

ByHand(nueva) ==
  /\ ajustes < MaxAjustes
  /\ ajustes' = ajustes + 1
  /\ empresa' = nueva
  /\ UNCHANGED <<mes, pagos, asistencias, affiliateVars, excedente,
                 comprobantes, ventas>>

\* updateCompanyTrial
UpdateCompanyTrial(fin) ==
  /\ empresa.plan.codigo = "prueba"
  /\ ByHand([empresa EXCEPT !.plan.fin = fin])

\* updateCompanyAttendanceAddon, off or with a new end; and
\* updateCompanyAttendanceCapacity of one that is current.
UpdateAttendanceAddon(limite, fin) ==
  /\ limite >= Empleados
  /\ ByHand([empresa EXCEPT !.asistencia =
               [activa |-> TRUE, limite |-> limite, fin |-> fin]])
DropAttendanceAddon ==
  ByHand([empresa EXCEPT !.asistencia = SinAsistencia])
UpdateAttendanceCapacity(limite) ==
  /\ empresa.asistencia.activa /\ empresa.asistencia.fin >= mes
  /\ limite >= Empleados
  /\ ByHand([empresa EXCEPT !.asistencia.limite = limite])

MonthPasses ==
  /\ mes < MaxMes
  /\ mes' = mes + 1
  /\ UNCHANGED <<empresa, pagos, asistencias, affiliateVars, excedente,
                 comprobantes, ventas, ajustes>>

----------------------------------------
Sell ==
  \E conCodigo \in BOOLEAN, tipo \in Tipos :
    \/ CreateExtraCharge(tipo)
    \/ \E codigo \in Planes : CreateSale(codigo, conCodigo, tipo)
    \/ \E pos \in SmallSets(Planes), asiste \in SmallSets(Limites) :
         CreateCheckout(pos, asiste, conCodigo, tipo)

Annul ==
  \/ \E i \in DOMAIN pagos : CancelSale(i)
  \/ \E i \in DOMAIN asistencias : CancelAttendanceSubscription(i)
  \/ \E c \in DOMAIN comprobantes :
       RequestCancellation(c) \/ CreateCreditNote(c)

Settle ==
  \/ \E periodo \in 0..MaxMes : CloseSettlement(periodo)
  \/ \E l \in DOMAIN liquidaciones : PaySettlement(l)
  \/ CloseOverage
  \/ \E tipo \in Tipos : PayOverage(tipo)

Administer ==
  \/ \E fin \in 0..MaxMes : UpdateCompanyTrial(fin)
  \/ \E limite \in Limites :
       \/ UpdateAttendanceAddon(limite, mes + 1)
       \/ UpdateAttendanceCapacity(limite)
  \/ DropAttendanceAddon

Commerce ==
  \/ Sell \/ Annul \/ Settle \/ Administer \/ MonthPasses
  \/ \E limite \in Limites : CreateAttendanceSubscription(limite)

----------------------------------------
(* The plan a company has is what its last payment that stands bought, or  *)
(* the trial when none stands: in whatever order sales are made and        *)
(* annulled, nothing that was annulled is kept and nothing paid is lost.   *)
(* Asistencias follows its subscriptions likewise, as long as nobody       *)
(* changes it by hand: an annulment puts back what was there before the    *)
(* subscription and discards such a change.                                *)
CompanyFollowsSales ==
  /\ IF Pagados = {} THEN empresa.plan.codigo = "prueba"
     ELSE \A i \in Pagados :
            Ultimo(Pagados, i) => empresa.plan = pagos[i].resultante
  /\ ajustes = 0 =>
       IF Activas = {} THEN empresa.asistencia = SinAsistencia
       ELSE \A i \in Activas : Ultimo(Activas, i) =>
              empresa.asistencia = asistencias[i].resultante

Combinada(c) == comisiones[c].pago # 0 /\ comisiones[c].asistencia # 0
Liquidadas(l) == SelectSeq(comisiones, LAMBDA c : /\ c.liquidacion = l
                                                  /\ c.estado = "liquidada")

(* A settlement is worth the commissions that are in it and stand.  The    *)
(* commission of a checkout of both parts is the exception: it is taken    *)
(* out once for each part that is annulled.                                *)
SettlementsAddUp ==
  \A l \in DOMAIN liquidaciones :
    (\A c \in DOMAIN comisiones : comisiones[c].liquidacion = l => ~Combinada(c))
      => liquidaciones[l].total =
           FoldLeft(LAMBDA a, c : a + c.monto, 0, Liquidadas(l))

SourceStands(r) ==
  /\ r.pago # 0 => pagos[r.pago].estado = "pagado"
  /\ r.asistencia # 0 => asistencias[r.asistencia].estado = "activa"
  /\ r.excedente => excedente = "pagado"
  /\ r.cobro # "anulado"

(* The commission of a sale of one part ends as the sale does: annulled,   *)
(* or charged back once when it had been paid.                             *)
CommissionFollowsSale ==
  \A c \in DOMAIN comisiones :
    (comisiones[c].tipo = "venta" /\ ~Combinada(c)) =>
      LET ajustadas == {a \in DOMAIN comisiones :
                         /\ comisiones[a].tipo = "ajuste_anulacion"
                         /\ comisiones[a].pago = comisiones[c].pago
                         /\ comisiones[a].asistencia = comisiones[c].asistencia}
          stands == SourceStands([pago |-> comisiones[c].pago,
                                  asistencia |-> comisiones[c].asistencia,
                                  excedente |-> FALSE, cobro |-> "no"])
      IN  IF stands THEN comisiones[c].estado # "anulada" /\ ajustadas = {}
          ELSE comisiones[c].estado = "anulada" \/ \E a \in ajustadas :
                                                     ajustadas = {a}

(* Affiliates are paid what they earned, whatever is annulled when, before  *)
(* or after a settlement is closed and paid.                               *)
CommissionsAddUp == SettlementsAddUp /\ CommissionFollowsSale

(* A receipt is annulled only with what it is for, and, unless it is for   *)
(* Asistencias (whose subscriptions are annulled beside their receipt), is *)
(* annulled whenever that is.  Two exceptions: the receipt of both parts   *)
(* (annulling the plan annuls it while Asistencias goes on), and one that  *)
(* was reopened after it was annulled.                                     *)
ReceiptsFollowSources ==
  \A c \in DOMAIN comprobantes :
    LET r == comprobantes[c]
    IN  /\ ~(r.pago # 0 /\ r.asistencia # 0) =>
             (r.estado = "anulado" => ~SourceStands(r))
        /\ r.asistencia = 0 /\ ~r.reabierto =>
             (~SourceStands(r) => r.estado = "anulado")
=============================================================================
