------------------------------- MODULE Amounts -------------------------------
(***************************************************************************)
(* The arithmetic of a sale, in cents: what its quotation says, what it    *)
(* charges as a nota de venta and as a boleta (SunatTaxService), what its  *)
(* credit notes give back line by line; and how the checkout of a plan     *)
(* with Asistencias shares its discounts and its commission.               *)
(*                                                                         *)
(* Money rounds half a cent away from zero, like Decimal.toDecimalPlaces.  *)
(* Quantities stay under 6: the quotient of two of them has the 20 digits  *)
(* of a Decimal or does not end in half a cent.                            *)
(***************************************************************************)
EXTENDS Fulfilment

CONSTANTS
  Cuentas,     \* the lines that are sold together: sequences of
               \* [precio, cantidad, afecta, desc]
  Descuentos,  \* discounts: [tipo, valor], in cents or per cent
  Umbral,      \* from which a boleta names its client (70000)
  Planes,      \* list price and discount of a plan: [lista, porciento]
  Asistencias, \* the same of Asistencias
  Afiliados,   \* discount and commission of an affiliate: [descuento, comision]
  MaxCreditos  \* bound: credit notes

ASSUME AmountsAssumption ==
  /\ \A c \in Cuentas : \A i \in DOMAIN c :
       c[i].precio \in Nat \ {0} /\ c[i].cantidad \in 1..5
  /\ \A d \in Descuentos : d.tipo \in {"porcentaje", "monto"} /\ d.valor \in Nat
  /\ {Umbral, MaxCreditos} \subseteq Nat

VARIABLES
  importe,     \* the sale: its lines and what each document says of them
  creditos,    \* what each of its credit notes gives back
  compra       \* the checkout of a company

amountVars == <<importe, creditos, compra>>
shopVars   == <<fulfilVars, amountVars>>

\* What a document says of a line (detalle_venta), and a credit note of it.
DetalleRows ==
  [cantidad : Nat, subtotal : Int, total : Int, descuento : Int, base : Int, igv : Int]
DetalleNotaRows == [unidades : Nat, total : Int, base : Int, igv : Int]
CheckoutRows ==
  [total : Int, lineas : [pos : Int, asiste : Int], comision : Int,
   comisiones : [pos : Int, asiste : Int], cabecera : [base : Int, igv : Int]]
AmountsTypeOK ==
  /\ importe.fase \in {"nada", "cotizada", "nota_venta", "boleta"}
  /\ importe.vendido # Ninguno => importe.vendido.lineas \in Seq(DetalleRows)
  /\ \A n \in DOMAIN creditos : creditos[n] \in Seq(DetalleNotaRows)
  /\ compra \in CheckoutRows \cup {Ninguno}

SumOf(f) == MapThenSumSet(LAMBDA i : f[i], DOMAIN f)
Field(s, c) == [i \in DOMAIN s |-> s[i][c]]

Money(n, d) == IF n >= 0 THEN (2 * n + d) \div (2 * d) ELSE -((d - 2 * n) \div (2 * d))
Discount(base, d) == IF d.tipo = "porcentaje" THEN Money(base * d.valor, 100) ELSE d.valor
SinDescuento == [tipo |-> "monto", valor |-> 0]
IncludedTax(total, afecta) ==
  LET base == IF afecta THEN Money(total * 100, 118) ELSE total
  IN [base |-> base, igv |-> total - base]

----------------------------------------
(* SunatTaxService.calculate.                                              *)

\* A line before the discount of the whole.
LineBefore(l) ==
  LET sub == l.precio * l.cantidad
      d   == Discount(sub, l.desc)
  IN [subtotal |-> sub, descuento |-> d, total |-> sub - d]

\* The discount of the whole is shared by subtotal; the last line takes the rest.
Proportional(sub, d) ==                             \* mutant: so does the last
  [i \in DOMAIN sub |-> Money(sub[i] * d, SumOf(sub))]
Shares(sub, d) ==
  LET cuota(i) == Money(sub[i] * d, SumOf(sub))
      n == Len(sub)
  IN [i \in DOMAIN sub |-> IF i < n THEN cuota(i)
                           ELSE d - MapThenSumSet(cuota, 1..(n - 1))]

Accepted(lineas, desc, electronico) ==
  LET antes == [i \in DOMAIN lineas |-> LineBefore(lineas[i])]
  IN /\ \A i \in DOMAIN lineas : /\ antes[i].total >= 0
                                 /\ electronico => antes[i].descuento = 0
     /\ desc.tipo = "porcentaje" => desc.valor <= 100
     /\ Discount(SumOf(Field(antes, "subtotal")), desc) <= SumOf(Field(antes, "subtotal"))

\* A nota de venta keeps its lines as they are, and charges the subtotals of
\* the lines: their own discounts are not in its total.
Calculate(lineas, desc, electronico) ==
  LET antes == [i \in DOMAIN lineas |-> LineBefore(lineas[i])]
      sub   == Field(antes, "subtotal")
      d     == Discount(SumOf(sub), desc)
      cuota == IF electronico THEN Shares(sub, d) ELSE [i \in DOMAIN sub |-> 0]
      Line(i) ==
        LET total == antes[i].total - cuota[i]
            tax   == IncludedTax(total, electronico /\ lineas[i].afecta)
        IN [cantidad |-> lineas[i].cantidad, subtotal |-> sub[i], total |-> total,
            descuento |-> antes[i].descuento + cuota[i], base |-> tax.base, igv |-> tax.igv]
      hechas == [i \in DOMAIN lineas |-> Line(i)]
  IN [total |-> SumOf(sub) - d, descuento |-> d, lineas |-> hechas,
      operaciones |-> IF electronico THEN SumOf(Field(hechas, "base")) ELSE 0,
      igv |-> IF electronico THEN SumOf(Field(hechas, "igv")) ELSE 0]

----------------------------------------
(* QuotationsService and SalesService.                                     *)

\* buildTotals rounds nothing: the columns do, and a per cent that ends in half
\* a cent leaves the total half a cent up, as the discount.
QuotedTotal(lineas, desc) ==
  LET sub == SumOf([i \in DOMAIN lineas |-> lineas[i].precio * lineas[i].cantidad])
  IN IF desc.tipo = "porcentaje" THEN Money(sub * (100 - desc.valor), 100) ELSE sub - desc.valor

\* validateSaleCustomerRequirements, of a boleta.
Identified(total, conDocumento) == total > Umbral => conDocumento

QuoteAmounts(lineas, desc) ==
  /\ importe.fase = "nada" /\ compra = Ninguno
  /\ importe' = [importe EXCEPT !.fase = "cotizada", !.cuenta = lineas, !.desc = desc,
                                !.cotizado = QuotedTotal(lineas, desc)]
  /\ UNCHANGED <<creditos, compra>>

\* create: paid at once, or a part of it and the rest in installments that
\* validateCreditSchedule has to find equal to what is owed.
SellAmounts(electronico, inicial, cuotas, conDocumento) ==
  /\ importe.fase = "cotizada" /\ Accepted(importe.cuenta, importe.desc, electronico)
  /\ LET c == Calculate(importe.cuenta, importe.desc, electronico)
     IN /\ electronico => Identified(c.total, conDocumento)
        /\ IF cuotas = <<>> THEN inicial = c.total
           ELSE inicial < c.total /\ SumOf(cuotas) = c.total - inicial
        /\ \A i \in DOMAIN cuotas : cuotas[i] > 0
        /\ importe' = [importe EXCEPT !.fase = IF electronico THEN "boleta" ELSE "nota_venta",
                                      !.vendido = c, !.pactado = inicial + SumOf(cuotas)]
  /\ UNCHANGED <<creditos, compra>>

\* convertSaleDocument calculates the same lines again; payments and
\* installments stay.
ConvertAmounts(conDocumento) ==
  /\ importe.fase = "nota_venta" /\ Accepted(importe.cuenta, importe.desc, TRUE)
  /\ Identified(importe.vendido.total, conDocumento)
  /\ importe' = [importe EXCEPT !.fase = "boleta", !.vendido = Calculate(importe.cuenta, importe.desc, TRUE)]
  /\ UNCHANGED <<creditos, compra>>

----------------------------------------
(* CreditNotesService.                                                     *)

\* lineFromSaleDetail: each amount of a line by the part of its units.
LineFromSaleDetail(l, k) ==
  [unidades |-> k, total |-> Money(l.total * k, l.cantidad),
   base |-> Money(l.base * k, l.cantidad), igv |-> Money(l.igv * k, l.cantidad)]

Given(i, c) == MapThenSumSet(LAMBDA n : creditos[n][i][c], DOMAIN creditos)
CreditAmounts(i, k) ==
  /\ importe.fase = "boleta" /\ Len(creditos) < MaxCreditos
  /\ k <= importe.vendido.lineas[i].cantidad - Given(i, "unidades")
  /\ creditos' = Append(creditos, [j \in DOMAIN importe.cuenta |->
                   LineFromSaleDetail(importe.vendido.lineas[j], IF j = i THEN k ELSE 0)])
  /\ UNCHANGED <<importe, compra>>

----------------------------------------
(* PlatformSubscriptionsService.createCheckout, of a plan, of Asistencias  *)
(* or of both, and the lines of its receipt (createReceipt).               *)

ListPrice(p) == p.lista - Money(p.lista * p.porciento, 100)
PartOf(amount, part, total) ==
  IF amount <= 0 \/ part <= 0 \/ total <= 0 THEN 0 ELSE Money(amount * part, total)
Split(amount, pos, asiste) ==
  LET part == IF asiste = 0 THEN amount ELSE PartOf(amount, pos, pos + asiste)
  IN [pos |-> part, asiste |-> amount - part]

Checkout(pos, asiste, manual, afiliado) ==
  /\ importe.fase = "nada" /\ compra = Ninguno /\ pos + asiste > 0
  /\ LET monto  == Discount(pos + asiste, manual)
         m      == Split(monto, pos, asiste)
         posBase == pos - m.pos
         asisteBase == asiste - m.asiste
         descuento == Money((posBase + asisteBase) * afiliado.descuento, 100)
         d      == Split(descuento, posBase, asisteBase)
         total  == posBase + asisteBase - descuento
         lineas == [pos |-> posBase - d.pos, asiste |-> asisteBase - d.asiste]
         comision == Money(total * afiliado.comision, 100)
     IN /\ monto <= pos + asiste
        /\ compra' = [total |-> total, lineas |-> lineas, comision |-> comision,
                      comisiones |-> Split(comision, lineas.pos, lineas.asiste),
                      cabecera |-> IncludedTax(total, TRUE)]
  /\ UNCHANGED <<importe, creditos>>

----------------------------------------
NadaImporte == [fase |-> "nada", cuenta |-> <<>>, desc |-> SinDescuento, cotizado |-> 0,
                vendido |-> Ninguno, pactado |-> 0]

ShopInit == FulfilInit /\ importe = NadaImporte /\ creditos = <<>> /\ compra = Ninguno

\* What the client brings: the whole of what he thinks he owes, or a part.
Plazos(total) ==
  {[inicial |-> total, cuotas |-> <<>>], [inicial |-> total \div 2, cuotas |-> <<total - total \div 2>>]}

AmountsNext ==
  \/ \E c \in Cuentas, d \in Descuentos : QuoteAmounts(c, d)
  \/ \E e, conDocumento \in BOOLEAN, visto \in 0..1 :
       \E p \in Plazos(importe.cotizado - visto) :
         SellAmounts(e, p.inicial, p.cuotas, conDocumento)
  \/ \E conDocumento \in BOOLEAN : ConvertAmounts(conDocumento)
  \/ \E i \in DOMAIN importe.cuenta : \E k \in 1..importe.cuenta[i].cantidad : CreditAmounts(i, k)
  \/ \E p \in Planes, a \in Asistencias, f \in Afiliados, m \in Descuentos :
       \E pos \in {0, ListPrice(p)}, asiste \in {0, ListPrice(a)} : Checkout(pos, asiste, m, f)

ShopNext ==
  \/ FulfilNext /\ UNCHANGED amountVars
  \/ "importes" \in dia.kinds /\ AmountsNext /\ UNCHANGED fulfilVars

----------------------------------------
(* Properties.                                                             *)

Apart(a, b) == IF a < b THEN b - a ELSE a - b

\* The lines of a boleta add up to its total and its taxed amounts and tax do too, every
\* line takes its part of the discount but for half a cent (the last, for half a cent of
\* each of the others), and up to three lines none is charged below zero or above its
\* price: from four on the last one may be (sunat-tax.service.ts:97-106).
LinesAddUp ==
  importe.fase = "boleta" =>
    LET v == importe.vendido
        n == Len(v.lineas)
        sub == SumOf(Field(v.lineas, "subtotal"))
    IN /\ SumOf(Field(v.lineas, "total")) = v.total
       /\ v.operaciones + v.igv = v.total
       /\ \A i \in 1..n :
            LET l == v.lineas[i]
            IN /\ 2 * Apart(l.total * sub, l.subtotal * v.total) <= sub * (IF i < n THEN 1 ELSE n - 1)
               /\ n <= 3 => l.total \in 0..l.subtotal

\* The sale of a quotation charges what was quoted, or a cent less when the per cent of
\* the discount ends in half a cent, which the quotation does not round
\* (quotations.service.ts:570-602); its payments and installments are its total, also
\* after the nota de venta has become a boleta and its lines were calculated again
\* (sales.service.ts:1024-1043).
QuotedIsSold ==
  importe.fase \in {"nota_venta", "boleta"} =>
    LET sub == SumOf(Field(importe.vendido.lineas, "subtotal"))
        half == importe.desc.tipo = "porcentaje" /\ (sub * importe.desc.valor) % 100 = 50
    IN /\ importe.vendido.total = importe.cotizado - (IF half THEN 1 ELSE 0)
       /\ importe.pactado = importe.vendido.total

\* The credit notes of a line give back its total but for half a cent for each note that
\* names it, so that together they may give back more than was charged by no more than
\* that; and base and tax of a note are its total but for one cent
\* (credit-notes.service.ts:606-624).
CreditsStayClose ==
  importe.fase = "boleta" => \A i \in DOMAIN importe.cuenta :
    LET l == importe.vendido.lineas[i]
        veces == Cardinality({n \in DOMAIN creditos : creditos[n][i].unidades > 0})
    IN /\ Given(i, "unidades") <= l.cantidad
       /\ 2 * Apart(Given(i, "total") * l.cantidad, l.total * Given(i, "unidades")) <= veces * l.cantidad
       /\ \A n \in DOMAIN creditos :
            Apart(creditos[n][i].base + creditos[n][i].igv, creditos[n][i].total) <= 1

\* The plan and Asistencias of a checkout are together what is paid and what its receipt
\* says, neither is charged below zero, their commissions are the commission of the sale,
\* and the taxed amounts of the two lines are that of the receipt but for a cent
\* (platform-subscriptions.service.ts:654-740, platform-billing.service.ts:1027-1040).
CheckoutAddsUp ==
  compra # Ninguno =>
    LET base == [i \in DOMAIN compra.lineas |-> IncludedTax(compra.lineas[i], TRUE).base]
    IN /\ SumOf(compra.lineas) = compra.total
       /\ compra.lineas.pos >= 0 /\ compra.lineas.asiste >= 0
       /\ SumOf(compra.comisiones) = compra.comision
       /\ compra.comisiones.pos >= 0 /\ compra.comisiones.asiste >= 0
       /\ Apart(SumOf(base), compra.cabecera.base) <= 1

\* The papers of a sale and of a checkout say the same amounts, and each adds up.
AmountsAgree == LinesAddUp /\ QuotedIsSold /\ CreditsStayClose /\ CheckoutAddsUp
=============================================================================
