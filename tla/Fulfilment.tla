------------------------------ MODULE Fulfilment ------------------------------
(***************************************************************************)
(* What happens to one sale after the counter: its goods are handed over   *)
(* or sent by courier, it becomes a boleta, is credited, debited, annulled *)
(* or voided: SalesService, ShippingLinksService, CreditNotesService and   *)
(* DebitNotesService (src/src/modules).  The sale has one line of some      *)
(* units.  The emission of the boleta, of its notes and of its void is     *)
(* BillingEmission, BillingCreditNote, BillingVoid and the Sunat modules;  *)
(* here it only answers.                                                   *)
(***************************************************************************)
EXTENDS SalesDesk

CONSTANTS
  Vendidas,    \* units of the sale
  MaxNotas,    \* bound: credit notes
  MaxIncidencias

ASSUME FulfilmentAssumption ==
  /\ Vendidas \in Nat \ {0} /\ {MaxNotas, MaxIncidencias} \subseteq Nat

VARIABLES
  vendida,     \* the sale and the state of its goods
  entregas,    \* units of its venta_entrega, by type
  envio,       \* venta_envio
  incidencias, \* venta_envio_incidencia: what the shipment goes back to, while open
  notas,       \* its credit notes
  debitos      \* its debit notes

saleVars   == <<vendida, entregas, envio, incidencias, notas, debitos>>
fulfilVars == <<deskVars, saleVars>>
goods    == <<entregas, envio, incidencias>>
papers   == <<notas, debitos>>

VentaRows ==
  [tipo : {"nota_venta", "boleta"}, estado : {"completada", "anulada"}, aceptada : BOOLEAN,
   baja : {"ninguna", "abierta", "aceptada", "rechazada"}, numeros : Nat, recojo : BOOLEAN,
   entrega : {"pendiente", "parcial", "entregada"}, entregado : Nat]
EntregaRows == [cliente : Nat, courier : Nat]
EnvioRows ==
  [existe : BOOLEAN, estado : {"ninguno", "pendiente", "recibido"},
   logistico : {"ninguno", "POR_PREPARAR", "POR_DESPACHAR", "EN_TRANSITO", "ENTREGADO", "INCIDENCIA"}]
IncidenciaRows == {"POR_DESPACHAR", "EN_TRANSITO"}
NotaCreditoRows ==
  [motivo : {"02", "03", "06", "07"}, unidades : Nat, repetida : BOOLEAN,
   estado : {"pendiente", "aceptado", "rechazado", "error_definitivo"}]
NotaDebitoRows == Nat     \* only how many there are
FulfilTypeOK ==
  /\ vendida \in VentaRows /\ entregas \in EntregaRows /\ envio \in EnvioRows
  /\ incidencias \in Seq(IncidenciaRows)
  /\ notas \in Seq(NotaCreditoRows) /\ debitos \in NotaDebitoRows

Venta     == -2             \* the object of a request on the sale
Pendiente == IF vendida.entregado < Vendidas THEN Vendidas - vendida.entregado ELSE 0
Entrega(n) == IF n >= Vendidas THEN "entregada" ELSE "parcial"
Blocked   == vendida.estado = "anulada" \/ vendida.baja \in {"abierta", "aceptada"}

ReadsSale(t, kind, dato) ==
  /\ Arrives(t, kind)
  /\ Reads(t, kind, "escribir", Venta, Ninguno, dato)
  /\ UNCHANGED <<dia, deskRows, saleVars>>
Writing(t, kind) == hilo[t].kind = kind /\ hilo[t].pc = "escribir"
WritesSale(t) ==
  /\ Writes(t, Venta, Ocioso)
  /\ UNCHANGED <<dia, deskRows>>
\* One serializable transaction: it reads what it writes.
AtOnce(t, kind) ==
  /\ Arrives(t, kind)
  /\ hilo' = AsStale(t, Venta)
  /\ UNCHANGED <<viejas, dia, deskRows>>

----------------------------------------
(* Goods.                                                                  *)

\* deliverSale: a sale to be picked up later, with units pending.
Deliver(t, n) ==
  /\ vendida.estado # "anulada" /\ vendida.recojo /\ ~envio.existe
  /\ vendida.entrega # "entregada" /\ n <= Pendiente
  /\ ReadsSale(t, "entregar", [unidades |-> n])
WriteDelivery(t) ==
  /\ Writing(t, "entregar")
  /\ LET n == vendida.entregado + hilo[t].dato.unidades
     IN vendida' = [vendida EXCEPT !.entregado = n, !.entrega = Entrega(n)]
  /\ entregas' = [entregas EXCEPT !.cliente = @ + hilo[t].dato.unidades]
  /\ UNCHANGED <<envio, incidencias, papers>> /\ WritesSale(t)

\* dispatchToCourier.
Dispatch(t, n) ==
  /\ vendida.estado # "anulada" /\ envio.estado = "recibido"
  /\ envio.logistico \notin {"ENTREGADO", "INCIDENCIA"} /\ n <= Pendiente
  /\ vendida' = [vendida EXCEPT !.entregado = @ + n, !.entrega = Entrega(vendida.entregado + n)]
  /\ entregas' = [entregas EXCEPT !.courier = @ + n]
  /\ envio' = [envio EXCEPT !.logistico = "EN_TRANSITO"]
  /\ AtOnce(t, "despachar") /\ UNCHANGED <<incidencias, papers>>

\* updateShippingStatus.
ShippingStatus(t, estado) ==
  /\ vendida.estado # "anulada" /\ envio.existe
  /\ IF estado = "ENTREGADO" THEN envio.logistico = "EN_TRANSITO" /\ Pendiente = 0
                             ELSE envio.logistico \in {"POR_DESPACHAR", "EN_TRANSITO"}
  /\ ReadsSale(t, "estadoEnvio", [estado |-> estado])
WriteShippingStatus(t) ==
  /\ Writing(t, "estadoEnvio")
  /\ envio' = [envio EXCEPT !.logistico = hilo[t].dato.estado]
  /\ UNCHANGED <<vendida, entregas, incidencias, papers>> /\ WritesSale(t)

\* createShippingIncident: what the shipment was is kept, to go back to.
Incident(t) ==
  /\ envio.existe /\ incidencias = <<>>
  /\ envio.logistico \in {"POR_DESPACHAR", "EN_TRANSITO"}
  /\ ReadsSale(t, "incidencia", [anterior |-> envio.logistico])
WriteIncident(t) ==
  /\ Writing(t, "incidencia") /\ Len(incidencias) < MaxIncidencias
  /\ incidencias' = Append(incidencias, hilo[t].dato.anterior)
  /\ envio' = [envio EXCEPT !.logistico = "INCIDENCIA"]
  /\ UNCHANGED <<vendida, entregas, papers>> /\ WritesSale(t)

\* resolveShippingIncident; of two requests on the same one both write.
Resolve(t, i) == envio.existe /\ ReadsSale(t, "resolver", [indice |-> i, anterior |-> incidencias[i]])
WriteResolution(t) ==
  /\ Writing(t, "resolver")
  /\ LET d == hilo[t].dato
         open == d.indice <= Len(incidencias) /\ incidencias[d.indice] = d.anterior
     IN /\ incidencias' = IF open THEN RemoveAt(incidencias, d.indice) ELSE incidencias
        /\ envio' = [envio EXCEPT !.logistico = d.anterior]
  /\ UNCHANGED <<vendida, entregas, papers>> /\ WritesSale(t)

\* ShippingLinksService.generate: the first link makes the units of a sale
\* without deliveries pending again; a new link forgets what the client sent.
GenerateLink(t, regenerate) ==
  /\ vendida.estado # "anulada"
  /\ IF envio.existe THEN regenerate /\ entregas.courier = 0
                     ELSE ~(entregas.cliente > 0 /\ vendida.entrega = "entregada")
  /\ ReadsSale(t, "enlace", [nuevo |-> ~envio.existe, sin |-> entregas.cliente + entregas.courier = 0])
WriteLink(t) ==
  /\ Writing(t, "enlace")
  /\ LET d == hilo[t].dato
     IN IF d.nuevo /\ envio.existe
          THEN Refused(t) /\ UNCHANGED <<dia, deskRows, vendida, envio>>   \* venta_id is unique
          ELSE /\ envio' = [existe |-> TRUE, estado |-> "pendiente", logistico |-> "POR_PREPARAR"]
               /\ vendida' = IF d.nuevo /\ d.sin
                             THEN [vendida EXCEPT !.entregado = 0, !.entrega = "pendiente"] ELSE vendida
               /\ WritesSale(t)
  /\ UNCHANGED <<entregas, incidencias, papers>>

\* submitPublic: the client's data are taken once.
SubmitShipping(t) ==
  /\ envio.estado = "pendiente" /\ vendida.estado # "anulada"
  /\ ReadsSale(t, "datosEnvio", Ninguno)
WriteShipping(t) ==
  /\ Writing(t, "datosEnvio")
  /\ IF envio.estado # "pendiente"
       THEN Refused(t) /\ UNCHANGED <<dia, deskRows, envio>>
       ELSE /\ envio' = [envio EXCEPT !.estado = "recibido", !.logistico = "POR_DESPACHAR"]
            /\ WritesSale(t)
  /\ UNCHANGED <<vendida, entregas, incidencias, papers>>

----------------------------------------
(* Papers.                                                                 *)

\* convertSaleDocument: the transaction takes a number without looking again.
ConvertSale(t) ==
  /\ vendida.tipo = "nota_venta" /\ vendida.estado = "completada"
  /\ ReadsSale(t, "convertirVenta", Ninguno)
WriteConversion(t) ==
  /\ Writing(t, "convertirVenta")
  /\ vendida' = [vendida EXCEPT !.tipo = "boleta", !.aceptada = FALSE, !.numeros = @ + 1]
  /\ UNCHANGED <<goods, papers>> /\ WritesSale(t)

\* annul: a nota de vendida at once, a boleta through a void SUNAT must accept.
AnnulIf(t, atOnce) ==
  /\ vendida.estado # "anulada"
  /\ IF vendida.tipo \in atOnce THEN ReadsSale(t, "anular", Ninguno)
     ELSE /\ vendida.aceptada /\ vendida.baja \notin {"abierta", "aceptada"}
          /\ vendida' = [vendida EXCEPT !.baja = "abierta"]
          /\ AtOnce(t, "anular") /\ UNCHANGED <<goods, papers>>
AnnulBoleta(t) == AnnulIf(t, {"nota_venta", "boleta"})       \* mutant: a boleta is annulled at once
Annul(t) == AnnulIf(t, {"nota_venta"})
WriteAnnulment(t) ==
  /\ Writing(t, "anular")
  /\ vendida' = [vendida EXCEPT !.estado = "anulada"]
  /\ UNCHANGED <<goods, papers>> /\ WritesSale(t)

\* availableQuantities: notes that count and are not of motive 03.
Standing(n) == n.estado \in {"pendiente", "aceptado"}
Suma(f, S)   == MapThenSumSet(LAMBDA x : f[x], S)
Unidades(S)  == Suma([i \in S |-> notas[i].unidades], S)
AvailableIf(counted) ==
  LET used == Unidades({i \in DOMAIN notas : notas[i].estado \in counted /\ notas[i].motivo \in {"02", "06", "07"}})
  IN IF used < Vendidas THEN Vendidas - used ELSE 0
AvailableAccepted == AvailableIf({"aceptado"})    \* mutant: notes on their way are not counted
Available == AvailableIf({"pendiente", "aceptado"})

\* create: the motives 02 and 03 copy the sale, 06 takes what is left, and 07
\* what the client says of every line: a line named twice is checked twice.
CreditLines(motivo) ==
  CASE motivo \in {"02", "03"} -> {[unidades |-> Vendidas, repetida |-> FALSE]}
    [] motivo = "06" -> {[unidades |-> n, repetida |-> FALSE] : n \in {Available} \ {0}}
    [] motivo = "07" -> {[unidades |-> n, repetida |-> FALSE] : n \in 1..Available}
                          \cup {[unidades |-> 2 * Available, repetida |-> TRUE] : n \in {Available} \ {0}}
ValidateSale == vendida.tipo = "boleta" /\ ~Blocked
\* With Billing, the boleta must be one that it had accepted.
BillingEnvironment == dia.billing => vendida.aceptada
CreateCreditNote(t, motivo) ==
  /\ ValidateSale /\ BillingEnvironment
  /\ dia.billing => motivo # "02"
  /\ \E l \in CreditLines(motivo) :
       ReadsSale(t, "notaCredito", [motivo |-> motivo, unidades |-> l.unidades,
                                    repetida |-> l.repetida, estado |-> "pendiente"])
WriteCreditNote(t) ==
  /\ Writing(t, "notaCredito") /\ Len(notas) < MaxNotas
  /\ notas' = Append(notas, hilo[t].dato)
  /\ UNCHANGED <<vendida, goods, debitos>> /\ WritesSale(t)

\* DebitNotesService.create: only with Billing, of an accepted boleta.
CreateDebitNote(t) ==
  /\ dia.billing /\ vendida.tipo = "boleta" /\ vendida.aceptada /\ ~Blocked
  /\ ReadsSale(t, "notaDebito", Ninguno)
WriteDebitNote(t) ==
  /\ Writing(t, "notaDebito") /\ debitos < MaxNotas
  /\ debitos' = debitos + 1
  /\ UNCHANGED <<vendida, goods, notas>> /\ WritesSale(t)

----------------------------------------
(* What the other modules answer.                                          *)

Answers == UNCHANGED <<deskVars, goods, debitos>>
SaleAccepted ==
  /\ vendida.tipo = "boleta" /\ ~vendida.aceptada
  /\ vendida' = [vendida EXCEPT !.aceptada = TRUE] /\ UNCHANGED notas /\ Answers
VoidAnswered ==
  /\ vendida.baja = "abierta"
  /\ \/ vendida' = [vendida EXCEPT !.baja = "aceptada", !.estado = "anulada"]
     \/ vendida' = [vendida EXCEPT !.baja = "rechazada"]
  /\ UNCHANGED notas /\ Answers
NoteAnswered(i, estado) ==
  /\ notas[i].estado = "pendiente"
  /\ notas' = [notas EXCEPT ![i].estado = estado]
  /\ UNCHANGED vendida /\ Answers
\* A note that failed for good is sent again: it counts again.
NoteRetried(i) ==
  /\ notas[i].estado = "error_definitivo"
  /\ notas' = [notas EXCEPT ![i].estado = "pendiente", ![i].repetida = TRUE]
  /\ UNCHANGED vendida /\ Answers

----------------------------------------
FulfilInit ==
  /\ DeskInit
  /\ vendida = [tipo |-> "nota_venta", estado |-> "completada", aceptada |-> FALSE, baja |-> "ninguna",
              numeros |-> 0, recojo |-> dia.recojo, entrega |-> IF dia.recojo THEN "pendiente" ELSE "entregada",
              entregado |-> IF dia.recojo THEN 0 ELSE Vendidas]
  /\ entregas = [cliente |-> 0, courier |-> 0]
  /\ envio = [existe |-> FALSE, estado |-> "ninguno", logistico |-> "ninguno"]
  /\ incidencias = <<>> /\ notas = <<>> /\ debitos = 0

SaleNext ==
  \/ \E t \in Atenciones :
       \/ \E n \in 1..Vendidas : Deliver(t, n) \/ Dispatch(t, n)
       \/ \E e \in {"EN_TRANSITO", "ENTREGADO"} : ShippingStatus(t, e)
       \/ Incident(t) \/ SubmitShipping(t) \/ ConvertSale(t) \/ Annul(t) \/ CreateDebitNote(t)
       \/ \E i \in DOMAIN incidencias : Resolve(t, i)
       \/ \E again \in BOOLEAN : GenerateLink(t, again)
       \/ \E m \in {"02", "03", "06", "07"} : CreateCreditNote(t, m)
       \/ WriteDelivery(t) \/ WriteShippingStatus(t) \/ WriteIncident(t) \/ WriteResolution(t)
       \/ WriteLink(t) \/ WriteShipping(t) \/ WriteConversion(t) \/ WriteAnnulment(t)
       \/ WriteCreditNote(t) \/ WriteDebitNote(t)
  \/ SaleAccepted \/ VoidAnswered
  \/ \E i \in DOMAIN notas :
       \/ \E e \in {"aceptado", "rechazado", "error_definitivo"} : NoteAnswered(i, e)
       \/ NoteRetried(i)

FulfilNext == SaleNext \/ (DeskNext /\ UNCHANGED saleVars)
FulfilSpec == FulfilInit /\ [][FulfilNext]_fulfilVars

----------------------------------------
(* Properties.                                                             *)

Old(kinds) == viejas \cap kinds # {}

\* What was handed to the client and to the courier is not more than was sold, and a
\* shipment that arrived left nothing behind, unless a delivery, a link or a change
\* of the shipment was written over one it had not seen (sales.service.ts:1634,
\* shipping-links.service.ts:123): only the dispatch to the courier is serializable.
DeliveredWithinSold ==
  Old({"entregar", "enlace", "estadoEnvio", "incidencia", "resolver"}) \/
    /\ entregas.cliente + entregas.courier <= Vendidas
    /\ (vendida.recojo \/ envio.existe) => vendida.entregado = entregas.cliente + entregas.courier
    /\ envio.logistico = "ENTREGADO" => Pendiente = 0
    /\ envio.logistico = "INCIDENCIA" => incidencias # <<>>

\* The notes that give goods back give back no more than was sold, unless two were
\* created at once, a line was named twice in one, or one that had failed was sent
\* again (credit-notes.service.ts:207, 535-552).
CreditedWithinSold ==
  LET back == {i \in DOMAIN notas : Standing(notas[i]) /\ notas[i].motivo \in {"06", "07"}}
  IN Unidades(back) > Vendidas => Old({"notaCredito"}) \/ \E i \in back : notas[i].repetida

\* Nothing leaves the store twice, nor comes back twice.
GoodsWithinSold == DeliveredWithinSold /\ CreditedWithinSold

\* A sale that became a boleta took one number, and is annulled only by its void, unless
\* its conversion overlapped another request on it (sales.service.ts:1040-1165).
BoletaEndsByItsVoid ==
  Old({"convertirVenta", "anular"}) \/
    /\ vendida.numeros <= 1
    /\ (vendida.tipo = "boleta" /\ vendida.estado = "anulada") => vendida.baja = "aceptada"
=============================================================================
