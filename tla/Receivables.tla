----------------------------- MODULE Receivables -----------------------------
(***************************************************************************)
(* The account receivable of one sale on credit and the cash sessions of   *)
(* the user that collects it: AccountsReceivableService,                   *)
(* CashRegisterService, SalesService.annul and what a void does to the     *)
(* account (src/src/modules).                                              *)
(*                                                                         *)
(* registerPayment and annulPayment hold the row of the account from the   *)
(* first statement of their transaction to its end.  Nothing locks a cash  *)
(* session: whoever reads it open writes its movement later, and what a    *)
(* handler read before its transaction may be old by then: viejas keeps    *)
(* which kinds of request have written from something that had changed.    *)
(***************************************************************************)
EXTENDS Integers, Sequences, FiniteSets, FiniteSetsExt

CONSTANTS
  Hilos,       \* requests the backend serves at a time
  Requests,    \* the payments, by the requestId of the client
  Amounts,     \* what a client may pay
  Originals,   \* montoOriginal of every installment, in order of their dates
  MaxSessions, \* bound: cash sessions that are opened
  MaxCalls,    \* bound: requests that are served
  None

Kinds    == {"payment", "annulPayment", "annulSale", "void", "movement", "close"}
Cuotas   == DOMAIN Originals
Sessions == 1..MaxSessions
Otro     == "otro"          \* a cash movement that belongs to no payment

ASSUME ReceivablesAssumption ==
  /\ Originals \in Seq(Nat \ {0}) /\ Originals # <<>> /\ Amounts \subseteq Nat \ {0}
  /\ IsFiniteSet(Requests)
  /\ MaxSessions \in Nat /\ MaxCalls \in Nat
  /\ None \notin Hilos /\ Otro \notin Requests

VARIABLES
  electronica, \* whether the sale is a factura or a boleta
  venta,       \* venta.estado
  baja,        \* the request to void it: none, pendiente, aceptada or rechazada
  cuenta,      \* cuenta_por_cobrar: estado, saldo
  cuotas,      \* cuenta_por_cobrar_cuota: montoPagado, saldo
  pagos,       \* venta_pago of origin cobranza, with its applications
  sesiones,    \* caja_sesion: estado, esperado
  caja,        \* sum of caja_movimiento by session and payment
  viejas,      \* history: kinds of request that wrote from what was no longer so
  candado,     \* who holds the row of the account
  hilo,        \* what every thread is doing
  answered,    \* the payments whose client was told that they were taken
  calls        \* how many requests have been served

accountVars == <<electronica, venta, baja, cuenta, cuotas, pagos, sesiones, caja, viejas, candado, hilo, answered, calls>>
books == <<electronica, venta, baja, cuenta, cuotas, pagos, sesiones, caja, viejas>>

Sum(f, S)  == MapThenSumSet(LAMBDA x : f[x], S)
Lower(a, b) == IF a < b THEN a ELSE b
Total      == Sum(Originals, Cuotas)

NoPago == [estado |-> "none", monto |-> 0, aplicado |-> [i \in Cuotas |-> 0], sesion |-> 0]
Pago   == [estado : {"none", "activo", "anulado"}, monto : Nat, aplicado : [Cuotas -> Nat], sesion : 0..MaxSessions]
IdleCall == [pc |-> "idle", kind |-> "payment", req |-> None, monto |-> 0, sesion |-> 0,
             pago |-> NoPago, cuotas |-> [i \in Cuotas |-> [pagado |-> 0, saldo |-> 0]], viejos |-> {}, marcados |-> {}]

Activos   == {r \in Requests : pagos[r].estado = "activo"}
OpenOnes  == {s \in Sessions : sesiones[s].estado = "abierta"}
Blocked   == cuenta.estado \in {"anulada", "anulacion_pendiente"}

\* The payments that are there, and those whose money an annulled sale gives back.
Existing   == {r \in Requests : pagos[r].estado # "none"}
Returnable == {r \in Activos : pagos[r].sesion \in OpenOnes}

\* A request starts: a bounded number of them.
Starts(t) == hilo[t].pc = "idle" /\ calls < MaxCalls /\ calls' = calls + 1
Goes(t, h) == hilo' = [hilo EXCEPT ![t] = h]
Ends(t)    == Goes(t, IdleCall)

\* Something a request has read is no longer so.
Outdated(h) ==
  \/ h.kind \in {"payment", "movement"} /\ h.sesion \notin OpenOnes
  \/ /\ h.kind = "annulPayment"
     /\ h.pago # pagos[h.req] \/ h.cuotas # cuotas \/ h.pago.sesion \notin OpenOnes
  \/ h.kind \in {"annulSale", "void"} /\ (h.viejos # Returnable \/ h.marcados # Existing)
  \/ h.kind = "close" /\ h.monto # Sum(caja[h.sesion], Requests \cup {Otro})
Notes(t) == viejas' = IF Outdated(hilo[t]) THEN viejas \cup {hilo[t].kind} ELSE viejas

\* The request fails: an exception, a serialization failure, a timeout.
Fails(t) ==
  /\ hilo[t].pc # "idle"
  /\ Ends(t)
  /\ candado' = IF candado = t THEN None ELSE candado
  /\ UNCHANGED <<books, answered, calls>>

----------------------------------------
(* AccountsReceivableService.                                              *)

\* registerPayment looks for the requestId before anything else.
PaymentArrives(t, r, m) ==
  /\ Starts(t)
  /\ IF pagos[r].estado # "none"
       THEN answered' = answered \cup {r} /\ UNCHANGED hilo
       ELSE Goes(t, [IdleCall EXCEPT !.pc = "lock", !.req = r, !.monto = m]) /\ UNCHANGED answered
  /\ UNCHANGED <<books, candado>>

\* It locks the account, checks it and finds the open session.
\* The branch works with cash: without an open session it refuses.
PaymentLocks(t) ==
  /\ hilo[t].pc = "lock" /\ hilo[t].kind = "payment" /\ candado = None
  /\ LET h        == hilo[t]
         refused  == Blocked \/ h.monto > cuenta.saldo
         repeated == ~refused /\ pagos[h.req].estado # "none"
         taken    == ~refused /\ ~repeated
     IN \/ /\ refused \/ (taken /\ OpenOnes = {})
           /\ Ends(t) /\ UNCHANGED <<candado, answered>>
        \/ /\ repeated
           /\ Ends(t) /\ answered' = answered \cup {h.req} /\ UNCHANGED candado
        \/ /\ taken
           /\ \E s \in OpenOnes : Goes(t, [h EXCEPT !.pc = "commit", !.sesion = s])
           /\ candado' = t /\ UNCHANGED answered
  /\ UNCHANGED <<books, calls>>

\* What the amount pays of every installment: the first ones first.
Applications(m) ==
  [i \in Cuotas |->
     LET before == Sum([j \in Cuotas |-> cuotas[j].saldo], {j \in Cuotas : j < i})
     IN IF m <= before THEN 0 ELSE Lower(m - before, cuotas[i].saldo)]

\* The payment, its applications, the balances and the movement are committed,
\* and the answer reaches the client or is lost.
PaymentCommits(t, lost) ==
  /\ hilo[t].pc = "commit" /\ hilo[t].kind = "payment"
  /\ LET h == hilo[t]
         a == Applications(h.monto)
     IN IF Sum(a, Cuotas) # h.monto
          THEN UNCHANGED <<books, answered>>
          ELSE /\ pagos' = [pagos EXCEPT ![h.req] = [estado |-> "activo", monto |-> h.monto,
                                                     aplicado |-> a, sesion |-> h.sesion]]
               /\ cuotas' = [i \in Cuotas |-> [pagado |-> cuotas[i].pagado + a[i], saldo |-> cuotas[i].saldo - a[i]]]
               /\ cuenta' = [saldo |-> cuenta.saldo - h.monto,
                             estado |-> IF cuenta.saldo = h.monto THEN "pagada" ELSE "parcial"]
               /\ caja' = [caja EXCEPT ![h.sesion][h.req] = @ + h.monto]
               /\ answered' = IF lost THEN answered ELSE answered \cup {h.req}
               /\ Notes(t)
               /\ UNCHANGED <<electronica, venta, baja, sesiones>>
  /\ Ends(t) /\ candado' = None
  /\ UNCHANGED calls

\* Mutant: the payment may be annulled already.
AnnulPaymentReadsUnchecked(t, r) ==
  /\ Starts(t)
  /\ pagos[r].sesion \in OpenOnes
  /\ Goes(t, [IdleCall EXCEPT !.pc = "commit", !.kind = "annulPayment", !.req = r,
                              !.pago = pagos[r], !.cuotas = cuotas])
  /\ UNCHANGED <<books, candado, answered>>

\* annulPayment reads the payment, its installments and its session first.
AnnulPaymentReads(t, r) ==
  /\ Starts(t)
  /\ pagos[r].estado = "activo"
  /\ pagos[r].sesion \in OpenOnes
  /\ Goes(t, [IdleCall EXCEPT !.pc = "commit", !.kind = "annulPayment", !.req = r,
                              !.pago = pagos[r], !.cuotas = cuotas])
  /\ UNCHANGED <<books, candado, answered>>

\* Then it locks the account and writes, from what it read, the installments and,
\* from the account as it is, the balance.
AnnulPaymentCommits(t) ==
  /\ hilo[t].pc = "commit" /\ hilo[t].kind = "annulPayment" /\ candado = None
  /\ LET h == hilo[t]
         a == h.pago.aplicado
         paid(i) == IF h.cuotas[i].pagado > a[i] THEN h.cuotas[i].pagado - a[i] ELSE 0
     IN IF cuenta.estado = "anulada"
          THEN UNCHANGED books
          ELSE /\ cuotas' = [i \in Cuotas |->
                               IF a[i] = 0 THEN cuotas[i]
                               ELSE [pagado |-> paid(i), saldo |-> h.cuotas[i].saldo + a[i]]]
               /\ pagos' = [pagos EXCEPT ![h.req].estado = "anulado", ![h.req].aplicado = NoPago.aplicado]
               /\ cuenta' = [saldo |-> cuenta.saldo + h.pago.monto,
                             estado |-> IF Activos \ {h.req} # {} THEN "parcial" ELSE "pendiente"]
               /\ caja' = [caja EXCEPT ![h.pago.sesion][h.req] = @ - h.pago.monto]
               /\ Notes(t)
               /\ UNCHANGED <<electronica, venta, baja, sesiones>>
  /\ Ends(t)
  /\ UNCHANGED <<candado, answered, calls>>

----------------------------------------
(* The end of the sale: SalesService.annul of a nota de venta, and a void  *)
(* of a factura or a boleta (BillingVoidService, SunatBajaService).        *)

\* annul reads the sale and its payments; a closed session stops it.
AnnulSaleReads(t) ==
  /\ Starts(t)
  /\ ~electronica /\ venta # "anulada"
  /\ \A r \in Activos : pagos[r].sesion \in OpenOnes
  /\ Goes(t, [IdleCall EXCEPT !.pc = "mark", !.kind = "annulSale", !.viejos = Activos])
  /\ UNCHANGED <<books, candado, answered>>

\* The tax authority accepts the void, and its transaction reads the sale and the
\* payments; a movement of a closed session is left as it is.
VoidReads(t) ==
  /\ Starts(t)
  /\ baja = "pendiente" /\ venta # "anulada"
  /\ Goes(t, [IdleCall EXCEPT !.pc = "mark", !.kind = "void", !.viejos = Returnable])
  /\ UNCHANGED <<books, candado, answered>>

\* Both then annul the payments that are there, before they reach the account ...
SaleMarksPayments(t) ==
  /\ hilo[t].pc = "mark"
  /\ Goes(t, [hilo[t] EXCEPT !.pc = "commit", !.marcados = Existing])
  /\ UNCHANGED <<books, candado, answered, calls>>

\* ... and, when nobody holds it, close the account and commit: the sale is
\* annulled, the money of the payments read leaves their sessions, nothing is owed.
SaleCommits(t) ==
  /\ hilo[t].pc = "commit" /\ hilo[t].kind \in {"annulSale", "void"} /\ candado = None
  /\ venta' = "anulada"
  /\ baja' = IF hilo[t].kind = "void" THEN "aceptada" ELSE baja
  /\ caja' = [s \in Sessions |-> [r \in Requests \cup {Otro} |->
                IF r \in hilo[t].viejos /\ pagos[r].sesion = s THEN caja[s][r] - pagos[r].monto ELSE caja[s][r]]]
  /\ pagos' = [r \in Requests |-> IF r \in hilo[t].marcados THEN [pagos[r] EXCEPT !.estado = "anulado"] ELSE pagos[r]]
  /\ cuenta' = [estado |-> "anulada", saldo |-> 0]
  /\ cuotas' = [i \in Cuotas |-> [cuotas[i] EXCEPT !.saldo = 0]]
  /\ Ends(t) /\ Notes(t)
  /\ UNCHANGED <<electronica, sesiones, candado, answered, calls>>

\* A void is requested: the account is blocked until the authority answers.
VoidRequested ==
  /\ calls < MaxCalls /\ calls' = calls + 1
  /\ electronica /\ venta # "anulada" /\ baja \in {"none", "rechazada"} /\ candado = None
  /\ baja' = "pendiente"
  /\ cuenta' = [cuenta EXCEPT !.estado = "anulacion_pendiente"]
  /\ UNCHANGED <<electronica, venta, cuotas, pagos, sesiones, caja, viejas, candado, hilo, answered>>

\* The authority rejects it: a blocked account is given back.
VoidRejected ==
  /\ baja = "pendiente" /\ candado = None
  /\ \A t \in Hilos : hilo[t].kind = "void" => hilo[t].pc = "idle"
  /\ baja' = "rechazada"
  /\ cuenta' = IF cuenta.estado # "anulacion_pendiente" THEN cuenta
               ELSE [cuenta EXCEPT !.estado = IF cuenta.saldo = 0 THEN "pagada" ELSE "pendiente"]
  /\ UNCHANGED <<electronica, venta, cuotas, pagos, sesiones, caja, viejas, candado, hilo, answered, calls>>

----------------------------------------
(* CashRegisterService: open, createMovement, close.                       *)

\* A session is opened; the index allows one open session.
OpenSession ==
  /\ OpenOnes = {}
  /\ \E s \in Sessions :
       /\ sesiones[s].estado = "none" /\ \A u \in Sessions : u < s => sesiones[u].estado # "none"
       /\ sesiones' = [sesiones EXCEPT ![s].estado = "abierta"]
  /\ UNCHANGED <<electronica, venta, baja, cuenta, cuotas, pagos, caja, viejas, candado, hilo, answered, calls>>

\* ingreso (m > 0) or retiro (m < 0): the open session is read, then the movement is written.
MovementReads(t, m) ==
  /\ Starts(t)
  /\ \E s \in OpenOnes : Goes(t, [IdleCall EXCEPT !.pc = "commit", !.kind = "movement", !.monto = m, !.sesion = s])
  /\ UNCHANGED <<books, candado, answered>>
MovementCommits(t) ==
  /\ hilo[t].pc = "commit" /\ hilo[t].kind = "movement"
  /\ caja' = [caja EXCEPT ![hilo[t].sesion][Otro] = @ + hilo[t].monto]
  /\ Ends(t) /\ Notes(t)
  /\ UNCHANGED <<electronica, venta, baja, cuenta, cuotas, pagos, sesiones, candado, answered, calls>>

\* close adds the movements up, then writes the session with the sum.
CloseReads(t) ==
  /\ Starts(t)
  /\ \E s \in OpenOnes : Goes(t, [IdleCall EXCEPT !.pc = "commit", !.kind = "close", !.sesion = s,
                                                  !.monto = Sum(caja[s], Requests \cup {Otro})])
  /\ UNCHANGED <<books, candado, answered>>
CloseCommits(t) ==
  /\ hilo[t].pc = "commit" /\ hilo[t].kind = "close"
  /\ sesiones' = [sesiones EXCEPT ![hilo[t].sesion] = [estado |-> "cerrada", esperado |-> hilo[t].monto]]
  /\ Ends(t) /\ Notes(t)
  /\ UNCHANGED <<electronica, venta, baja, cuenta, cuotas, pagos, caja, candado, answered, calls>>

----------------------------------------
\* A sale on credit without an advance has just been made.
AccountInit ==
  /\ electronica \in BOOLEAN
  /\ venta = "completada" /\ baja = "none"
  /\ cuenta = [estado |-> "pendiente", saldo |-> Total]
  /\ cuotas = [i \in Cuotas |-> [pagado |-> 0, saldo |-> Originals[i]]]
  /\ pagos = [r \in Requests |-> NoPago]
  /\ sesiones = [s \in Sessions |-> [estado |-> "none", esperado |-> 0]]
  /\ caja = [s \in Sessions |-> [r \in Requests \cup {Otro} |-> 0]]
  /\ viejas = {} /\ candado = None
  /\ hilo = [t \in Hilos |-> IdleCall]
  /\ answered = {} /\ calls = 0

AccountNext ==
  \/ \E t \in Hilos :
       \/ \E r \in Requests, m \in Amounts : PaymentArrives(t, r, m)
       \/ PaymentLocks(t)
       \/ \E lost \in BOOLEAN : PaymentCommits(t, lost)
       \/ \E r \in Requests : AnnulPaymentReads(t, r)
       \/ AnnulPaymentCommits(t)
       \/ AnnulSaleReads(t) \/ VoidReads(t) \/ SaleMarksPayments(t) \/ SaleCommits(t)
       \/ \E m \in Amounts : MovementReads(t, m) \/ MovementReads(t, -m)
       \/ MovementCommits(t)
       \/ CloseReads(t) \/ CloseCommits(t)
       \/ Fails(t)
  \/ VoidRequested \/ VoidRejected \/ OpenSession

AccountSpec == AccountInit /\ [][AccountNext]_accountVars

----------------------------------------
\* Every variable has its type, and the lock belongs to a request that runs.
AccountTypeOK ==
  /\ electronica \in BOOLEAN /\ venta \in {"completada", "anulada"}
  /\ baja \in {"none", "pendiente", "aceptada", "rechazada"}
  /\ cuenta \in [estado : {"pendiente", "parcial", "pagada", "anulacion_pendiente", "anulada"}, saldo : Nat]
  /\ cuotas \in [Cuotas -> [pagado : Nat, saldo : Nat]]
  /\ pagos \in [Requests -> Pago]
  /\ sesiones \in [Sessions -> [estado : {"none", "abierta", "cerrada"}, esperado : Int]]
  /\ caja \in [Sessions -> [Requests \cup {Otro} -> Int]]
  /\ viejas \subseteq Kinds
  /\ candado \in Hilos \cup {None} /\ (candado # None => hilo[candado].pc = "commit")
  /\ answered \subseteq Requests /\ calls \in 0..MaxCalls
  /\ Cardinality(OpenOnes) <= 1

\* While the account lives, what it owes is the credit less the payments that count,
\* it is what the installments owe, and every installment has received what the
\* payments that count applied to it; it is called paid when nothing is owed
\* (registerPayment, annulPayment and the void that was rejected).  A payment annulled
\* from old rows ends it: nothing else does.
BalanceExplained ==
  cuenta.estado # "anulada" /\ "annulPayment" \notin viejas =>
    /\ cuenta.saldo = Total - Sum([r \in Requests |-> pagos[r].monto], Activos)
    /\ cuenta.saldo = Sum([i \in Cuotas |-> cuotas[i].saldo], Cuotas)
    /\ \A i \in Cuotas :
         /\ cuotas[i].pagado = Sum([r \in Requests |-> pagos[r].aplicado[i]], Activos)
         /\ cuotas[i].pagado + cuotas[i].saldo = Originals[i]
    /\ ~Blocked => (cuenta.estado = "pagada" <=> cuenta.saldo = 0)

\* The till holds the money of a payment exactly while the payment counts: once,
\* however often it was sent or annulled, and back out when it is annulled, unless
\* its session was closed before (registerPayment, annulPayment, annul, the void).  Only
\* what was annulled from old rows ends it, a payment or a sale.
CashMatchesPayments ==
  viejas \cap {"annulPayment", "annulSale", "void"} = {} => \A r \in Requests :
    LET net == Sum([s \in Sessions |-> caja[s][r]], Sessions)
    IN CASE pagos[r].estado = "none"    -> net = 0
         [] pagos[r].estado = "activo"  -> net = pagos[r].monto
         [] pagos[r].estado = "anulado" ->
              net = 0 \/ (net = pagos[r].monto /\ sesiones[pagos[r].sesion].estado = "cerrada")

\* A closed session expects what its movements add up to, for good
\* (close, and everything that writes a movement), until one writes in a session that
\* was closed meanwhile, or a closing an old sum.
ClosedIsFinal ==
  viejas = {} => \A s \in Sessions :
    sesiones[s].estado = "cerrada" => sesiones[s].esperado = Sum(caja[s], Requests \cup {Otro})

\* An annulled sale leaves no payment that counts, no debt of the account or of an
\* installment, and no void that is still waiting (annul and the accepted void); a
\* payment counts only when it came between its reading of the payments and its end.
AnnulledOwesNothing ==
  venta = "anulada" =>
    /\ cuenta = [estado |-> "anulada", saldo |-> 0]
    /\ \A i \in Cuotas : cuotas[i].saldo = 0
    /\ baja # "pendiente" /\ (viejas \cap {"annulSale", "void"} = {} => Activos = {})

\* A client that was told its payment was taken has a payment (registerPayment,
\* which answers a repeated requestId like the first time).
OkMeansPaid == \A r \in answered : pagos[r].estado # "none"

\* The account tells the truth to the client and to the cashier: what is owed is what
\* was sold less what was paid, and nothing of a sale that is annulled.
AccountExplained == BalanceExplained /\ AnnulledOwesNothing /\ OkMeansPaid

\* The till holds what the payments say, and a closing is not undone.
CashExplained == CashMatchesPayments /\ ClosedIsFinal

\* Account and till say the same of every payment.
MoneyExplained == AccountExplained /\ CashExplained

\* "La cuenta no admite nuevos pagos": while a void waits for its answer nobody pays
\* (accounts-receivable.service.ts:296-301).
NoPaymentDuringVoid ==
  [][baja = "pendiente" => \A r \in Requests : pagos'[r].estado = "activo" => pagos[r].estado = "activo"]_accountVars
=============================================================================
