------------------------------ MODULE SalesDesk ------------------------------
(***************************************************************************)
(* The counter of a company: the series its receipts are numbered with,    *)
(* its quotations and the sales it makes, with or without a quotation:     *)
(* SalesService.createSerie, updateSerie and create, QuotationsService     *)
(* (src/src/modules).                                                      *)
(*                                                                         *)
(* A handler reads what it checks, and writes later in a transaction that  *)
(* checks little of it again.  A request whose object another one wrote    *)
(* in between is old, and its kind is remembered when it writes.           *)
(***************************************************************************)
EXTENDS Integers, Sequences, FiniteSets, FiniteSetsExt, SequencesExt

CONSTANTS
  Atenciones,  \* requests the backend serves at a time
  Requests,    \* requestIds of the clients
  Series,      \* the series of the one type of receipt modelled
  Locales,     \* sucursales
  Dias,        \* bound: the kinds of request that arrive together and how many, whether
               \* the sales go through Billing (a provisional number), are picked up later
  MaxVentas,   \* bound: sales that are made
  MaxCots,     \* bound: quotations that are made
  Ninguno      \* null value

QuoteKinds == {"editarCotizacion", "anularCotizacion", "convertirCotizacion"}

ASSUME DeskAssumption ==
  /\ {MaxVentas, MaxCots} \subseteq Nat
  /\ \A d \in Dias : d.calls \in Nat /\ {d.billing, d.recojo} \subseteq BOOLEAN
  /\ Ninguno \notin Atenciones \cup Requests \cup Series \cup Locales \cup Int

VARIABLES
  dia,         \* the one of Dias that is seen
  serie,       \* serie_comprobante, with its branches
  cotizacion,  \* the quotations, in order of their number
  ventas,      \* the sales, in order of their internal code
  caja,        \* branches whose cash session of the user is open
  hilo,        \* what every thread is doing
  viejas,      \* history: kinds that wrote over an object changed since they read it
  cortadas,    \* history: quotations whose conversion ended between its sale and theirs
  calls        \* how many requests have been served

deskRows == <<serie, cotizacion, ventas, caja, cortadas>>
threads  == <<hilo, viejas, calls>>
deskVars == <<dia, deskRows, threads>>

\* The object of a request: a quotation is its number, the others are tables.
Lista    == 0    \* the quotations
Catalogo == -1   \* the series
Ocioso  == [pc |-> "idle", kind |-> "venta", obj |-> Ninguno, req |-> Ninguno,
          dato |-> Ninguno, vieja |-> FALSE]

SerieRows ==
  [existe : BOOLEAN, activo : BOOLEAN, principal : BOOLEAN, todas : BOOLEAN, billing : BOOLEAN,
   sucursales : SUBSET Locales, numero : Nat, provisional : Nat]
CotizacionRows ==
  [req : Requests \cup {Ninguno}, venta : Nat, pasada : BOOLEAN,
   estado : {"borrador", "aceptada", "rechazada", "vencida", "convertida", "anulada"}]
DeskTypeOK ==
  /\ serie \in [Series -> SerieRows]
  /\ cotizacion \in Seq(CotizacionRows)
  /\ caja \subseteq Locales /\ calls \in Nat

Cots == DOMAIN cotizacion
SaleOf(r) == {i \in DOMAIN ventas : r # Ninguno /\ ventas[i].req = r}

----------------------------------------
(* Requests.                                                               *)

Arrives(t, kind) ==
  /\ hilo[t].pc = "idle" /\ kind \in dia.kinds /\ calls < dia.calls
  /\ calls' = calls + 1

\* The request read obj and goes on to pc with what it needs later.
Reads(t, kind, pc, obj, req, dato) ==
  /\ hilo' = [hilo EXCEPT ![t] = [pc |-> pc, kind |-> kind, obj |-> obj, req |-> req,
                                  dato |-> dato, vieja |-> FALSE]]
  /\ UNCHANGED viejas

\* The request writes obj, and ends or goes on: whoever read obj before is old.
AsStale(t, obj) ==
  [u \in Atenciones |-> IF u # t /\ obj # Ninguno /\ hilo[u].obj = obj
                       THEN [hilo[u] EXCEPT !.vieja = TRUE] ELSE hilo[u]]
Writes(t, obj, next) ==
  /\ hilo' = [AsStale(t, obj) EXCEPT ![t] = next]
  /\ viejas' = IF hilo[t].vieja THEN viejas \cup {hilo[t].kind} ELSE viejas
  /\ UNCHANGED calls

\* It is refused, or fails: nothing is written.
Refused(t) ==
  /\ hilo' = [hilo EXCEPT ![t] = Ocioso]
  /\ UNCHANGED <<viejas, calls>>

\* A request dies between two statements, or its transaction fails.
Dies(t) ==
  /\ hilo[t].pc # "idle"
  /\ Refused(t)
  /\ cortadas' = IF hilo[t].pc = "enlazar" THEN cortadas \cup {hilo[t].obj} ELSE cortadas
  /\ UNCHANGED <<dia, serie, cotizacion, ventas, caja>>

----------------------------------------
(* Series.                                                                 *)

Activas(S) == {s \in S : serie[s].activo}

\* ensureSerieScopeAvailable: whether a series of these branches may be active.
ScopeGloballyFree(s, todas, sucursales) ==          \* mutant: only the global ones
  \A o \in Activas(Series \ {s}) : ~(serie[o].todas /\ todas)
ScopeAvailable(s, todas, sucursales) ==
  LET otras == Activas(Series \ {s})
  IN IF todas THEN otras = {}
     ELSE \A o \in otras : ~serie[o].todas /\ serie[o].sucursales \cap sucursales = {}

Scopes == {[todas |-> TRUE, sucursales |-> {}]}
            \cup {[todas |-> FALSE, sucursales |-> S] : S \in (SUBSET Locales) \ {{}}}

CreateSerie(t, s, scope, principal) ==
  /\ Arrives(t, "crearSerie")
  /\ ScopeAvailable(Ninguno, scope.todas, scope.sucursales)
  /\ Reads(t, "crearSerie", "escribir", Catalogo, Ninguno,
           [serie |-> s, activo |-> TRUE, principal |-> principal,
            todas |-> scope.todas, sucursales |-> scope.sucursales])
  /\ UNCHANGED <<dia, deskRows>>

\* What the request leaves out stays as it was read; an inactive one is not checked.
UpdateSerie(t, s, scope, principal, activo) ==
  /\ Arrives(t, "cambiarSerie")
  /\ serie[s].existe
  /\ activo => ScopeAvailable(s, scope.todas, scope.sucursales)
  /\ Reads(t, "cambiarSerie", "escribir", Catalogo, Ninguno,
           [serie |-> s, activo |-> activo, principal |-> principal,
            todas |-> scope.todas, sucursales |-> scope.sucursales])
  /\ UNCHANGED <<dia, deskRows>>

\* One transaction: a principal series takes the place of the one before.
\* principal is null when the update does not say; a code used twice fails.
\* Then the series are synchronized with Billing, which may fail and changes nothing else.
Synced(rows, ok) == [s \in Series |-> [rows[s] EXCEPT !.billing = @ \/ (ok /\ rows[s].existe)]]
SavedSerie(d, ok) ==
  LET others == [o \in Series |->
                   IF d.principal = TRUE THEN [serie[o] EXCEPT !.principal = FALSE] ELSE serie[o]]
  IN Synced([others EXCEPT ![d.serie] =
               [others[d.serie] EXCEPT !.existe = TRUE, !.activo = d.activo,
                  !.principal = IF d.principal = Ninguno THEN @ ELSE d.principal,
                  !.todas = d.todas, !.sucursales = d.sucursales]], ok)
SavesSerie(t) ==
  /\ \E ok \in BOOLEAN : serie' = SavedSerie(hilo[t].dato, ok)
  /\ Writes(t, Catalogo, Ocioso)
  /\ UNCHANGED <<dia, cotizacion, ventas, caja, cortadas>>
WriteNewSerie(t) ==
  /\ hilo[t].kind = "crearSerie" /\ hilo[t].pc = "escribir"
  /\ IF serie[hilo[t].dato.serie].existe
       THEN Refused(t) /\ UNCHANGED <<dia, deskRows>>
       ELSE SavesSerie(t)
WriteSerie(t) ==
  /\ hilo[t].kind = "cambiarSerie" /\ hilo[t].pc = "escribir"
  /\ SavesSerie(t)

----------------------------------------
(* Sales.                                                                  *)

\* resolveSerie: a series of the branch before a global one, a principal one first.
Candidates(b) ==
  LET own     == {s \in Activas(Series) : ~serie[s].todas /\ b \in serie[s].sucursales}
      globals == {s \in Activas(Series) : serie[s].todas}
      of      == IF own # {} THEN own ELSE globals
      first   == {s \in of : serie[s].principal}
  IN IF first # {} THEN first ELSE of

\* create, for a sale of its own or for a quotation: a request seen before is
\* answered; else the cash session and the series are read, and with Billing
\* the series must be known to it.
SaleChecks(t, kind, obj, r) ==
  \E b \in Locales \cap caja : \E s \in Candidates(b) :
    /\ dia.billing => serie[s].billing
    /\ Reads(t, kind, "vender", obj, r, [serie |-> s, sucursal |-> b])

Sell(t, r) ==
  /\ Arrives(t, "venta")
  /\ IF SaleOf(r) # {} THEN UNCHANGED <<hilo, viejas>> ELSE SaleChecks(t, "venta", Ninguno, r)
  /\ UNCHANGED <<dia, deskRows>>

\* The transaction: the cash session again, the codes, the number, the sale.
\* A sale of the same request committed meanwhile is what it answers.
Numbered(s) ==
  IF dia.billing THEN [serie EXCEPT ![s].provisional = @ + 1]
             ELSE [serie EXCEPT ![s].numero = @ + 1]
NumberOf(s) == IF dia.billing THEN -(serie[s].provisional + 1) ELSE serie[s].numero + 1
AfterSale(t, v) ==
  IF hilo[t].kind = "convertirCotizacion"
    THEN [hilo[t] EXCEPT !.pc = "enlazar", !.dato = [venta |-> v]] ELSE Ocioso
NoCaja(h) == h.dato.sucursal \notin caja
SaleRow(h) == [req |-> h.req, serie |-> h.dato.serie, numero |-> NumberOf(h.dato.serie),
               cot |-> IF h.kind = "venta" THEN 0 ELSE h.obj]
CommitSale(t) ==
  /\ hilo[t].pc = "vender"
  /\ Len(ventas) < MaxVentas
  /\ LET h == hilo[t]
     IN CASE NoCaja(h) -> Refused(t) /\ UNCHANGED <<serie, ventas>>
          [] ~NoCaja(h) /\ SaleOf(h.req) # {} ->
               \E v \in SaleOf(h.req) :
                 /\ hilo' = [hilo EXCEPT ![t] = AfterSale(t, v)]
                 /\ UNCHANGED <<serie, ventas, viejas, calls>>
          [] OTHER ->
               /\ serie' = Numbered(h.dato.serie)
               /\ ventas' = Append(ventas, SaleRow(h))
               /\ Writes(t, h.obj, AfterSale(t, Len(ventas) + 1))
  /\ UNCHANGED <<dia, cotizacion, caja, cortadas>>

\* The cashier opens or closes the session of a branch.
TurnCaja(t, b) ==
  /\ Arrives(t, "caja")
  /\ caja' = IF b \in caja THEN caja \ {b} ELSE caja \cup {b}
  /\ UNCHANGED <<dia, serie, cotizacion, ventas, cortadas, hilo, viejas>>

----------------------------------------
(* Quotations.                                                             *)

Editable == {"aceptada", "rechazada"}     \* of the states update may write

\* The number is the last one and one more; a second one with it fails.
Quote(t, r) ==
  /\ Arrives(t, "cotizar")
  /\ IF \E c \in Cots : r # Ninguno /\ cotizacion[c].req = r
       THEN UNCHANGED <<hilo, viejas>>
       ELSE Reads(t, "cotizar", "numerar", Lista, r, [ultimo |-> Len(cotizacion)])
  /\ UNCHANGED <<dia, deskRows>>

CommitQuote(t) ==
  /\ hilo[t].pc = "numerar"
  /\ Len(cotizacion) < MaxCots
  /\ IF hilo[t].dato.ultimo # Len(cotizacion)
       THEN Refused(t) /\ UNCHANGED cotizacion
       ELSE /\ cotizacion' = Append(cotizacion, [req |-> hilo[t].req, estado |-> "borrador",
                                                 venta |-> 0, pasada |-> FALSE])
            /\ Writes(t, Lista, Ocioso)
  /\ UNCHANGED <<dia, serie, ventas, caja, cortadas>>

\* validaHasta goes by.
Lapses(c) ==
  /\ ~cotizacion[c].pasada
  /\ cotizacion' = [cotizacion EXCEPT ![c].pasada = TRUE]
  /\ UNCHANGED <<dia, serie, ventas, caja, cortadas, threads>>

\* update and annul read the state, and write it without looking again.
EditQuote(t, c, estado) ==
  /\ Arrives(t, "editarCotizacion")
  /\ cotizacion[c].estado \notin {"convertida", "anulada"}
  /\ Reads(t, "editarCotizacion", "escribir", c, Ninguno, [estado |-> estado])
  /\ UNCHANGED <<dia, deskRows>>
AnnulQuote(t, c) ==
  /\ Arrives(t, "anularCotizacion")
  /\ cotizacion[c].estado \notin {"convertida", "anulada"}
  /\ Reads(t, "anularCotizacion", "escribir", c, Ninguno, [estado |-> "anulada"])
  /\ UNCHANGED <<dia, deskRows>>

\* convertToSale: a converted one answers with the sale of the request; a
\* lapsed one is written as such; else the sale is made, then the quotation.
ConvertQuoteIf(t, c, r, converted) ==
  /\ Arrives(t, "convertirCotizacion")
  /\ cotizacion[c].estado \notin converted \cup {"anulada", "rechazada"}
  /\ IF cotizacion[c].pasada
       THEN Reads(t, "convertirCotizacion", "escribir", c, r, [estado |-> "vencida"])
       ELSE IF SaleOf(r) # {}
         THEN \E v \in SaleOf(r) : Reads(t, "convertirCotizacion", "enlazar", c, r, [venta |-> v])
         ELSE SaleChecks(t, "convertirCotizacion", c, r)
  /\ UNCHANGED <<dia, deskRows>>
ConvertQuoteAgain(t, c, r) == ConvertQuoteIf(t, c, r, {})    \* mutant: converts a converted one
ConvertQuote(t, c, r) == ConvertQuoteIf(t, c, r, {"convertida"})

WriteQuote(t) ==
  /\ hilo[t].pc = "escribir" /\ hilo[t].kind \in QuoteKinds
  /\ \E p \in {cotizacion[hilo[t].obj].pasada} \cup (IF hilo[t].kind = "editarCotizacion" THEN {FALSE} ELSE {}) :
       cotizacion' = [cotizacion EXCEPT ![hilo[t].obj].estado = hilo[t].dato.estado, ![hilo[t].obj].pasada = p]
  /\ Writes(t, hilo[t].obj, Ocioso)
  /\ UNCHANGED <<dia, serie, ventas, caja, cortadas>>

\* A sale belongs to one quotation at most (convertida_venta_id is unique).
LinkQuote(t) ==
  /\ hilo[t].pc = "enlazar"
  /\ LET c == hilo[t].obj v == hilo[t].dato.venta
     IN IF \E d \in Cots \ {c} : cotizacion[d].venta = v
          THEN Refused(t) /\ cortadas' = cortadas \cup {c} /\ UNCHANGED cotizacion
          ELSE /\ cotizacion' = [cotizacion EXCEPT ![c].estado = "convertida", ![c].venta = v]
               /\ Writes(t, c, Ocioso) /\ UNCHANGED cortadas
  /\ UNCHANGED <<dia, serie, ventas, caja>>

----------------------------------------
NoSerie == [existe |-> FALSE, activo |-> FALSE, principal |-> FALSE, todas |-> FALSE,
            sucursales |-> {}, numero |-> 0, provisional |-> 0, billing |-> FALSE]

DeskInit ==
  /\ dia \in Dias
  /\ serie = [s \in Series |-> IF s = CHOOSE x \in Series : TRUE
                 THEN [NoSerie EXCEPT !.existe = TRUE, !.activo = TRUE, !.principal = TRUE, !.todas = TRUE, !.billing = TRUE]
                 ELSE NoSerie]
  /\ cotizacion = <<>> /\ ventas = <<>>
  /\ caja = Locales
  /\ hilo = [t \in Atenciones |-> Ocioso]
  /\ viejas = {} /\ cortadas = {} /\ calls = 0

DeskNext ==
  \/ \E t \in Atenciones :
       \/ \E s \in Series, scope \in Scopes :
            \/ \E p \in BOOLEAN : CreateSerie(t, s, scope, p)
            \/ \E p \in BOOLEAN \cup {Ninguno}, a \in BOOLEAN : UpdateSerie(t, s, scope, p, a)
       \/ \E r \in Requests \cup {Ninguno} : Sell(t, r) \/ Quote(t, r)
       \/ \E b \in Locales : TurnCaja(t, b)
       \/ \E c \in Cots :
            \/ \E e \in Editable : EditQuote(t, c, e)
            \/ AnnulQuote(t, c)
            \/ \E r \in Requests \cup {Ninguno} : ConvertQuote(t, c, r)
       \/ WriteNewSerie(t) \/ WriteSerie(t) \/ CommitSale(t) \/ CommitQuote(t) \/ WriteQuote(t) \/ LinkQuote(t)
       \/ Dies(t)
  \/ \E c \in Cots : Lapses(c)

----------------------------------------
(* Properties.                                                             *)

\* A branch has at most one active series to number its receipts with, unless two
\* changes of the series overlapped: ensureSerieScopeAvailable is outside the
\* transaction that writes (sales.service.ts:300, 375).
OneActiveSerie ==
  viejas \cap {"crearSerie", "cambiarSerie"} = {} =>
    \A b \in Locales :
      Cardinality({s \in Activas(Series) : serie[s].todas \/ b \in serie[s].sucursales}) <= 1

\* A quotation gives one sale at most, and is converted once it has one: what breaks
\* it is a conversion that overlaps another request on the same quotation, or one
\* that ended between its sale and the quotation (quotations.service.ts:427-468).
OneSalePerQuotation ==
  \A c \in Cots :
    LET made == {i \in DOMAIN ventas : ventas[i].cot = c}
        busy == \E t \in Atenciones : hilo[t].obj = c /\ hilo[t].pc = "enlazar"
    IN (c \notin cortadas /\ ~busy /\ viejas \cap QuoteKinds = {}) =>
         /\ Cardinality(made) <= 1
         /\ made # {} => cotizacion[c].estado = "convertida"
=============================================================================
