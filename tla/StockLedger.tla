----------------------------- MODULE StockLedger -----------------------------
(***************************************************************************)
(* The stock of a company: StockService and its callers, SalesService,     *)
(* PurchasesService and ProductsService (src/src/modules).                 *)
(*                                                                         *)
(* Every caller runs one PostgreSQL transaction, from its first statement  *)
(* to its commit, and every statement that can wait is a step of its own.  *)
(* The SERIALIZABLE ones see the rows as of their first statement (seen):  *)
(* a row somebody else committed since is "stale" for them and touching it *)
(* rolls them back.  The annulment of a sale is READ COMMITTED and sees    *)
(* the last commit.  Locks are those the statements take: FOR UPDATE, updated or    *)
(* inserted rows (owner), and the KEY SHARE that a foreign key takes on    *)
(* the row of the company (share), which excludes its FOR UPDATE.          *)
(***************************************************************************)
EXTENDS Integers, Sequences, FiniteSets, FiniteSetsExt, SequencesExt

CONSTANTS
  Threads,      \* requests the backend serves at a time
  Branches,     \* ids of sucursales
  Stores,       \* those that sell
  Managed,      \* those whose purchases, counts and manual movements are served
  Variants,     \* ids of productoVariante
  Carts,        \* the lists of variants a request may carry
  Sales,        \* the sales, by the requestId of the client
  InitialUnits, \* the units in every row of inventario_sucursal at first
  Stocked,      \* the pairs that have such a row at first
  Counts,       \* the stocks a product form may set
  MaxRequests,  \* bound: requests that open a transaction
  None, Empresa, Secuencia

Pairs == Branches \X Variants

ASSUME ShopAssumption ==
  /\ Branches \subseteq Nat /\ Variants \subseteq Nat
  /\ Stores \cup Managed \subseteq Branches /\ Stocked \subseteq Pairs
  /\ Carts \subseteq Seq(Variants) /\ \A c \in Carts : c # <<>>
  /\ InitialUnits \in Nat /\ Counts \subseteq Nat /\ MaxRequests \in Nat
  /\ IsFiniteSet(Threads) /\ IsFiniteSet(Branches) /\ None \notin Threads \cup Sales
  /\ Pairs \cap (Sales \cup {Empresa, Secuencia}) = {}
  /\ Sales \cap {Empresa, Secuencia} = {} /\ Empresa # Secuencia

VARIABLES
  rows,     \* inventario_sucursal: the pairs that have a row
  stock,    \* its stockActual, 0 for a pair without a row
  kardex,   \* stock_movimiento of every pair, oldest first
  venta,    \* venta.estado by requestId
  detalle,  \* venta_detalle
  codigo,   \* venta.codigoInterno
  contador, \* venta_codigo_interno_secuencia.numeroActual
  repetidas, \* annulments of a sale beyond the first, by requests that overlapped; not in the program
  owner,    \* who holds a row exclusively
  share,    \* who holds KEY SHARE on the row of the company
  tx,       \* what every thread is doing
  requests  \* how many requests have opened a transaction

vars == <<rows, stock, kardex, venta, detalle, codigo, contador, repetidas, owner, share, tx, requests>>
committed == <<rows, stock, kardex, venta, detalle, codigo, contador, repetidas>>

Rows  == Pairs \cup Sales \cup {Empresa, Secuencia}
Kinds == {"sale", "annul", "transfer", "movement", "purchase", "count"}
Line  == [pair : Pairs, qty : Int, how : {"by", "to"}]
Move  == [anterior : Nat, posterior : Nat, tipo : Kinds, sale : Sales \cup {None}]
PCs   == {"idle", "checked", "company", "code", "header", "venta", "upfront", "lock", "change", "commit"}
Tx    == [pc : PCs, kind : Kinds, sale : Sales \cup {None}, lines : Seq(Line), at : Nat \ {0},
          want : SUBSET Pairs, code : Nat, read : Nat, moves : [Pairs -> Seq(Move)], wrote : SUBSET Pairs,
          seen : SUBSET Pairs, stale : SUBSET Rows]

\* A thread between two requests.
Idle == [pc |-> "idle", kind |-> "sale", sale |-> None, lines |-> <<>>, at |-> 1, want |-> {},
         code |-> 0, read |-> 0, moves |-> [p \in Pairs |-> <<>>], wrote |-> {},
         seen |-> {}, stale |-> {}]

Serializable(t) == tx[t].kind # "annul"
Active(t) == tx[t].pc \notin {"idle", "checked"}
Pair(t)   == tx[t].lines[tx[t].at].pair

\* What a transaction reads in a pair: its own last write, or what is committed.
Current(t, p) == IF tx[t].moves[p] = <<>> THEN stock[p] ELSE Last(tx[t].moves[p]).posterior

\* The rows its statements find, and the stock they read: 0 without a row.
Sees(t, p)  == p \in (IF Serializable(t) THEN tx[t].seen ELSE rows)
Stale(t, r) == Serializable(t) /\ r \in tx[t].stale
StockRead(t, p) == IF Sees(t, p) \/ p \in tx[t].wrote THEN Current(t, p) ELSE 0

\* Mutant: lockInventoryPairs without the sort.
IsFirstUnsorted(p, S) == p \in S

\* The order of lockInventoryPairs: by branch, then by variant.
IsFirst(p, S) == p \in S /\ \A q \in S : p[1] < q[1] \/ (p[1] = q[1] /\ p[2] <= q[2])

\* The stock that the current line leaves, and whether it inserts a row: a
\* movement, or the first row of the pair.
Target(t)  == LET l == tx[t].lines[tx[t].at]
              IN IF l.how = "to" THEN l.qty ELSE tx[t].read + l.qty
Moves(t)   == Target(t) # tx[t].read
Inserts(t) == Target(t) >= 0 /\ (Moves(t) \/ Pair(t) \notin rows)

\* The transactions that the next statement of t has to wait for.  FOR UPDATE
\* passes over a row it does not see, and fails at once on one committed since;
\* the insertion of a row waits for whoever is inserting it.
Blockers(t) ==
  LET holders(S) == {owner[r] : r \in S} \ {t, None}
      locks(S)   == {p \in S : Sees(t, p) /\ ~Stale(t, p)}
  IN CASE tx[t].pc = "company" -> holders({Empresa}) \cup (share \ {t})
       [] tx[t].pc = "code"    -> holders({Secuencia})
       [] tx[t].pc = "header"  -> holders({Empresa})
       [] tx[t].pc = "venta"   -> holders({tx[t].sale})
       [] tx[t].pc = "upfront" -> holders(locks({p \in tx[t].want : IsFirst(p, tx[t].want)}))
       [] tx[t].pc = "lock"    -> holders(locks({Pair(t)}))
       [] tx[t].pc = "change"  -> holders({r \in {Pair(t)} : Target(t) >= 0} \cup {r \in {Empresa} : Inserts(t)})
       [] OTHER                -> {}

\* A set of transactions each of which waits for another of the set.
Deadlocked(D) == D # {} /\ \A t \in D : Blockers(t) \cap D # {}

----------------------------------------
(* Requests: what they check and prepare before their first lock.          *)

Begin(t, kind, first, s, lines, want) ==
  /\ requests < MaxRequests
  /\ requests' = requests + 1
  /\ tx' = [tx EXCEPT ![t] = [Idle EXCEPT !.pc = first, !.kind = kind, !.sale = s,
                                          !.lines = lines, !.want = want, !.seen = rows,
                                          !.stale = tx[t].stale]]
  /\ UNCHANGED <<committed, owner, share>>

LinesOf(b, c, qty, how) == [i \in 1..Len(c) |-> [pair |-> <<b, c[i]>>, qty |-> qty, how |-> how]]
PairsOf(b, c) == {<<b, c[i]>> : i \in 1..Len(c)}

\* cleanItems: no variant twice, in ascending order.
Clean(c) == \A i, j \in 1..Len(c) : i < j => c[i] < c[j]

\* SalesService.create: a requestId that has a sale answers with it; the lines
\* keep the order of the request and may repeat a variant.
SaleArrives(t, s, b, c) ==
  /\ tx[t].pc = "idle"
  /\ venta[s] = "none"
  /\ Begin(t, "sale", "company", s, LinesOf(b, c, -1, "by"), {})

\* StockService.createTransfer: an exit and an entry per item.
TransferArrives(t, from, to, c) ==
  /\ tx[t].pc = "idle"
  /\ from # to /\ Clean(c)
  /\ LET exits == LinesOf(from, c, -1, "by")
         entries == LinesOf(to, c, 1, "by")
     IN Begin(t, "transfer", "upfront", None,
              [i \in 1..2 * Len(c) |-> IF i % 2 = 1 THEN exits[(i + 1) \div 2] ELSE entries[i \div 2]],
              PairsOf(from, c) \cup PairsOf(to, c))

\* StockService.createMovement, an entry (1) or an exit (-1).
MovementArrives(t, b, c, qty) ==
  /\ tx[t].pc = "idle"
  /\ Clean(c)
  /\ Begin(t, "movement", "upfront", None, LinesOf(b, c, qty, "by"), PairsOf(b, c))

\* PurchasesService.createOrder inserts the order before it touches the stock.
PurchaseArrives(t, b, c) ==
  /\ tx[t].pc = "idle"
  /\ Clean(c)
  /\ Begin(t, "purchase", "header", None, LinesOf(b, c, 1, "by"), {})

\* ProductsService.update sets the stock of variants in the order of the form.
CountArrives(t, b, c, target) ==
  /\ tx[t].pc = "idle"
  /\ Begin(t, "count", "lock", None, LinesOf(b, c, target, "to"), {})

\* Mutant: an annulled sale is annulled again.
AnnulReadsUnchecked(t, s) ==
  /\ tx[t].pc = "idle"
  /\ venta[s] # "none"
  /\ tx' = [tx EXCEPT ![t] = [Idle EXCEPT !.pc = "checked", !.kind = "annul", !.sale = s]]
  /\ UNCHANGED <<committed, owner, share, requests>>

\* SalesService.annul reads the sale before its transaction ...
AnnulReads(t, s) ==
  /\ tx[t].pc = "idle"
  /\ venta[s] = "completada"
  /\ tx' = [tx EXCEPT ![t] = [Idle EXCEPT !.pc = "checked", !.kind = "annul", !.sale = s]]
  /\ UNCHANGED <<committed, owner, share, requests>>

\* ... which reverts the cash movements, if there are any, before all else.
AnnulBegins(t, cash) ==
  /\ tx[t].pc = "checked"
  /\ LET s == tx[t].sale
         d == detalle[s]
     IN Begin(t, "annul", IF cash THEN "header" ELSE "venta", s,
              [i \in 1..Len(d) |-> [d[i] EXCEPT !.qty = -d[i].qty]], {})

----------------------------------------
(* The statements of a transaction.                                        *)

Goto(t, pc) == tx' = [tx EXCEPT ![t].pc = pc]
Grab(t, r)  == owner' = [owner EXCEPT ![r] = t]

\* The transaction ends: its locks go, and with a rollback its writes do.
Release(t) ==
  /\ owner' = [r \in Rows |-> IF owner[r] = t THEN None ELSE owner[r]]
  /\ share' = share \ {t}
  /\ UNCHANGED requests
Abort(t) ==
  /\ tx' = [tx EXCEPT ![t] = Idle]
  /\ Release(t)
  /\ UNCHANGED committed

\* assessDocumentAllowance: FOR UPDATE on the company, the first statement.
LockCompany(t) ==
  /\ tx[t].pc = "company" /\ Blockers(t) = {}
  /\ Grab(t, Empresa) /\ Goto(t, "code")
  /\ UNCHANGED <<committed, share, requests>>

\* generateInternalSaleCode and the insertion of the sale; (empresa, requestId)
\* is unique.
NextCode(t) ==
  /\ tx[t].pc = "code" /\ Blockers(t) = {}
  /\ IF Stale(t, Secuencia) \/ venta[tx[t].sale] # "none"
       THEN Abort(t)
       ELSE /\ Grab(t, Secuencia)
            /\ tx' = [tx EXCEPT ![t].pc = "lock", ![t].code = contador + 1]
            /\ UNCHANGED <<committed, share, requests>>

\* A row that refers to the company is inserted: the order of a purchase, a
\* transfer, the reverted cash movements of an annulment.
InsertHeader(t) ==
  /\ tx[t].pc = "header" /\ Blockers(t) = {}
  /\ share' = share \cup {t}
  /\ Goto(t, IF tx[t].kind = "annul" THEN "venta" ELSE "lock")
  /\ UNCHANGED <<committed, owner, requests>>

\* The annulment updates the sale it has read, whatever its state is by now.
UpdateSale(t) ==
  /\ tx[t].pc = "venta" /\ Blockers(t) = {}
  /\ Grab(t, tx[t].sale) /\ Goto(t, "lock")
  /\ UNCHANGED <<committed, share, requests>>

\* One SELECT ... FOR UPDATE of lockInventoryPairs; a row it does not see is not
\* locked.
LockUpFront(t, p) ==
  /\ tx[t].pc = "upfront" /\ IsFirst(p, tx[t].want) /\ Blockers(t) = {}
  /\ IF Sees(t, p) /\ Stale(t, p)
       THEN Abort(t)
       ELSE /\ owner' = IF Sees(t, p) THEN [owner EXCEPT ![p] = t] ELSE owner
            /\ tx' = [tx EXCEPT ![t].want = @ \ {p},
                                ![t].pc = IF tx[t].want # {p} THEN "upfront"
                                          ELSE IF tx[t].kind = "transfer" THEN "header" ELSE "lock"]
            /\ UNCHANGED <<committed, share, requests>>

\* Mutant: the stock is read without FOR UPDATE.
LockLineUnlocked(t) ==
  /\ tx[t].pc = "lock"
  /\ tx' = [tx EXCEPT ![t].pc = "change", ![t].read = StockRead(t, Pair(t))]
  /\ UNCHANGED <<committed, owner, share, requests>>

\* changeStock and setStock lock the pair of the line, read its stock ...
LockLine(t) ==
  /\ tx[t].pc = "lock" /\ Blockers(t) = {}
  /\ IF Sees(t, Pair(t)) /\ Stale(t, Pair(t))
       THEN Abort(t)
       ELSE /\ owner' = IF Sees(t, Pair(t)) THEN [owner EXCEPT ![Pair(t)] = t] ELSE owner
            /\ tx' = [tx EXCEPT ![t].pc = "change", ![t].read = StockRead(t, Pair(t))]
            /\ UNCHANGED <<committed, share, requests>>

\* ... refuse a negative one, write the new one and add the movement.  setStock
\* writes no movement when the stock is already the target.
WriteLine(t) ==
  LET p    == Pair(t)
      move == [anterior |-> tx[t].read, posterior |-> Target(t),
               tipo |-> tx[t].kind, sale |-> tx[t].sale]
  IN /\ Grab(t, p)
     /\ share' = IF Inserts(t) THEN share \cup {t} ELSE share
     /\ tx' = [tx EXCEPT ![t].pc = IF tx[t].at = Len(tx[t].lines) THEN "commit" ELSE "lock",
                         ![t].at = @ + 1, ![t].read = 0,
                         ![t].wrote = @ \cup {p},
                         ![t].moves[p] = IF Moves(t) THEN Append(@, move) ELSE @]
     /\ UNCHANGED <<committed, requests>>

ChangeLine(t) ==
  /\ tx[t].pc = "change" /\ Blockers(t) = {}
  /\ IF Target(t) < 0 \/ Stale(t, Pair(t)) THEN Abort(t) ELSE WriteLine(t)

\* What u has read of the rows that t commits: of a transaction that is not serializable only an
\* annulment whose sale is annulled meanwhile is told apart, and it never looks.
Outdated(t, u) ==
  IF Active(u) /\ Serializable(u)
  THEN tx[t].wrote \cup (IF tx[t].kind = "sale" THEN {Secuencia} ELSE {})
  ELSE IF tx[t].kind = "annul" /\ tx[u].kind = "annul" THEN {tx[t].sale} ELSE {}

Commit(t) ==
  /\ tx[t].pc = "commit"
  /\ rows' = rows \cup tx[t].wrote
  /\ stock' = [p \in Pairs |-> Current(t, p)]
  /\ kardex' = [p \in Pairs |-> kardex[p] \o tx[t].moves[p]]
  /\ LET s == tx[t].sale
     IN CASE tx[t].kind = "sale" ->
               /\ venta' = [venta EXCEPT ![s] = "completada"]
               /\ detalle' = [detalle EXCEPT ![s] = tx[t].lines]
               /\ codigo' = [codigo EXCEPT ![s] = tx[t].code]
               /\ contador' = tx[t].code
          [] tx[t].kind = "annul" ->
               /\ venta' = [venta EXCEPT ![s] = "anulada"]
               /\ UNCHANGED <<detalle, codigo, contador>>
          [] OTHER -> UNCHANGED <<venta, detalle, codigo, contador>>
  /\ repetidas' = IF tx[t].kind = "annul" /\ tx[t].sale \in tx[t].stale
                    THEN [repetidas EXCEPT ![tx[t].sale] = @ + 1] ELSE repetidas
  /\ tx' = [u \in Threads |->
              IF u = t THEN Idle ELSE [tx[u] EXCEPT !.stale = @ \cup Outdated(t, u)]]
  /\ Release(t)

\* The database rolls back a transaction of a deadlock; Prisma rolls one back
\* after five seconds, and a lost connection or a serialization failure does.
Victim(t)   == Active(t) /\ (\E D \in SUBSET Threads : t \in D /\ Deadlocked(D)) /\ Abort(t)
Rollback(t) == Active(t) /\ Abort(t)

Advance(t) ==
  \/ LockCompany(t) \/ NextCode(t) \/ InsertHeader(t) \/ UpdateSale(t)
  \/ (\E p \in Pairs : LockUpFront(t, p))
  \/ LockLine(t) \/ ChangeLine(t) \/ Commit(t)

Arrive(t) ==
  \/ \E s \in Sales, b \in Stores, c \in Carts : SaleArrives(t, s, b, c)
  \/ \E a, b \in Branches, c \in Carts : TransferArrives(t, a, b, c)
  \/ \E b \in Managed, c \in Carts, qty \in {-1, 1} : MovementArrives(t, b, c, qty)
  \/ \E b \in Managed, c \in Carts : PurchaseArrives(t, b, c)
  \/ \E b \in Managed, c \in Carts, n \in Counts : CountArrives(t, b, c, n)
  \/ \E s \in Sales : AnnulReads(t, s)
  \/ \E cash \in BOOLEAN : AnnulBegins(t, cash)

Init ==
  /\ rows = Stocked
  /\ stock = [p \in Pairs |-> IF p \in Stocked THEN InitialUnits ELSE 0]
  /\ kardex = [p \in Pairs |-> <<>>]
  /\ venta = [s \in Sales |-> "none"]
  /\ detalle = [s \in Sales |-> <<>>]
  /\ codigo = [s \in Sales |-> 0]
  /\ contador = 0 /\ repetidas = [s \in Sales |-> 0]
  /\ owner = [r \in Rows |-> None]
  /\ share = {}
  /\ tx = [t \in Threads |-> Idle]
  /\ requests = 0

Next == \E t \in Threads : Arrive(t) \/ Advance(t) \/ Victim(t) \/ Rollback(t)

Spec == Init /\ [][Next]_vars

----------------------------------------
(* Properties.                                                             *)

\* The types of the variables.
TypeOK ==
  /\ rows \subseteq Pairs
  /\ stock \in [Pairs -> Nat]
  /\ kardex \in [Pairs -> Seq(Move)]
  /\ venta \in [Sales -> {"none", "completada", "anulada"}]
  /\ detalle \in [Sales -> Seq(Line)]
  /\ codigo \in [Sales -> Nat] /\ contador \in Nat /\ repetidas \in [Sales -> Nat]
  /\ owner \in [Rows -> Threads \cup {None}]
  /\ share \subseteq Threads
  /\ tx \in [Threads -> Tx]
  /\ requests \in Nat

\* Movements that follow one from the other, from stock a to stock b.
Chained(m, a, b) ==
  IF m = <<>> THEN a = b
  ELSE /\ m[1].anterior = a /\ m[Len(m)].posterior = b
       /\ \A i \in 1..Len(m) - 1 : m[i].posterior = m[i + 1].anterior

\* The kardex of a pair explains its stock: every movement starts at the stock
\* that the one before left, the first at the initial stock, and the last left
\* the current stock, however the transactions interleave, roll back or create
\* the row (changeStock reads, computes and writes an absolute value).
KardexExplainsStock ==
  \A p \in Pairs : Chained(kardex[p], IF p \in Stocked THEN InitialUnits ELSE 0, stock[p])

Units(p, P(_)) == FoldLeft(LAMBDA n, m : IF P(m) THEN n + m.posterior - m.anterior ELSE n, 0, kardex[p])
Sold(s, p) == Cardinality({i \in DOMAIN detalle[s] : detalle[s][i].pair = p})

\* A sale that stands has taken its units from the stock once, although the
\* client may have sent it several times; an annulled one has given all back
\* once, and once more for every annulment that had read it before another
\* committed, and no other; one rolled back has left no trace.
SaleIsBacked ==
  \A s \in Sales, p \in Pairs :
    Units(p, LAMBDA m : m.sale = s) =
      IF venta[s] = "completada" THEN -Sold(s, p) ELSE repetidas[s] * Sold(s, p)

\* A transfer loses and creates no unit: between the branches, what the exits
\* took the entries gave.
TransfersConserve ==
  \A v \in Variants :
    MapThenSumSet(LAMBDA b : Units(<<b, v>>, LAMBDA m : m.tipo = "transfer"), Branches) = 0

\* The internal codes of the sales are consecutive: none is repeated or lost,
\* whatever was rolled back (generateInternalSaleCode).
CodesConsecutive ==
  LET sold == {s \in Sales : venta[s] # "none"}
  IN /\ {codigo[s] : s \in sold} = 1..contador
     /\ Cardinality(sold) = contador

\* The three at once, whatever was rolled back, repeated or annulled at the same
\* time: the goods and the codes of every commercial operation are accounted for.
TradesBalance == SaleIsBacked /\ TransfersConserve /\ CodesConsecutive

\* Requests that lock in the order of lockInventoryPairs, or bring their lines
\* in that order as a purchase does, never wait for each other in a circle: a
\* deadlock takes a request that locks in the order of its lines (a sale, an
\* annulment or a product form), or one that inserts a row it did not see and
\* so could not lock up front.
SortedLockersNeverDeadlock ==
  \A D \in SUBSET Threads :
    Deadlocked(D) =>
      \E t \in D : \/ tx[t].kind \in {"sale", "annul", "count"}
                   \/ tx[t].pc = "change" /\ ~Sees(t, Pair(t))

=============================================================================
